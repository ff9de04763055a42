------------------------- MODULE WorkflowRuns_proofs -------------------------
(***************************************************************************)
(* What holds of workflow runs for every number of runs, processes, kick   *)
(* tasks and gates, and for every on_timeout policy.                       *)
(***************************************************************************)
EXTENDS WorkflowRuns, TLAPS

-----------------------------------------------------------------------------
(* The statements of persistence.py take rows to rows *)

LEMMA GateFacts == /\ Gates \subseteq GateOrNone /\ 0 \in GateOrNone
                   /\ GateOrNone \subseteq Nat
                   /\ \A g \in Gates : g # 0
                   /\ \A g \in GateOrNone : g # 0 => g \in Gates
BY DefinitionAssumption DEF Gates, GateOrNone

\* A checkpoint of a gate of the definition is a row.
LEMMA ParkedRow ==
  ASSUME NEW row \in Row, NEW gate \in Gates, NEW payload \in GateOrNone,
         NEW policy \in AllPolicies
  PROVE  Parked(row, gate, payload, policy) \in Row
BY GateFacts DEF Parked, Row, AnswerOrNone, Statuses

\* An answered row is a row.
LEMMA ResolvedRow ==
  ASSUME NEW row \in Row, NEW answer \in Answers
  PROVE  Resolved(row, answer) \in Row
BY DEF Resolved, Row, AnswerOrNone, Statuses

\* A claimed row is a row.
LEMMA ClaimedRow ==
  ASSUME NEW row \in Row, NEW token \in Tokens
  PROVE  Claimed(row, token) \in Row
<1>1. row.attempts + 1 \in Nat
  BY DEF Row
<1> QED
  BY <1>1 DEF Claimed, Row, Statuses

LEMMA ClosedRow ==
  ASSUME NEW row \in Row
  PROVE  /\ Cleared(row) \in Row
         /\ Failed(row) \in Row
         /\ Completed(row) \in Row
         /\ Requeued(row) \in Row
         /\ \A ok \in BOOLEAN : Finished(row, ok) \in Row
         /\ [row EXCEPT !.status = "timed_out"] \in Row
<1>1. Cleared(row) \in Row
  BY GateFacts DEF Cleared, Row
<1>2. Failed(row) \in Row
  BY DEF Failed, Row, Statuses
<1>3. Completed(row) \in Row
  <2>1. row.artifacts + 1 \in Nat
    BY DEF Row
  <2> QED
    BY <2>1 DEF Completed, Row, Statuses
<1>4. Requeued(row) \in Row
  BY DEF Requeued, Row, Statuses
<1>5. ASSUME NEW ok \in BOOLEAN PROVE Finished(row, ok) \in Row
  <2> DEFINE row1 == Cleared(row)
  <2>1. row1 \in Row /\ row1.artifacts \in Nat /\ row1.artifacts + 1 \in Nat
    BY <1>1 DEF Row
  <2> HIDE DEF row1
  <2>2. [row1 EXCEPT !.status = IF ok THEN "done" ELSE "error",
                     !.artifacts = IF ok THEN @ + 1 ELSE @] \in Row
    BY <2>1 DEF Row, Statuses
  <2> QED
    BY <2>2 DEF Finished, row1
<1>6. [row EXCEPT !.status = "timed_out"] \in Row
  BY DEF Row, Statuses
<1> QED
  BY <1>1, <1>2, <1>3, <1>4, <1>5, <1>6

\* Whatever a timeout or an abandoned resume leaves behind is a row.
LEMMA OutcomeRows ==
  ASSUME NEW row \in Row, NEW policy \in AllPolicies
  PROVE  /\ TimeoutOutcomes(row, policy) \subseteq Row
         /\ AbandonOutcomes(row) \subseteq Row
<1> DEFINE timedOut == [row EXCEPT !.status = "timed_out"]
<1>1. timedOut \in Row /\ Failed(timedOut) \in Row
      /\ Cleared(timedOut) \in Row /\ Cleared(Failed(timedOut)) \in Row
  BY ClosedRow
<1>2. Cleared(row) \in Row /\ Failed(row) \in Row /\ Cleared(Failed(row)) \in Row
  BY ClosedRow
<1> QED
  BY <1>1, <1>2 DEF TimeoutOutcomes, AbandonOutcomes, Abandoned

LEMMA NullRows == NoRow \in Row /\ [NoRow EXCEPT !.status = "deleted"] \in Row
BY GateFacts DEF NoRow, Row, Statuses, AllPolicies, AnswerOrNone

LEMMA IdleWork ==
  /\ Idle \in Work
  /\ \A r \in Runs : Queued(r) \in Work
BY GateFacts DEF Idle, Queued, Work, AnswerOrNone

\* What a poll lists of a table of rows are listed rows.
LEMMA ListingType ==
  ASSUME TypeOK, NEW phase PROVE Listing(phase) \subseteq Listed
BY DEF TypeOK, Listing, Seen, Listed, Row

-----------------------------------------------------------------------------
(* Type correctness *)

\* A process that is working has a run, a claim and a row.
LEMMA WorkFacts ==
  ASSUME TypeOK, NEW w \in Workers
  PROVE  /\ work[w].run \in Runs \union {NoRun}
         /\ work[w].claim \in Tokens \union {NoClaim}
         /\ work[w].payload \in GateOrNone
         /\ work[w].answer \in AnswerOrNone
         /\ work[w] \in Work
BY DEF TypeOK, Work

LEMMA ItemFacts ==
  ASSUME TypeOK, NEW p \in Procs, NEW item \in tick[p].todo
  PROVE  /\ item \in Listed
         /\ item.run \in Runs
         /\ item.gate \in GateOrNone
         /\ item.policy \in AllPolicies
         /\ item.payload \in GateOrNone
         /\ item.answer \in AnswerOrNone
BY DEF TypeOK, Tick, Listed

\* TypeOK is not inductive by itself: an answer names the gate it is for, so
\* a run that waits, and a run the timeout loop has listed, must be at one.
WaitsAtGate ==
  /\ \A r \in Runs : rows[r].status = "awaiting_human" => rows[r].gate # 0
  /\ \A p \in Procs : tick[p].phase = "timeouts" =>
       \A item \in tick[p].todo : item.gate # 0

\* Nor does the type of a worker say that it has a run, and a claim to it.
BusyWorkers ==
  \A w \in Workers : /\ work[w].pc # "idle" => work[w].run \in Runs
                     /\ work[w].pc = "working" => work[w].claim \in Tokens

Shape == TypeOK /\ WaitsAtGate /\ BusyWorkers

-----------------------------------------------------------------------------
(* The moves of a row: every way a step of the system can change one *)

\* A worker, or a listing of some poll, refers to the run.
Touched(r) ==
  \/ \E w \in Workers : work[w].pc # "idle" /\ work[w].run = r
  \/ \E p \in Procs : \E item \in tick[p].todo : item.run = r

Begun(r) ==
  /\ rows[r].status = "none"
  /\ rows'[r] = [rows[r] EXCEPT !.status = "running"]

ByStarter(r) ==
  /\ driver[r] # NoProc /\ driver'[r] = NoProc
  /\ \/ Exists(rows[r]) /\ \E gate \in Gates : \E payload \in GateOrNone, policy \in AllPolicies :
          rows'[r] = Parked(rows[r], gate, payload, policy)
     \/ rows'[r] = Completed(rows[r])
     \/ rows'[r] = Failed(rows[r])

ByAnswer(r) ==
  /\ rows[r].status = "awaiting_human"
  /\ \E answer \in Answers : rows'[r] = Resolved(rows[r], answer)

ByTimeout(r) ==
  /\ rows[r].status = "awaiting_human"
  /\ \E policy \in AllPolicies : rows'[r] \in TimeoutOutcomes(rows[r], policy)

\* The sweep requeues what it has listed, if it is stranded still.
ByRequeue(r) ==
  /\ Stranded(rows[r]) /\ rows'[r] = Requeued(rows[r])
  /\ \E p \in Procs : tick[p].phase = "requeue" /\ \E item \in tick[p].todo : item.run = r

ByAbandon(r) == Touched(r) /\ rows'[r] \in AbandonOutcomes(rows[r])

ByClaim(r) ==
  /\ Resumable(rows[r])
  /\ \E token \in Tokens : Fresh(token) /\ rows'[r] = Claimed(rows[r], token)

\* An accepted write of the worker that holds the row.
ByOwner(r) ==
  \E w \in Workers :
    /\ work[w].pc = "working" /\ work[w].run = r
    /\ \/ /\ ClaimHolds(rows[r], work[w].claim)
          /\ \/ rows'[r] = [rows[r] EXCEPT !.stale = FALSE]
             \/ \E ok \in BOOLEAN : rows'[r] = Finished(rows[r], ok)
       \/ /\ MayPark(rows[r], work[w].claim)
          /\ \E gate \in Gates, policy \in AllPolicies :
               rows'[r] = Parked(rows[r], gate, gate, policy)

ByClock(r) ==
  \/ rows[r].status = "running" /\ rows[r].claim # NoClaim
       /\ rows'[r] = [rows[r] EXCEPT !.stale = TRUE]
       /\ \A p \in Procs : LoopFree(p)
  \/ rows[r].status = "awaiting_human"
       /\ rows'[r] = [rows[r] EXCEPT !.expired = TRUE]

ByDelete(r) ==
  Exists(rows[r]) /\ rows'[r] = [NoRow EXCEPT !.status = "deleted"]

RowMove(r) ==
  \/ rows'[r] = rows[r]
  \/ Begun(r) \/ ByStarter(r) \/ ByAnswer(r) \/ ByTimeout(r) \/ ByRequeue(r)
  \/ ByAbandon(r) \/ ByClaim(r) \/ ByOwner(r) \/ ByClock(r) \/ ByDelete(r)

-----------------------------------------------------------------------------
(* The moves of the rest of the state *)

DriverMove(r) ==
  \/ driver'[r] = driver[r]
  \/ driver'[r] = NoProc
  \/ Begun(r) /\ driver'[r] \in Procs

\* A worker that takes a claim is alone in doing so, and its token is new. A
\* kick task replays the row as it is, a poll as it was listed.
TakesClaim(w) ==
  \E r \in Runs, token \in Tokens, payload \in GateOrNone, answer \in AnswerOrNone :
    /\ Resumable(rows[r]) /\ Fresh(token)
    /\ rows' = [rows EXCEPT ![r] = Claimed(rows[r], token)]
    /\ w \in Kicks => payload = rows[r].payload /\ answer = rows[r].answer
    /\ w \in Procs => tick'[w].phase = "resume"
    /\ work' = [work EXCEPT ![w] =
                  [pc |-> "working", run |-> r, claim |-> token,
                   payload |-> payload, answer |-> answer]]

WorkMove(w) ==
  \/ work'[w] = work[w]
  \/ work'[w] = Idle
  \/ w \in Kicks /\ \E r \in Runs : rows[r].status = "awaiting_human" /\ work'[w] = Queued(r)
  \/ TakesClaim(w)

TickMove(p) ==
  \/ tick'[p] = tick[p]
  \/ tick'[p] = Asleep /\ (tick[p].phase = "resume" => work'[p] = Idle)
  \/ \E item \in tick[p].todo : tick'[p] = [tick[p] EXCEPT !.todo = @ \ {item}]
  \/ /\ UNCHANGED rows /\ work[p].pc = "idle" /\ UNCHANGED work
     /\ \E next \in Phases : tick'[p] = [phase |-> next, todo |-> Listing(next)]

RowsMove ==
  /\ rows' = [r \in Runs |-> rows'[r]]
  /\ \A r \in Runs : RowMove(r)
  /\ \A r, s \in Runs : rows'[r] # rows[r] /\ rows'[s] # rows[s] => r = s
DriversMove == driver' = [r \in Runs |-> driver'[r]] /\ \A r \in Runs : DriverMove(r)
WorkMoves == work' = [w \in Workers |-> work'[w]] /\ \A w \in Workers : WorkMove(w)
TicksMove == tick' = [p \in Procs |-> tick'[p]] /\ \A p \in Procs : TickMove(p)
RestMoves == replies' \subseteq Reply /\ paused' \in BOOLEAN /\ crashes' \in Nat

Moves == RowsMove /\ DriversMove /\ WorkMoves /\ TicksMove /\ RestMoves

\* What an action leaves alone moves trivially.
LEMMA Still ==
  ASSUME TypeOK
  PROVE  /\ UNCHANGED rows => RowsMove
         /\ UNCHANGED driver => DriversMove
         /\ UNCHANGED work => WorkMoves
         /\ UNCHANGED tick => TicksMove
         /\ UNCHANGED <<replies, paused, crashes>> => RestMoves
<1>1. UNCHANGED rows => RowsMove
  BY DEF TypeOK, RowsMove, RowMove
<1>2. UNCHANGED driver => DriversMove
  BY DEF TypeOK, DriversMove, DriverMove
<1>3. UNCHANGED work => WorkMoves
  BY DEF TypeOK, WorkMoves, WorkMove
<1>4. UNCHANGED tick => TicksMove
  BY DEF TypeOK, TicksMove, TickMove
<1>5. UNCHANGED <<replies, paused, crashes>> => RestMoves
  BY DEF TypeOK, RestMoves
<1> QED
  BY <1>1, <1>2, <1>3, <1>4, <1>5

\* Putting a row back for one run moves no other.
LEMMA RowPut ==
  ASSUME TypeOK, NEW s \in Runs, NEW row,
         rows' = [rows EXCEPT ![s] = row],
         rows'[s] = row => RowMove(s)
  PROVE  RowsMove
<1>1. rows'[s] = row
  BY DEF TypeOK
<1>2. ASSUME NEW r \in Runs, r # s PROVE rows'[r] = rows[r]
  BY <1>2 DEF TypeOK
<1> QED
  BY <1>1, <1>2 DEF RowsMove, RowMove, TypeOK

\* The same for one run's driver, one worker and one poll.
LEMMA DriverPut ==
  ASSUME TypeOK, NEW s \in Runs, NEW value,
         driver' = [driver EXCEPT ![s] = value],
         driver'[s] = value => DriverMove(s)
  PROVE  DriversMove
BY DEF DriversMove, DriverMove, TypeOK

LEMMA WorkPut ==
  ASSUME TypeOK, NEW v \in Workers, NEW value,
         work' = [work EXCEPT ![v] = value],
         work'[v] = value => WorkMove(v)
  PROVE  WorkMoves
<1>1. work'[v] = value
  BY DEF TypeOK
<1>2. ASSUME NEW w \in Workers, w # v PROVE WorkMove(w)
  BY <1>2 DEF TypeOK, WorkMove
<1> QED
  BY <1>1, <1>2 DEF WorkMoves, TypeOK

LEMMA TickPut ==
  ASSUME TypeOK, NEW q \in Procs, NEW value,
         tick' = [tick EXCEPT ![q] = value],
         tick'[q] = value => TickMove(q)
  PROVE  TicksMove
<1>1. tick'[q] = value
  BY DEF TypeOK
<1>2. ASSUME NEW p \in Procs, p # q PROVE TickMove(p)
  BY <1>2 DEF TypeOK, TickMove
<1> QED
  BY <1>1, <1>2 DEF TicksMove, TypeOK

-----------------------------------------------------------------------------
(* Every step is made of moves *)

LEMMA PolicyFacts == \A gate \in Gates : PoliciesOf(gate) \subseteq AllPolicies
BY BoundsAssumption DEF PoliciesOf, AllPolicies

\* The code that starts a run: its three ends and its beginning.
LEMMA StarterMoves ==
  ASSUME Shape, NEW r \in Runs,
         DriverParks(r) \/ DriverEnds(r) \/ DriverCancelled(r)
           \/ \E p \in Procs : Start(p, r)
  PROVE  Moves
<1> USE DEF Shape
<1>1. ASSUME DriverParks(r) PROVE Moves
  <2>1. PICK gate \in NextPauses(0) : \E payload \in {0, gate}, policy \in PoliciesOf(gate) :
          rows' = [rows EXCEPT ![r] =
                     IF Exists(@) THEN Parked(@, gate, payload, policy) ELSE @]
    BY <1>1 DEF DriverParks
  <2>2. PICK payload \in {0, gate}, policy \in PoliciesOf(gate) :
          rows' = [rows EXCEPT ![r] =
                     IF Exists(rows[r]) THEN Parked(rows[r], gate, payload, policy) ELSE rows[r]]
    BY <2>1
  <2>3. gate \in Gates /\ payload \in GateOrNone /\ policy \in AllPolicies
    BY GateFacts, PolicyFacts DEF NextPauses
  <2>4. driver[r] # NoProc /\ driver' = [driver EXCEPT ![r] = NoProc]
    BY <1>1 DEF DriverParks
  <2>5. driver'[r] = NoProc
    BY <2>4 DEF TypeOK
  <2>6. RowsMove
    BY <2>2, <2>3, <2>4, <2>5, RowPut DEF RowMove, ByStarter
  <2>7. DriversMove
    BY <2>4, DriverPut DEF DriverMove
  <2> QED
    BY <1>1, <2>6, <2>7, Still DEF DriverParks, Moves
<1>2. ASSUME DriverEnds(r) PROVE Moves
  <2>1. driver[r] # NoProc /\ driver' = [driver EXCEPT ![r] = NoProc]
    BY <1>2 DEF DriverEnds
  <2>2. driver'[r] = NoProc
    BY <2>1 DEF TypeOK
  <2>3. \/ rows' = [rows EXCEPT ![r] = Completed(rows[r])]
        \/ rows' = [rows EXCEPT ![r] = Failed(rows[r])]
    BY <1>2 DEF DriverEnds
  <2>4. RowsMove
    BY <2>1, <2>2, <2>3, RowPut DEF RowMove, ByStarter
  <2>5. DriversMove
    BY <2>1, DriverPut DEF DriverMove
  <2> QED
    BY <1>2, <2>4, <2>5, Still DEF DriverEnds, Moves
<1>3. ASSUME DriverCancelled(r) PROVE Moves
  <2>1. DriversMove
    BY <1>3, DriverPut DEF DriverCancelled, DriverMove
  <2> QED
    BY <1>3, <2>1, Still DEF DriverCancelled, Moves
<1>4. ASSUME NEW p \in Procs, Start(p, r) PROVE Moves
  <2>1. /\ rows[r].status = "none"
        /\ rows' = [rows EXCEPT ![r] = [rows[r] EXCEPT !.status = "running"]]
        /\ driver' = [driver EXCEPT ![r] = p]
    BY <1>4 DEF Start
  <2>2. rows'[r] = [rows[r] EXCEPT !.status = "running"]
    BY <2>1 DEF TypeOK
  <2>3. Begun(r)
    BY <2>1, <2>2 DEF Begun
  <2>4. RowsMove
    BY <2>1, <2>3, RowPut DEF RowMove
  <2>5. DriversMove
    BY <2>1, <2>3, DriverPut DEF DriverMove
  <2> QED
    BY <1>4, <2>4, <2>5, Still DEF Start, Moves
<1> QED
  BY <1>1, <1>2, <1>3, <1>4

\* apply_resolution, whoever calls it.
LEMMA ApplyMoves ==
  ASSUME Shape, NEW p \in Procs, NEW r \in Runs, NEW answer \in Answers,
         Apply(p, r, answer)
  PROVE  RowsMove /\ WorkMoves
<1> USE DEF Shape
<1>1. CASE rows[r].status # "awaiting_human"
  BY <1>1, Still DEF Apply
<1>2. CASE rows[r].status = "awaiting_human"
  <2>1. rows' = [rows EXCEPT ![r] = Resolved(rows[r], answer)]
    BY <1>2 DEF Apply
  <2>2. RowsMove
    BY <1>2, <2>1, RowPut DEF RowMove, ByAnswer
  <2>3. UNCHANGED work \/ \E k \in Kicks : work' = [work EXCEPT ![k] = Queued(r)]
    BY <1>2 DEF Apply
  <2>4. ASSUME NEW k \in Kicks, work' = [work EXCEPT ![k] = Queued(r)]
        PROVE  WorkMoves
    BY <1>2, <2>4, WorkPut DEF WorkMove, Workers
  <2> QED
    BY <2>2, <2>3, <2>4, Still
<1> QED
  BY <1>1, <1>2

\* Replies.
LEMMA ReplyMoves ==
  ASSUME Shape,
         \/ \E p \in Procs, r \in Runs, d \in Decisions : ReplyRead(p, r, d)
         \/ \E m \in replies : ReplyApplied(m) \/ ReplyDropped(m)
  PROVE  Moves
<1> USE DEF Shape
<1>1. ASSUME NEW p \in Procs, NEW r \in Runs, NEW d \in Decisions, ReplyRead(p, r, d)
      PROVE  Moves
  <2>1. rows[r].gate \in Gates
    BY <1>1, GateFacts DEF ReplyRead, WaitsAtGate, TypeOK, Row
  <2>2. RestMoves
    BY <1>1, <2>1 DEF ReplyRead, RestMoves, TypeOK, Reply
  <2> QED
    BY <1>1, <2>2, Still DEF ReplyRead, Moves
<1>2. ASSUME NEW m \in replies, ReplyApplied(m) PROVE Moves
  <2>1. m.proc \in Procs /\ m.run \in Runs /\ m.gate \in Gates /\ m.decision \in Decisions
    BY DEF TypeOK, Reply
  <2>2. [gate |-> m.gate, decision |-> m.decision] \in Answers
    BY <2>1 DEF Answers
  <2>3. RowsMove /\ WorkMoves
    BY <1>2, <2>1, <2>2, ApplyMoves DEF ReplyApplied
  <2>4. RestMoves
    BY <1>2 DEF ReplyApplied, RestMoves, TypeOK
  <2> QED
    BY <1>2, <2>3, <2>4, Still DEF ReplyApplied, Moves
<1>3. ASSUME NEW m \in replies, ReplyDropped(m) PROVE Moves
  BY <1>3, Still DEF ReplyDropped, RestMoves, TypeOK, Moves
<1> QED
  BY <1>1, <1>2, <1>3

\* The poll's iteration.
LEMMA TickMoves ==
  ASSUME Shape, NEW p \in Procs, TickStep(p)
  PROVE  Moves
<1> USE DEF Shape
<1>1. ASSUME TickAdvances(p) PROVE Moves
  <2>1. tick[p].phase \in Phases /\ After(tick[p].phase) \in Phases
    BY DEF TypeOK, Tick, Phases, After
  <2>2. TicksMove
    BY <1>1, <2>1, TickPut DEF TickAdvances, TickMove
  <2> QED
    BY <1>1, <2>2, Still DEF TickAdvances, Moves
<1>2. ASSUME TickAborts(p) PROVE Moves
  <2>1. TicksMove
    BY <1>2, TickPut DEF TickAborts, TickMove
  <2> QED
    BY <1>2, <2>1, Still DEF TickAborts, Moves
<1>3. ASSUME NEW item \in tick[p].todo, NEW phase, Take(p, phase, item) PROVE TicksMove
  BY <1>3, TickPut DEF Take, TickMove
<1>4. ASSUME NEW item \in tick[p].todo PROVE Touched(item.run) /\ item.run \in Runs
  BY <1>4, ItemFacts DEF Touched
<1>5. ASSUME NEW item \in tick[p].todo, TickTimeout(p, item) PROVE Moves
  <2>1. TicksMove
    BY <1>3, <1>5 DEF TickTimeout
  <2>2. item.gate \in Gates
    BY <1>5, ItemFacts, GateFacts DEF TickTimeout, Take, WaitsAtGate
  <2>3. [gate |-> item.gate, decision |-> "auto_proceed"] \in Answers
    BY <2>2 DEF Answers
  <2>4. CASE item.policy = "auto_proceed"
    <3>1. RowsMove /\ WorkMoves
      BY <1>4, <1>5, <2>3, <2>4, ApplyMoves DEF TickTimeout
    <3> QED
      BY <1>5, <2>1, <3>1, Still DEF TickTimeout, Moves
  <2>5. CASE item.policy # "auto_proceed"
    <3>1. PICK row \in TimeoutOutcomes(rows[item.run], item.policy) :
            rows' = [rows EXCEPT ![item.run] = row]
      BY <1>5, <2>5 DEF TickTimeout
    <3>2. rows'[item.run] = row =>
            rows'[item.run] = rows[item.run] \/ ByTimeout(item.run)
      BY ItemFacts DEF TimeoutOutcomes, ByTimeout
    <3>3. RowsMove
      BY <1>4, <3>1, <3>2, RowPut DEF RowMove
    <3> QED
      BY <1>5, <2>1, <2>5, <3>3, Still DEF TickTimeout, Moves
  <2> QED
    BY <2>4, <2>5
<1>6. ASSUME NEW item \in tick[p].todo, TickRequeue(p, item) PROVE Moves
  <2>1. TicksMove
    BY <1>3, <1>6 DEF TickRequeue
  <2>2. rows' = [rows EXCEPT ![item.run] =
                   IF Stranded(rows[item.run]) THEN Requeued(rows[item.run])
                   ELSE rows[item.run]]
    BY <1>6 DEF TickRequeue
  <2>3. tick[p].phase = "requeue"
    BY <1>6 DEF TickRequeue, Take
  <2>4. RowsMove
    BY <1>4, <2>2, <2>3, RowPut DEF RowMove, ByRequeue
  <2> QED
    BY <1>6, <2>1, <2>4, Still DEF TickRequeue, Moves
<1>7. ASSUME NEW item \in tick[p].todo, TickGivesUp(p, item) PROVE Moves
  <2>1. TicksMove
    BY <1>3, <1>7 DEF TickGivesUp
  <2>2. PICK row \in AbandonOutcomes(rows[item.run]) :
          rows' = [rows EXCEPT ![item.run] = row]
    BY <1>7 DEF TickGivesUp
  <2>3. RowsMove
    BY <1>4, <2>2, RowPut DEF RowMove, ByAbandon
  <2> QED
    BY <1>7, <2>1, <2>3, Still DEF TickGivesUp, Moves
<1>8. ASSUME NEW item \in tick[p].todo, TickClaims(p, item) PROVE Moves
  <2>1. TicksMove
    BY <1>3, <1>8 DEF TickClaims
  <2>2. CASE ~Resumable(rows[item.run])
    BY <1>8, <2>1, <2>2, Still DEF TickClaims, Moves
  <2>3. CASE Resumable(rows[item.run])
    <3>1. PICK token \in Tokens :
            /\ Fresh(token)
            /\ rows' = [rows EXCEPT ![item.run] = Claimed(rows[item.run], token)]
            /\ work' = [work EXCEPT ![p] =
                 [pc |-> "working", run |-> item.run, claim |-> token,
                  payload |-> item.payload, answer |-> item.answer]]
      BY <1>8, <2>3 DEF TickClaims
    <3>2. RowsMove
      BY <1>4, <2>3, <3>1, RowPut DEF RowMove, ByClaim
    <3>3. p \notin Kicks /\ tick'[p].phase = "resume"
      BY <1>8, WorkersAssumption DEF TickClaims, Take, TypeOK, Tick
    <3>4. TakesClaim(p)
      BY <1>4, <2>3, <3>1, <3>3, ItemFacts DEF TakesClaim
    <3>5. WorkMoves
      BY <3>1, <3>4, WorkPut DEF WorkMove, Workers
    <3> QED
      BY <1>8, <2>1, <3>2, <3>5, Still DEF TickClaims, Moves
  <2> QED
    BY <2>2, <2>3
<1>9. ASSUME NEW item \in tick[p].todo, TickClaimBusy(p, item) PROVE Moves
  <2>1. TicksMove
    BY <1>3, <1>9 DEF TickClaimBusy
  <2> QED
    BY <1>9, <2>1, Still DEF TickClaimBusy, Moves
<1> QED
  BY <1>1, <1>2, <1>5, <1>6, <1>7, <1>8, <1>9 DEF TickStep

\* Kick tasks.
LEMMA KickMoves ==
  ASSUME Shape, NEW k \in Kicks, KickClaims(k) \/ KickClaimBusy(k)
  PROVE  Moves
<1> DEFINE r == work[k].run
<1> USE DEF Shape
<1>1. k \in Workers
  BY DEF Workers
<1>2. work[k].pc = "queued" /\ r \in Runs /\ Touched(r)
  BY <1>1 DEF KickClaims, KickClaimBusy, Touched, BusyWorkers
<1> HIDE DEF r
<1>3. ASSUME KickClaims(k) PROVE Moves
  <2>1. CASE ~Resumable(rows[r])
    <3>1. work' = [work EXCEPT ![k] = Idle] /\ UNCHANGED rows
      BY <1>3, <2>1 DEF KickClaims, r
    <3>2. WorkMoves
      BY <1>1, <3>1, WorkPut DEF WorkMove
    <3> QED
      BY <1>3, <3>1, <3>2, Still DEF KickClaims, Moves
  <2>2. CASE Resumable(rows[r])
    <3>1. PICK token \in Tokens :
            /\ Fresh(token)
            /\ rows' = [rows EXCEPT ![r] = Claimed(rows[r], token)]
            /\ work' = [work EXCEPT ![k] =
                 [pc |-> "working", run |-> r, claim |-> token,
                  payload |-> rows[r].payload, answer |-> rows[r].answer]]
      BY <1>3, <2>2 DEF KickClaims, r
    <3>2. RowsMove
      BY <1>2, <2>2, <3>1, RowPut DEF RowMove, ByClaim
    <3>3. rows[r].payload \in GateOrNone /\ rows[r].answer \in AnswerOrNone
      BY <1>2 DEF TypeOK, Row
    <3>4. k \notin Procs
      BY WorkersAssumption
    <3>5. TakesClaim(k)
      BY <1>2, <2>2, <3>1, <3>3, <3>4 DEF TakesClaim
    <3>6. WorkMoves
      BY <1>1, <3>1, <3>5, WorkPut DEF WorkMove
    <3> QED
      BY <1>3, <3>2, <3>6, Still DEF KickClaims, Moves
  <2> QED
    BY <2>1, <2>2
<1>4. ASSUME KickClaimBusy(k) PROVE Moves
  <2>1. PICK row \in AbandonOutcomes(rows[r]) : rows' = [rows EXCEPT ![r] = row]
    BY <1>4 DEF KickClaimBusy, r
  <2>2. RowsMove
    BY <1>2, <2>1, RowPut DEF RowMove, ByAbandon
  <2>3. WorkMoves
    BY <1>1, <1>4, WorkPut DEF KickClaimBusy, WorkMove
  <2> QED
    BY <1>4, <2>2, <2>3, Still DEF KickClaimBusy, Moves
<1> QED
  BY <1>3, <1>4

\* The work of a claimed resume. A step of a worker writes one row, its run's.
LEMMA StepMoves ==
  ASSUME Shape, NEW w \in Workers, NEW row, NEW next \in {work[w], Idle},
         Step(w, row, next), RowMove(work[w].run) \/ rows'[work[w].run] # row
  PROVE  Moves
<1> USE DEF Shape
<1>1. work[w].run \in Runs
  BY DEF Step, BusyWorkers
<1>2. RowsMove
  BY <1>1, RowPut DEF Step
<1>3. WorkMoves
  BY WorkPut DEF Step, WorkMove
<1> QED
  BY <1>2, <1>3, Still DEF Step, Moves

LEMMA WorkerMoves ==
  ASSUME Shape, NEW w \in Workers, WorkerStep(w)
  PROVE  Moves
<1> DEFINE r == work[w].run
           row == rows[r]
<1> USE DEF Shape
<1>1. work[w].pc = "working" /\ r \in Runs /\ work[w].claim \in Tokens /\ Touched(r)
  BY DEF WorkerStep, WorkerHeartbeat, WorkerParks, WorkerFinishes, WorkerAbandons,
         BusyWorkers, Touched
<1>2. ASSUME WorkerHeartbeat(w) PROVE Moves
  <2>1. CASE ClaimHolds(row, work[w].claim)
    <3>1. Step(w, [row EXCEPT !.stale = FALSE], work[w])
      BY <1>2, <2>1 DEF WorkerHeartbeat
    <3>2. rows'[r] = [row EXCEPT !.stale = FALSE] => RowMove(r)
      BY <1>1, <2>1 DEF RowMove, ByOwner
    <3> QED
      BY <3>1, <3>2, StepMoves
  <2>2. CASE ~ClaimHolds(row, work[w].claim)
    <3>1. Step(w, row, Idle)
      BY <1>2, <2>2 DEF WorkerHeartbeat
    <3> QED
      BY <3>1, StepMoves DEF RowMove
  <2> QED
    BY <2>1, <2>2
<1>3. ASSUME WorkerParks(w) PROVE Moves
  <2>1. PICK gate \in NextPauses(work[w].payload) : \E policy \in PoliciesOf(gate) :
          Step(w, IF MayPark(row, work[w].claim)
                  THEN Parked(row, gate, gate, policy) ELSE row, Idle)
    BY <1>3 DEF WorkerParks
  <2>2. PICK policy \in PoliciesOf(gate) :
          Step(w, IF MayPark(row, work[w].claim)
                  THEN Parked(row, gate, gate, policy) ELSE row, Idle)
    BY <2>1
  <2>3. gate \in Gates /\ policy \in AllPolicies
    BY PolicyFacts DEF NextPauses
  <2>4. CASE MayPark(row, work[w].claim)
    <3>1. Step(w, Parked(row, gate, gate, policy), Idle)
      BY <2>2, <2>4
    <3>2. rows'[r] = Parked(row, gate, gate, policy) => RowMove(r)
      BY <1>1, <2>3, <2>4 DEF RowMove, ByOwner
    <3> QED
      BY <3>1, <3>2, StepMoves
  <2>5. CASE ~MayPark(row, work[w].claim)
    <3>1. Step(w, row, Idle)
      BY <2>2, <2>5
    <3> QED
      BY <3>1, StepMoves DEF RowMove
  <2> QED
    BY <2>4, <2>5
<1>4. ASSUME WorkerFinishes(w) PROVE Moves
  <2>1. PICK ok \in BOOLEAN :
          Step(w, IF ClaimHolds(row, work[w].claim)
                  THEN Finished(row, ok) ELSE row, Idle)
    BY <1>4 DEF WorkerFinishes
  <2>2. CASE ClaimHolds(row, work[w].claim)
    <3>1. Step(w, Finished(row, ok), Idle)
      BY <2>1, <2>2
    <3>2. rows'[r] = Finished(row, ok) => RowMove(r)
      BY <1>1, <2>2 DEF RowMove, ByOwner
    <3> QED
      BY <3>1, <3>2, StepMoves
  <2>3. CASE ~ClaimHolds(row, work[w].claim)
    <3>1. Step(w, row, Idle)
      BY <2>1, <2>3
    <3> QED
      BY <3>1, StepMoves DEF RowMove
  <2> QED
    BY <2>2, <2>3
<1>5. ASSUME WorkerAbandons(w) PROVE Moves
  <2>1. PICK outcome \in AbandonOutcomes(row) : Step(w, outcome, Idle)
    BY <1>5 DEF WorkerAbandons
  <2>2. rows'[r] = outcome => RowMove(r)
    BY <1>1 DEF RowMove, ByAbandon
  <2> QED
    BY <2>1, <2>2, StepMoves
<1> QED
  BY <1>2, <1>3, <1>4, <1>5 DEF WorkerStep

\* Clocks, the operator and crashes.
LEMMA EnvironmentMoves ==
  ASSUME Shape,
         \/ \E r \in Runs : ClaimAges(r) \/ GateExpires(r)
         \/ \E p \in Procs, r \in Runs : Delete(p, r)
         \/ \E p \in Procs : Crash(p)
         \/ SetPaused
  PROVE  Moves
<1> USE DEF Shape
<1>1. ASSUME NEW r \in Runs, ClaimAges(r) PROVE Moves
  <2>1. rows' = [rows EXCEPT ![r] = [rows[r] EXCEPT !.stale = TRUE]]
    BY <1>1 DEF ClaimAges
  <2>2. RowsMove
    BY <1>1, <2>1, RowPut DEF ClaimAges, RowMove, ByClock
  <2> QED
    BY <1>1, <2>2, Still DEF ClaimAges, Moves
<1>2. ASSUME NEW r \in Runs, GateExpires(r) PROVE Moves
  <2>1. rows' = [rows EXCEPT ![r] = [rows[r] EXCEPT !.expired = TRUE]]
    BY <1>2 DEF GateExpires
  <2>2. RowsMove
    BY <1>2, <2>1, RowPut DEF GateExpires, RowMove, ByClock
  <2> QED
    BY <1>2, <2>2, Still DEF GateExpires, Moves
<1>3. ASSUME NEW p \in Procs, NEW r \in Runs, Delete(p, r) PROVE Moves
  <2>1. RowsMove
    BY <1>3, RowPut DEF Delete, RowMove, ByDelete
  <2> QED
    BY <1>3, <2>1, Still DEF Delete, Moves
<1>4. ASSUME NEW p \in Procs, Crash(p) PROVE Moves
  <2>1. WorkMoves
    BY <1>4 DEF Crash, WorkMoves, WorkMove
  <2>2. DriversMove
    BY <1>4 DEF Crash, DriversMove, DriverMove
  <2>3. TicksMove
    <3>1. work'[p] = Idle
      BY <1>4 DEF Crash, HomeOf, Workers
    <3> QED
      BY <1>4, <3>1, TickPut DEF Crash, TickMove
  <2>4. RestMoves
    BY <1>4, BoundsAssumption DEF Crash, RestMoves, TypeOK
  <2> QED
    BY <1>4, <2>1, <2>2, <2>3, <2>4, Still DEF Crash, Moves
<1>5. ASSUME SetPaused PROVE Moves
  BY <1>5, Still DEF SetPaused, RestMoves, TypeOK, Moves
<1> QED
  BY <1>1, <1>2, <1>3, <1>4, <1>5

LEMMA NextMoves ==
  ASSUME Shape, [Next]_vars PROVE Moves
<1>1. CASE UNCHANGED vars
  BY <1>1, Still DEF vars, Moves, Shape
<1>2. CASE Next
  BY <1>2, StarterMoves, ReplyMoves, TickMoves, KickMoves, WorkerMoves,
     EnvironmentMoves DEF Next
<1> QED
  BY <1>1, <1>2

-----------------------------------------------------------------------------
(* Type correctness *)

\* A move takes a row to a row, and a run that waits to a gate.
LEMMA RowMoveType ==
  ASSUME TypeOK, NEW r \in Runs, RowMove(r)
  PROVE  rows'[r] \in Row
<1>1. rows[r] \in Row
  BY DEF TypeOK
<1>2. CASE Begun(r)
  BY <1>1, <1>2 DEF Begun, Row, Statuses
<1>3. CASE ByStarter(r)
  <2>1. Completed(rows[r]) \in Row /\ Failed(rows[r]) \in Row
    BY <1>1, ClosedRow
  <2> QED
    BY <1>1, <1>3, <2>1, ParkedRow DEF ByStarter
<1>4. CASE ByAnswer(r)
  BY <1>1, <1>4, ResolvedRow DEF ByAnswer
<1>5. CASE ByTimeout(r) \/ ByAbandon(r)
  BY <1>1, <1>5, OutcomeRows DEF ByTimeout, ByAbandon, AllPolicies
<1>6. CASE ByRequeue(r)
  BY <1>1, <1>6, ClosedRow DEF ByRequeue
<1>7. CASE ByClaim(r)
  BY <1>1, <1>7, ClaimedRow DEF ByClaim
<1>8. CASE ByOwner(r)
  <2>1. [rows[r] EXCEPT !.stale = FALSE] \in Row
    BY <1>1 DEF Row
  <2>2. \A ok \in BOOLEAN : Finished(rows[r], ok) \in Row
    BY <1>1, ClosedRow
  <2>3. \A gate \in Gates, policy \in AllPolicies :
          Parked(rows[r], gate, gate, policy) \in Row
    BY <1>1, ParkedRow, GateFacts
  <2> QED
    BY <1>8, <2>1, <2>2, <2>3 DEF ByOwner
<1>9. CASE ByClock(r)
  BY <1>1, <1>9 DEF ByClock, Row
<1>10. CASE ByDelete(r)
  BY <1>10, NullRows DEF ByDelete
<1> QED
  BY <1>1, <1>2, <1>3, <1>4, <1>5, <1>6, <1>7, <1>8, <1>9, <1>10 DEF RowMove

LEMMA RowMoveGate ==
  ASSUME TypeOK, NEW r \in Runs, RowMove(r),
         rows[r].status = "awaiting_human" => rows[r].gate # 0
  PROVE  rows'[r].status = "awaiting_human" => rows'[r].gate # 0
<1>1. rows[r] \in Row
  BY DEF TypeOK
<1>2. CASE Begun(r)
  BY <1>1, <1>2 DEF Begun, Row
<1>3. CASE ByStarter(r)
  BY <1>1, <1>3, GateFacts DEF ByStarter, Parked, Completed, Failed, Row
<1>4. CASE ByAnswer(r)
  BY <1>1, <1>4 DEF ByAnswer, Resolved, Row
<1>5. CASE ByTimeout(r) \/ ByAbandon(r)
  BY <1>1, <1>5 DEF ByTimeout, ByAbandon, TimeoutOutcomes, AbandonOutcomes,
     Abandoned, Cleared, Failed, Row
<1>6. CASE ByRequeue(r) \/ ByClaim(r)
  BY <1>1, <1>6 DEF ByRequeue, ByClaim, Requeued, Claimed, Row
<1>7. CASE ByOwner(r)
  BY <1>1, <1>7, GateFacts DEF ByOwner, ClaimHolds, Parked, Finished, Cleared, Row
<1>8. CASE ByClock(r)
  BY <1>1, <1>8 DEF ByClock, Row
<1>9. CASE ByDelete(r)
  BY <1>9 DEF ByDelete, NoRow
<1> QED
  BY <1>2, <1>3, <1>4, <1>5, <1>6, <1>7, <1>8, <1>9 DEF RowMove

LEMMA InitShape == Init => Shape
<1> SUFFICES ASSUME Init PROVE Shape
  OBVIOUS
<1>1. TypeOK
  BY NullRows, IdleWork DEF Init, TypeOK, Tick, Asleep, Phases
<1>2. WaitsAtGate /\ BusyWorkers
  BY DEF Init, WaitsAtGate, BusyWorkers, NoRow, Asleep, Idle
<1> QED
  BY <1>1, <1>2 DEF Shape

\* Moves preserve the shape of the state.
LEMMA ShapeStep ==
  ASSUME Shape, [Next]_vars PROVE Shape'
<1>1. Moves
  BY NextMoves
<1> USE DEF Shape
<1>2. ASSUME NEW w \in Workers
      PROVE  /\ work'[w] \in Work
             /\ work'[w].pc # "idle" => work'[w].run \in Runs
             /\ work'[w].pc = "working" => work'[w].claim \in Tokens
  <2>1. WorkMove(w)
    BY <1>1 DEF Moves, WorkMoves
  <2>2. CASE work'[w] = work[w]
    BY <2>2 DEF TypeOK, BusyWorkers
  <2>3. CASE work'[w] = Idle
    BY <2>3, IdleWork DEF Idle
  <2>4. CASE \E r \in Runs : work'[w] = Queued(r)
    BY <2>4, IdleWork DEF Queued, Idle
  <2>5. CASE TakesClaim(w)
    BY <2>5 DEF TakesClaim, TypeOK, Work
  <2> QED
    BY <2>1, <2>2, <2>3, <2>4, <2>5 DEF WorkMove
<1>3. ASSUME NEW p \in Procs
      PROVE  /\ tick'[p] \in Tick
             /\ tick'[p].phase = "timeouts" => \A item \in tick'[p].todo : item.gate # 0
  <2>1. TickMove(p)
    BY <1>1 DEF Moves, TicksMove
  <2>2. CASE tick'[p] = tick[p]
    BY <2>2 DEF TypeOK, WaitsAtGate
  <2>3. CASE tick'[p] = Asleep
    BY <2>3 DEF Asleep, Tick, Phases
  <2>4. CASE \E item \in tick[p].todo : tick'[p] = [tick[p] EXCEPT !.todo = @ \ {item}]
    BY <2>4 DEF TypeOK, Tick, WaitsAtGate
  <2>5. CASE \E next \in Phases : tick'[p] = [phase |-> next, todo |-> Listing(next)]
    <3>1. PICK next \in Phases : tick'[p] = [phase |-> next, todo |-> Listing(next)]
      BY <2>5
    <3>2. tick'[p] \in Tick
      BY <3>1, ListingType DEF Tick
    <3>3. ASSUME next = "timeouts", NEW item \in Listing(next) PROVE item.gate # 0
      BY <3>3 DEF Listing, Due, Seen, WaitsAtGate
    <3> QED
      BY <3>1, <3>2, <3>3
  <2> QED
    BY <2>1, <2>2, <2>3, <2>4, <2>5 DEF TickMove
<1>4. ASSUME NEW r \in Runs
      PROVE  /\ rows'[r] \in Row
             /\ rows'[r].status = "awaiting_human" => rows'[r].gate # 0
             /\ driver'[r] \in Procs \union {NoProc}
  BY <1>1, <1>4, RowMoveType, RowMoveGate
     DEF Moves, RowsMove, DriversMove, DriverMove, TypeOK, WaitsAtGate
<1>5. TypeOK'
  BY <1>1, <1>2, <1>3, <1>4
     DEF TypeOK, Moves, RowsMove, DriversMove, WorkMoves, TicksMove, RestMoves
<1> QED
  BY <1>2, <1>3, <1>4, <1>5 DEF WaitsAtGate, BusyWorkers

\* The state always has its type, a run that waits (or that the timeout loop
\* has listed) is at a gate of its definition, and a busy worker has a run.
THEOREM ShapeInvariant == Spec => []Shape
BY InitShape, ShapeStep, PTL DEF Spec

\* Every variable of the engine keeps its type: no statement of
\* persistence.py and no step of the resumer makes a row that is not one.
THEOREM TypeCorrect == Spec => []TypeOK
BY ShapeInvariant, PTL DEF Shape

-----------------------------------------------------------------------------
(* One owner *)

\* OneOwner is not inductive: nothing in it stops two workers whose claims
\* are not in any row from holding the same token. No two workers ever do.
ClaimsDiffer ==
  \A w1, w2 \in Workers :
    /\ work[w1].pc = "working" /\ work[w2].pc = "working"
    /\ work[w1].claim = work[w2].claim
    => w1 = w2

LEMMA ClaimsDifferStep ==
  ASSUME Shape, ClaimsDiffer, [Next]_vars PROVE ClaimsDiffer'
<1>1. WorkMoves
  BY NextMoves DEF Moves
<1>2. CASE \E w \in Workers : TakesClaim(w)
  <2>1. PICK w \in Workers : TakesClaim(w)
    BY <1>2
  <2>2. PICK r \in Runs, token \in Tokens, payload \in GateOrNone, answer \in AnswerOrNone :
          /\ Resumable(rows[r]) /\ Fresh(token)
          /\ rows' = [rows EXCEPT ![r] = Claimed(rows[r], token)]
          /\ w \in Kicks => payload = rows[r].payload /\ answer = rows[r].answer
          /\ w \in Procs => tick'[w].phase = "resume"
          /\ work' = [work EXCEPT ![w] =
                        [pc |-> "working", run |-> r, claim |-> token,
                         payload |-> payload, answer |-> answer]]
    BY <2>1, Zenon DEF TakesClaim
  <2>3. work'[w].claim = token
    BY <2>2 DEF Shape, TypeOK
  <2>4. ASSUME NEW v \in Workers, v # w PROVE work'[v] = work[v] /\ work[v].claim # token
    BY <2>2, <2>4 DEF Shape, TypeOK, Fresh
  <2> QED
    BY <2>3, <2>4 DEF ClaimsDiffer
<1>3. CASE ~ \E w \in Workers : TakesClaim(w)
  <2>1. ASSUME NEW w \in Workers, work'[w].pc = "working" PROVE work'[w] = work[w]
    <3>1. WorkMove(w)
      BY <1>1 DEF WorkMoves
    <3>2. Idle.pc # "working" /\ \A r \in Runs : Queued(r).pc # "working"
      BY DEF Idle, Queued
    <3> QED
      BY <1>3, <2>1, <3>1, <3>2 DEF WorkMove
  <2> QED
    BY <2>1 DEF ClaimsDiffer
<1> QED
  BY <1>2, <1>3

\* At any time at most one worker can write to a run, whatever the number of
\* processes and kick tasks, and whatever crashes and database faults.
THEOREM OneOwnerHolds == Spec => []OneOwner
<1>1. Init => ClaimsDiffer
  BY DEF Init, ClaimsDiffer, Idle
<1>2. Spec => []ClaimsDiffer
  BY <1>1, ShapeInvariant, ClaimsDifferStep, PTL DEF Spec
<1>3. ClaimsDiffer => OneOwner
  BY DEF ClaimsDiffer, OneOwner, Holds, ClaimHolds
<1> QED
  BY <1>2, <1>3, PTL

-----------------------------------------------------------------------------
(* The inductive invariant of a row *)

\* The code that started a run owns its row; see StarterOwnsTheRow.
Owned(r) ==
  /\ driver[r] # NoProc =>
       \/ rows[r].status = "deleted"
       \/ rows[r].status = "running" /\ rows[r].payload = 0
            /\ rows[r].claim = NoClaim /\ rows[r].artifacts = 0
  /\ Touched(r) => driver[r] = NoProc /\ rows[r].status # "none"
  /\ rows[r].status = "none" => rows[r] = NoRow

\* A claim is there while a resume runs, and never on a run that waits, is
\* answered or has delivered. Without database faults nothing else keeps one.
ClaimsFit(r) ==
  /\ rows[r].status \in {"awaiting_human", "resolved"} => rows[r].claim = NoClaim
  /\ rows[r].status = "deleted" => rows[r].claim = NoClaim
  /\ rows[r].claim # NoClaim => rows[r].answer # NoAnswer
  /\ rows[r].stale => rows[r].claim # NoClaim
  /\ ~DbFaults /\ rows[r].claim # NoClaim => rows[r].status = "running"

\* What the row says about the person's answer and the delivered artifact.
AnswersFit(r) ==
  /\ rows[r].status = "awaiting_human" => rows[r].answer = NoAnswer /\ rows[r].attempts = 0
  /\ rows[r].status = "resolved" => rows[r].answer # NoAnswer

ArtifactsFit(r) ==
  /\ rows[r].artifacts \in {0, 1}
  /\ rows[r].artifacts = 1 =>
       rows[r].status \in {"done", "error"} /\ rows[r].claim = NoClaim

RowInv(r) == Owned(r) /\ ClaimsFit(r) /\ AnswersFit(r) /\ ArtifactsFit(r)
RowsInv == \A r \in Runs : RowInv(r)

\* A reference to a run is old, or the run has just been found waiting,
\* answered or stranded.
LEMMA TouchedMove ==
  ASSUME Shape, Moves, NEW r \in Runs, Touched(r)'
  PROVE  \/ Touched(r)
         \/ rows[r].status \in {"awaiting_human", "resolved"}
         \/ Stranded(rows[r])
<1> USE DEF Shape
<1>1. ASSUME NEW w \in Workers, work'[w].pc # "idle", work'[w].run = r
      PROVE  Touched(r) \/ rows[r].status \in {"awaiting_human", "resolved"}
  <2>1. WorkMove(w)
    BY DEF Moves, WorkMoves
  <2>2. CASE work'[w] = work[w]
    BY <1>1, <2>2 DEF Touched
  <2>3. CASE work'[w] = Idle
    BY <1>1, <2>3 DEF Idle
  <2>4. CASE \E s \in Runs : rows[s].status = "awaiting_human" /\ work'[w] = Queued(s)
    BY <1>1, <2>4 DEF Queued, Idle
  <2>5. CASE TakesClaim(w)
    BY <1>1, <2>5 DEF TakesClaim, Resumable, TypeOK
  <2> QED
    BY <2>1, <2>2, <2>3, <2>4, <2>5 DEF WorkMove
<1>2. ASSUME NEW p \in Procs, NEW item \in tick'[p].todo, item.run = r
      PROVE  \/ Touched(r)
             \/ rows[r].status \in {"awaiting_human", "resolved"}
             \/ Stranded(rows[r])
  <2>1. TickMove(p)
    BY DEF Moves, TicksMove
  <2>2. CASE \/ tick'[p] = tick[p]
             \/ \E i \in tick[p].todo : tick'[p] = [tick[p] EXCEPT !.todo = @ \ {i}]
    BY <1>2, <2>2 DEF Touched, TypeOK, Tick
  <2>3. CASE tick'[p] = Asleep
    BY <1>2, <2>3 DEF Asleep
  <2>4. CASE \E next \in Phases : tick'[p] = [phase |-> next, todo |-> Listing(next)]
    BY <1>2, <2>4 DEF Listing, Seen, Due, Resumable
  <2> QED
    BY <2>1, <2>2, <2>3, <2>4 DEF TickMove
<1> QED
  BY <1>1, <1>2 DEF Touched

LEMMA OwnedStep ==
  ASSUME Shape, Moves, NEW r \in Runs, RowInv(r)
  PROVE  Owned(r)'
<1> USE DEF RowInv
<1>1. rows[r] \in Row
  BY DEF Shape, TypeOK
<1>2. RowMove(r) /\ DriverMove(r)
  BY DEF Moves, RowsMove, DriversMove
<1>3. rows'[r].status = "none" => rows'[r] = rows[r]
  <2>1. CASE Begun(r) \/ ByClaim(r) \/ ByRequeue(r) \/ ByAnswer(r) \/ ByDelete(r)
    BY <1>1, <2>1 DEF Begun, ByClaim, ByRequeue, ByAnswer, ByDelete,
       Claimed, Requeued, Resolved, NoRow, Row
  <2>2. CASE ByStarter(r)
    BY <1>1, <2>2 DEF ByStarter, Parked, Completed, Failed, Row
  <2>3. CASE ByTimeout(r)
    BY <1>1, <2>3 DEF ByTimeout, TimeoutOutcomes, Failed, Cleared, Row
  <2>4. CASE ByAbandon(r)
    BY <1>1, <2>4 DEF ByAbandon, Owned, AbandonOutcomes, Abandoned, Failed, Cleared, Row
  <2>5. CASE ByOwner(r)
    BY <1>1, <2>5 DEF ByOwner, ClaimHolds, MayPark, Exists, Parked, Finished, Cleared, Row
  <2>6. CASE ByClock(r)
    BY <1>1, <2>6 DEF ByClock, Row
  <2> QED
    BY <1>2, <2>1, <2>2, <2>3, <2>4, <2>5, <2>6 DEF RowMove
<1>4. ASSUME driver'[r] # NoProc, driver[r] # NoProc
      PROVE  \/ rows'[r].status = "deleted"
             \/ rows'[r].status = "running" /\ rows'[r].payload = 0
                  /\ rows'[r].claim = NoClaim /\ rows'[r].artifacts = 0
  <2>1. ~Touched(r) /\ rows[r].status \in {"deleted", "running"}
    BY <1>4 DEF Owned
  <2>2. ASSUME ByOwner(r) PROVE FALSE
    BY <2>1, <2>2 DEF ByOwner, Touched
  <2>3. ASSUME ByDelete(r) PROVE rows'[r].status = "deleted"
    BY <2>3 DEF ByDelete, NoRow
  <2>4. rows'[r] = rows[r] \/ ByDelete(r)
    BY <1>2, <1>4, <2>1, <2>2 DEF RowMove, Owned, Begun, ByStarter, ByAnswer,
       ByTimeout, ByRequeue, Stranded, ByAbandon, ByClaim, Resumable, ByClock
  <2> QED
    BY <1>4, <2>3, <2>4 DEF Owned
<1>5. ASSUME driver'[r] # NoProc, driver[r] = NoProc
      PROVE  rows'[r].status = "running" /\ rows'[r].payload = 0
               /\ rows'[r].claim = NoClaim /\ rows'[r].artifacts = 0
  <2>1. Begun(r)
    BY <1>2, <1>5 DEF DriverMove
  <2> QED
    BY <2>1 DEF Begun, Owned, NoRow
<1>6. ASSUME Touched(r)' PROVE driver'[r] = NoProc /\ rows'[r].status # "none"
  <2>1. \/ Touched(r)
        \/ rows[r].status \in {"awaiting_human", "resolved"}
        \/ Stranded(rows[r])
    BY <1>6, TouchedMove
  <2>2. driver[r] = NoProc /\ rows[r].status # "none"
    BY <2>1 DEF Owned, Stranded
  <2>3. driver'[r] = NoProc
    BY <1>2, <2>2 DEF DriverMove, Begun
  <2> QED
    BY <1>3, <2>2, <2>3
<1>7. rows'[r].status = "none" => rows'[r] = NoRow
  BY <1>3 DEF Owned
<1> QED
  BY <1>4, <1>5, <1>6, <1>7 DEF Owned

LEMMA ClaimsFitStep ==
  ASSUME Shape, Moves, NEW r \in Runs, RowInv(r)
  PROVE  ClaimsFit(r)'
<1> USE DEF RowInv
<1>1. rows[r] \in Row
  BY DEF Shape, TypeOK
<1>2. RowMove(r)
  BY DEF Moves, RowsMove
<1>3. CASE rows'[r] = rows[r]
  BY <1>3 DEF ClaimsFit
<1>4. CASE Begun(r)
  BY <1>1, <1>4 DEF Begun, ClaimsFit, Owned, NoRow, Row
<1>5. CASE ByStarter(r)
  <2>1. rows[r].claim = NoClaim /\ ~rows[r].stale
    BY <1>5 DEF ByStarter, Owned, ClaimsFit
  <2> QED
    BY <1>1, <1>5, <2>1 DEF ByStarter, Parked, Completed, Failed, ClaimsFit, Row
<1>6. CASE ByAnswer(r)
  BY <1>1, <1>6 DEF ByAnswer, Resolved, ClaimsFit, Row
<1>7. CASE ByTimeout(r)
  <2>1. rows[r].claim = NoClaim /\ ~rows[r].stale
    BY <1>7 DEF ByTimeout, ClaimsFit
  <2> QED
    BY <1>1, <1>7, <2>1 DEF ByTimeout, TimeoutOutcomes, Failed, Cleared, ClaimsFit, Row
<1>8. CASE ByRequeue(r)
  BY <1>1, <1>8 DEF ByRequeue, Requeued, ClaimsFit, Row
<1>9. CASE ByAbandon(r)
  BY <1>1, <1>9 DEF ByAbandon, AbandonOutcomes, Abandoned, Exists, Failed, Cleared,
     ClaimsFit, Owned, Row
<1>10. CASE ByClaim(r)
  BY <1>1, <1>10, NullAssumption DEF ByClaim, Claimed, Resumable, ClaimsFit, AnswersFit, Row
<1>11. CASE ByOwner(r)
  BY <1>1, <1>11 DEF ByOwner, ClaimHolds, MayPark, Parked, Finished, Cleared,
     ClaimsFit, Row, Shape, BusyWorkers
<1>12. CASE ByClock(r)
  BY <1>1, <1>12 DEF ByClock, ClaimsFit, Row
<1>13. CASE ByDelete(r)
  BY <1>13 DEF ByDelete, NoRow, ClaimsFit
<1> QED
  BY <1>2, <1>3, <1>4, <1>5, <1>6, <1>7, <1>8, <1>9, <1>10, <1>11, <1>12, <1>13
     DEF RowMove

LEMMA AnswersFitStep ==
  ASSUME Shape, Moves, NEW r \in Runs, RowInv(r)
  PROVE  AnswersFit(r)'
<1> USE DEF RowInv
<1>1. rows[r] \in Row
  BY DEF Shape, TypeOK
<1>2. RowMove(r)
  BY DEF Moves, RowsMove
<1>3. NoAnswer \notin Answers
  BY GateFacts DEF NoAnswer, Answers
<1>4. CASE rows'[r] = rows[r]
  BY <1>4 DEF AnswersFit
<1>5. CASE Begun(r) \/ ByClaim(r) \/ ByDelete(r)
  BY <1>1, <1>5 DEF Begun, ByClaim, ByDelete, Claimed, NoRow, AnswersFit, Row
<1>6. CASE ByStarter(r)
  BY <1>1, <1>6 DEF ByStarter, Parked, Completed, Failed, AnswersFit, Row
<1>7. CASE ByAnswer(r)
  BY <1>1, <1>3, <1>7 DEF ByAnswer, Resolved, AnswersFit, Row
<1>8. CASE ByTimeout(r)
  BY <1>1, <1>8 DEF ByTimeout, TimeoutOutcomes, Failed, Cleared, AnswersFit, Row
<1>9. CASE ByRequeue(r)
  BY <1>1, <1>9 DEF ByRequeue, Requeued, Stranded, ClaimsFit, AnswersFit, Row
<1>10. CASE ByAbandon(r)
  BY <1>1, <1>10 DEF ByAbandon, AbandonOutcomes, Abandoned, Failed, Cleared, AnswersFit, Row
<1>11. CASE ByOwner(r)
  BY <1>1, <1>11 DEF ByOwner, ClaimHolds, Parked, Finished, Cleared, AnswersFit, Row
<1>12. CASE ByClock(r)
  BY <1>1, <1>12 DEF ByClock, AnswersFit, Row
<1> QED
  BY <1>2, <1>4, <1>5, <1>6, <1>7, <1>8, <1>9, <1>10, <1>11, <1>12 DEF RowMove

LEMMA ArtifactsFitStep ==
  ASSUME Shape, Moves, NEW r \in Runs, RowInv(r)
  PROVE  ArtifactsFit(r)'
<1> USE DEF RowInv
<1>1. rows[r] \in Row
  BY DEF Shape, TypeOK
<1>2. RowMove(r)
  BY DEF Moves, RowsMove
<1>3. CASE rows'[r] = rows[r]
  BY <1>3 DEF ArtifactsFit
<1>4. CASE Begun(r) \/ ByClaim(r) \/ ByRequeue(r) \/ ByAnswer(r)
  BY <1>1, <1>4 DEF Begun, ByClaim, ByRequeue, ByAnswer, Claimed, Requeued, Resolved,
     Resumable, Stranded, ArtifactsFit, Row
<1>5. CASE ByStarter(r)
  <2>1. rows[r].claim = NoClaim /\ (rows[r].artifacts = 0 \/ ~Exists(rows[r]))
    BY <1>5 DEF ByStarter, Owned, ClaimsFit, Exists
  <2>2. ASSUME Exists(rows[r]), rows'[r] = Completed(rows[r]) PROVE ArtifactsFit(r)'
    <3>1. rows'[r].artifacts = 1 /\ rows'[r].status = "done" /\ rows'[r].claim = NoClaim
      BY <1>1, <2>1, <2>2 DEF Completed, Row
    <3> QED
      BY <3>1 DEF ArtifactsFit
  <2>3. ASSUME Exists(rows[r]), rows'[r] = Failed(rows[r]) PROVE ArtifactsFit(r)'
    BY <1>1, <2>1, <2>3 DEF Failed, ArtifactsFit, Row
  <2>4. ASSUME ~Exists(rows[r]) PROVE rows'[r] = rows[r]
    BY <1>5, <2>4 DEF ByStarter, Completed, Failed
  <2>5. ASSUME Exists(rows[r]), NEW gate \in Gates, NEW payload \in GateOrNone,
               NEW policy \in AllPolicies,
               rows'[r] = Parked(rows[r], gate, payload, policy)
        PROVE  ArtifactsFit(r)'
    BY <1>1, <2>1, <2>5 DEF Parked, ArtifactsFit, Row
  <2> QED
    BY <1>3, <1>5, <2>2, <2>3, <2>4, <2>5 DEF ByStarter
<1>6. CASE ByTimeout(r)
  BY <1>1, <1>6 DEF ByTimeout, TimeoutOutcomes, Failed, Cleared, ArtifactsFit, Row
<1>7. CASE ByAbandon(r)
  BY ZenonT(40), <1>1, <1>7 DEF ByAbandon, AbandonOutcomes, Abandoned, Failed, Cleared, ArtifactsFit, Row
<1>8. CASE ByOwner(r)
  <2>1. PICK w \in Workers :
          /\ work[w].claim \in Tokens
          /\ \/ /\ ClaimHolds(rows[r], work[w].claim)
                /\ \/ rows'[r] = [rows[r] EXCEPT !.stale = FALSE]
                   \/ \E ok \in BOOLEAN : rows'[r] = Finished(rows[r], ok)
             \/ /\ MayPark(rows[r], work[w].claim)
                /\ \E gate \in Gates, policy \in AllPolicies :
                     rows'[r] = Parked(rows[r], gate, gate, policy)
    BY <1>8 DEF ByOwner, Shape, BusyWorkers
  <2>2. rows[r].artifacts = 0
    BY <2>1, NullAssumption DEF ClaimHolds, MayPark, ArtifactsFit
  <2>3. ASSUME NEW ok \in BOOLEAN, rows'[r] = Finished(rows[r], ok)
        PROVE  /\ rows'[r].artifacts \in {0, 1} /\ rows'[r].claim = NoClaim
               /\ rows'[r].status \in {"done", "error"}
    BY <1>1, <2>2, <2>3 DEF Finished, Cleared, Row
  <2>4. ASSUME \/ rows'[r] = [rows[r] EXCEPT !.stale = FALSE]
               \/ \E gate \in Gates, policy \in AllPolicies :
                    rows'[r] = Parked(rows[r], gate, gate, policy)
        PROVE  rows'[r].artifacts = 0
    BY <1>1, <2>2, <2>4 DEF Parked, Row
  <2> QED
    BY <2>1, <2>3, <2>4 DEF ArtifactsFit
<1>9. CASE ByClock(r)
  BY <1>1, <1>9 DEF ByClock, ArtifactsFit, Row
<1>10. CASE ByDelete(r)
  BY <1>10 DEF ByDelete, NoRow, ArtifactsFit
<1> QED
  BY <1>2, <1>3, <1>4, <1>5, <1>6, <1>7, <1>8, <1>9, <1>10 DEF RowMove

LEMMA RowsInvStep ==
  ASSUME Shape, RowsInv, [Next]_vars PROVE RowsInv'
<1>1. Moves
  BY NextMoves
<1>2. ASSUME NEW r \in Runs PROVE RowInv(r)'
  <2>1. RowInv(r)
    BY DEF RowsInv
  <2> QED
    BY <1>1, <2>1, OwnedStep, ClaimsFitStep, AnswersFitStep, ArtifactsFitStep DEF RowInv
<1> QED
  BY <1>2 DEF RowsInv

LEMMA RowsInvariant == Spec => [](Shape /\ RowsInv)
<1>1. Init => RowsInv
  BY DEF Init, RowsInv, RowInv, Owned, ClaimsFit, AnswersFit, ArtifactsFit, Touched,
     NoRow, Idle, Asleep
<1> QED
  BY <1>1, ShapeInvariant, RowsInvStep, PTL DEF Spec

-----------------------------------------------------------------------------
(* The requeue never exceeds the limit, and a kick replays the row *)

\* A poll works on a resume only in the last loop of its tick.
PollsWork == \A p \in Procs : work[p].pc # "idle" => tick[p].phase = "resume"

\* The requeue loop lists runs with attempts left; as the loop does not yield
\* and no claim ages meanwhile, that still holds of those it will requeue.
RequeueFits ==
  \A p \in Procs : tick[p].phase = "requeue" =>
    \A item \in tick[p].todo :
      Stranded(rows[item.run]) => rows[item.run].attempts < MaxAttempts

\* What a resumed run keeps until it is over or waits again.
Findable(r) ==
  /\ rows[r].status = "running" /\ rows[r].gate # 0 =>
       /\ rows[r].payload # 0 /\ rows[r].claim # NoClaim
       /\ rows[r].attempts \in 1..MaxAttempts
  /\ rows[r].status = "resolved" => rows[r].attempts < MaxAttempts

AllFindable == \A r \in Runs : Findable(r)

\* While its claim is in the row, a kick has the row's payload and answer.
KickFits ==
  \A k \in Kicks :
    work[k].pc = "working" /\ rows[work[k].run].claim = work[k].claim =>
      /\ rows[work[k].run].payload = work[k].payload
      /\ rows[work[k].run].answer = work[k].answer

LEMMA PollsWorkStep ==
  ASSUME Shape, PollsWork, Moves
  PROVE  PollsWork'
<1> SUFFICES ASSUME NEW p \in Procs, work'[p].pc # "idle"
             PROVE  tick'[p].phase = "resume"
  BY DEF PollsWork
<1>1. WorkMove(p) /\ TickMove(p) /\ tick[p] \in Tick
  BY DEF Moves, WorkMoves, TicksMove, Workers, Shape, TypeOK
<1>2. p \notin Kicks
  BY WorkersAssumption
<1>3. CASE TakesClaim(p)
  BY <1>3 DEF TakesClaim
<1>4. CASE work'[p] = work[p]
  <2>1. tick[p].phase = "resume" /\ work'[p] # Idle
    BY <1>4 DEF PollsWork, Idle
  <2>2. \/ tick'[p] = tick[p]
        \/ \E item \in tick[p].todo : tick'[p] = [tick[p] EXCEPT !.todo = @ \ {item}]
    BY <1>1, <1>4, <2>1 DEF TickMove
  <2> QED
    BY <1>1, <2>1, <2>2 DEF Tick
<1> QED
  BY <1>1, <1>2, <1>3, <1>4 DEF WorkMove, Idle

\* A run that a step leaves stranded was stranded before, with the same
\* attempts, or has aged while every event loop was free.
LEMMA StrandedMove ==
  ASSUME ~DbFaults, Shape, Moves, NEW r \in Runs, RowInv(r), Stranded(rows'[r])
  PROVE  \/ Stranded(rows[r]) /\ rows'[r].attempts = rows[r].attempts
         \/ \A p \in Procs : LoopFree(p)
<1> USE DEF RowInv
<1>1. rows[r] \in Row
  BY DEF Shape, TypeOK
<1>2. RowMove(r)
  BY DEF Moves, RowsMove
<1>3. CASE rows'[r] = rows[r]
  BY <1>3
<1>4. CASE Begun(r)
  BY <1>1, <1>4 DEF Begun, Owned, NoRow, Stranded, Row
<1>5. CASE ByStarter(r)
  <2>1. \/ rows'[r] = rows[r]
        \/ rows'[r].status \in {"awaiting_human", "done", "error"}
    BY <1>1, <1>5 DEF ByStarter, Parked, Completed, Failed, Row
  <2> QED
    BY <1>3, <2>1 DEF Stranded
<1>6. CASE ByAnswer(r) \/ ByRequeue(r) \/ ByDelete(r)
  <2>1. rows'[r].status \in {"resolved", "deleted"}
    BY <1>1, <1>6 DEF ByAnswer, ByRequeue, ByDelete, Resolved, Requeued, NoRow, Row
  <2> QED
    BY <2>1 DEF Stranded
<1>7. CASE ByTimeout(r)
  BY <1>1, <1>7 DEF ByTimeout, TimeoutOutcomes, Failed, Cleared, Stranded, Row
<1>8. CASE ByAbandon(r)
  BY <1>1, <1>3, <1>8 DEF ByAbandon, AbandonOutcomes, Abandoned, Failed, Cleared, Stranded, Row
<1>9. CASE ByClaim(r)
  BY <1>1, <1>9 DEF ByClaim, Claimed, Stranded, Row
<1>10. CASE ByOwner(r)
  <2>1. \/ rows'[r] = [rows[r] EXCEPT !.stale = FALSE]
        \/ \E ok \in BOOLEAN : rows'[r] = Finished(rows[r], ok)
        \/ \E gate \in Gates, policy \in AllPolicies :
             rows'[r] = Parked(rows[r], gate, gate, policy)
    BY <1>10 DEF ByOwner
  <2> QED
    BY <1>1, <2>1 DEF Finished, Cleared, Parked, Stranded, Row
<1>11. CASE ByClock(r)
  BY <1>1, <1>11 DEF ByClock, Stranded, Row
<1> QED
  BY <1>2, <1>3, <1>4, <1>5, <1>6, <1>7, <1>8, <1>9, <1>10, <1>11 DEF RowMove

LEMMA RequeueFitsStep ==
  ASSUME ~DbFaults, Shape, RowsInv, PollsWork, RequeueFits, Moves
  PROVE  RequeueFits'
<1> SUFFICES ASSUME NEW p \in Procs, tick'[p].phase = "requeue", NEW item \in tick'[p].todo,
                    Stranded(rows'[item.run])
             PROVE  rows'[item.run].attempts < MaxAttempts
  BY DEF RequeueFits
<1>1. TickMove(p) /\ tick[p] \in Tick
  BY DEF Moves, TicksMove, Shape, TypeOK
<1>2. CASE \/ tick'[p] = tick[p]
           \/ \E i \in tick[p].todo : tick'[p] = [tick[p] EXCEPT !.todo = @ \ {i}]
  <2>1. tick[p].phase = "requeue" /\ item \in tick[p].todo
    BY <1>1, <1>2 DEF Tick
  <2>2. ~LoopFree(p)
    BY <2>1 DEF PollsWork, LoopFree
  <2>3. item.run \in Runs
    BY <2>1, ItemFacts DEF Shape
  <2>4. Stranded(rows[item.run]) /\ rows'[item.run].attempts = rows[item.run].attempts
    BY <2>2, <2>3, StrandedMove DEF RowsInv
  <2> QED
    BY <2>1, <2>4 DEF RequeueFits
<1>3. CASE tick'[p] = Asleep
  BY <1>3 DEF Asleep
<1>4. CASE UNCHANGED rows /\ \E next \in Phases : tick'[p] = [phase |-> next, todo |-> Listing(next)]
  <2>1. item \in Listing("requeue")
    BY <1>4
  <2>2. PICK s \in Runs : Due("requeue", rows[s]) /\ item = Seen(s)
    BY <2>1 DEF Listing
  <2>3. item.run = s /\ rows[s].attempts < MaxAttempts
    BY <2>2 DEF Seen, Due
  <2> QED
    BY <1>4, <2>3
<1> QED
  BY <1>1, <1>2, <1>3, <1>4 DEF TickMove

LEMMA FindableStep ==
  ASSUME ~DbFaults, Shape, RequeueFits, Moves, NEW r \in Runs, RowInv(r), Findable(r)
  PROVE  Findable(r)'
<1> USE DEF RowInv
<1>1. rows[r] \in Row /\ rows[r].attempts \in Nat /\ MaxAttempts \in Nat \ {0}
  BY BoundsAssumption DEF Shape, TypeOK, Row
<1>2. RowMove(r)
  BY DEF Moves, RowsMove
<1>3. CASE rows'[r] = rows[r]
  BY <1>3 DEF Findable
<1>4. CASE Begun(r)
  BY <1>1, <1>4 DEF Begun, Owned, NoRow, Findable, Row
<1>5. CASE ByStarter(r)
  BY <1>1, <1>3, <1>5 DEF ByStarter, Parked, Completed, Failed, Findable, Row
<1>6. CASE ByAnswer(r)
  BY <1>1, <1>6 DEF ByAnswer, Resolved, AnswersFit, Findable, Row
<1>7. CASE ByTimeout(r)
  <2>1. PICK policy \in AllPolicies : rows'[r] \in TimeoutOutcomes(rows[r], policy)
    BY <1>7 DEF ByTimeout
  <2> DEFINE timedOut == [rows[r] EXCEPT !.status = "timed_out"]
  <2>2. timedOut.status = "timed_out" /\ timedOut \in Row
    BY <1>1 DEF Row, Statuses
  <2>3. rows'[r] \in {Cleared(Failed(timedOut)), Cleared(timedOut)}
    BY <1>7, <2>1 DEF ByTimeout, TimeoutOutcomes
  <2> HIDE DEF timedOut
  <2>4. rows'[r].status \in {"error", "timed_out"}
    BY <2>2, <2>3 DEF Cleared, Failed, Row
  <2> QED
    BY <2>4 DEF Findable
<1>8. CASE ByRequeue(r)
  <2>1. rows[r].attempts < MaxAttempts
    BY <1>8 DEF ByRequeue, RequeueFits
  <2> QED
    BY <1>1, <1>8, <2>1 DEF ByRequeue, Requeued, Findable, Row
<1>9. CASE ByAbandon(r)
  BY <1>1, <1>3, <1>9 DEF ByAbandon, AbandonOutcomes, Abandoned, Failed, Cleared, Findable, Row
<1>10. CASE ByClaim(r)
  <2>1. PICK token \in Tokens : rows'[r] = Claimed(rows[r], token)
    BY <1>10 DEF ByClaim
  <2>2. rows[r].attempts < MaxAttempts /\ rows[r].payload # 0
    BY <1>10 DEF ByClaim, Resumable, Findable
  <2>3. /\ rows'[r].status = "running" /\ rows'[r].payload = rows[r].payload
        /\ rows'[r].claim = token /\ rows'[r].attempts = rows[r].attempts + 1
    BY <1>1, <2>1 DEF Claimed, Row
  <2>4. rows[r].attempts + 1 \in 1..MaxAttempts
    BY <1>1, <2>2
  <2>5. token # NoClaim
    BY NullAssumption
  <2> QED
    BY <2>2, <2>3, <2>4, <2>5 DEF Findable
<1>11. CASE ByOwner(r)
  <2>1. \/ rows'[r] = [rows[r] EXCEPT !.stale = FALSE]
        \/ \E ok \in BOOLEAN : rows'[r] = Finished(rows[r], ok)
        \/ \E gate \in Gates, policy \in AllPolicies :
             rows'[r] = Parked(rows[r], gate, gate, policy)
    BY <1>11 DEF ByOwner
  <2>2. CASE rows'[r] = [rows[r] EXCEPT !.stale = FALSE]
    BY <1>1, <2>2 DEF Findable, Row
  <2>3. CASE \E ok \in BOOLEAN : rows'[r] = Finished(rows[r], ok)
    <3>1. rows'[r].status \in {"done", "error"}
      BY <1>1, <2>3 DEF Finished, Cleared, Row
    <3> QED
      BY <3>1 DEF Findable
  <2>4. CASE \E gate \in Gates, policy \in AllPolicies :
               rows'[r] = Parked(rows[r], gate, gate, policy)
    <3>1. rows'[r].status = "awaiting_human"
      BY <1>1, <2>4 DEF Parked, Row
    <3> QED
      BY <3>1 DEF Findable
  <2> QED
    BY <2>1, <2>2, <2>3, <2>4
<1>12. CASE ByClock(r)
  BY <1>1, <1>12 DEF ByClock, Findable, Row
<1>13. CASE ByDelete(r)
  BY <1>13 DEF ByDelete, NoRow, Findable
<1> QED
  BY <1>2, <1>3, <1>4, <1>5, <1>6, <1>7, <1>8, <1>9, <1>10, <1>11, <1>12, <1>13 DEF RowMove

\* A move of a run that a kick works on keeps what the kick replays, or takes
\* the claim away.
LEMMA ReplayedMove ==
  ASSUME Shape, Moves, NEW k \in Kicks, NEW r \in Runs, RowInv(r),
         work[k].pc = "working", work[k].run = r, rows'[r].claim = work[k].claim
  PROVE  /\ rows[r].claim = work[k].claim
         /\ rows'[r].payload = rows[r].payload /\ rows'[r].answer = rows[r].answer
<1> USE DEF RowInv
<1>1. rows[r] \in Row /\ RowMove(r)
  BY DEF Shape, TypeOK, Moves, RowsMove
<1>2. k \in Workers
  BY DEF Workers
<1>3. work[k].claim \in Tokens /\ work[k].claim # NoClaim /\ Touched(r)
  BY <1>2, NullAssumption DEF Shape, BusyWorkers, Touched
<1>4. ~Begun(r) /\ ~ByStarter(r)
  BY <1>3 DEF Owned, Begun, ByStarter
<1>5. CASE rows'[r] = rows[r]
  BY <1>5
<1>6. CASE ByAnswer(r) \/ ByTimeout(r) \/ ByRequeue(r) \/ ByDelete(r)
  <2>1. rows'[r].claim = NoClaim
    BY <1>1, <1>6 DEF ByAnswer, ByTimeout, ByRequeue, ByDelete, Resolved, TimeoutOutcomes,
       Failed, Cleared, Requeued, NoRow, ClaimsFit, Row
  <2> QED
    BY <1>3, <2>1
<1>7. CASE ByAbandon(r)
  <2>1. \/ rows'[r] \in {rows[r], Failed(rows[r])}
        \/ rows'[r] \in {Cleared(rows[r]), Cleared(Failed(rows[r]))}
    BY <1>7 DEF ByAbandon, AbandonOutcomes, Abandoned
  <2>2. Cleared(rows[r]).claim = NoClaim /\ Cleared(Failed(rows[r])).claim = NoClaim
    BY <1>1 DEF Cleared, Failed, Row
  <2> QED
    BY <1>1, <1>3, <2>1, <2>2 DEF Failed, Row
<1>8. CASE ByClaim(r)
  <2>1. PICK token \in Tokens : Fresh(token) /\ rows'[r] = Claimed(rows[r], token)
    BY <1>8 DEF ByClaim
  <2>2. rows'[r].claim = token /\ work[k].claim # token
    BY <1>1, <1>2, <2>1 DEF Claimed, Row, Fresh
  <2> QED
    BY <2>2
<1>9. CASE ByOwner(r)
  <2>1. \/ rows'[r] = [rows[r] EXCEPT !.stale = FALSE]
        \/ \E ok \in BOOLEAN : rows'[r] = Finished(rows[r], ok)
        \/ \E gate \in Gates, policy \in AllPolicies :
             rows'[r] = Parked(rows[r], gate, gate, policy)
    BY <1>9 DEF ByOwner
  <2> QED
    BY <1>1, <1>3, <2>1 DEF Finished, Cleared, Parked, Row
<1>10. CASE ByClock(r)
  BY <1>1, <1>10 DEF ByClock, Row
<1> QED
  BY <1>1, <1>4, <1>5, <1>6, <1>7, <1>8, <1>9, <1>10 DEF RowMove

LEMMA KickFitsStep ==
  ASSUME Shape, RowsInv, KickFits, Moves
  PROVE  KickFits'
<1> SUFFICES ASSUME NEW k \in Kicks, work'[k].pc = "working",
                    rows'[work'[k].run].claim = work'[k].claim
             PROVE  /\ rows'[work'[k].run].payload = work'[k].payload
                    /\ rows'[work'[k].run].answer = work'[k].answer
  BY DEF KickFits
<1>1. k \in Workers
  BY DEF Workers
<1>2. WorkMove(k)
  BY <1>1 DEF Moves, WorkMoves
<1>3. CASE work'[k] = work[k]
  <2>1. work[k].run \in Runs /\ RowInv(work[k].run)
    BY <1>1, <1>3 DEF Shape, BusyWorkers, RowsInv
  <2> QED
    BY <1>3, <2>1, ReplayedMove DEF KickFits
<1>4. CASE TakesClaim(k)
  <2>1. PICK r \in Runs, token \in Tokens :
          /\ rows' = [rows EXCEPT ![r] = Claimed(rows[r], token)]
          /\ work' = [work EXCEPT ![k] =
                        [pc |-> "working", run |-> r, claim |-> token,
                         payload |-> rows[r].payload, answer |-> rows[r].answer]]
    BY <1>4 DEF TakesClaim
  <2>2. rows[r] \in Row /\ rows'[r] = Claimed(rows[r], token)
    BY <2>1 DEF Shape, TypeOK
  <2>3. rows'[r].payload = rows[r].payload /\ rows'[r].answer = rows[r].answer
    BY <2>2 DEF Claimed, Row
  <2>4. /\ work'[k].run = r
        /\ work'[k].payload = rows[r].payload /\ work'[k].answer = rows[r].answer
    BY <1>1, <2>1 DEF Shape, TypeOK
  <2> QED
    BY <2>3, <2>4
<1>5. Idle.pc # "working" /\ \A r \in Runs : Queued(r).pc # "working"
  BY DEF Idle, Queued
<1> QED
  BY <1>2, <1>3, <1>4, <1>5 DEF WorkMove

-----------------------------------------------------------------------------
(* What follows *)

\* The unguarded writes of the code that starts a run are safe: until it has
\* parked, ended or been cancelled, nobody else has written to the row.
THEOREM StarterOwns == Spec => []StarterOwnsTheRow
<1>1. RowsInv => StarterOwnsTheRow
  BY DEF RowsInv, RowInv, Owned, StarterOwnsTheRow
<1> QED
  BY <1>1, RowsInvariant, PTL

\* A run that waits for a person carries nothing of an earlier gate.
THEOREM WaitingClean == Spec => []WaitingRunsAreClean
<1>1. RowsInv => WaitingRunsAreClean
  BY DEF RowsInv, RowInv, ClaimsFit, AnswersFit, WaitingRunsAreClean
<1> QED
  BY <1>1, RowsInvariant, PTL

\* Without database faults, a run that has been through a gate and runs never
\* drops out of the sweep's queries, nor do its retries exceed the limit.
THEOREM ResumedFindable == ~DbFaults => (Spec => []ResumedRunsAreFindable)
<1> SUFFICES ASSUME ~DbFaults PROVE Spec => []ResumedRunsAreFindable
  OBVIOUS
<1>1. Init => PollsWork /\ RequeueFits /\ AllFindable
  BY DEF Init, PollsWork, RequeueFits, AllFindable, Findable, Idle, Asleep, NoRow, Workers
<1>2. ASSUME Shape, RowsInv, PollsWork, RequeueFits, AllFindable, [Next]_vars
      PROVE  PollsWork' /\ RequeueFits' /\ AllFindable'
  <2>1. Moves
    BY <1>2, NextMoves
  <2>2. PollsWork' /\ RequeueFits'
    BY <1>2, <2>1, PollsWorkStep, RequeueFitsStep
  <2>3. \A r \in Runs : Findable(r)'
    BY <1>2, <2>1, FindableStep DEF RowsInv, AllFindable
  <2> QED
    BY <2>2, <2>3 DEF AllFindable
<1>3. AllFindable => ResumedRunsAreFindable
  BY DEF AllFindable, Findable, ResumedRunsAreFindable
<1> QED
  BY <1>1, <1>2, <1>3, RowsInvariant, PTL DEF Spec

\* A kick task whose claim holds replays what is in the row, whatever crashes
\* and database faults: no answer to an earlier gate, no older payload.
THEOREM KicksReplay == Spec => []KicksReplayTheRow
<1>1. Init => KickFits
  BY DEF Init, KickFits, Idle, Workers
<1>2. ASSUME Shape, RowsInv, KickFits, [Next]_vars
      PROVE  KickFits'
  BY <1>2, NextMoves, KickFitsStep
<1>3. KickFits => KicksReplayTheRow
  BY DEF KickFits, KicksReplayTheRow, Holds, ClaimHolds
<1> QED
  BY <1>1, <1>2, <1>3, RowsInvariant, PTL DEF Spec

\* No interleaving, crash or database fault makes a run deliver twice.
THEOREM DeliversOnce == Spec => []OneArtifact
<1>1. RowsInv => OneArtifact
  BY DEF RowsInv, RowInv, ArtifactsFit, OneArtifact
<1> QED
  BY <1>1, RowsInvariant, PTL

\* An accepted answer is neither discarded by a timeout nor replaced.
THEOREM AcceptedStands == Spec => AcceptedAnswersStand
<1>1. ASSUME Shape, RowsInv, [Next]_vars, NEW r \in Runs, rows[r].status = "resolved"
      PROVE  /\ rows'[r].status # "timed_out"
             /\ rows'[r].answer = rows[r].answer \/ rows'[r].status = "deleted"
  <2>1. RowMove(r) /\ RowInv(r) /\ rows[r] \in Row
    BY <1>1, NextMoves DEF Moves, RowsMove, RowsInv, Shape, TypeOK
  <2>2. ~ByStarter(r) /\ ~ByOwner(r)
    BY <1>1, <2>1, NullAssumption DEF RowInv, Owned, ClaimsFit, ByStarter, ByOwner,
       ClaimHolds, MayPark, Shape, BusyWorkers
  <2>3. ~Begun(r) /\ ~ByAnswer(r) /\ ~ByTimeout(r) /\ ~ByRequeue(r) /\ ~ByClock(r)
    BY <1>1 DEF Begun, ByAnswer, ByTimeout, ByRequeue, Stranded, ByClock
  <2>4. CASE rows'[r] = rows[r]
    BY <1>1, <2>4
  <2>5. CASE ByAbandon(r)
    BY <1>1, <2>1, <2>5 DEF ByAbandon, AbandonOutcomes, Abandoned, Failed, Cleared, Row
  <2>6. CASE ByClaim(r)
    BY <1>1, <2>1, <2>6 DEF ByClaim, Claimed, Row
  <2>7. CASE ByDelete(r)
    BY <1>1, <2>7 DEF ByDelete, NoRow
  <2> QED
    BY <2>1, <2>2, <2>3, <2>4, <2>5, <2>6, <2>7 DEF RowMove
<1>2. ASSUME Shape, RowsInv, [Next]_vars
      PROVE  [\A r \in Runs : rows[r].status = "resolved" =>
                /\ rows'[r].status # "timed_out"
                /\ rows'[r].answer = rows[r].answer \/ rows'[r].status = "deleted"]_rows
  BY <1>1, <1>2
<1> QED
  BY <1>2, RowsInvariant, PTL DEF Spec, AcceptedAnswersStand

\* As long as no database error loses half of an abandon or of a timeout, a
\* run that is over is never worked on again.
THEOREM OverStays == ~DbFaults => (Spec => OverStaysOver)
<1> SUFFICES ASSUME ~DbFaults PROVE Spec => OverStaysOver
  OBVIOUS
<1>1. ASSUME Shape, RowsInv, [Next]_vars, NEW r \in Runs, rows[r].status \in Terminal
      PROVE  rows'[r].status \in Terminal \union {"deleted"}
  <2>1. RowMove(r) /\ RowInv(r) /\ rows[r] \in Row
    BY <1>1, NextMoves DEF Moves, RowsMove, RowsInv, Shape, TypeOK
  <2>2. ~ByStarter(r) /\ ~ByOwner(r)
    BY <1>1, <2>1, NullAssumption DEF RowInv, Owned, ClaimsFit, ByStarter, ByOwner,
       ClaimHolds, MayPark, Shape, BusyWorkers, Terminal
  <2>3. ~Begun(r) /\ ~ByAnswer(r) /\ ~ByTimeout(r) /\ ~ByRequeue(r) /\ ~ByClock(r)
          /\ ~ByClaim(r)
    BY <1>1 DEF Begun, ByAnswer, ByTimeout, ByRequeue, Stranded, ByClock, ByClaim,
       Resumable, Terminal
  <2>4. CASE rows'[r] = rows[r]
    BY <1>1, <2>4
  <2>5. CASE ByAbandon(r)
    BY <1>1, <2>1, <2>5 DEF ByAbandon, AbandonOutcomes, Abandoned, Failed, Cleared, Row,
       Terminal
  <2>6. CASE ByDelete(r)
    BY <2>6 DEF ByDelete, NoRow
  <2> QED
    BY <2>1, <2>2, <2>3, <2>4, <2>5, <2>6 DEF RowMove
<1>2. ASSUME Shape, RowsInv, [Next]_vars
      PROVE  [\A r \in Runs : rows[r].status \in Terminal =>
                rows'[r].status \in Terminal \union {"deleted"}]_rows
  BY <1>1, <1>2
<1> QED
  BY <1>2, RowsInvariant, PTL DEF Spec, OverStaysOver

-----------------------------------------------------------------------------
(* Refinement *)

\* One run's move is a move of its life, or a stutter: the phase and the
\* verdict it had and has.
LifeMove(r) ==
  LET from == PhaseOf(rows[r])
      to == PhaseOf(rows'[r])
      kept == rows'[r].answer = rows[r].answer IN
  \/ from = to /\ kept
  \/ from = "new" /\ to = "working" /\ kept
  \/ from = "working" /\ to = "asking" /\ rows'[r].answer = NoAnswer
  \/ from = "asking" /\ to = "answered" /\ rows'[r].answer \in Answers
  \/ from = "answered" /\ to = "working" /\ kept
  \/ from = "working" /\ to = "answered" /\ kept /\ rows[r].answer \in Answers
  \/ from \in {"working", "asking", "answered"} /\ to = "over" /\ kept
  \/ from \notin {"new", "gone"} /\ to = "gone" /\ rows'[r].answer = NoAnswer

LEMMA LifeMoves ==
  ASSUME ~DbFaults, Shape, Moves, NEW r \in Runs, RowInv(r)
  PROVE  LifeMove(r)
<1> USE DEF RowInv
<1>1. rows[r] \in Row /\ RowMove(r) /\ rows[r].answer \in Answers \union {NoAnswer}
  BY DEF Shape, TypeOK, Moves, RowsMove, Row, AnswerOrNone
<1>2. CASE rows'[r] = rows[r]
  BY <1>2 DEF LifeMove
<1>3. CASE Begun(r)
  BY <1>1, <1>3 DEF Begun, LifeMove, PhaseOf, Row
<1>4. CASE ByStarter(r)
  <2>1. rows[r].status \in {"running", "deleted"}
    BY <1>4 DEF ByStarter, Owned
  <2> QED
    BY ZenonT(40), <1>1, <1>4, <2>1 DEF ByStarter, Parked, Completed, Failed, Exists, LifeMove,
       PhaseOf, Row
<1>5. CASE ByAnswer(r)
  BY <1>1, <1>5 DEF ByAnswer, Resolved, LifeMove, PhaseOf, Row
<1>6. CASE ByTimeout(r)
  BY ZenonT(40), <1>1, <1>6 DEF ByTimeout, TimeoutOutcomes, Failed, Cleared, Exists, LifeMove,
     PhaseOf, Row
<1>7. CASE ByRequeue(r)
  <2>1. rows[r].answer \in Answers
    BY <1>1, <1>7 DEF ByRequeue, Stranded, ClaimsFit
  <2> QED
    BY <1>1, <1>7, <2>1 DEF ByRequeue, Requeued, Stranded, LifeMove, PhaseOf, Row
<1>8. CASE ByAbandon(r)
  <2>1. rows'[r] = Abandoned(rows[r]) /\ rows[r].status # "none"
    BY <1>8 DEF ByAbandon, AbandonOutcomes, Owned
  <2> QED
    BY <1>1, <2>1 DEF Abandoned, Failed, Cleared, Exists, LifeMove, PhaseOf, Row, Statuses
<1>9. CASE ByClaim(r)
  BY <1>1, <1>9 DEF ByClaim, Claimed, Resumable, LifeMove, PhaseOf, Row
<1>10. CASE ByOwner(r)
  <2>1. rows[r].status = "running"
    BY <1>10, NullAssumption DEF ByOwner, ClaimHolds, MayPark, ClaimsFit, Shape, BusyWorkers
  <2>2. ASSUME NEW ok \in BOOLEAN, rows'[r] = Finished(rows[r], ok) PROVE LifeMove(r)
    BY <1>1, <2>1, <2>2 DEF Finished, Cleared, LifeMove, PhaseOf, Row
  <2>3. ASSUME NEW gate \in Gates, NEW policy \in AllPolicies,
               rows'[r] = Parked(rows[r], gate, gate, policy)
        PROVE  LifeMove(r)
    BY <1>1, <2>1, <2>3 DEF Parked, LifeMove, PhaseOf, Row
  <2>4. ASSUME rows'[r] = [rows[r] EXCEPT !.stale = FALSE] PROVE LifeMove(r)
    BY <1>1, <2>1, <2>4 DEF LifeMove, PhaseOf, Row
  <2> QED
    BY <1>10, <2>2, <2>3, <2>4 DEF ByOwner
<1>11. CASE ByClock(r)
  BY <1>1, <1>11 DEF ByClock, LifeMove, PhaseOf, Row
<1>12. CASE ByDelete(r)
  BY <1>1, <1>12 DEF ByDelete, NoRow, Exists, LifeMove, PhaseOf, Row, Statuses
<1> QED
  BY <1>1, <1>2, <1>3, <1>4, <1>5, <1>6, <1>7, <1>8, <1>9, <1>10, <1>11, <1>12
     DEF RowMove

\* A step of the system moves the life of at most one run.
LEMMA LifeStep ==
  ASSUME ~DbFaults, Shape, RowsInv, [Next]_vars
  PROVE  [Life!LifeNext]_(Life!lifeVars)
<1> DEFINE phase == [r \in Runs |-> PhaseOf(rows[r])]
           verdict == [r \in Runs |-> rows[r].answer]
<1>1. Moves /\ \A r \in Runs : LifeMove(r)
  BY NextMoves, LifeMoves DEF RowsInv
<1>2. CASE \A r \in Runs : rows'[r] = rows[r]
  BY <1>1, <1>2 DEF Life!lifeVars
<1>3. CASE \E r \in Runs : rows'[r] # rows[r]
  <2>1. PICK r \in Runs : rows'[r] # rows[r]
    BY <1>3
  <2>2. \A s \in Runs : s # r => rows'[s] = rows[s]
    BY <1>1, <2>1 DEF Moves, RowsMove
  <2>3. /\ phase' = [phase EXCEPT ![r] = PhaseOf(rows'[r])]
        /\ verdict' = [verdict EXCEPT ![r] = rows'[r].answer]
    BY <2>2
  <2>4. LifeMove(r)
    BY <1>1
  <2>5. phase[r] = PhaseOf(rows[r]) /\ verdict[r] = rows[r].answer
    OBVIOUS
  <2>6. rows'[r].answer = rows[r].answer => verdict' = verdict
    BY <2>2
  <2>7. PhaseOf(rows'[r]) = PhaseOf(rows[r]) => phase' = phase
    BY <2>2
  <2>8. PhaseOf(rows[r]) \in Life!LifePhases
    BY DEF PhaseOf, Life!LifePhases
  <2> QED
    BY <2>3, <2>4, <2>5, <2>6, <2>7, <2>8
       DEF LifeMove, Life!LifeNext, Life!lifeVars, Life!Begin, Life!Ask, Life!Answer,
           Life!Proceed, Life!Redo, Life!Close, Life!Remove, Life!Move
<1> QED
  BY <1>2, <1>3

\* Without database faults the table implements the life cycle of
\* RunLifecycle: asked, answered once, worked on from that answer, over once.
THEOREM Implements == ~DbFaults => (Spec => ImplementsLifecycle)
<1> SUFFICES ASSUME ~DbFaults PROVE Spec => ImplementsLifecycle
  OBVIOUS
<1>1. Init => Life!LifeInit
  BY DEF Init, NoRow, PhaseOf, Life!LifeInit
<1>2. Shape /\ RowsInv /\ [Next]_vars => [Life!LifeNext]_(Life!lifeVars)
  BY LifeStep
<1> QED
  BY <1>1, <1>2, RowsInvariant, PTL DEF Spec, ImplementsLifecycle, Life!LifeSpec

=============================================================================
