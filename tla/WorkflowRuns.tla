---------------------------- MODULE WorkflowRuns ----------------------------
(***************************************************************************)
(* Workflow runs and their human gates: the workflow_runs table            *)
(* (workflows/persistence.py), the code that starts a run and parks it at  *)
(* a gate (workflows/gate.py, api/routes/workflows.py), the chat or web    *)
(* answer that resolves the gate (workflows/inbound_resolver.py) and the   *)
(* resumer that carries the run on (workflows/resumer.py).                 *)
(*                                                                         *)
(* A process is one API server: one asyncio loop that runs the resumer's   *)
(* poll, kick tasks, inbound handlers and the generators of started runs.  *)
(* Its code interleaves only where it awaits (LoopFree); two processes on  *)
(* one database interleave at every statement.                             *)
(***************************************************************************)
EXTENDS Naturals, FiniteSets

CONSTANTS
  Runs,         \* run ids
  Procs,        \* API processes; a process also names its resumer poll
  Kicks,        \* kick tasks: apply_resolution starts at most this many at once
  Home,         \* the process each kick task runs in
  Tokens,       \* fencing tokens, uuid4 in the code
  NoClaim,      \* resume_claim IS NULL
  NoRun,        \* a worker with nothing to do
  NoProc,       \* a run whose first execution is over
  GateCount,    \* how many pauses the workflow definition has, in step order
  GateKind,     \* what each of them is (GateKinds below)
  MaxAttempts,  \* _MAX_RESUME_ATTEMPTS
  MaxReplies,   \* bound: replies being parsed at the same time
  MaxCrashes,   \* bound: process restarts
  Policies,     \* the on_timeout policies the gates use
  DbFaults      \* whether "database is locked" errors happen

Decisions == {"approve", "reject"}
AllPolicies == {"escalate", "auto_proceed", "fail"}

\* An approval gate wants a yes, a question only wants a reply, and an action
\* step may pause to have writes it holds approved ("held").
GateKinds == {"approval", "question", "held"}

Workers == Kicks \union Procs
Gates == 1..GateCount
GateOrNone == 0..GateCount

ASSUME WorkersAssumption ==
  /\ Home \in [Kicks -> Procs]
  /\ Kicks \intersect Procs = {}
ASSUME NullAssumption == NoClaim \notin Tokens /\ NoRun \notin Runs /\ NoProc \notin Procs
ASSUME DefinitionAssumption ==
  /\ GateCount \in Nat \ {0}
  /\ GateKind \in [Gates -> GateKinds]
ASSUME BoundsAssumption ==
  /\ MaxAttempts \in Nat \ {0}
  /\ MaxReplies \in Nat
  /\ MaxCrashes \in Nat
  /\ Policies \subseteq AllPolicies /\ Policies # {}
  /\ DbFaults \in BOOLEAN

VARIABLES
  rows,     \* the workflow_runs table
  driver,   \* the process executing a run's first part (workflow.run)
  work,     \* what each kick task and each poll is resuming
  tick,     \* where each process's resumer iteration is, and what it listed
  replies,  \* answers read against a gate and not yet recorded
  paused,   \* the executive_control switch
  crashes   \* restarts so far

vars == <<rows, driver, work, tick, replies, paused, crashes>>

-----------------------------------------------------------------------------
(* Data *)

Statuses == {"none", "running", "awaiting_human", "resolved", "timed_out",
             "done", "error", "deleted"}
Terminal == {"timed_out", "done", "error"}
\* resolution_json: what was decided, and the gate the person was answering.
Answers == [gate: Gates, decision: Decisions \union {"auto_proceed"}]
NoAnswer == [gate |-> 0, decision |-> "none"]
AnswerOrNone == Answers \union {NoAnswer}

\* Whether a run answered at gate goes on: an approval gate stops on
\* anything but CONTINUE_DECISIONS, the other kinds take every answer.
Continues(gate, answer) ==
  GateKind[gate] = "approval" => answer.decision \in {"approve", "auto_proceed"}

\* Where a run executing the steps after gate (0: from the start) can pause
\* next: an action step only pauses if it held something.
Passes(gate, upto) == \A g \in Gates : gate < g /\ g < upto => GateKind[g] = "held"
NextPauses(gate) == {g \in Gates : gate < g /\ Passes(gate, g)}
MayComplete(gate) == \A g \in Gates : gate < g => GateKind[g] = "held"

\* Held writes always go on when nobody answers.
PoliciesOf(gate) == IF GateKind[gate] = "held" THEN {"auto_proceed"} ELSE Policies

\* One workflow_runs row. gate identifies the checkpoint in state_json,
\* payload the gate resume_state_json resumes from (0: NULL), stale says
\* resumed_at is older than _RESUME_STALE_AFTER, expired that awaiting_until
\* has passed, artifacts counts the artifacts stored for the run.
Row == [status: Statuses, gate: GateOrNone, policy: AllPolicies,
        payload: GateOrNone, answer: AnswerOrNone,
        claim: Tokens \union {NoClaim}, attempts: Nat,
        stale: BOOLEAN, expired: BOOLEAN, artifacts: Nat]

NoRow == [status |-> "none", gate |-> 0, policy |-> "escalate", payload |-> 0,
          answer |-> NoAnswer, claim |-> NoClaim, attempts |-> 0,
          stale |-> FALSE, expired |-> FALSE, artifacts |-> 0]

Exists(row) == row.status \notin {"none", "deleted"}

\* A resume in flight: the claim it holds and the payload and answer it
\* replays, as they were when it loaded the row.
Work == [pc: {"idle", "queued", "working"}, run: Runs \union {NoRun},
         claim: Tokens \union {NoClaim}, payload: GateOrNone,
         answer: AnswerOrNone]
Idle == [pc |-> "idle", run |-> NoRun, claim |-> NoClaim, payload |-> 0,
         answer |-> NoAnswer]
Queued(r) == [Idle EXCEPT !.pc = "queued", !.run = r]

\* A row as a poll listed it.
Listed == [run: Runs, gate: GateOrNone, policy: AllPolicies,
           payload: GateOrNone, answer: AnswerOrNone]
Seen(r) == [run |-> r, gate |-> rows[r].gate, policy |-> rows[r].policy,
            payload |-> rows[r].payload, answer |-> rows[r].answer]

Phases == {"sleep", "timeouts", "requeue", "give_up", "resume"}
Tick == [phase: Phases, todo: SUBSET Listed]
Asleep == [phase |-> "sleep", todo |-> {}]

Reply == [proc: Procs, run: Runs, gate: Gates, decision: Decisions]

TypeOK ==
  /\ rows \in [Runs -> Row]
  /\ driver \in [Runs -> Procs \union {NoProc}]
  /\ work \in [Workers -> Work]
  /\ tick \in [Procs -> Tick]
  /\ replies \subseteq Reply
  /\ paused \in BOOLEAN
  /\ crashes \in Nat

Init ==
  /\ rows = [r \in Runs |-> NoRow]
  /\ driver = [r \in Runs |-> NoProc]
  /\ work = [w \in Workers |-> Idle]
  /\ tick = [p \in Procs |-> Asleep]
  /\ replies = {}
  /\ paused = FALSE
  /\ crashes = 0

-----------------------------------------------------------------------------
(* The statements of persistence.py, as functions of a row *)

ParkedUncleared(row, gate, payload, policy) ==  \* mutant
  [row EXCEPT !.status = "awaiting_human", !.gate = gate, !.policy = policy,
              !.payload = payload, !.expired = FALSE]

Parked(row, gate, payload, policy) ==
  [row EXCEPT !.status = "awaiting_human", !.gate = gate, !.policy = policy,
              !.payload = payload, !.answer = NoAnswer, !.claim = NoClaim,
              !.attempts = 0, !.stale = FALSE, !.expired = FALSE]

Resolved(row, answer) ==
  [row EXCEPT !.status = "resolved", !.answer = answer]

ResumableWithoutPayload(row) == row.status = "resolved"  \* mutant

Resumable(row) == row.status = "resolved" /\ row.payload # 0

Claimed(row, token) ==
  [row EXCEPT !.status = "running", !.claim = token, !.stale = FALSE,
              !.attempts = @ + 1]

ClaimIgnored(row, token) == Exists(row)  \* mutant

\* status and resume_claim still match: touch_resume_claim, finish_resumed_run.
ClaimHolds(row, token) == row.status = "running" /\ row.claim = token

ParkUnfenced(row, token) == Exists(row)  \* mutant

\* save_checkpoint's fence compares the claim alone.
MayPark(row, token) == Exists(row) /\ row.claim = token

Cleared(row) ==
  [row EXCEPT !.payload = 0, !.claim = NoClaim, !.stale = FALSE]

Finished(row, ok) ==
  [Cleared(row) EXCEPT !.status = IF ok THEN "done" ELSE "error",
                       !.artifacts = IF ok THEN @ + 1 ELSE @]

\* complete_run and fail_run: no guard but the row's existence.
Completed(row) == IF Exists(row)
                  THEN [row EXCEPT !.status = "done", !.artifacts = @ + 1]
                  ELSE row
Failed(row) == IF Exists(row) THEN [row EXCEPT !.status = "error"] ELSE row

\* A claim nobody refreshed: running, with a payload and a resumed_at.
Stranded(row) == row.status = "running" /\ row.payload # 0 /\ row.stale

Requeued(row) ==
  [row EXCEPT !.status = "resolved", !.claim = NoClaim, !.stale = FALSE]

\* _abandon_resume: fail_run and then clear_resume_state, whoever owns the
\* run by now. Each of the two is suppressed on its own, so under DbFaults
\* either may be lost.
Abandoned(row) == IF Exists(row) THEN Cleared(Failed(row)) ELSE row
AbandonOutcomes(row) ==
  {Abandoned(row)} \union
    IF DbFaults /\ Exists(row) THEN {row, Failed(row), Cleared(row)} ELSE {}

\* mark_timed_out, which refuses an answered run, then fail_run for "fail",
\* then clear_resume_state. Under DbFaults the sequence may stop anywhere.
TimeoutOutcomes(row, policy) ==
  IF row.status # "awaiting_human" THEN {row} ELSE
  LET timedOut == [row EXCEPT !.status = "timed_out"]
      closed == IF policy = "fail" THEN Failed(timedOut) ELSE timedOut IN
  {Cleared(closed)} \union IF DbFaults THEN {row, timedOut, closed} ELSE {}

-----------------------------------------------------------------------------
(* Processes *)

HomeOf(w) == IF w \in Procs THEN w ELSE Home[w]

\* The event loop of p is free for another task: its poll sleeps or awaits
\* the run it is driving. Between those points the tick never yields.
LoopFree(p) == tick[p].phase = "sleep" \/ work[p].pc = "working"

AnyToken(token) == TRUE  \* mutant

\* A token no row and no worker holds.
Fresh(token) ==
  /\ \A r \in Runs : rows[r].claim # token
  /\ \A w \in Workers : work[w].claim # token

ApplyUnguarded(p, r, answer) ==  \* mutant: no status guard
  /\ rows' = [rows EXCEPT ![r] = IF Exists(@) THEN Resolved(@, answer) ELSE @]
  /\ UNCHANGED work

\* apply_resolution in process p: store_resolution's status guard, then a
\* kick task when there is a payload and no pause. With every kick slot of p
\* taken the task is left out, as when it is lost before it starts.
Apply(p, r, answer) ==
  IF rows[r].status # "awaiting_human" THEN UNCHANGED <<rows, work>> ELSE
  /\ rows' = [rows EXCEPT ![r] = Resolved(@, answer)]
  /\ LET free == {k \in Kicks : Home[k] = p /\ work[k].pc = "idle"} IN
     IF rows[r].payload # 0 /\ ~paused /\ free # {}
     THEN \E k \in free : work' = [work EXCEPT ![k] = Queued(r)]
     ELSE UNCHANGED work

-----------------------------------------------------------------------------
(* The first execution of a run: workflow.run, up to its first gate *)

Start(p, r) ==
  /\ LoopFree(p)
  /\ rows[r].status = "none"
  /\ rows' = [rows EXCEPT ![r].status = "running"]
  /\ driver' = [driver EXCEPT ![r] = p]
  /\ UNCHANGED <<work, tick, replies, paused, crashes>>

DriverKeepsGoing(r) ==  \* mutant: no break after the checkpoint
  /\ driver[r] # NoProc /\ LoopFree(driver[r])
  /\ \E gate \in NextPauses(0) : \E payload \in {0, gate}, policy \in PoliciesOf(gate) :
       rows' = [rows EXCEPT ![r] =
                  IF Exists(@) THEN Parked(@, gate, payload, policy) ELSE @]
  /\ UNCHANGED <<driver, work, tick, replies, paused, crashes>>

\* The generator yields a gate: checkpoint_gate without a fence. A built-in
\* workflow's gate has no resume payload and only pauses.
DriverParks(r) ==
  /\ driver[r] # NoProc /\ LoopFree(driver[r])
  /\ \E gate \in NextPauses(0) : \E payload \in {0, gate}, policy \in PoliciesOf(gate) :
       rows' = [rows EXCEPT ![r] =
                  IF Exists(@) THEN Parked(@, gate, payload, policy) ELSE @]
  /\ driver' = [driver EXCEPT ![r] = NoProc]
  /\ UNCHANGED <<work, tick, replies, paused, crashes>>

DriverEnds(r) ==
  /\ driver[r] # NoProc /\ LoopFree(driver[r])
  /\ \/ MayComplete(0) /\ rows' = [rows EXCEPT ![r] = Completed(@)]
     \/ rows' = [rows EXCEPT ![r] = Failed(@)]
  /\ driver' = [driver EXCEPT ![r] = NoProc]
  /\ UNCHANGED <<work, tick, replies, paused, crashes>>

\* The client hangs up and the response generator is cancelled: no handler
\* runs and nothing is written.
DriverCancelled(r) ==
  /\ driver[r] # NoProc /\ LoopFree(driver[r])
  /\ driver' = [driver EXCEPT ![r] = NoProc]
  /\ UNCHANGED <<rows, work, tick, replies, paused, crashes>>

-----------------------------------------------------------------------------
(* Answers *)

ReplyReadAnyRun(p, r, decision) ==  \* mutant: candidates not limited to waiting runs
  /\ LoopFree(p)
  /\ Exists(rows[r])
  /\ Cardinality(replies) < MaxReplies
  /\ replies' = replies \union
       {[proc |-> p, run |-> r, gate |-> rows[r].gate, decision |-> decision]}
  /\ UNCHANGED <<rows, driver, work, tick, paused, crashes>>

\* An inbound handler matches a message to a waiting run and awaits the
\* model that parses it; or the approver's browser shows the open request.
ReplyRead(p, r, decision) ==
  /\ LoopFree(p)
  /\ rows[r].status = "awaiting_human"
  /\ Cardinality(replies) < MaxReplies
  /\ replies' = replies \union
       {[proc |-> p, run |-> r, gate |-> rows[r].gate, decision |-> decision]}
  /\ UNCHANGED <<rows, driver, work, tick, paused, crashes>>

\* The parse, or the click, comes back: apply_resolution.
ReplyApplied(m) ==
  /\ LoopFree(m.proc)
  /\ replies' = replies \ {m}
  /\ Apply(m.proc, m.run, [gate |-> m.gate, decision |-> m.decision])
  /\ UNCHANGED <<driver, tick, paused, crashes>>

\* The reply was no decision, or the parser failed.
ReplyDropped(m) ==
  /\ LoopFree(m.proc)
  /\ replies' = replies \ {m}
  /\ UNCHANGED <<rows, driver, work, tick, paused, crashes>>

-----------------------------------------------------------------------------
(* The resumer's iteration *)

DueNoTimeouts(phase, row) ==  \* mutant: rows without a deadline check
  \/ phase = "requeue" /\ Stranded(row) /\ row.attempts < MaxAttempts
  \/ phase = "give_up" /\ Stranded(row) /\ row.attempts >= MaxAttempts
  \/ phase = "resume" /\ Resumable(row)

DueNeverGivesUp(phase, row) ==  \* mutant: the exhausted list is off by one
  \/ phase = "timeouts" /\ row.status = "awaiting_human" /\ row.expired
  \/ phase = "requeue" /\ Stranded(row) /\ row.attempts < MaxAttempts
  \/ phase = "give_up" /\ Stranded(row) /\ row.attempts > MaxAttempts
  \/ phase = "resume" /\ Resumable(row)

\* What each phase of a tick lists, in the order the tick runs them.
Due(phase, row) ==
  \/ phase = "timeouts" /\ row.status = "awaiting_human" /\ row.expired
  \/ phase = "requeue" /\ Stranded(row) /\ row.attempts < MaxAttempts
  \/ phase = "give_up" /\ Stranded(row) /\ row.attempts >= MaxAttempts
  \/ phase = "resume" /\ Resumable(row)

Listing(phase) == {Seen(r) : r \in {s \in Runs : Due(phase, rows[s])}}

AfterWithoutResume(phase) ==  \* mutant: the poll only applies timeouts
  CASE phase = "sleep" -> "timeouts" [] phase = "timeouts" -> "requeue"
    [] phase = "requeue" -> "give_up" [] OTHER -> "sleep"

After(phase) ==
  CASE phase = "sleep" -> "timeouts" [] phase = "timeouts" -> "requeue"
    [] phase = "requeue" -> "give_up" [] phase = "give_up" -> "resume"
    [] OTHER -> "sleep"

\* run_resumer, _tick and _process_resumable move to their next loop. The
\* pause switch is read at the top of an iteration only.
TickAdvances(p) ==
  LET next == After(tick[p].phase) IN
  /\ tick[p].todo = {} /\ work[p].pc = "idle"
  /\ tick[p].phase = "sleep" => ~paused
  /\ tick' = [tick EXCEPT ![p] = [phase |-> next, todo |-> Listing(next)]]
  /\ UNCHANGED <<rows, driver, work, replies, paused, crashes>>

\* Database locked while listing or requeueing: the rest of the tick is lost.
TickAborts(p) ==
  /\ DbFaults /\ tick[p].phase \in {"timeouts", "requeue", "give_up"}
  /\ tick' = [tick EXCEPT ![p] = Asleep]
  /\ UNCHANGED <<rows, driver, work, replies, paused, crashes>>

Take(p, phase, item) ==
  /\ tick[p].phase = phase /\ item \in tick[p].todo
  /\ tick' = [tick EXCEPT ![p].todo = @ \ {item}]

\* _handle_timeout, by policy. mark_timed_out guards both closing branches.
TickTimeout(p, item) ==
  LET r == item.run IN
  /\ Take(p, "timeouts", item)
  /\ \/ /\ item.policy = "auto_proceed"
        /\ Apply(p, r, [gate |-> item.gate, decision |-> "auto_proceed"])
     \/ /\ item.policy # "auto_proceed"
        /\ \E row \in TimeoutOutcomes(rows[r], item.policy) :
             rows' = [rows EXCEPT ![r] = row]
        /\ UNCHANGED work
  /\ UNCHANGED <<driver, replies, paused, crashes>>

TickRequeue(p, item) ==
  /\ Take(p, "requeue", item)
  /\ rows' = [rows EXCEPT ![item.run] = IF Stranded(@) THEN Requeued(@) ELSE @]
  /\ UNCHANGED <<driver, work, replies, paused, crashes>>

TickGivesUp(p, item) ==
  /\ Take(p, "give_up", item)
  /\ \E row \in AbandonOutcomes(rows[item.run]) :
       rows' = [rows EXCEPT ![item.run] = row]
  /\ UNCHANGED <<driver, work, replies, paused, crashes>>

\* The claim is guarded by the row as it is; what is then executed is the
\* row as it was listed.
TickClaims(p, item) ==
  LET r == item.run IN
  /\ work[p].pc = "idle"
  /\ Take(p, "resume", item)
  /\ IF Resumable(rows[r])
     THEN \E token \in Tokens :
            /\ Fresh(token)
            /\ rows' = [rows EXCEPT ![r] = Claimed(@, token)]
            /\ work' = [work EXCEPT ![p] =
                 [pc |-> "working", run |-> r, claim |-> token,
                  payload |-> item.payload, answer |-> item.answer]]
     ELSE UNCHANGED <<rows, work>>
  /\ UNCHANGED <<driver, replies, paused, crashes>>

\* Database locked while claiming: left for the next tick.
TickClaimBusy(p, item) ==
  /\ DbFaults /\ work[p].pc = "idle"
  /\ Take(p, "resume", item)
  /\ UNCHANGED <<rows, driver, work, replies, paused, crashes>>

-----------------------------------------------------------------------------
(* Kick tasks, and the work of a claimed resume *)

\* A kick task starts: claim, then load the row it claimed.
KickClaims(k) ==
  LET r == work[k].run IN
  /\ work[k].pc = "queued" /\ LoopFree(Home[k])
  /\ IF Resumable(rows[r])
     THEN \E token \in Tokens :
            /\ Fresh(token)
            /\ rows' = [rows EXCEPT ![r] = Claimed(@, token)]
            /\ work' = [work EXCEPT ![k] =
                 [pc |-> "working", run |-> r, claim |-> token,
                  payload |-> rows[r].payload, answer |-> rows[r].answer]]
     ELSE /\ work' = [work EXCEPT ![k] = Idle]
          /\ UNCHANGED rows
  /\ UNCHANGED <<driver, tick, replies, paused, crashes>>

\* Database locked while claiming: the task's handler abandons the run.
KickClaimBusy(k) ==
  LET r == work[k].run IN
  /\ DbFaults
  /\ work[k].pc = "queued" /\ LoopFree(Home[k])
  /\ \E row \in AbandonOutcomes(rows[r]) : rows' = [rows EXCEPT ![r] = row]
  /\ work' = [work EXCEPT ![k] = Idle]
  /\ UNCHANGED <<driver, tick, replies, paused, crashes>>

\* A step of worker w's resume, which puts row back and leaves w as given.
Step(w, row, next) ==
  /\ work[w].pc = "working" /\ LoopFree(HomeOf(w))
  /\ rows' = [rows EXCEPT ![work[w].run] = row]
  /\ work' = [work EXCEPT ![w] = next]
  /\ UNCHANGED <<driver, tick, replies, paused, crashes>>

\* The heartbeat between events; a definite "no" stops the worker.
WorkerHeartbeat(w) ==
  LET row == rows[work[w].run] IN
  /\ work[w].pc = "working"
  /\ IF ClaimHolds(row, work[w].claim)
     THEN Step(w, [row EXCEPT !.stale = FALSE], work[w])
     ELSE Step(w, row, Idle)

\* The workflow yields a further gate: the fenced checkpoint.
WorkerParks(w) ==
  LET row == rows[work[w].run] IN
  /\ work[w].pc = "working" /\ Continues(work[w].payload, work[w].answer)
  /\ \E gate \in NextPauses(work[w].payload) : \E policy \in PoliciesOf(gate) :
       Step(w, IF MayPark(row, work[w].claim)
               THEN Parked(row, gate, gate, policy) ELSE row, Idle)

\* The workflow ends; without a continuing answer it cannot end well.
WorkerFinishes(w) ==
  LET row == rows[work[w].run] IN
  /\ work[w].pc = "working"
  /\ \E ok \in BOOLEAN :
       /\ ok => Continues(work[w].payload, work[w].answer) /\ MayComplete(work[w].payload)
       /\ Step(w, IF ClaimHolds(row, work[w].claim)
                  THEN Finished(row, ok) ELSE row, Idle)

\* An exception, a payload or a definition that can no longer be used, a
\* database error on a write: _abandon_resume.
WorkerAbandons(w) ==
  /\ work[w].pc = "working"
  /\ \E row \in AbandonOutcomes(rows[work[w].run]) : Step(w, row, Idle)

-----------------------------------------------------------------------------
(* The environment *)

\* 90 minutes without a heartbeat; awaiting_until passes. The 90 minutes do
\* not go by while a tick is between two of its statements (the sweep's
\* guarded requeue compares with the cutoff its listing used).
ClaimAges(r) ==
  /\ \A p \in Procs : LoopFree(p)
  /\ rows[r].status = "running" /\ rows[r].claim # NoClaim /\ ~rows[r].stale
  /\ rows' = [rows EXCEPT ![r].stale = TRUE]
  /\ UNCHANGED <<driver, work, tick, replies, paused, crashes>>

GateExpires(r) ==
  /\ rows[r].status = "awaiting_human" /\ ~rows[r].expired
  /\ rows' = [rows EXCEPT ![r].expired = TRUE]
  /\ UNCHANGED <<driver, work, tick, replies, paused, crashes>>

Delete(p, r) ==
  /\ LoopFree(p)
  /\ Exists(rows[r])
  /\ rows' = [rows EXCEPT ![r] = [NoRow EXCEPT !.status = "deleted"]]
  /\ UNCHANGED <<driver, work, tick, replies, paused, crashes>>

SetPaused ==
  /\ paused' = ~paused
  /\ UNCHANGED <<rows, driver, work, tick, replies, crashes>>

\* A process dies: its tasks, its tick and its handlers are gone, no handler
\* of theirs runs, and it comes back with an empty loop.
Crash(p) ==
  /\ crashes < MaxCrashes
  /\ crashes' = crashes + 1
  /\ work' = [w \in Workers |-> IF HomeOf(w) = p THEN Idle ELSE work[w]]
  /\ driver' = [r \in Runs |-> IF driver[r] = p THEN NoProc ELSE driver[r]]
  /\ tick' = [tick EXCEPT ![p] = Asleep]
  /\ replies' = {m \in replies : m.proc # p}
  /\ UNCHANGED <<rows, paused>>

-----------------------------------------------------------------------------

TickStep(p) ==
  \/ TickAdvances(p)
  \/ TickAborts(p)
  \/ \E item \in tick[p].todo :
       \/ TickTimeout(p, item)
       \/ TickRequeue(p, item)
       \/ TickGivesUp(p, item)
       \/ TickClaims(p, item)
       \/ TickClaimBusy(p, item)

WorkerStep(w) ==
  \/ WorkerHeartbeat(w)
  \/ WorkerParks(w)
  \/ WorkerFinishes(w)
  \/ WorkerAbandons(w)

Next ==
  \/ \E p \in Procs : TickStep(p) \/ Crash(p)
  \/ \E p \in Procs, r \in Runs : Start(p, r) \/ Delete(p, r)
  \/ \E p \in Procs, r \in Runs, d \in Decisions : ReplyRead(p, r, d)
  \/ \E r \in Runs :
       DriverParks(r) \/ DriverEnds(r) \/ DriverCancelled(r)
         \/ ClaimAges(r) \/ GateExpires(r)
  \/ \E m \in replies : ReplyApplied(m) \/ ReplyDropped(m)
  \/ \E k \in Kicks : KickClaims(k) \/ KickClaimBusy(k)
  \/ \E w \in Workers : WorkerStep(w)
  \/ SetPaused

Spec == Init /\ [][Next]_vars

\* asyncio runs every ready task, the poll wakes every minute, specialist
\* calls time out (so a resume ends), clocks move. Nobody has to answer, no
\* run has to be started and no client has to stay.
WorkerEnds(w) == WorkerParks(w) \/ WorkerFinishes(w) \/ WorkerAbandons(w)

Fairness ==
  /\ \A p \in Procs : WF_vars(TickStep(p))
  /\ \A k \in Kicks : SF_vars(KickClaims(k))
  /\ \A w \in Workers : SF_vars(WorkerEnds(w))
  /\ \A r \in Runs : SF_vars(ClaimAges(r)) /\ WF_vars(GateExpires(r))

FairSpec == Spec /\ Fairness

-----------------------------------------------------------------------------
(* Safety *)

Holds(w, r) ==
  work[w].pc = "working" /\ work[w].run = r /\ ClaimHolds(rows[r], work[w].claim)

\* A run has at most one worker whose writes are accepted, however often it
\* was requeued while an earlier worker was still alive (claim_run_for_resume:
\* "a run executes once").
OneOwner ==
  \A r \in Runs : \A w1, w2 \in Workers :
    Holds(w1, r) /\ Holds(w2, r) => w1 = w2

\* complete_run, fail_run and the first save_checkpoint have no guard on the
\* status. What makes them safe is that, as long as the code that started
\* the run is alive, nobody else ever touches its row.
StarterOwnsTheRow ==
  \A r \in Runs : driver[r] # NoProc =>
    \/ rows[r].status = "deleted"
    \/ rows[r].status = "running" /\ rows[r].payload = 0
         /\ rows[r].claim = NoClaim /\ rows[r].artifacts = 0

\* save_checkpoint's promise about a later gate: a run that waits carries
\* nothing of the gate before it, so neither sweep nor executor can act on
\* the old answer.
WaitingRunsAreClean ==
  \A r \in Runs : rows[r].status = "awaiting_human" =>
    /\ rows[r].answer = NoAnswer /\ rows[r].claim = NoClaim
    /\ rows[r].attempts = 0 /\ ~rows[r].stale

\* Once a run has been through a gate, "running" always means the stale sweep
\* can find it again: it never drops out of every queue (the stranding that
\* _abandon_resume and list_exhausted_resuming_runs are written against).
ResumedRunsAreFindable ==
  \A r \in Runs : rows[r].status = "running" /\ rows[r].gate # 0 =>
    /\ rows[r].payload # 0 /\ rows[r].claim # NoClaim
    /\ rows[r].attempts \in 1..MaxAttempts

\* A run stores, and so delivers, at most one artifact: late finishers,
\* replayed resumes and the unguarded writes never add a second.
OneArtifact == \A r \in Runs : rows[r].artifacts <= 1

\* A kick task that holds its claim replays the payload and the answer that
\* are in the row (it loads the row after claiming it).
KicksReplayTheRow ==
  \A k \in Kicks, r \in Runs : Holds(k, r) =>
    work[k].payload = rows[r].payload /\ work[k].answer = rows[r].answer

\* A run that is over stays over: no late checkpoint, claim, answer or
\* requeue brings it back to work.
OverStaysOver ==
  [][\A r \in Runs : rows[r].status \in Terminal =>
       rows'[r].status \in Terminal \union {"deleted"}]_rows

\* An answer that was accepted is never discarded by the timeout policy
\* (_handle_timeout: "continuing would discard a decision a human made"), nor
\* replaced by a second answer to the same question.
AcceptedAnswersStand ==
  [][\A r \in Runs : rows[r].status = "resolved" =>
       /\ rows'[r].status # "timed_out"
       /\ rows'[r].answer = rows[r].answer \/ rows'[r].status = "deleted"]_rows

-----------------------------------------------------------------------------
(* What the repository says and the code does not keep *)

\* finish_resumed_run: without the fence a replaced worker could "flip an
\* already-done run back to error".
DoneStaysDone ==
  [][\A r \in Runs : rows[r].status = "done" => rows'[r].status # "error"]_rows

\* resume stops at a rejected gate "rather than produce the deliverable they
\* did not approve", and save_checkpoint clears the old answer so that nobody
\* acts "on gate 1's answer at gate 2": a run whose approval gate was answered
\* with a rejection can only fail.
RejectionsAreFinal ==
  [][\A r \in Runs :
       /\ rows[r].answer.decision = "reject" /\ GateKind[rows[r].gate] = "approval"
       => rows'[r].status \in {"resolved", "running", "error", "deleted"}]_rows

\* The answer recorded for a gate was given to that gate.
AnswersFitTheirGate ==
  \A r \in Runs : rows[r].answer # NoAnswer => rows[r].answer.gate = rows[r].gate

-----------------------------------------------------------------------------
(* Liveness *)

\* An answered run that can go on does not wait forever, if the operator's
\* pause ends: the kick is only an optimisation of the poll.
AnsweredRunsMove ==
  \A r \in Runs : <>[]~paused => (Resumable(rows[r]) ~> ~Resumable(rows[r]))

\* A resume ends, or asks its next question, whatever happens to its workers:
\* what a crash leaves behind is requeued and finally given up.
ResumedRunsSettle ==
  \A r \in Runs : <>[]~paused =>
    (rows[r].status = "running" /\ rows[r].payload # 0
       ~> rows[r].status \in Terminal \union {"awaiting_human", "deleted"})

\* A gate nobody answers is closed or answered by its timeout policy.
GatesClose ==
  \A r \in Runs : <>[]~paused =>
    (rows[r].status = "awaiting_human" ~> rows[r].status # "awaiting_human")

-----------------------------------------------------------------------------
(* Refinement *)

PhaseOf(row) ==
  CASE row.status = "none" -> "new"
    [] row.status = "running" -> "working"
    [] row.status = "awaiting_human" -> "asking"
    [] row.status = "resolved" -> "answered"
    [] row.status = "deleted" -> "gone"
    [] OTHER -> "over"

Life == INSTANCE RunLifecycle WITH
          phase <- [r \in Runs |-> PhaseOf(rows[r])],
          verdict <- [r \in Runs |-> rows[r].answer]

\* The table implements the life cycle of RunLifecycle.
ImplementsLifecycle == Life!LifeSpec

=============================================================================
