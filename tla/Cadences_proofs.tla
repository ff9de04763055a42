---------------------------- MODULE Cadences_proofs ----------------------------
(***************************************************************************)
(* Proofs about Cadences, for any number of rows, of requests and of edits. *)
(***************************************************************************)
EXTENDS Cadences, TLAPS

-----------------------------------------------------------------------------
(* The inductive invariant *)

\* A row is running while its task has it, up to the end of the task, unless
\* its retries were spent: then it is already marked, and the task goes on to
\* see to the chain.
TaskFits(i) ==
  /\ checkIns[i].status = "running" <=> checkTask[i].pc # "none" /\ checkTask[i].next # "failed"
  /\ checkTask[i].next = "failed" =>
       /\ checkIns[i].status = "none"
       /\ checkTask[i].pc \in {"looking", "reading", "inserting", "marking"}

HoldingLock == {"wants", "inserting", "cancelling"}

\* A request that cancels the others spares its own row, which nobody else
\* has touched; it has none of its own only if the check-in was off a moment
\* ago, and then whoever has switched it on since is still to re-time it.
SaverFits(s) ==
  /\ saver[s].pc \in HoldingLock => \A t \in Savers : saver[t].pc \in HoldingLock => t = s
  /\ saver[s].new # 0 =>
       /\ saver[s].pc = "cancelling" /\ checkTask[saver[s].new].pc = "none"
       /\ checkIns[saver[s].new] \in {NoCheckIn, NewCheckIn}
       /\ mode = "team" /\ dept.exists /\ ~adrift => checkIns[saver[s].new] = NewCheckIn
  /\ saver[s].pc = "cancelling" /\ saver[s].new = 0 /\ Wanted /\ ~adrift =>
       \E t \in Savers : saver[t].pc = "saved"

\* The chain will go on from this row: it waits to run, it runs and has its
\* chain to see to, or its task is at that.
GoesOnFrom(i) ==
  \/ Scheduled(checkIns[i])
  \/ checkTask[i].pc \in {"claimed", "working"} /\ ~checkIns[i].rerun
  \/ checkTask[i].pc \in {"looking", "reading", "inserting"}

\* A row goes on, a request is still to queue one, or the switch to team has
\* found none and is to.
SomebodyGoesOn ==
  \/ \E i \in Slots : GoesOnFrom(i)
  \/ \E s \in Savers : saver[s].pc \in {"saved", "wants", "inserting"}
  \/ /\ switcher \in {"starting", "looking", "inserting"}
     /\ \A i \in Slots : ~OnCalendar(checkIns[i])

CalendarKept == Wanted /\ ~adrift => SomebodyGoesOn

CadenceFits ==
  /\ CadenceTypeOK
  /\ switcher = "cancelling" => mode = "solo"
  /\ \A i \in Slots : TaskFits(i)
  /\ \A s \in Savers : SaverFits(s)

CadenceInv == CadenceFits /\ CalendarKept

-----------------------------------------------------------------------------
(* Rows, and what the statements do to them *)

LEMMA RowTypes ==
  /\ NoCheckIn \in CheckIn /\ NewCheckIn \in CheckIn
  /\ NoCheckIn.status = "none" /\ ~Scheduled(NoCheckIn)
  /\ NewCheckIn.status = "pending" /\ Scheduled(NewCheckIn) /\ ~NewCheckIn.due
  /\ NewCheckIn.attempts = 0 /\ ~NewCheckIn.rerun
  BY DEF NoCheckIn, NewCheckIn, CheckIn, Scheduled

LEMMA SlotsAreRows == Slots \subseteq Nat \ {0} /\ Slots \subseteq 0..MaxRows /\ 1 \in Slots
  BY CadenceAssumption DEF Slots

\* A claim, a retry, the ends and the cancels keep a row a row.
LEMMA RowOperations ==
  ASSUME NEW row \in CheckIn
  PROVE  /\ Taken(row) \in CheckIn /\ Taken(row).status = "running"
         /\ Taken(row).rerun = row.rerun
         /\ Vacated(FailedOrRetry(row)) \in CheckIn
         /\ FailedOrRetry(row).rerun = row.rerun
         /\ IF FailedOrRetry(row).status = "failed"
            THEN Vacated(FailedOrRetry(row)) = NoCheckIn
            ELSE /\ Vacated(FailedOrRetry(row)) = FailedOrRetry(row)
                 /\ FailedOrRetry(row).status = "pending"
         /\ Vacated(MarkedDone(row)) = NoCheckIn
         /\ row.status \in {"pending", "running"} => Vacated(Retired(row)) = NoCheckIn
         /\ Vacated(Retired(row)) \in CheckIn
         /\ Vacated(Cancelled(row)) =
              IF row.status = "pending" THEN NoCheckIn ELSE row
         /\ Orphaned(row) \in CheckIn /\ Orphaned(row).status # "running"
         /\ Orphaned(row).rerun = row.rerun
         /\ OnCalendar(row) => Scheduled(Orphaned(row))
         /\ Swept(row) \in CheckIn
<1>1. /\ Taken(row) \in CheckIn /\ Taken(row).status = "running"
      /\ Taken(row).rerun = row.rerun
  <2>1. row.attempts + 1 \in Nat
    BY DEF CheckIn
  <2> DEFINE next == row.attempts + 1
  <2>2. Taken(row) = [row EXCEPT !.status = "running", !.attempts = next]
    BY DEF Taken
  <2>3. next \in Nat
    BY <2>1
  <2> HIDE DEF next
  <2>4. QED
    BY <2>2, <2>3 DEF CheckIn
<1>2. /\ Vacated(FailedOrRetry(row)) \in CheckIn
      /\ FailedOrRetry(row).rerun = row.rerun
      /\ IF FailedOrRetry(row).status = "failed"
         THEN Vacated(FailedOrRetry(row)) = NoCheckIn
         ELSE /\ Vacated(FailedOrRetry(row)) = FailedOrRetry(row)
              /\ FailedOrRetry(row).status = "pending"
  <2>1. CASE row.attempts >= MaxAttempts
    BY <2>1, RowTypes DEF FailedOrRetry, MarkedFailed, Vacated, Settled, CheckIn
  <2>2. CASE ~(row.attempts >= MaxAttempts)
    BY <2>2 DEF FailedOrRetry, Vacated, Settled, CheckIn
  <2>3. QED
    BY <2>1, <2>2
<1>3. Vacated(MarkedDone(row)) = NoCheckIn
  BY DEF MarkedDone, Vacated, Settled, CheckIn
<1>4. /\ row.status \in {"pending", "running"} => Vacated(Retired(row)) = NoCheckIn
      /\ Vacated(Retired(row)) \in CheckIn
  BY RowTypes DEF Retired, Vacated, Settled, CheckIn
<1>5. Vacated(Cancelled(row)) = IF row.status = "pending" THEN NoCheckIn ELSE row
  BY DEF Cancelled, Vacated, Settled, CheckIn
<1>6. /\ Orphaned(row) \in CheckIn /\ Orphaned(row).status # "running"
      /\ Orphaned(row).rerun = row.rerun
  BY DEF Orphaned, CheckIn
<1>7. OnCalendar(row) => Scheduled(Orphaned(row))
  BY DEF OnCalendar, Orphaned, Scheduled, CheckIn
<1>8. Swept(row) \in CheckIn
  BY RowTypes DEF Swept
<1>9. QED
  BY <1>1, <1>2, <1>3, <1>4, <1>5, <1>6, <1>7, <1>8

\* A row is queued where there is none, no task and no request is.
LEMMA InsertEffects ==
  ASSUME CadenceTypeOK, NEW j \in Slots, NEW row \in CheckIn, InsertsRow(j, row)
  PROVE  /\ checkIns' \in [Slots -> CheckIn]
         /\ checkIns'[j] = row
         /\ \A i \in Slots : i # j => checkIns'[i] = checkIns[i]
         /\ checkIns[j].status = "none" /\ checkTask[j].pc = "none"
         /\ \A s \in Savers : saver[s].new # j
  BY DEF InsertsRow, Free, CadenceTypeOK

LEMMA WithdrawEffects ==
  ASSUME CadenceTypeOK, NEW new
  PROVE  /\ Withdrawn(new) \in [Slots -> CheckIn]
         /\ \A i \in Slots :
              Withdrawn(new)[i] = IF Scheduled(checkIns[i]) /\ i # new THEN NoCheckIn
                                  ELSE checkIns[i]
  BY RowTypes DEF Withdrawn, CadenceTypeOK

LEMMA TaskEffects ==
  ASSUME CadenceTypeOK, NEW i \in Slots, NEW pc, NEW next, TaskGoes(i, pc, next),
         [pc |-> pc, next |-> next] \in CheckTask
  PROVE  /\ checkTask' \in [Slots -> CheckTask]
         /\ checkTask'[i].pc = pc /\ checkTask'[i].next = next
         /\ \A j \in Slots : j # i => checkTask'[j] = checkTask[j]
  BY DEF TaskGoes, CadenceTypeOK

LEMMA SaverEffects ==
  ASSUME CadenceTypeOK, NEW s \in Savers, NEW pc, NEW before, NEW wants, NEW new,
         SaverIs(s, pc, before, wants, new),
         [pc |-> pc, before |-> before, wants |-> wants, new |-> new] \in Saver
  PROVE  /\ saver' \in [Savers -> Saver]
         /\ saver'[s].pc = pc /\ saver'[s].new = new
         /\ \A t \in Savers : t # s => saver'[t] = saver[t]
  BY DEF SaverIs, CadenceTypeOK

LEMMA SaverEnds ==
  ASSUME CadenceTypeOK, NEW s \in Savers, saver' = [saver EXCEPT ![s] = NoSaver]
  PROVE  /\ saver' \in [Savers -> Saver]
         /\ saver'[s].pc = "idle" /\ saver'[s].new = 0
         /\ \A t \in Savers : t # s => saver'[t] = saver[t]
<1>1. NoSaver \in Saver /\ NoSaver.pc = "idle" /\ NoSaver.new = 0
  BY CadenceAssumption DEF NoSaver, Saver
<1>2. QED
  BY <1>1 DEF CadenceTypeOK

-----------------------------------------------------------------------------
(* The initial state *)

LEMMA CadenceBegins == CadenceInit => CadenceInv
<1> SUFFICES ASSUME CadenceInit
             PROVE  CadenceInv
  OBVIOUS
<1>1. /\ \A i \in Slots : checkIns[i] = IF i = 1 THEN NewCheckIn ELSE NoCheckIn
      /\ \A i \in Slots : checkTask[i] = NoCheckTask
      /\ \A s \in Savers : saver[s] = NoSaver
  BY DEF CadenceInit
<1>2. CadenceTypeOK
  <2>1. checkIns \in [Slots -> CheckIn]
    BY RowTypes DEF CadenceInit
  <2>2. checkTask \in [Slots -> CheckTask]
    BY DEF CadenceInit, NoCheckTask, CheckTask
  <2>3. saver \in [Savers -> Saver]
    BY CadenceAssumption DEF CadenceInit, NoSaver, Saver
  <2>4. QED
    BY <2>1, <2>2, <2>3 DEF CadenceInit, CadenceTypeOK
<1>3. \A i \in Slots : TaskFits(i)
  BY <1>1, RowTypes DEF TaskFits, NoCheckTask
<1>4. \A s \in Savers : SaverFits(s)
  BY <1>1 DEF SaverFits, NoSaver, HoldingLock
<1>5. CalendarKept
  BY <1>1, RowTypes, SlotsAreRows DEF CalendarKept, SomebodyGoesOn, GoesOnFrom
<1>6. QED
  BY <1>2, <1>3, <1>4, <1>5 DEF CadenceInv, CadenceFits, CadenceInit

-----------------------------------------------------------------------------
(* Types: one lemma for each of those who act *)

LEMMA TaskTypes ==
  ASSUME CadenceTypeOK, NEW i \in Slots,
         CheckInComesDue(i) \/ ClaimCheckIn(i) \/ CheckInNext(i)
  PROVE  CadenceTypeOK'
<1> DEFINE Goes == \E pc, next : /\ [pc |-> pc, next |-> next] \in CheckTask
                                 /\ TaskGoes(i, pc, next)
<1>1. checkTask[i] \in CheckTask /\ checkIns[i] \in CheckIn
  BY DEF CadenceTypeOK
<1>2. Goes => checkTask' \in [Slots -> CheckTask]
  BY TaskEffects
<1>3. CASE CheckInComesDue(i)
  <2>1. [checkIns[i] EXCEPT !.due = TRUE] \in CheckIn
    BY <1>1 DEF CheckIn
  <2>2. checkIns' \in [Slots -> CheckIn]
    BY <1>3, <2>1 DEF CheckInComesDue, CadenceTypeOK
  <2>3. QED
    BY <1>3, <2>2 DEF CheckInComesDue, CadenceTypeOK
<1>4. CASE ClaimCheckIn(i)
  <2>1. checkIns' \in [Slots -> CheckIn]
    BY <1>1, <1>4, RowOperations DEF ClaimCheckIn, CadenceTypeOK
  <2>2. [checkTask[i] EXCEPT !.pc = "claimed"] \in CheckTask
    BY <1>1 DEF CheckTask
  <2>3. checkTask' \in [Slots -> CheckTask]
    BY <1>4, <2>2 DEF ClaimCheckIn, CadenceTypeOK
  <2>4. QED
    BY <1>4, <2>1, <2>3 DEF ClaimCheckIn, CadenceTypeOK
<1>5. CASE CheckInGate(i)
  <2>1. Goes
    BY <1>5 DEF CheckInGate, CheckTask
  <2>2. QED
    BY <1>2, <1>5, <2>1 DEF CheckInGate, CadenceTypeOK
<1>6. CASE CheckInRuns(i)
  <2>1. Goes
    BY <1>6 DEF CheckInRuns, CheckTask
  <2>2. QED
    BY <1>2, <1>6, <2>1 DEF CheckInRuns, CadenceTypeOK
<1>7. CASE CheckInFails(i)
  <2>1. Goes
    BY <1>7 DEF CheckInFails, CheckTask
  <2>2. checkIns' \in [Slots -> CheckIn]
    BY <1>1, <1>7, RowOperations DEF CheckInFails, CadenceTypeOK
  <2>3. failedRun' \in BOOLEAN
    BY <1>7 DEF CheckInFails, CadenceTypeOK
  <2>4. QED
    BY <1>2, <1>7, <2>1, <2>2, <2>3 DEF CheckInFails, CadenceTypeOK
<1>8. CASE ChainLooks(i)
  <2>1. Goes
    BY <1>1, <1>8 DEF ChainLooks, CheckTask
  <2>2. QED
    BY <1>2, <1>8, <2>1 DEF ChainLooks, CadenceTypeOK
<1>9. CASE ChainReads(i)
  <2>1. Goes
    BY <1>1, <1>9 DEF ChainReads, CheckTask
  <2>2. QED
    BY <1>2, <1>9, <2>1 DEF ChainReads, CadenceTypeOK
<1>10. CASE ChainInserts(i)
  <2>1. Goes
    BY <1>1, <1>10 DEF ChainInserts, CheckTask
  <2>2. checkIns' \in [Slots -> CheckIn]
    BY <1>10, InsertEffects, RowTypes DEF ChainInserts
  <2>3. QED
    BY <1>2, <1>10, <2>1, <2>2 DEF ChainInserts, CadenceTypeOK
<1>11. CASE CheckInMarks(i)
  <2>1. Goes
    BY <1>11 DEF CheckInMarks, CheckTask
  <2>2. checkTask[i].next \in {"done", "skipped", "failed"}
    BY <1>1 DEF CheckTask
  <2>3. \E row \in CheckIn : checkIns' = [checkIns EXCEPT ![i] = row]
    BY <1>1, <1>11, <2>2, RowOperations, RowTypes DEF CheckInMarks
  <2>4. checkIns' \in [Slots -> CheckIn]
    BY <2>3 DEF CadenceTypeOK
  <2>5. QED
    BY <1>2, <1>11, <2>1, <2>4 DEF CheckInMarks, CadenceTypeOK
<1>4a. QED
  BY <1>3, <1>4, <1>5, <1>6, <1>7, <1>8, <1>9, <1>10, <1>11 DEF CheckInNext

LEMMA SaverTypes ==
  ASSUME CadenceTypeOK, NEW s \in Savers, SaverReads(s) \/ SaverNext(s)
  PROVE  CadenceTypeOK'
<1> DEFINE Goes == \E pc, before, wants, new :
                     /\ [pc |-> pc, before |-> before, wants |-> wants, new |-> new] \in Saver
                     /\ SaverIs(s, pc, before, wants, new)
           Ends == saver' = [saver EXCEPT ![s] = NoSaver]
<1>1. saver[s] \in Saver /\ 0 \in 0..MaxRows
  BY CadenceAssumption DEF CadenceTypeOK
<1>2. Goes \/ Ends => saver' \in [Savers -> Saver]
  BY SaverEffects, SaverEnds
<1>3. Wanted \in BOOLEAN /\ dept.on \in BOOLEAN /\ dept.exists \in BOOLEAN
  BY DEF Wanted, CadenceTypeOK
<1>4. CASE SaverReads(s)
  <2>1. SaverIs(s, "read", dept.on, FALSE, 0)
    BY <1>4 DEF SaverReads
  <2>2. [pc |-> "read", before |-> dept.on, wants |-> FALSE, new |-> 0] \in Saver
    BY <1>1, <1>3 DEF Saver
  <2>3. edits' \in Nat
    BY <1>4 DEF SaverReads, Edited, CadenceTypeOK
  <2>4. QED
    BY <1>2, <1>4, <2>1, <2>2, <2>3 DEF SaverReads, CadenceTypeOK
<1>5. ASSUME NEW on \in BOOLEAN, SaverSaves(s, on)
      PROVE  CadenceTypeOK'
  <2>1. [pc |-> "saved", before |-> saver[s].before, wants |-> FALSE, new |-> 0] \in Saver
    BY <1>1 DEF Saver
  <2>2. Goes \/ Ends
    BY <1>5, <2>1 DEF SaverSaves
  <2>3. dept' \in [exists : BOOLEAN, on : BOOLEAN]
    BY <1>5 DEF SaverSaves, CadenceTypeOK
  <2>4. adrift' \in BOOLEAN
    BY <1>5 DEF SaverSaves, CadenceTypeOK
  <2>5. QED
    BY <1>2, <1>5, <2>2, <2>3, <2>4 DEF SaverSaves, CadenceTypeOK
<1>6. CASE SaverLocks(s)
  <2>1. [pc |-> "wants", before |-> FALSE, wants |-> Wanted, new |-> 0] \in Saver
    BY <1>1, <1>3 DEF Saver
  <2>2. Goes
    BY <1>6, <2>1 DEF SaverLocks
  <2>3. QED
    BY <1>2, <1>6, <2>2 DEF SaverLocks, CadenceTypeOK
<1>7. CASE SaverQueues(s)
  <2>1. \A pc \in {"inserting", "cancelling"} :
          [pc |-> pc, before |-> FALSE, wants |-> FALSE, new |-> 0] \in Saver
    BY <1>1 DEF Saver
  <2>2. Goes \/ Ends
    BY <1>7, <2>1 DEF SaverQueues
  <2>3. QED
    BY <1>2, <1>7, <2>2 DEF SaverQueues, CadenceTypeOK
<1>8. CASE SaverInserts(s)
  <2>1. PICK j \in Slots : InsertsRow(j, NewCheckIn) /\ SaverIs(s, "cancelling", FALSE, FALSE, j)
    BY <1>8 DEF SaverInserts
  <2>2. [pc |-> "cancelling", before |-> FALSE, wants |-> FALSE, new |-> j] \in Saver
    BY SlotsAreRows DEF Saver
  <2>3. checkIns' \in [Slots -> CheckIn]
    BY <2>1, InsertEffects, RowTypes
  <2>4. QED
    BY <1>2, <1>8, <2>1, <2>2, <2>3 DEF SaverInserts, CadenceTypeOK
<1>9. CASE SaverCancels(s)
  <2>1. checkIns' \in [Slots -> CheckIn]
    BY <1>9, WithdrawEffects DEF SaverCancels
  <2>2. QED
    BY <1>2, <1>9, <2>1 DEF SaverCancels, CadenceTypeOK
<1>10. QED
  BY <1>4, <1>5, <1>6, <1>7, <1>8, <1>9 DEF SaverNext

LEMMA OtherTypes ==
  ASSUME CadenceTypeOK,
         \/ SwitchesMode \/ SwitcherNext \/ DeletesDepartment
         \/ CreatesDepartment \/ QueuesRerun
  PROVE  CadenceTypeOK'
<1>1. Edited => edits' \in Nat
  BY DEF Edited, CadenceTypeOK
<1>2. CASE SwitchesMode
  BY <1>1, <1>2 DEF SwitchesMode, CadenceTypeOK
<1>3. CASE SwitcherCancels
  <2>1. \A i \in Slots : Vacated(Cancelled(checkIns[i])) \in CheckIn
    BY RowOperations, RowTypes DEF CadenceTypeOK
  <2>2. checkIns' \in [Slots -> CheckIn]
    BY <1>3, <2>1 DEF SwitcherCancels
  <2>3. QED
    BY <1>3, <2>2 DEF SwitcherCancels, CadenceTypeOK
<1>4. CASE SwitcherReads \/ SwitcherLooks
  BY <1>4 DEF SwitcherReads, SwitcherLooks, CadenceTypeOK
<1>5. CASE SwitcherInserts
  <2>1. checkIns' \in [Slots -> CheckIn]
    BY <1>5, InsertEffects, RowTypes DEF SwitcherInserts
  <2>2. QED
    BY <1>5, <2>1 DEF SwitcherInserts, CadenceTypeOK
<1>6. CASE DeletesDepartment
  <2>1. checkIns' \in [Slots -> CheckIn]
    BY <1>6, WithdrawEffects DEF DeletesDepartment
  <2>2. QED
    BY <1>1, <1>6, <2>1 DEF DeletesDepartment, CadenceTypeOK
<1>7. CASE CreatesDepartment
  BY <1>1, <1>7 DEF CreatesDepartment, CadenceTypeOK
<1>8. CASE QueuesRerun
  <2>1. [NewCheckIn EXCEPT !.due = TRUE, !.rerun = TRUE] \in CheckIn
    BY RowTypes DEF CheckIn
  <2>2. checkIns' \in [Slots -> CheckIn]
    BY <1>8, <2>1, InsertEffects DEF QueuesRerun
  <2>3. QED
    BY <1>1, <1>8, <2>2 DEF QueuesRerun, CadenceTypeOK
<1>9. QED
  BY <1>2, <1>3, <1>4, <1>5, <1>6, <1>7, <1>8 DEF SwitcherNext

\* What a new process finds: the orphaned rows queued again and, where the
\* chain had no row left, a new one.
LEMMA StartEffects ==
  ASSUME CadenceTypeOK, CadenceStart
  PROVE  /\ CadenceTypeOK'
         /\ \A i \in Slots : checkIns'[i].status # "running" /\ checkTask'[i] = NoCheckTask
         /\ \A s \in Savers : saver'[s] = NoSaver
         /\ Wanted => \E i \in Slots : Scheduled(checkIns'[i])
<1> DEFINE swept == [i \in Slots |-> Swept(checkIns[i])]
           seed == Wanted /\ \A i \in Slots : ~OnCalendar(swept[i])
           free == {i \in Slots : swept[i].status = "none"}
<1>1. PICK new \in 0..MaxRows :
        /\ IF seed THEN new \in free /\ \A j \in free : new <= j ELSE new = 0
        /\ checkIns' = [i \in Slots |-> IF i = new THEN NewCheckIn ELSE Orphaned(swept[i])]
  BY DEF CadenceStart
<1>2. \A i \in Slots : swept[i] \in CheckIn
  BY RowOperations DEF CadenceTypeOK
<1>3. seed => new \in Slots
  BY <1>1
<1>4. ~seed => \A i \in Slots : i # new
  BY <1>1, SlotsAreRows
<1> HIDE DEF swept, seed, free
<1>5. /\ checkIns' \in [Slots -> CheckIn]
      /\ \A i \in Slots : checkIns'[i].status # "running"
  BY <1>1, <1>2, RowOperations, RowTypes
<1>6. Wanted => \E i \in Slots : Scheduled(checkIns'[i])
  <2>1. CASE seed
    BY <1>1, <1>3, <2>1, RowTypes
  <2>2. ASSUME Wanted, ~seed
        PROVE  \E i \in Slots : Scheduled(checkIns'[i])
    <3>1. PICK i \in Slots : OnCalendar(swept[i])
      BY <2>2 DEF seed
    <3>2. checkIns'[i] = Orphaned(swept[i])
      BY <1>1, <1>4, <2>2
    <3>3. QED
      BY <1>2, <3>1, <3>2, RowOperations
  <2>3. QED
    BY <2>1, <2>2
<1>7. /\ \A i \in Slots : checkTask'[i] = NoCheckTask
      /\ \A s \in Savers : saver'[s] = NoSaver
  BY DEF CadenceStart
<1>8. checkTask' \in [Slots -> CheckTask] /\ saver' \in [Savers -> Saver]
  BY CadenceAssumption DEF CadenceStart, NoCheckTask, CheckTask, NoSaver, Saver
<1>9. edits' \in Nat /\ mode' = mode /\ dept' = dept /\ failedRun' = failedRun
  BY DEF CadenceStart, Edited, CadenceTypeOK
<1>10. switcher' = "idle" /\ adrift' = FALSE
  BY DEF CadenceStart
<1>11. CadenceTypeOK'
  BY <1>5, <1>8, <1>9, <1>10 DEF CadenceTypeOK
<1>4a. QED
  BY <1>5, <1>6, <1>7, <1>11

LEMMA CadenceTypeKept == CadenceTypeOK /\ [CadenceNext]_cadenceVars => CadenceTypeOK'
<1> SUFFICES ASSUME CadenceTypeOK, [CadenceNext]_cadenceVars
             PROVE  CadenceTypeOK'
  OBVIOUS
<1>1. CASE UNCHANGED cadenceVars
  BY <1>1 DEF cadenceVars, CadenceTypeOK
<1>2. CASE CadenceNext
  BY <1>2, TaskTypes, SaverTypes, OtherTypes, StartEffects DEF CadenceNext
<1>3. QED
  BY <1>1, <1>2

\* Rows, tasks and requests keep their types in every behaviour.
THEOREM CadenceTypeCorrect == CadenceSpec => []CadenceTypeOK
<1>1. CadenceInit => CadenceTypeOK
  BY CadenceBegins DEF CadenceInv, CadenceFits
<1>2. QED
  BY <1>1, CadenceTypeKept, PTL DEF CadenceSpec

-----------------------------------------------------------------------------
(* Rows and their tasks *)

\* Where neither a row's state nor its task changes, they still fit; nor does
\* it matter to them that a row appears or goes that was not running.
LEMMA TaskFitsStays ==
  ASSUME NEW i \in Slots, TaskFits(i), checkTask'[i] = checkTask[i],
         \/ checkIns'[i].status = checkIns[i].status
         \/ /\ checkIns[i].status # "running" /\ checkIns'[i].status # "running"
            /\ checkTask[i].next # "failed"
  PROVE  TaskFits(i)'
  BY DEF TaskFits

LEMMA InsertTasks ==
  ASSUME CadenceTypeOK, \A i \in Slots : TaskFits(i), NEW j \in Slots, NEW row \in CheckIn,
         row.status = "pending", InsertsRow(j, row),
         NEW i \in Slots, checkTask'[i] = checkTask[i]
  PROVE  TaskFits(i)'
<1>1. /\ checkIns[j].status = "none" /\ checkTask[j].pc = "none"
      /\ checkIns'[j] = row /\ (i # j => checkIns'[i] = checkIns[i])
  BY InsertEffects
<1>2. checkTask[j].next # "failed"
  BY <1>1 DEF TaskFits
<1>3. QED
  BY <1>1, <1>2, TaskFitsStays

LEMMA WithdrawTasks ==
  ASSUME CadenceTypeOK, \A i \in Slots : TaskFits(i), NEW new, checkIns' = Withdrawn(new),
         UNCHANGED checkTask
  PROVE  \A i \in Slots : TaskFits(i)'
<1> TAKE i \in Slots
<1>1. CASE Scheduled(checkIns[i]) /\ i # new
  <2>1. checkIns'[i] = NoCheckIn
    BY <1>1, WithdrawEffects
  <2>2. checkIns[i].status = "pending" /\ checkTask[i].next # "failed"
    BY <1>1 DEF Scheduled, TaskFits
  <2>3. QED
    BY <2>1, <2>2, TaskFitsStays, RowTypes
<1>2. CASE ~(Scheduled(checkIns[i]) /\ i # new)
  BY <1>2, WithdrawEffects, TaskFitsStays
<1>3. QED
  BY <1>1, <1>2

LEMMA TaskFitsByTasks ==
  ASSUME CadenceTypeOK, \A j \in Slots : TaskFits(j), NEW i \in Slots,
         CheckInComesDue(i) \/ ClaimCheckIn(i) \/ CheckInNext(i)
  PROVE  \A j \in Slots : TaskFits(j)'
<1>1. checkTask[i] \in CheckTask /\ checkIns[i] \in CheckIn /\ TaskFits(i)
  BY DEF CadenceTypeOK
<1>2. ASSUME NEW pc, NEW next, TaskGoes(i, pc, next), [pc |-> pc, next |-> next] \in CheckTask,
             UNCHANGED checkIns,
             /\ checkIns[i].status = "running" <=> pc # "none" /\ next # "failed"
             /\ next = "failed" =>
                  /\ checkIns[i].status = "none"
                  /\ pc \in {"looking", "reading", "inserting", "marking"}
      PROVE  \A j \in Slots : TaskFits(j)'
  <2>1. checkTask'[i].pc = pc /\ checkTask'[i].next = next
    BY <1>2, TaskEffects
  <2>2. \A j \in Slots : j # i => checkTask'[j] = checkTask[j]
    BY <1>2, TaskEffects
  <2>3. TaskFits(i)'
    BY <1>2, <2>1 DEF TaskFits
  <2>4. \A j \in Slots : j # i => TaskFits(j)'
    BY <1>2, <2>2, TaskFitsStays
  <2>5. QED
    BY <2>3, <2>4
<1>3. CASE CheckInComesDue(i)
  <2>1. /\ \A j \in Slots : checkIns'[j].status = checkIns[j].status
        /\ checkTask' = checkTask
    BY <1>1, <1>3 DEF CheckInComesDue, CadenceTypeOK, CheckIn
  <2>2. QED
    BY <2>1, TaskFitsStays
<1>4. CASE ClaimCheckIn(i)
  <2>1. checkIns[i].status = "pending"
    BY <1>4 DEF ClaimCheckIn, DueToRun
  <2>2. checkTask[i].next # "failed"
    BY <1>1, <2>1 DEF TaskFits
  <2>3. checkIns'[i].status = "running"
    BY <1>1, <1>4, RowOperations DEF ClaimCheckIn, CadenceTypeOK
  <2>4. checkTask'[i].pc = "claimed" /\ checkTask'[i].next = checkTask[i].next
    BY <1>1, <1>4 DEF ClaimCheckIn, CadenceTypeOK, CheckTask
  <2>5. TaskFits(i)'
    BY <2>2, <2>3, <2>4 DEF TaskFits
  <2>6. \A j \in Slots : j # i => checkIns'[j] = checkIns[j] /\ checkTask'[j] = checkTask[j]
    BY <1>4 DEF ClaimCheckIn, CadenceTypeOK
  <2>7. \A j \in Slots : j # i => TaskFits(j)'
    BY <2>6, TaskFitsStays
  <2>8. QED
    BY <2>5, <2>7
<1>5. CASE CheckInGate(i)
  <2>1. checkTask[i].pc = "claimed" /\ checkIns' = checkIns
    BY <1>5 DEF CheckInGate
  <2>2. checkIns[i].status = "running"
    BY <1>1, <2>1 DEF TaskFits
  <2>3. \/ TaskGoes(i, "retiring", "skipped") \/ TaskGoes(i, "looking", "skipped")
        \/ TaskGoes(i, "working", "done")
    BY <1>5 DEF CheckInGate
  <2>4. \A pc \in {"retiring", "looking", "working"}, next \in {"skipped", "done"} :
          [pc |-> pc, next |-> next] \in CheckTask
    BY DEF CheckTask
  <2>5. QED
    BY <1>2, <2>1, <2>2, <2>3, <2>4
<1>6. CASE CheckInRuns(i)
  <2>1. checkTask[i].pc = "working" /\ checkIns' = checkIns /\ TaskGoes(i, "looking", "done")
    BY <1>6 DEF CheckInRuns
  <2>2. checkIns[i].status = "running"
    BY <1>1, <2>1 DEF TaskFits
  <2>3. [pc |-> "looking", next |-> "done"] \in CheckTask
    BY DEF CheckTask
  <2>4. QED
    BY <1>2, <2>1, <2>2, <2>3
<1>7. CASE CheckInFails(i)
  <2> DEFINE row == FailedOrRetry(checkIns[i])
  <2>1. checkIns'[i] = Vacated(row)
    BY <1>1, <1>7 DEF CheckInFails, CadenceTypeOK
  <2>2. \A j \in Slots : j # i => checkIns'[j] = checkIns[j]
    BY <1>7 DEF CheckInFails, CadenceTypeOK
  <2>3. \A pc \in {"looking", "none"}, next \in {"failed", "done"} :
          [pc |-> pc, next |-> next] \in CheckTask
    BY DEF CheckTask
  <2>4. CASE row.status = "failed"
    <3>1. TaskGoes(i, "looking", "failed")
      BY <1>7, <2>4 DEF CheckInFails
    <3>2. checkIns'[i].status = "none"
      BY <1>1, <2>1, <2>4, RowOperations, RowTypes
    <3>3. checkTask'[i].pc = "looking" /\ checkTask'[i].next = "failed"
      BY <2>3, <3>1, TaskEffects
    <3>4. \A j \in Slots : j # i => checkTask'[j] = checkTask[j]
      BY <2>3, <3>1, TaskEffects
    <3>5. TaskFits(i)'
      BY <3>2, <3>3 DEF TaskFits
    <3>6. \A j \in Slots : j # i => TaskFits(j)'
      BY <2>2, <3>4, TaskFitsStays
    <3>7. QED
      BY <3>5, <3>6
  <2>5. CASE row.status # "failed"
    <3>1. TaskGoes(i, "none", "done")
      BY <1>7, <2>5 DEF CheckInFails
    <3>2. checkIns'[i].status = "pending"
      BY <1>1, <2>1, <2>5, RowOperations
    <3>3. checkTask'[i].pc = "none" /\ checkTask'[i].next = "done"
      BY <2>3, <3>1, TaskEffects
    <3>4. \A j \in Slots : j # i => checkTask'[j] = checkTask[j]
      BY <2>3, <3>1, TaskEffects
    <3>5. TaskFits(i)'
      BY <3>2, <3>3 DEF TaskFits
    <3>6. \A j \in Slots : j # i => TaskFits(j)'
      BY <2>2, <3>4, TaskFitsStays
    <3>7. QED
      BY <3>5, <3>6
  <2>6. QED
    BY <2>4, <2>5
<1>8. CASE ChainLooks(i) \/ ChainReads(i)
  <2>1. /\ checkTask[i].pc \in {"looking", "reading"} /\ checkIns' = checkIns
        /\ \E pc \in {"reading", "inserting", "marking"} : TaskGoes(i, pc, checkTask[i].next)
    BY <1>8 DEF ChainLooks, ChainReads
  <2>2. \A pc \in {"reading", "inserting", "marking"} :
          [pc |-> pc, next |-> checkTask[i].next] \in CheckTask
    BY <1>1 DEF CheckTask
  <2>3. QED
    BY <1>1, <1>2, <2>1, <2>2 DEF TaskFits
<1>9. CASE ChainInserts(i)
  <2>1. PICK j \in Slots : InsertsRow(j, NewCheckIn)
    BY <1>9 DEF ChainInserts
  <2>2. TaskGoes(i, "marking", checkTask[i].next) /\ checkTask[i].pc = "inserting"
    BY <1>9 DEF ChainInserts
  <2>3. [pc |-> "marking", next |-> checkTask[i].next] \in CheckTask
    BY <1>1 DEF CheckTask
  <2>4. /\ checkTask'[i].pc = "marking" /\ checkTask'[i].next = checkTask[i].next
        /\ \A k \in Slots : k # i => checkTask'[k] = checkTask[k]
    BY <2>2, <2>3, TaskEffects
  <2>5. checkIns'[i] = checkIns[i]
    BY <2>1, <2>2, InsertEffects, RowTypes
  <2>6. TaskFits(i)'
    BY <1>1, <2>2, <2>4, <2>5 DEF TaskFits
  <2>7. \A k \in Slots : k # i => TaskFits(k)'
    BY <2>1, <2>4, InsertTasks, RowTypes
  <2>8. QED
    BY <2>6, <2>7
<1>10. CASE CheckInMarks(i)
  <2>1. /\ checkTask[i].pc \in {"marking", "retiring"}
        /\ TaskGoes(i, "none", "done")
    BY <1>10 DEF CheckInMarks
  <2>2. [pc |-> "none", next |-> "done"] \in CheckTask
    BY DEF CheckTask
  <2>3. /\ checkTask'[i].pc = "none" /\ checkTask'[i].next = "done"
        /\ \A k \in Slots : k # i => checkTask'[k] = checkTask[k]
    BY <2>1, <2>2, TaskEffects
  <2>4. \A k \in Slots : k # i => checkIns'[k] = checkIns[k]
    BY <1>10 DEF CheckInMarks, CadenceTypeOK
  <2>5. checkIns'[i].status = "none"
    <3>1. checkTask[i].next \in {"done", "skipped", "failed"}
      BY <1>1 DEF CheckTask
    <3>2. CASE checkTask[i].next = "done"
      BY <1>1, <1>10, <3>2, RowOperations, RowTypes DEF CheckInMarks, CadenceTypeOK
    <3>3. CASE checkTask[i].next = "skipped"
      <4>1. checkIns[i].status = "running"
        BY <1>1, <2>1, <3>3 DEF TaskFits
      <4>2. QED
        BY <1>1, <1>10, <3>3, <4>1, RowOperations, RowTypes DEF CheckInMarks, CadenceTypeOK
    <3>4. CASE checkTask[i].next = "failed"
      <4>1. checkIns[i].status = "none"
        BY <1>1, <3>4 DEF TaskFits
      <4>2. checkIns'[i] = checkIns[i]
        BY <1>10, <3>4 DEF CheckInMarks, CadenceTypeOK
      <4>3. QED
        BY <4>1, <4>2
    <3>5. QED
      BY <3>1, <3>2, <3>3, <3>4
  <2>6. TaskFits(i)'
    BY <2>3, <2>5 DEF TaskFits
  <2>7. \A k \in Slots : k # i => TaskFits(k)'
    BY <2>3, <2>4, TaskFitsStays
  <2>8. QED
    BY <2>6, <2>7
<1>11. QED
  BY <1>3, <1>4, <1>5, <1>6, <1>7, <1>8, <1>9, <1>10 DEF CheckInNext

LEMMA TaskFitsByOthers ==
  ASSUME CadenceTypeOK, \A i \in Slots : TaskFits(i),
         \/ \E s \in Savers : SaverReads(s) \/ SaverNext(s)
         \/ SwitchesMode \/ SwitcherNext \/ DeletesDepartment
         \/ CreatesDepartment \/ QueuesRerun \/ CadenceStart
  PROVE  \A i \in Slots : TaskFits(i)'
<1>1. UNCHANGED <<checkIns, checkTask>> => \A i \in Slots : TaskFits(i)'
  BY TaskFitsStays
<1>2. ASSUME NEW j \in Slots, NEW row \in CheckIn, row.status = "pending",
             InsertsRow(j, row), UNCHANGED checkTask
      PROVE  \A i \in Slots : TaskFits(i)'
  BY <1>2, InsertTasks
<1>3. ASSUME NEW s \in Savers, SaverReads(s) \/ SaverNext(s)
      PROVE  \A i \in Slots : TaskFits(i)'
  <2>1. CASE SaverReads(s) \/ (\E on \in BOOLEAN : SaverSaves(s, on)) \/ SaverLocks(s) \/ SaverQueues(s)
    BY <1>1, <2>1 DEF SaverReads, SaverSaves, SaverLocks, SaverQueues
  <2>2. CASE SaverInserts(s)
    BY <1>2, <2>2, RowTypes DEF SaverInserts
  <2>3. CASE SaverCancels(s)
    BY <2>3, WithdrawTasks DEF SaverCancels
  <2>4. QED
    BY <1>3, <2>1, <2>2, <2>3 DEF SaverNext
<1>4. CASE SwitchesMode \/ SwitcherReads \/ SwitcherLooks \/ CreatesDepartment
  BY <1>1, <1>4 DEF SwitchesMode, SwitcherReads, SwitcherLooks, CreatesDepartment
<1>5. CASE SwitcherCancels
  <2>1. \A i \in Slots : checkIns'[i] = Vacated(Cancelled(checkIns[i]))
    BY <1>5 DEF SwitcherCancels
  <2>2. checkTask' = checkTask
    BY <1>5 DEF SwitcherCancels
  <2>3. ASSUME NEW i \in Slots
        PROVE  TaskFits(i)'
    <3>1. checkIns'[i] = IF checkIns[i].status = "pending" THEN NoCheckIn ELSE checkIns[i]
      BY <2>1, RowOperations DEF CadenceTypeOK
    <3>2. CASE checkIns[i].status = "pending"
      <4>1. checkTask[i].next # "failed"
        BY <3>2 DEF TaskFits
      <4>2. checkIns'[i].status = "none"
        BY <3>1, <3>2, RowTypes
      <4>3. QED
        BY <2>2, <3>2, <4>1, <4>2, TaskFitsStays
    <3>3. CASE checkIns[i].status # "pending"
      BY <2>2, <3>1, <3>3, TaskFitsStays
    <3>4. QED
      BY <3>2, <3>3
  <2>4. QED
    BY <2>3
<1>6. CASE SwitcherInserts
  BY <1>2, <1>6, RowTypes DEF SwitcherInserts
<1>7. CASE DeletesDepartment
  BY <1>7, WithdrawTasks DEF DeletesDepartment
<1>8. CASE QueuesRerun
  <2>1. /\ [NewCheckIn EXCEPT !.due = TRUE, !.rerun = TRUE] \in CheckIn
        /\ [NewCheckIn EXCEPT !.due = TRUE, !.rerun = TRUE].status = "pending"
    BY RowTypes DEF CheckIn
  <2>2. QED
    BY <1>2, <1>8, <2>1 DEF QueuesRerun
<1>9. CASE CadenceStart
  BY <1>9, StartEffects DEF TaskFits, NoCheckTask
<1>10. QED
  BY <1>3, <1>4, <1>5, <1>6, <1>7, <1>8, <1>9 DEF SwitcherNext

-----------------------------------------------------------------------------
(* Requests and the rows they queued *)

\* Where no request moves, nor the mode and the department, a request still
\* fits if the row it queued, which has no task, is left alone.
LEMMA SaverFitsStays ==
  ASSUME CadenceTypeOK, \A s \in Savers : SaverFits(s), UNCHANGED <<saver, mode, dept>>,
         adrift => adrift' ,
         \A s \in Savers : saver[s].new # 0 =>
           /\ checkIns'[saver[s].new] = checkIns[saver[s].new]
           /\ checkTask'[saver[s].new] = checkTask[saver[s].new]
  PROVE  \A s \in Savers : SaverFits(s)'
  BY DEF SaverFits, HoldingLock, Wanted

LEMMA NewIsASlot ==
  ASSUME CadenceTypeOK, NEW s \in Savers, saver[s].new # 0
  PROVE  saver[s].new \in Slots
<1>1. saver[s].new \in 0..MaxRows
  BY DEF CadenceTypeOK, Saver
<1>2. QED
  BY <1>1, CadenceAssumption DEF Slots

LEMMA SaverFitsByTasks ==
  ASSUME CadenceTypeOK, \A s \in Savers : SaverFits(s), NEW i \in Slots,
         CheckInComesDue(i) \/ ClaimCheckIn(i) \/ CheckInNext(i)
  PROVE  \A s \in Savers : SaverFits(s)'
<1>1. UNCHANGED <<saver, mode, dept, adrift>>
  BY DEF CheckInComesDue, ClaimCheckIn, CheckInNext, CheckInGate, CheckInRuns, CheckInFails,
         ChainLooks, ChainReads, ChainInserts, CheckInMarks
<1>2. ASSUME NEW s \in Savers, saver[s].new # 0
      PROVE  /\ checkIns'[saver[s].new] = checkIns[saver[s].new]
             /\ checkTask'[saver[s].new] = checkTask[saver[s].new]
  <2> DEFINE new == saver[s].new
  <2>1. new \in Slots
    BY <1>2, NewIsASlot
  <2>2. checkTask[new].pc = "none" /\ ~checkIns[new].due
    BY <1>2, RowTypes DEF SaverFits, NoCheckIn
  <2>3. new # i
    BY <1>2, <2>2 DEF CheckInComesDue, ClaimCheckIn, DueToRun, CheckInNext, CheckInGate,
                      CheckInRuns, CheckInFails, ChainLooks, ChainReads, ChainInserts,
                      CheckInMarks
  <2>4. checkTask'[new] = checkTask[new]
    BY <2>1, <2>3 DEF CheckInComesDue, ClaimCheckIn, CheckInNext, CheckInGate,
                      CheckInRuns, CheckInFails, ChainLooks, ChainReads, ChainInserts,
                      CheckInMarks, TaskGoes, CadenceTypeOK
  <2>5. CASE ChainInserts(i)
    <3>1. PICK j \in Slots : InsertsRow(j, NewCheckIn)
      BY <2>5 DEF ChainInserts
    <3>2. checkIns'[new] = checkIns[new]
      BY <1>2, <2>1, <3>1, InsertEffects, RowTypes
    <3>3. QED
      BY <2>4, <3>2
  <2>6. CASE ~ChainInserts(i)
    <3>1. checkIns'[new] = checkIns[new]
      BY <2>1, <2>3, <2>6 DEF CheckInComesDue, ClaimCheckIn, CheckInNext, CheckInGate,
           CheckInRuns, CheckInFails, ChainLooks, ChainReads, CheckInMarks, CadenceTypeOK
    <3>2. QED
      BY <2>4, <3>1
  <2>7. QED
    BY <2>5, <2>6
<1>3. QED
  BY <1>1, <1>2, SaverFitsStays

\* A step of one request, the others looking on. It takes the lock only when
\* it is free.
LEMMA SaverFitsByOne ==
  ASSUME CadenceTypeOK, \A t \in Savers : SaverFits(t), NEW s \in Savers,
         \A t \in Savers : t # s => saver'[t] = saver[t],
         UNCHANGED <<mode, checkTask>>,
         dept'.exists = dept.exists, ~adrift' => ~adrift,
         saver'[s].pc \in HoldingLock => saver[s].pc \in HoldingLock \/ LockFree,
         saver[s].pc = "saved" => LockFree \/ saver'[s].pc = "saved",
         Wanted' /\ ~adrift' => Wanted \/ saver'[s].pc = "saved",
         \A t \in Savers : t # s /\ saver[t].new # 0 =>
           checkIns'[saver[t].new] = checkIns[saver[t].new],
         saver'[s].new # 0 =>
           /\ saver'[s].pc = "cancelling" /\ checkTask[saver'[s].new].pc = "none"
           /\ checkIns'[saver'[s].new] = NewCheckIn,
         saver'[s].pc = "cancelling" /\ saver'[s].new = 0 => ~Wanted'
  PROVE  \A t \in Savers : SaverFits(t)'
<1>1. SaverFits(s)'
  <2>1. saver'[s].pc \in HoldingLock =>
          \A t \in Savers : saver'[t].pc \in HoldingLock => t = s
    BY DEF SaverFits, LockFree, HoldingLock
  <2>2. QED
    BY <2>1 DEF SaverFits
<1>2. ASSUME NEW t \in Savers, t # s
      PROVE  SaverFits(t)'
  <2>1. saver'[t] = saver[t] /\ SaverFits(t)
    BY <1>2
  <2>2. saver'[t].pc \in HoldingLock =>
          \A u \in Savers : saver'[u].pc \in HoldingLock => u = t
    BY <1>2, <2>1 DEF SaverFits, LockFree, HoldingLock
  <2>3. saver'[t].new # 0 =>
          /\ saver'[t].pc = "cancelling" /\ checkTask'[saver'[t].new].pc = "none"
          /\ checkIns'[saver'[t].new] \in {NoCheckIn, NewCheckIn}
          /\ mode' = "team" /\ dept'.exists /\ ~adrift' =>
               checkIns'[saver'[t].new] = NewCheckIn
    BY <1>2, <2>1 DEF SaverFits
  <2>4. ASSUME saver'[t].pc = "cancelling", saver'[t].new = 0, Wanted', ~adrift'
        PROVE  \E u \in Savers : saver'[u].pc = "saved"
    <3>1. ~LockFree
      BY <2>1, <2>4 DEF LockFree
    <3>2. CASE saver'[s].pc = "saved"
      BY <3>2
    <3>3. CASE saver'[s].pc # "saved"
      <4>1. PICK u \in Savers : saver[u].pc = "saved"
        BY <2>1, <2>4, <3>3 DEF SaverFits
      <4>2. u # s
        BY <3>1, <3>3, <4>1
      <4>3. QED
        BY <4>1, <4>2
    <3>4. QED
      BY <3>2, <3>3
  <2>5. QED
    BY <2>2, <2>3, <2>4 DEF SaverFits
<1>3. QED
  BY <1>1, <1>2

LEMMA SaverFitsBySavers ==
  ASSUME CadenceTypeOK, \A t \in Savers : SaverFits(t), NEW s \in Savers,
         SaverReads(s) \/ SaverNext(s)
  PROVE  \A t \in Savers : SaverFits(t)'
<1>1. saver[s] \in Saver /\ 0 \in 0..MaxRows
  BY CadenceAssumption DEF CadenceTypeOK
<1>2. Wanted \in BOOLEAN /\ dept.on \in BOOLEAN /\ dept.exists \in BOOLEAN
  BY DEF Wanted, CadenceTypeOK
<1>3. \A pc \in {"read", "saved", "wants", "inserting", "cancelling"},
         before \in BOOLEAN, wants \in BOOLEAN :
        [pc |-> pc, before |-> before, wants |-> wants, new |-> 0] \in Saver
  BY <1>1 DEF Saver
<1>4. CASE SaverReads(s)
  <2>1. /\ saver'[s].pc = "read" /\ saver'[s].new = 0
        /\ \A t \in Savers : t # s => saver'[t] = saver[t]
    BY <1>2, <1>3, <1>4, SaverEffects DEF SaverReads
  <2>2. saver[s].pc = "idle" /\ UNCHANGED <<mode, dept, checkIns, checkTask, adrift>>
    BY <1>4 DEF SaverReads
  <2>3. QED
    BY <2>1, <2>2, SaverFitsByOne DEF HoldingLock, Wanted
<1>5. ASSUME NEW on \in BOOLEAN, SaverSaves(s, on)
      PROVE  \A t \in Savers : SaverFits(t)'
  <2>1. saver[s].pc = "read" /\ UNCHANGED <<mode, checkIns, checkTask>>
    BY <1>5 DEF SaverSaves
  <2>2. dept'.exists = dept.exists
    BY <1>5 DEF SaverSaves, CadenceTypeOK
  <2>3. CASE SaverIs(s, "saved", saver[s].before, FALSE, 0) /\ UNCHANGED adrift
    <3>1. saver[s].before \in BOOLEAN
      BY <1>1 DEF Saver
    <3>2. /\ saver'[s].pc = "saved" /\ saver'[s].new = 0
          /\ \A t \in Savers : t # s => saver'[t] = saver[t]
      BY <1>3, <2>3, <3>1, SaverEffects
    <3>3. QED
      BY <2>1, <2>2, <2>3, <3>2, SaverFitsByOne DEF HoldingLock
  <2>4. CASE /\ saver' = [saver EXCEPT ![s] = NoSaver]
             /\ adrift' = (adrift \/ (dept.exists /\ dept.on # on))
    <3>1. /\ saver'[s].pc = "idle" /\ saver'[s].new = 0
          /\ \A t \in Savers : t # s => saver'[t] = saver[t]
      BY <2>4, SaverEnds
    <3>2. ~adrift' => ~adrift
      BY <2>4
    <3>3. Wanted' /\ ~adrift' => Wanted
      <4>1. CASE dept.exists /\ dept.on # on
        BY <2>4, <4>1
      <4>2. CASE dept.exists /\ dept.on = on
        BY <1>5, <2>1, <4>2 DEF SaverSaves, Wanted, CadenceTypeOK
      <4>3. CASE ~dept.exists
        BY <2>2, <4>3 DEF Wanted
      <4>4. QED
        BY <4>1, <4>2, <4>3
    <3>4. QED
      BY <2>1, <2>2, <3>1, <3>2, <3>3, SaverFitsByOne DEF HoldingLock
  <2>5. QED
    BY <1>5, <2>3, <2>4 DEF SaverSaves
<1>6. CASE SaverLocks(s)
  <2>1. /\ saver'[s].pc = "wants" /\ saver'[s].new = 0
        /\ \A t \in Savers : t # s => saver'[t] = saver[t]
    BY <1>2, <1>3, <1>6, SaverEffects DEF SaverLocks
  <2>2. LockFree /\ UNCHANGED <<mode, dept, checkIns, checkTask, adrift>>
    BY <1>6 DEF SaverLocks
  <2>3. QED
    BY <2>1, <2>2, SaverFitsByOne DEF Wanted
<1>7. CASE SaverQueues(s)
  <2>1. saver[s].pc = "wants" /\ UNCHANGED <<mode, dept, checkIns, checkTask, adrift>>
    BY <1>7 DEF SaverQueues
  <2>2. \A pc \in {"inserting", "cancelling"} : SaverIs(s, pc, FALSE, FALSE, 0) =>
          /\ saver'[s].pc = pc /\ saver'[s].new = 0
          /\ \A t \in Savers : t # s => saver'[t] = saver[t]
    BY <1>3, SaverEffects
  <2>3. \/ SaverIs(s, "inserting", FALSE, FALSE, 0)
        \/ saver' = [saver EXCEPT ![s] = NoSaver]
        \/ SaverIs(s, "cancelling", FALSE, FALSE, 0) /\ ~Wanted
    BY <1>7 DEF SaverQueues, Enqueues
  <2>4. /\ saver'[s].pc \in {"inserting", "idle", "cancelling"} /\ saver'[s].new = 0
        /\ saver'[s].pc = "cancelling" => ~Wanted
        /\ \A t \in Savers : t # s => saver'[t] = saver[t]
    BY <2>2, <2>3, SaverEnds
  <2>5. QED
    BY <2>1, <2>4, SaverFitsByOne DEF HoldingLock, Wanted
<1>8. CASE SaverInserts(s)
  <2>1. PICK j \in Slots : InsertsRow(j, NewCheckIn) /\ SaverIs(s, "cancelling", FALSE, FALSE, j)
    BY <1>8 DEF SaverInserts
  <2>2. [pc |-> "cancelling", before |-> FALSE, wants |-> FALSE, new |-> j] \in Saver
    BY SlotsAreRows DEF Saver
  <2>3. /\ saver'[s].pc = "cancelling" /\ saver'[s].new = j
        /\ \A t \in Savers : t # s => saver'[t] = saver[t]
    BY <2>1, <2>2, SaverEffects
  <2>4. saver[s].pc = "inserting" /\ UNCHANGED <<mode, dept, checkTask, adrift>>
    BY <1>8 DEF SaverInserts
  <2>5. /\ checkIns'[j] = NewCheckIn /\ checkTask[j].pc = "none"
        /\ \A i \in Slots : i # j => checkIns'[i] = checkIns[i]
        /\ \A t \in Savers : saver[t].new # j
    BY <2>1, InsertEffects, RowTypes
  <2>6. \A t \in Savers : t # s /\ saver[t].new # 0 =>
          checkIns'[saver[t].new] = checkIns[saver[t].new]
    BY <2>5, NewIsASlot
  <2>7. j # 0
    BY SlotsAreRows
  <2>8. QED
    BY <2>3, <2>4, <2>5, <2>6, <2>7, SaverFitsByOne DEF HoldingLock, Wanted
<1>9. CASE SaverCancels(s)
  <2>1. /\ saver'[s].pc = "idle" /\ saver'[s].new = 0
        /\ \A t \in Savers : t # s => saver'[t] = saver[t]
    BY <1>9, SaverEnds DEF SaverCancels
  <2>2. saver[s].pc = "cancelling" /\ UNCHANGED <<mode, dept, checkTask, adrift>>
    BY <1>9 DEF SaverCancels
  <2>3. \A t \in Savers : t # s => saver[t].new = 0
    BY <2>2 DEF SaverFits, HoldingLock
  <2>4. QED
    BY <2>1, <2>2, <2>3, SaverFitsByOne DEF HoldingLock, Wanted
<1>10. QED
  BY <1>4, <1>5, <1>6, <1>7, <1>8, <1>9 DEF SaverNext

LEMMA SaverFitsByOthers ==
  ASSUME CadenceTypeOK, \A s \in Savers : SaverFits(s), switcher = "cancelling" => mode = "solo",
         \/ SwitchesMode \/ SwitcherNext \/ DeletesDepartment
         \/ CreatesDepartment \/ QueuesRerun \/ CadenceStart
  PROVE  \A s \in Savers : SaverFits(s)'
\* What fits whatever the row is, while the check-in is not wanted or adrift.
<1>1. ASSUME UNCHANGED <<saver, checkTask>>, mode' = "solo" \/ ~dept'.exists \/ adrift',
             \A s \in Savers : saver[s].new # 0 =>
               checkIns'[saver[s].new] \in {NoCheckIn, NewCheckIn}
      PROVE  \A s \in Savers : SaverFits(s)'
  BY <1>1 DEF SaverFits, Wanted
<1>2. ASSUME NEW j \in Slots, NEW row \in CheckIn, InsertsRow(j, row),
             UNCHANGED <<mode, dept, checkTask, saver, adrift>>
      PROVE  \A s \in Savers : SaverFits(s)'
  <2>1. \A s \in Savers : saver[s].new # 0 => checkIns'[saver[s].new] = checkIns[saver[s].new]
    BY <1>2, InsertEffects, NewIsASlot
  <2>2. QED
    BY <1>2, <2>1, SaverFitsStays
<1>3. \A s \in Savers : saver[s].new # 0 => checkIns[saver[s].new] \in {NoCheckIn, NewCheckIn}
  BY DEF SaverFits
<1>4. CASE SwitchesMode
  <2>1. UNCHANGED <<saver, checkTask, checkIns>>
    BY <1>4 DEF SwitchesMode
  <2>2. CASE mode' = "solo" \/ adrift'
    BY <1>1, <1>3, <2>1, <2>2
  <2>3. CASE mode' # "solo" /\ ~adrift'
    <3>1. OthersSettled
      BY <1>4, <2>3 DEF SwitchesMode, CadenceTypeOK
    <3>2. \A s \in Savers : saver[s].new = 0 /\ saver[s].pc \in {"idle", "read"}
      BY <3>1 DEF OthersSettled, SaverFits
    <3>3. QED
      BY <2>1, <3>2 DEF SaverFits, HoldingLock
  <2>4. QED
    BY <2>2, <2>3
<1>4a. CASE CreatesDepartment
  BY <1>1, <1>3, <1>4a DEF CreatesDepartment
<1>5. CASE SwitcherCancels
  <2>1. \A i \in Slots : checkIns'[i] = Vacated(Cancelled(checkIns[i]))
    BY <1>5 DEF SwitcherCancels
  <2>2. \A i \in Slots : checkIns'[i] = IF checkIns[i].status = "pending" THEN NoCheckIn ELSE checkIns[i]
    BY <2>1, RowOperations DEF CadenceTypeOK
  <2>3. \A s \in Savers : saver[s].new # 0 => checkIns'[saver[s].new] \in {NoCheckIn, NewCheckIn}
    BY <1>3, <2>2, NewIsASlot
  <2>4. mode' = "solo" /\ UNCHANGED <<saver, checkTask>>
    BY <1>5 DEF SwitcherCancels
  <2>5. QED
    BY <1>1, <2>3, <2>4
<1>6. CASE SwitcherReads \/ SwitcherLooks
  <2>1. UNCHANGED <<mode, dept, checkIns, checkTask, saver, adrift>>
    BY <1>6 DEF SwitcherReads, SwitcherLooks
  <2>2. QED
    BY <2>1, SaverFitsStays
<1>7. CASE SwitcherInserts
  BY <1>2, <1>7, RowTypes DEF SwitcherInserts
<1>8. CASE DeletesDepartment
  <2>1. ~dept'.exists /\ UNCHANGED <<saver, checkTask>>
    BY <1>8 DEF DeletesDepartment, CadenceTypeOK
  <2>2. \A i \in Slots : checkIns'[i] = NoCheckIn \/ checkIns'[i] = checkIns[i]
    BY <1>8, WithdrawEffects DEF DeletesDepartment
  <2>3. \A s \in Savers : saver[s].new # 0 => checkIns'[saver[s].new] \in {NoCheckIn, NewCheckIn}
    BY <1>3, <2>2, NewIsASlot
  <2>4. QED
    BY <1>1, <2>1, <2>3
<1>9. CASE QueuesRerun
  <2>1. [NewCheckIn EXCEPT !.due = TRUE, !.rerun = TRUE] \in CheckIn
    BY RowTypes DEF CheckIn
  <2>2. QED
    BY <1>2, <1>9, <2>1 DEF QueuesRerun
<1>10. CASE CadenceStart
  BY <1>10, StartEffects DEF SaverFits, NoSaver, HoldingLock
<1>11. QED
  BY <1>4, <1>5, <1>6, <1>7, <1>8, <1>9, <1>10, <1>4a DEF SwitcherNext

LEMMA CadenceFitsKept == CadenceFits /\ [CadenceNext]_cadenceVars => CadenceFits'
<1> SUFFICES ASSUME CadenceFits, [CadenceNext]_cadenceVars
             PROVE  CadenceFits'
  OBVIOUS
<1>1. CadenceTypeOK'
  BY CadenceTypeKept DEF CadenceFits
<1>2. (switcher = "cancelling" => mode = "solo")'
  BY DEF CadenceFits, CadenceTypeOK, CadenceNext, cadenceVars, CheckInComesDue, ClaimCheckIn, CheckInNext,
         CheckInGate, CheckInRuns, CheckInFails, ChainLooks, ChainReads, ChainInserts,
         CheckInMarks, SaverReads, SaverNext, SaverSaves, SaverLocks, SaverQueues,
         SaverInserts, SaverCancels, SwitchesMode, SwitcherNext, SwitcherCancels,
         SwitcherReads, SwitcherLooks, SwitcherInserts, DeletesDepartment,
         CreatesDepartment, QueuesRerun, CadenceStart
<1>3. CASE UNCHANGED cadenceVars
  <2>1. (\A i \in Slots : TaskFits(i))' /\ (\A s \in Savers : SaverFits(s))'
    BY <1>3 DEF CadenceFits, cadenceVars, TaskFits, SaverFits, HoldingLock, Wanted
  <2>2. QED
    BY <1>1, <1>2, <2>1 DEF CadenceFits
<1>4. CASE CadenceNext
  <2>1. (\A i \in Slots : TaskFits(i))'
    BY <1>4, TaskFitsByTasks, TaskFitsByOthers DEF CadenceNext, CadenceFits
  <2>2. (\A s \in Savers : SaverFits(s))'
    BY <1>4, SaverFitsByTasks, SaverFitsBySavers, SaverFitsByOthers DEF CadenceNext, CadenceFits
  <2>3. QED
    BY <1>1, <1>2, <2>1, <2>2 DEF CadenceFits
<1>5. QED
  BY <1>3, <1>4

-----------------------------------------------------------------------------
(* The chain goes on *)

\* A row and its task that nothing happens to.
LEMMA GoesOnStays ==
  ASSUME NEW i \in Slots, GoesOnFrom(i), checkIns'[i] = checkIns[i],
         checkTask'[i] = checkTask[i]
  PROVE  GoesOnFrom(i)'
  BY DEF GoesOnFrom, Scheduled

LEMMA InsertGoesOn ==
  ASSUME CadenceTypeOK, NEW j \in Slots, InsertsRow(j, NewCheckIn)
  PROVE  GoesOnFrom(j)'
  BY InsertEffects, RowTypes DEF GoesOnFrom, Scheduled

\* A task passes the chain on only when it has another row to go on from, or
\* has seen that the check-in is not wanted.
LEMMA GoesOnByTasks ==
  ASSUME CadenceFits, Wanted, NEW i \in Slots, NEW k \in Slots, GoesOnFrom(k),
         CheckInComesDue(i) \/ ClaimCheckIn(i) \/ CheckInNext(i)
  PROVE  \E j \in Slots : GoesOnFrom(j)'
<1>1. /\ checkTask[i] \in CheckTask /\ checkIns[i] \in CheckIn
      /\ TaskFits(i) /\ CadenceTypeOK
  BY DEF CadenceFits, CadenceTypeOK
<1>2. CASE ChainInserts(i)
  BY <1>1, <1>2, InsertGoesOn DEF ChainInserts
<1>3. CASE ChainLooks(i)
  <2>1. CASE \E j \in Slots : Scheduled(checkIns[j])
    BY <1>3, <2>1 DEF ChainLooks, GoesOnFrom, Scheduled
  <2>2. CASE ~\E j \in Slots : Scheduled(checkIns[j])
    <3>1. TaskGoes(i, "reading", checkTask[i].next)
      BY <1>3, <2>2 DEF ChainLooks
    <3>2. checkTask'[i].pc = "reading"
      BY <1>1, <3>1, TaskEffects DEF CheckTask
    <3>3. QED
      BY <3>2 DEF GoesOnFrom
  <2>3. QED
    BY <2>1, <2>2
<1>4. CASE ChainReads(i)
  <2>1. TaskGoes(i, "inserting", checkTask[i].next)
    BY <1>4 DEF ChainReads, Enqueues
  <2>2. checkTask'[i].pc = "inserting"
    BY <1>1, <2>1, TaskEffects DEF CheckTask
  <2>3. QED
    BY <2>2 DEF GoesOnFrom
<1>5. ASSUME CheckInComesDue(i) \/ ClaimCheckIn(i) \/ CheckInGate(i) \/ CheckInRuns(i)
               \/ CheckInFails(i) \/ CheckInMarks(i)
      PROVE  \E j \in Slots : GoesOnFrom(j)'
  <2>1. CASE k # i
    <3>1. checkIns'[k] = checkIns[k] /\ checkTask'[k] = checkTask[k]
      BY <1>1, <1>5, <2>1 DEF CheckInComesDue, ClaimCheckIn, CheckInGate, CheckInRuns,
           CheckInFails, CheckInMarks, TaskGoes, CadenceTypeOK
    <3>2. QED
      BY <3>1, GoesOnStays
  <2>2. CASE k = i
    <3>1. GoesOnFrom(i)
      BY <2>2
    <3>2. CASE CheckInComesDue(i)
      BY <1>1, <3>1, <3>2 DEF CheckInComesDue, GoesOnFrom, Scheduled, CadenceTypeOK, CheckIn
    <3>3. CASE ClaimCheckIn(i)
      <4>1. checkIns[i].status = "pending"
        BY <3>3 DEF ClaimCheckIn, DueToRun
      <4>2. checkTask[i].pc = "none"
        BY <1>1, <4>1 DEF TaskFits
      <4>3. ~checkIns[i].rerun
        BY <3>1, <4>2 DEF GoesOnFrom, Scheduled
      <4>4. ~checkIns'[i].rerun /\ checkTask'[i].pc = "claimed"
        BY <1>1, <3>3, <4>3, RowOperations DEF ClaimCheckIn, CadenceTypeOK, CheckTask
      <4>5. QED
        BY <4>4 DEF GoesOnFrom
    <3>4. CASE CheckInGate(i)
      <4>1. checkTask[i].pc = "claimed" /\ checkIns' = checkIns /\ mode # "solo"
        BY <3>4 DEF CheckInGate, Wanted
      <4>2. checkIns[i].status = "running"
        BY <1>1, <4>1 DEF TaskFits
      <4>3. ~checkIns[i].rerun
        BY <3>1, <4>1, <4>2 DEF GoesOnFrom, Scheduled
      <4>4. TaskGoes(i, "looking", "skipped") \/ TaskGoes(i, "working", "done")
        BY <3>4, <4>1 DEF CheckInGate
      <4>5. checkTask'[i].pc \in {"looking", "working"}
        BY <1>1, <4>4, TaskEffects DEF CheckTask
      <4>6. QED
        BY <4>1, <4>3, <4>5 DEF GoesOnFrom
    <3>5. CASE CheckInRuns(i)
      <4>1. checkTask'[i].pc = "looking"
        BY <1>1, <3>5, TaskEffects DEF CheckInRuns, CheckTask
      <4>2. QED
        BY <4>1 DEF GoesOnFrom
    <3>6. CASE CheckInFails(i)
      <4> DEFINE row == FailedOrRetry(checkIns[i])
      <4>1. CASE row.status = "failed"
        <5>1. TaskGoes(i, "looking", "failed")
          BY <3>6, <4>1 DEF CheckInFails
        <5>2. checkTask'[i].pc = "looking"
          BY <1>1, <5>1, TaskEffects DEF CheckTask
        <5>3. QED
          BY <5>2 DEF GoesOnFrom
      <4>2. CASE row.status # "failed"
        <5>1. checkTask[i].pc = "working"
          BY <3>6 DEF CheckInFails
        <5>2. checkIns[i].status = "running"
          BY <1>1, <5>1 DEF TaskFits
        <5>3. ~checkIns[i].rerun
          BY <3>1, <5>1, <5>2 DEF GoesOnFrom, Scheduled
        <5>4. checkIns'[i] = Vacated(row)
          BY <1>1, <3>6 DEF CheckInFails, CadenceTypeOK
        <5>5. Scheduled(checkIns'[i])
          BY <1>1, <4>2, <5>3, <5>4, RowOperations DEF Scheduled
        <5>6. QED
          BY <5>5 DEF GoesOnFrom, Scheduled
      <4>3. QED
        BY <4>1, <4>2
    <3>7. CASE CheckInMarks(i)
      <4>1. checkTask[i].pc \in {"marking", "retiring"}
        BY <3>7 DEF CheckInMarks
      <4>2. checkIns[i].status # "pending"
        BY <1>1, <4>1 DEF TaskFits
      <4>3. QED
        BY <3>1, <4>1, <4>2 DEF GoesOnFrom, Scheduled
    <3>8. QED
      BY <1>5, <3>2, <3>3, <3>4, <3>5, <3>6, <3>7
  <2>3. QED
    BY <2>1, <2>2
<1>6. QED
  BY <1>2, <1>3, <1>4, <1>5 DEF CheckInNext

\* With no row on the calendar a task puts one there only by going on from it.
LEMMA NoneByTasks ==
  ASSUME CadenceFits, \A j \in Slots : ~OnCalendar(checkIns[j]), NEW i \in Slots,
         CheckInComesDue(i) \/ ClaimCheckIn(i) \/ CheckInNext(i)
  PROVE  \/ \E j \in Slots : GoesOnFrom(j)'
         \/ \A j \in Slots : ~OnCalendar(checkIns'[j])
<1>1. /\ checkIns[i] \in CheckIn /\ ~OnCalendar(checkIns[i])
      /\ TaskFits(i) /\ CadenceTypeOK
  BY DEF CadenceFits, CadenceTypeOK
<1>2. CASE ChainInserts(i)
  BY <1>1, <1>2, InsertGoesOn DEF ChainInserts
<1>3. CASE CheckInGate(i) \/ CheckInRuns(i) \/ ChainLooks(i) \/ ChainReads(i)
  BY <1>3 DEF CheckInGate, CheckInRuns, ChainLooks, ChainReads
<1>4. ASSUME CheckInComesDue(i) \/ ClaimCheckIn(i) \/ CheckInFails(i) \/ CheckInMarks(i)
      PROVE  \A j \in Slots : ~OnCalendar(checkIns'[j])
  <2>1. \A j \in Slots : j # i => checkIns'[j] = checkIns[j]
    BY <1>1, <1>4 DEF CheckInComesDue, ClaimCheckIn, CheckInFails, CheckInMarks, CadenceTypeOK
  <2>2. ~OnCalendar(checkIns'[i])
    <3>1. CASE CheckInComesDue(i)
      BY <1>1, <3>1 DEF CheckInComesDue, OnCalendar, CadenceTypeOK, CheckIn
    <3>2. CASE ClaimCheckIn(i)
      BY <1>1, <3>2, RowOperations DEF ClaimCheckIn, DueToRun, OnCalendar, CadenceTypeOK
    <3>3. CASE CheckInFails(i)
      <4> DEFINE row == FailedOrRetry(checkIns[i])
      <4>1. checkIns'[i] = Vacated(row)
        BY <1>1, <3>3 DEF CheckInFails, CadenceTypeOK
      <4>2. checkIns[i].status = "running"
        BY <1>1, <3>3 DEF CheckInFails, TaskFits
      <4>3. row.rerun /\ Vacated(row) \in {row, NoCheckIn}
        BY <1>1, <4>2, RowOperations DEF OnCalendar
      <4>4. QED
        BY <4>1, <4>3, RowTypes DEF OnCalendar
    <3>4. CASE CheckInMarks(i)
      <4>1. checkIns'[i] \in {Vacated(MarkedDone(checkIns[i])), Vacated(Retired(checkIns[i])),
                              checkIns[i]}
        <5>1. checkTask[i].next \in {"done", "skipped", "failed"}
          BY <1>1 DEF CadenceTypeOK, CheckTask
        <5>2. QED
          BY <1>1, <3>4, <5>1 DEF CheckInMarks, CadenceTypeOK
      <4>2. Vacated(MarkedDone(checkIns[i])) = NoCheckIn
        BY <1>1, RowOperations
      <4>3. ~OnCalendar(Vacated(Retired(checkIns[i])))
        BY <1>1 DEF Vacated, Retired, OnCalendar, NoCheckIn, CheckIn
      <4>4. QED
        BY <1>1, <4>1, <4>2, <4>3, RowTypes DEF OnCalendar
    <3>5. QED
      BY <1>4, <3>1, <3>2, <3>3, <3>4
  <2>3. QED
    BY <2>1, <2>2
<1>5. QED
  BY <1>2, <1>3, <1>4 DEF CheckInNext

LEMMA CalendarByTasks ==
  ASSUME CadenceFits, CalendarKept, NEW i \in Slots,
         CheckInComesDue(i) \/ ClaimCheckIn(i) \/ CheckInNext(i)
  PROVE  CalendarKept'
<1>1. UNCHANGED <<saver, mode, dept, switcher, adrift>>
  BY DEF CheckInComesDue, ClaimCheckIn, CheckInNext, CheckInGate, CheckInRuns, CheckInFails,
         ChainLooks, ChainReads, ChainInserts, CheckInMarks
<1>2. ASSUME \A j \in Slots : ~OnCalendar(checkIns[j])
      PROVE  \/ \E j \in Slots : GoesOnFrom(j)'
             \/ \A j \in Slots : ~OnCalendar(checkIns'[j])
  BY <1>2, NoneByTasks
<1>3. QED
  BY <1>1, <1>2, GoesOnByTasks DEF CalendarKept, SomebodyGoesOn, Wanted

LEMMA CalendarBySavers ==
  ASSUME CadenceFits, CalendarKept, NEW s \in Savers, SaverReads(s) \/ SaverNext(s)
  PROVE  CalendarKept'
<1>1. CadenceTypeOK /\ saver[s] \in Saver /\ 0 \in 0..MaxRows /\ SaverFits(s)
  BY CadenceAssumption DEF CadenceFits, CadenceTypeOK
<1>2. Wanted \in BOOLEAN /\ dept.on \in BOOLEAN /\ dept.exists \in BOOLEAN
  BY <1>1 DEF Wanted, CadenceTypeOK
<1>3. \A pc \in {"read", "saved", "wants", "inserting", "cancelling"},
         before \in BOOLEAN, wants \in BOOLEAN :
        [pc |-> pc, before |-> before, wants |-> wants, new |-> 0] \in Saver
  BY <1>1 DEF Saver
\* A request that was not on its way to the chain.
<1>4. ASSUME UNCHANGED <<checkIns, checkTask, switcher>>, Wanted' /\ ~adrift' => Wanted /\ ~adrift,
             \A t \in Savers : t # s => saver'[t] = saver[t],
             saver[s].pc \in {"saved", "wants", "inserting"} =>
               saver'[s].pc \in {"saved", "wants", "inserting"}
      PROVE  CalendarKept'
  <2>1. ASSUME Wanted', ~adrift'
        PROVE  SomebodyGoesOn'
    <3>1. CASE \E i \in Slots : GoesOnFrom(i)
      BY <1>4, <3>1, GoesOnStays DEF SomebodyGoesOn
    <3>2. CASE \E t \in Savers : saver[t].pc \in {"saved", "wants", "inserting"}
      BY <1>4, <3>2 DEF SomebodyGoesOn
    <3>3. CASE /\ switcher \in {"starting", "looking", "inserting"}
               /\ \A i \in Slots : ~OnCalendar(checkIns[i])
      BY <1>4, <3>3 DEF SomebodyGoesOn
    <3>4. QED
      BY <1>4, <2>1, <3>1, <3>2, <3>3 DEF CalendarKept, SomebodyGoesOn
  <2>2. QED
    BY <2>1 DEF CalendarKept
<1>5. CASE SaverReads(s)
  <2>1. \A t \in Savers : t # s => saver'[t] = saver[t]
    BY <1>1, <1>2, <1>3, <1>5, SaverEffects DEF SaverReads
  <2>2. QED
    BY <1>4, <1>5, <2>1 DEF SaverReads, Wanted
<1>6. ASSUME NEW on \in BOOLEAN, SaverSaves(s, on)
      PROVE  CalendarKept'
  <2>1. CASE SaverIs(s, "saved", saver[s].before, FALSE, 0)
    <3>1. saver[s].before \in BOOLEAN
      BY <1>1 DEF Saver
    <3>2. saver'[s].pc = "saved"
      BY <1>1, <1>3, <2>1, <3>1, SaverEffects
    <3>3. QED
      BY <3>2 DEF CalendarKept, SomebodyGoesOn
  <2>2. CASE /\ saver' = [saver EXCEPT ![s] = NoSaver]
             /\ adrift' = (adrift \/ (dept.exists /\ dept.on # on))
    <3>1. \A t \in Savers : t # s => saver'[t] = saver[t]
      BY <1>1, <2>2, SaverEnds
    <3>2. UNCHANGED <<mode, checkIns, checkTask, switcher>> /\ saver[s].pc = "read"
      BY <1>6 DEF SaverSaves
    <3>3. Wanted' /\ ~adrift' => Wanted /\ ~adrift
      <4>1. CASE dept.exists /\ dept.on # on
        BY <2>2, <4>1
      <4>2. CASE dept.exists /\ dept.on = on
        BY <1>1, <1>6, <2>2, <3>2, <4>2 DEF SaverSaves, Wanted, CadenceTypeOK
      <4>3. CASE ~dept.exists
        BY <1>6, <4>3 DEF SaverSaves, Wanted
      <4>4. QED
        BY <4>1, <4>2, <4>3
    <3>4. QED
      BY <1>4, <3>1, <3>2, <3>3
  <2>3. QED
    BY <1>6, <2>1, <2>2 DEF SaverSaves
<1>7. CASE SaverLocks(s)
  <2>1. saver'[s].pc = "wants"
    BY <1>1, <1>2, <1>3, <1>7, SaverEffects DEF SaverLocks
  <2>2. QED
    BY <2>1 DEF CalendarKept, SomebodyGoesOn
<1>8. CASE SaverQueues(s)
  <2>1. UNCHANGED <<mode, dept>>
    BY <1>8 DEF SaverQueues
  <2>2. CASE Wanted
    <3>1. SaverIs(s, "inserting", FALSE, FALSE, 0)
      BY <1>8, <2>2 DEF SaverQueues, Enqueues
    <3>2. saver'[s].pc = "inserting"
      BY <1>1, <1>3, <3>1, SaverEffects
    <3>3. QED
      BY <3>2 DEF CalendarKept, SomebodyGoesOn
  <2>3. CASE ~Wanted
    BY <2>1, <2>3 DEF CalendarKept, Wanted
  <2>4. QED
    BY <2>2, <2>3
<1>9. CASE SaverInserts(s)
  BY <1>1, <1>9, InsertGoesOn DEF SaverInserts, CalendarKept, SomebodyGoesOn
\* What it cancels is not the last: its own new row is spared.
<1>10. CASE SaverCancels(s)
  <2> DEFINE new == saver[s].new
  <2>1. /\ saver[s].pc = "cancelling" /\ checkIns' = Withdrawn(new)
        /\ UNCHANGED <<mode, dept, adrift>>
    BY <1>10 DEF SaverCancels
  <2>2. \A t \in Savers : t # s => saver'[t] = saver[t]
    BY <1>1, <1>10, SaverEnds DEF SaverCancels
  <2>3. ASSUME Wanted, ~adrift, new # 0
        PROVE  \E i \in Slots : GoesOnFrom(i)'
    <3>1. new \in Slots
      BY <1>1, <2>3, NewIsASlot
    <3>2. checkIns[new] = NewCheckIn
      BY <1>1, <2>3 DEF SaverFits, Wanted
    <3>3. checkIns'[new] = NewCheckIn
      BY <1>1, <2>1, <3>1, <3>2, WithdrawEffects
    <3>4. QED
      BY <3>1, <3>3, RowTypes DEF GoesOnFrom, Scheduled
  <2>4. ASSUME Wanted, ~adrift, new = 0
        PROVE  \E t \in Savers : saver'[t].pc = "saved"
    <3>1. PICK t \in Savers : saver[t].pc = "saved"
      BY <1>1, <2>1, <2>4 DEF SaverFits
    <3>2. QED
      BY <2>1, <2>2, <3>1
  <2>5. QED
    BY <2>1, <2>3, <2>4 DEF CalendarKept, SomebodyGoesOn, Wanted
<1>11. QED
  BY <1>5, <1>6, <1>7, <1>8, <1>9, <1>10 DEF SaverNext

LEMMA CalendarByOthers ==
  ASSUME CadenceFits, CalendarKept,
         \/ SwitchesMode \/ SwitcherNext \/ DeletesDepartment
         \/ CreatesDepartment \/ QueuesRerun \/ CadenceStart
  PROVE  CalendarKept'
<1>1. CadenceTypeOK
  BY DEF CadenceFits
<1>2. CASE CreatesDepartment
  BY <1>2 DEF CreatesDepartment, CalendarKept
\* To team while nobody is between two statements: a row on the calendar
\* waits or runs, and its chain goes on; without one the switch queues it.
<1>2a. CASE SwitchesMode
  <2>1. ASSUME mode' = "team", ~adrift'
        PROVE  SomebodyGoesOn'
    <3>1. OthersSettled /\ switcher' = "starting" /\ UNCHANGED <<checkIns, checkTask>>
      BY <1>1, <1>2a, <2>1 DEF SwitchesMode, CadenceTypeOK
    <3>2. ASSUME NEW i \in Slots, OnCalendar(checkIns[i])
          PROVE  GoesOnFrom(i)'
      <4>1. TaskFits(i) /\ checkTask[i].pc \in {"none", "claimed", "working"}
        BY <3>1 DEF OthersSettled, CadenceFits
      <4>2. QED
        BY <3>1, <3>2, <4>1 DEF OnCalendar, TaskFits, GoesOnFrom, Scheduled
    <3>3. QED
      BY <3>1, <3>2 DEF SomebodyGoesOn
  <2>2. QED
    BY <2>1 DEF CalendarKept, Wanted
<1>3. CASE SwitcherNext
  <2>1. UNCHANGED <<mode, dept, checkTask, saver, adrift>>
    BY <1>3 DEF SwitcherNext, SwitcherCancels, SwitcherReads, SwitcherLooks, SwitcherInserts
  <2>2. CASE SwitcherCancels
    BY <2>1, <2>2 DEF SwitcherCancels, CadenceFits, CalendarKept, Wanted
  <2>3. CASE SwitcherReads \/ SwitcherLooks
    <3>1. checkIns' = checkIns
      BY <2>3 DEF SwitcherReads, SwitcherLooks
    <3>2. ASSUME Wanted, \A i \in Slots : ~OnCalendar(checkIns[i])
          PROVE  switcher' \in {"looking", "inserting"}
      BY <2>3, <3>2 DEF SwitcherReads, SwitcherLooks
    <3>3. (\E i \in Slots : GoesOnFrom(i)) => \E i \in Slots : GoesOnFrom(i)'
      BY <2>1, <3>1, GoesOnStays
    <3>4. QED
      BY <2>1, <3>1, <3>2, <3>3 DEF CalendarKept, SomebodyGoesOn, Wanted
  <2>4. CASE SwitcherInserts
    BY <1>1, <2>4, InsertGoesOn DEF SwitcherInserts, CalendarKept, SomebodyGoesOn
  <2>5. QED
    BY <1>3, <2>2, <2>3, <2>4 DEF SwitcherNext
<1>4. CASE DeletesDepartment
  BY <1>1, <1>4 DEF DeletesDepartment, CalendarKept, Wanted, CadenceTypeOK
<1>5. CASE QueuesRerun
  <2>1. [NewCheckIn EXCEPT !.due = TRUE, !.rerun = TRUE] \in CheckIn
    BY RowTypes DEF CheckIn
  <2>2. PICK j \in Slots : InsertsRow(j, [NewCheckIn EXCEPT !.due = TRUE, !.rerun = TRUE])
    BY <1>5 DEF QueuesRerun
  <2>3. /\ checkIns[j].status = "none" /\ checkTask[j].pc = "none"
        /\ \A i \in Slots : i # j => checkIns'[i] = checkIns[i]
    BY <1>1, <2>1, <2>2, InsertEffects
  <2>4. \A i \in Slots : GoesOnFrom(i) => i # j
    BY <2>3 DEF GoesOnFrom, Scheduled
  <2>5. UNCHANGED <<mode, dept, checkTask, saver, switcher, adrift>>
    BY <1>5 DEF QueuesRerun
  <2>6. (\E i \in Slots : GoesOnFrom(i)) => \E i \in Slots : GoesOnFrom(i)'
    BY <2>3, <2>4, <2>5, GoesOnStays
  <2>7. ~OnCalendar(checkIns'[j])
    BY <1>1, <2>1, <2>2, InsertEffects DEF OnCalendar, CheckIn, NewCheckIn, NoCheckIn
  <2>8. QED
    BY <2>3, <2>5, <2>6, <2>7 DEF CalendarKept, SomebodyGoesOn, Wanted
<1>6. CASE CadenceStart
  <2>1. Wanted' = Wanted
    BY <1>6 DEF CadenceStart, Wanted
  <2>2. Wanted => \E i \in Slots : GoesOnFrom(i)'
    BY <1>1, <1>6, StartEffects DEF GoesOnFrom, Scheduled
  <2>3. QED
    BY <2>1, <2>2 DEF CalendarKept, SomebodyGoesOn
<1>7. QED
  BY <1>2, <1>3, <1>4, <1>5, <1>6, <1>2a

LEMMA CadenceInvKept == CadenceInv /\ [CadenceNext]_cadenceVars => CadenceInv'
<1> SUFFICES ASSUME CadenceInv, [CadenceNext]_cadenceVars
             PROVE  CadenceInv'
  OBVIOUS
<1>1. CadenceFits'
  BY CadenceFitsKept DEF CadenceInv
<1>2. CASE UNCHANGED cadenceVars
  <2>1. CalendarKept'
    BY <1>2 DEF CadenceInv, CalendarKept, SomebodyGoesOn, cadenceVars, GoesOnFrom, Scheduled,
                Wanted, OnCalendar
  <2>2. QED
    BY <1>1, <2>1 DEF CadenceInv
<1>3. CASE CadenceNext
  <2>1. CalendarKept'
    BY <1>3, CalendarByTasks, CalendarBySavers, CalendarByOthers DEF CadenceNext, CadenceInv
  <2>2. QED
    BY <1>1, <2>1 DEF CadenceInv
<1>4. QED
  BY <1>2, <1>3

\* When nobody is between two statements, what the chain goes on from is a row
\* on the calendar.
LEMMA KeptIsOnTheCalendar == CadenceInv => OnTheCalendar
<1> SUFFICES ASSUME CadenceInv, Wanted, Settling, ~adrift
             PROVE  \E i \in Slots : OnCalendar(checkIns[i])
  BY DEF OnTheCalendar
<1>1. PICK i \in Slots : GoesOnFrom(i)
  BY DEF CadenceInv, CalendarKept, SomebodyGoesOn, Settling, OthersSettled
<1>2. CASE Scheduled(checkIns[i])
  BY <1>2 DEF Scheduled, OnCalendar
<1>3. CASE checkTask[i].pc \in {"claimed", "working"} /\ ~checkIns[i].rerun
  <2>1. TaskFits(i)
    BY DEF CadenceInv, CadenceFits
  <2>2. checkIns[i].status = "running"
    BY <1>3, <2>1 DEF TaskFits
  <2>3. QED
    BY <1>3, <2>2 DEF OnCalendar
<1>4. QED
  BY <1>1, <1>2, <1>3 DEF GoesOnFrom, Settling, OthersSettled

\* However check-ins that end, fail, are skipped or run again, edits of the
\* schedule and restarts fall together, a department that is to have a
\* check-in has one queued or running once everybody is through.
THEOREM StaysOnTheCalendar == CadenceSpec => []OnTheCalendar
<1>1. CadenceInit => CadenceInv
  BY CadenceBegins
<1>2. CadenceInv => OnTheCalendar
  BY KeptIsOnTheCalendar
<1>3. QED
  BY <1>1, <1>2, CadenceInvKept, PTL DEF CadenceSpec

=============================================================================
