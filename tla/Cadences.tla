------------------------------- MODULE Cadences -------------------------------
(***************************************************************************)
(* The recurring check-in of one department (departments/cadence.py): its  *)
(* rows in scheduled_actions, each of which queues the next as it ends     *)
(* (scheduler/runner.py), and everybody who edits that chain meanwhile.    *)
(* The scheduler's code runs in the event loop, while saving a department, *)
(* deleting or making it, switching the workspace between solo and team    *)
(* and "Run again" are routes in threads: any two statements may have      *)
(* another one's between them.                                             *)
(***************************************************************************)
EXTENDS ScheduledActions, Runner

CONSTANTS
  MaxRows,   \* bound on rows that are pending or running at once
  Savers,    \* PATCH requests that may run at once
  MaxEdits   \* bound on requests, switches and restarts

ASSUME CadenceAssumption == MaxRows \in Nat \ {0} /\ MaxEdits \in Nat

VARIABLES
  mode,       \* of the workspace
  dept,       \* the department, and whether it has a check_in spec
  checkIns,   \* its dept_cadence rows; an ended one makes room for another
  checkTask,  \* the asyncio task of each claimed row
  saver,      \* each PATCH /departments/{slug}
  switcher,   \* set_workspace_mode
  failedRun,  \* has a check-in failed for good? It can be run again.
  adrift,     \* see OnTheCalendar
  edits       \* so far

cadenceVars ==
  <<mode, dept, checkIns, checkTask, saver, switcher, failedRun, adrift, edits>>

Slots == 1..MaxRows

\* rerun: queued by Run again. Its scope_key says so, and its department
\* column is empty.
CheckIn ==
  [status : {"none", "pending", "running"}, attempts : Nat, due : BOOLEAN, rerun : BOOLEAN]

NoCheckIn == [status |-> "none", attempts |-> 0, due |-> FALSE, rerun |-> FALSE]

NewCheckIn == [NoCheckIn EXCEPT !.status = "pending"]

\* next: what the task marks its row with, once it has seen to the chain.
CheckTask ==
  [pc : {"none", "claimed", "retiring", "working", "looking", "reading", "inserting", "marking"},
   next : {"done", "skipped", "failed"}]

NoCheckTask == [pc |-> "none", next |-> "done"]

\* before: the spec as the request read it; wants: wants_row; new: its row.
Saver ==
  [pc : {"idle", "read", "saved", "wants", "inserting", "cancelling"}, before : BOOLEAN,
   wants : BOOLEAN, new : 0..MaxRows]

NoSaver == [pc |-> "idle", before |-> FALSE, wants |-> FALSE, new |-> 0]

CadenceInit ==
  /\ mode = "team"
  /\ dept = [exists |-> TRUE, on |-> TRUE]
  /\ checkIns = [i \in Slots |-> IF i = 1 THEN NewCheckIn ELSE NoCheckIn]
  /\ checkTask = [i \in Slots |-> NoCheckTask]
  /\ saver = [s \in Savers |-> NoSaver]
  /\ switcher = "idle"
  /\ failedRun = FALSE
  /\ adrift = FALSE
  /\ edits = 0

Vacated(row) == IF row.status \in Settled THEN NoCheckIn ELSE row

Scheduled(row) == row.status = "pending" /\ ~row.rerun

\* _has_pending_cadence
OnCalendar(row) == row.status \in {"pending", "running"} /\ ~row.rerun

Free(i) ==
  /\ checkIns[i].status = "none" /\ checkTask[i].pc = "none"
  /\ \A s \in Savers : saver[s].new # i

InsertsRow(i, row) ==
  /\ Free(i) /\ \A j \in 1..(i - 1) : ~Free(j)
  /\ checkIns' = [checkIns EXCEPT ![i] = row]

Wanted == mode = "team" /\ dept.exists /\ dept.on

WantedWhileItExists == mode = "team" /\ dept.exists  \* mutant

\* enqueue_next: what it asks before it inserts.
Enqueues == Wanted

Edited == edits < MaxEdits /\ edits' = edits + 1
-----------------------------------------------------------------------------
\* The scheduler. A row is queued for later: its request is done by then.
CheckInComesDue(i) ==
  /\ checkIns[i].status = "pending" /\ ~checkIns[i].due
  /\ \A s \in Savers : saver[s].new # i
  /\ checkIns' = [checkIns EXCEPT ![i].due = TRUE]
  /\ UNCHANGED <<mode, dept, checkTask, saver, switcher, failedRun, adrift, edits>>

\* Between two awaits nobody else has the event loop, the poll neither.
LoopFreeFor(i) ==
  \A j \in Slots \ {i} : checkTask[j].pc \in {"none", "claimed", "working"}

ClaimCheckIn(i) ==
  /\ ~holding /\ DueToRun(checkIns[i]) /\ LoopFreeFor(i)
  /\ checkIns' = [checkIns EXCEPT ![i] = Taken(@)]
  /\ checkTask' = [checkTask EXCEPT ![i].pc = "claimed"]
  /\ UNCHANGED <<mode, dept, saver, switcher, failedRun, adrift, edits>>

TaskGoes(i, pc, next) == checkTask' = [checkTask EXCEPT ![i] = [pc |-> pc, next |-> next]]

\* Solo retires the row; a department with nothing to review, or none any
\* more, skips it, unless somebody asked for this run; or the check-in runs.
CheckInGate(i) ==
  /\ checkTask[i].pc = "claimed"
  /\ IF mode = "solo" THEN TaskGoes(i, "retiring", "skipped")
     ELSE \/ ~checkIns[i].rerun /\ TaskGoes(i, "looking", "skipped")
          \/ (dept.exists \/ checkIns[i].rerun) /\ TaskGoes(i, "working", "done")
  /\ UNCHANGED <<mode, dept, checkIns, saver, switcher, failedRun, adrift, edits>>

CheckInRuns(i) ==
  /\ checkTask[i].pc = "working"
  /\ TaskGoes(i, "looking", "done")
  /\ UNCHANGED <<mode, dept, checkIns, saver, switcher, failedRun, adrift, edits>>

\* Retried, or its retries are spent: the chain goes on all the same.
CheckInFails(i) ==
  LET row == FailedOrRetry(checkIns[i]) IN
  /\ checkTask[i].pc = "working"
  /\ checkIns' = [checkIns EXCEPT ![i] = Vacated(row)]
  /\ IF row.status = "failed"
     THEN TaskGoes(i, "looking", "failed") /\ failedRun' = TRUE
     ELSE TaskGoes(i, "none", "done") /\ UNCHANGED failedRun
  /\ UNCHANGED <<mode, dept, saver, switcher, adrift, edits>>

\* _chain_dept_cadence, after the check-in and before its row is marked:
\* nothing while another one is pending; else enqueue_next.
ChainLooks(i) ==
  /\ checkTask[i].pc = "looking"
  /\ TaskGoes(i, IF \E j \in Slots : Scheduled(checkIns[j]) THEN "marking" ELSE "reading",
              checkTask[i].next)
  /\ UNCHANGED <<mode, dept, checkIns, saver, switcher, failedRun, adrift, edits>>

ChainReads(i) ==
  /\ checkTask[i].pc = "reading"
  /\ TaskGoes(i, IF Enqueues THEN "inserting" ELSE "marking", checkTask[i].next)
  /\ UNCHANGED <<mode, dept, checkIns, saver, switcher, failedRun, adrift, edits>>

ChainInserts(i) ==
  /\ checkTask[i].pc = "inserting"
  /\ \E j \in Slots : InsertsRow(j, NewCheckIn)
  /\ TaskGoes(i, "marking", checkTask[i].next)
  /\ UNCHANGED <<mode, dept, saver, switcher, failedRun, adrift, edits>>

CheckInMarks(i) ==
  /\ checkTask[i].pc \in {"marking", "retiring"}
  /\ checkIns' = [checkIns EXCEPT ![i] =
                    CASE checkTask[i].next = "done" -> Vacated(MarkedDone(@))
                      [] checkTask[i].next = "skipped" -> Vacated(Retired(@))
                      [] checkTask[i].next = "failed" -> @]
  /\ TaskGoes(i, "none", "done")
  /\ UNCHANGED <<mode, dept, saver, switcher, failedRun, adrift, edits>>
-----------------------------------------------------------------------------
\* patch_department and reschedule_check_in
SaverIs(s, pc, before, wants, new) ==
  saver' = [saver EXCEPT ![s] = [pc |-> pc, before |-> before, wants |-> wants, new |-> new]]

SaverReads(s) ==
  /\ saver[s].pc = "idle" /\ dept.exists
  /\ Edited
  /\ SaverIs(s, "read", dept.on, FALSE, 0)
  /\ UNCHANGED <<mode, dept, checkIns, checkTask, switcher, failedRun, adrift>>

\* The check-in is switched on or off, or given another spec. A save that
\* took another one's spec back finds nothing changed, and re-times nothing.
SaverSaves(s, on) ==
  LET before == saver[s].before IN
  /\ saver[s].pc = "read"
  /\ dept' = IF dept.exists THEN [dept EXCEPT !.on = on] ELSE dept
  /\ \/ (before \/ on) /\ SaverIs(s, "saved", before, FALSE, 0) /\ UNCHANGED adrift
     \/ /\ before = on
        /\ saver' = [saver EXCEPT ![s] = NoSaver]
        /\ adrift' = (adrift \/ (dept.exists /\ dept.on # on))
  /\ UNCHANGED <<mode, checkIns, checkTask, switcher, failedRun, edits>>

\* _RESCHEDULE_LOCK
LockFree == \A s \in Savers : saver[s].pc \notin {"wants", "inserting", "cancelling"}

SaverLocks(s) ==
  /\ saver[s].pc = "saved" /\ LockFree
  /\ SaverIs(s, "wants", FALSE, Wanted, 0)
  /\ UNCHANGED <<mode, dept, checkIns, checkTask, switcher, failedRun, adrift, edits>>

\* A row that could not be queued keeps the one there is.
SaverQueues(s) ==
  /\ saver[s].pc = "wants"
  /\ IF Enqueues THEN SaverIs(s, "inserting", FALSE, FALSE, 0)
     ELSE IF saver[s].wants THEN saver' = [saver EXCEPT ![s] = NoSaver]
     ELSE SaverIs(s, "cancelling", FALSE, FALSE, 0)
  /\ UNCHANGED <<mode, dept, checkIns, checkTask, switcher, failedRun, adrift, edits>>

SaverInserts(s) ==
  /\ saver[s].pc = "inserting"
  /\ \E j \in Slots : InsertsRow(j, NewCheckIn) /\ SaverIs(s, "cancelling", FALSE, FALSE, j)
  /\ UNCHANGED <<mode, dept, checkTask, switcher, failedRun, adrift, edits>>

WithdrawnAll(new) ==  \* mutant
  [i \in Slots |-> IF Scheduled(checkIns[i]) THEN NoCheckIn ELSE checkIns[i]]

\* The others are cancelled, reruns and running ones excepted.
Withdrawn(new) ==
  [i \in Slots |-> IF Scheduled(checkIns[i]) /\ i # new THEN NoCheckIn ELSE checkIns[i]]

SaverCancels(s) ==
  /\ saver[s].pc = "cancelling"
  /\ checkIns' = Withdrawn(saver[s].new)
  /\ saver' = [saver EXCEPT ![s] = NoSaver]
  /\ UNCHANGED <<mode, dept, checkTask, switcher, failedRun, adrift, edits>>
-----------------------------------------------------------------------------
\* No check-in and no save is between two of its statements.
OthersSettled ==
  /\ \A i \in Slots : checkTask[i].pc \in {"none", "claimed", "working"}
  /\ \A s \in Savers : saver[s].pc \in {"idle", "read"}

\* set_workspace_mode: solo cancels what is pending, reruns too; team asks
\* what is missing (bootstrap_cadences), which one of them may still take away.
SwitchesMode ==
  /\ switcher = "idle"
  /\ Edited
  /\ mode' = IF mode = "team" THEN "solo" ELSE "team"
  /\ switcher' = IF mode = "team" THEN "cancelling" ELSE "starting"
  /\ adrift' = (adrift \/ (mode = "solo" /\ ~OthersSettled))
  /\ UNCHANGED <<dept, checkIns, checkTask, saver, failedRun>>

SwitcherCancels ==
  /\ switcher = "cancelling"
  /\ checkIns' = [i \in Slots |-> Vacated(Cancelled(checkIns[i]))]
  /\ switcher' = "idle"
  /\ UNCHANGED <<mode, dept, checkTask, saver, failedRun, adrift, edits>>

SwitcherReads ==
  /\ switcher = "starting"
  /\ switcher' = IF Wanted THEN "looking" ELSE "idle"
  /\ UNCHANGED <<mode, dept, checkIns, checkTask, saver, failedRun, adrift, edits>>

SwitcherLooks ==
  /\ switcher = "looking"
  /\ switcher' = IF \E i \in Slots : OnCalendar(checkIns[i]) THEN "idle" ELSE "inserting"
  /\ UNCHANGED <<mode, dept, checkIns, checkTask, saver, failedRun, adrift, edits>>

SwitcherInserts ==
  /\ switcher = "inserting"
  /\ \E j \in Slots : InsertsRow(j, NewCheckIn)
  /\ switcher' = "idle"
  /\ UNCHANGED <<mode, dept, checkTask, saver, failedRun, adrift, edits>>
-----------------------------------------------------------------------------
\* delete_department: one transaction.
DeletesDepartment ==
  /\ dept.exists
  /\ Edited
  /\ dept' = [dept EXCEPT !.exists = FALSE]
  /\ checkIns' = Withdrawn(0)
  /\ UNCHANGED <<mode, checkTask, saver, switcher, failedRun, adrift>>

\* Another one of that name has the default cadence, and no row yet.
CreatesDepartment ==
  /\ ~dept.exists
  /\ Edited
  /\ dept' = [exists |-> TRUE, on |-> TRUE]
  /\ adrift' = TRUE
  /\ UNCHANGED <<mode, checkIns, checkTask, saver, switcher, failedRun>>

\* queue_rerun, under its lock.
QueuesRerun ==
  /\ failedRun /\ dept.exists
  /\ Edited
  /\ \A i \in Slots : checkIns[i].rerun => checkIns[i].status = "none"
  /\ \E j \in Slots : InsertsRow(j, [NewCheckIn EXCEPT !.due = TRUE, !.rerun = TRUE])
  /\ UNCHANGED <<mode, dept, checkTask, saver, switcher, failedRun, adrift>>

\* cancel_orphaned_cadences: a rerun has no department, so none that exists.
Swept(row) ==
  IF row.status = "pending" /\ (row.rerun \/ ~dept.exists) THEN NoCheckIn ELSE row

\* A new process: the sweep, the seed (bootstrap_cadences), and what was
\* running is queued again.
CadenceStart ==
  LET swept == [i \in Slots |-> Swept(checkIns[i])]
      seed == Wanted /\ \A i \in Slots : ~OnCalendar(swept[i])
      free == {i \in Slots : swept[i].status = "none"} IN
  /\ Edited
  /\ \E new \in 0..MaxRows :
       /\ IF seed THEN new \in free /\ \A j \in free : new <= j ELSE new = 0
       /\ checkIns' =
            [i \in Slots |-> IF i = new THEN NewCheckIn ELSE Orphaned(swept[i])]
  /\ checkTask' = [i \in Slots |-> NoCheckTask]
  /\ saver' = [s \in Savers |-> NoSaver]
  /\ switcher' = "idle"
  /\ adrift' = FALSE
  /\ UNCHANGED <<mode, dept, failedRun>>
-----------------------------------------------------------------------------
CheckInNext(i) ==
  /\ LoopFreeFor(i)
  /\ \/ CheckInGate(i) \/ CheckInRuns(i) \/ CheckInFails(i)
     \/ ChainLooks(i) \/ ChainReads(i) \/ ChainInserts(i) \/ CheckInMarks(i)

SaverNext(s) ==
  \/ \E on \in BOOLEAN : SaverSaves(s, on)
  \/ SaverLocks(s) \/ SaverQueues(s) \/ SaverInserts(s) \/ SaverCancels(s)

SwitcherNext == SwitcherCancels \/ SwitcherReads \/ SwitcherLooks \/ SwitcherInserts

CadenceNext ==
  \/ \E i \in Slots : CheckInComesDue(i) \/ ClaimCheckIn(i) \/ CheckInNext(i)
  \/ \E s \in Savers : SaverReads(s) \/ SaverNext(s)
  \/ SwitchesMode \/ SwitcherNext
  \/ DeletesDepartment \/ CreatesDepartment \/ QueuesRerun \/ CadenceStart

CadenceSpec == CadenceInit /\ [][CadenceNext]_cadenceVars

\* A poll that nothing holds goes on, a check-in ends, and a request that was begun is
\* carried out.
ChecksRunOn ==
  /\ WF_cadenceVars(\E i \in Slots : ClaimCheckIn(i))
  /\ WF_cadenceVars(\E i \in Slots : CheckInNext(i))
  /\ WF_cadenceVars(\E s \in Savers : SaverNext(s))
  /\ WF_cadenceVars(SwitcherNext)

ClockRuns == WF_cadenceVars(\E i \in Slots : CheckInComesDue(i))

FairCadenceSpec == CadenceSpec /\ ClockRuns /\ ChecksRunOn
-----------------------------------------------------------------------------
CadenceTypeOK ==
  /\ mode \in {"team", "solo"}
  /\ dept \in [exists : BOOLEAN, on : BOOLEAN]
  /\ checkIns \in [Slots -> CheckIn]
  /\ checkTask \in [Slots -> CheckTask]
  /\ saver \in [Savers -> Saver]
  /\ switcher \in {"idle", "cancelling", "starting", "looking", "inserting"}
  /\ failedRun \in BOOLEAN /\ adrift \in BOOLEAN
  /\ edits \in Nat

Settling == OthersSettled /\ switcher = "idle"

\* However check-ins that end, fail, are skipped or run again, edits of the
\* schedule and restarts fall together: a department that is to have a
\* check-in has one queued or running. Until the next start that is not said
\* once the workspace went to team in the middle of somebody's statements, the
\* department was made, or a save crossed with another (adrift).
OnTheCalendar ==
  Wanted /\ Settling /\ ~adrift => \E i \in Slots : OnCalendar(checkIns[i])

\* Switched off, deleted or in a solo workspace, the check-in stops once nothing
\* holds the scheduler for good: no chain decided on before goes on for ever.
OffMeansOff ==
  <>[]~holding =>
    (~Wanted ~> Wanted \/ \A i \in Slots : ~OnCalendar(checkIns[i]))

=============================================================================
