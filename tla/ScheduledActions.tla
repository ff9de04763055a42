-------------------------- MODULE ScheduledActions --------------------------
(***************************************************************************)
(* The scheduled_actions queue of memory/episodic.py: what each of its     *)
(* statements does to a row. The modules that keep rows (GatedActions,     *)
(* Cadences) share these and add who runs them and when.                   *)
(***************************************************************************)
EXTENDS Naturals

CONSTANT MaxAttempts  \* max_attempts of mark_action_failed_or_retry

ASSUME AttemptsAssumption == MaxAttempts \in Nat \ {0}

ActionStatuses == {"none", "pending", "running", "done", "failed", "cancelled"}
Settled == {"done", "failed", "cancelled"}

\* due says that run_at has passed.
DueToRun(row) == row.status = "pending" /\ row.due

\* claim_due_actions
Taken(row) == [row EXCEPT !.status = "running", !.attempts = @ + 1]

\* reschedule_action: back to the queue for later, and the claim's attempt is
\* undone.
TakenBack(row) ==
  IF row.status = "running"
  THEN [row EXCEPT !.status = "pending", !.due = FALSE,
                   !.attempts = IF @ = 0 THEN 0 ELSE @ - 1]
  ELSE row

\* mark_action_done and mark_action_failed look at nothing but the id.
MarkedDone(row) == [row EXCEPT !.status = "done"]

MarkedFailed(row) == [row EXCEPT !.status = "failed"]

\* mark_action_cancelled, for the runner, which holds the claim.
Retired(row) ==
  IF row.status \in {"pending", "running"} THEN [row EXCEPT !.status = "cancelled"] ELSE row

RetriesForEver(row) == [row EXCEPT !.status = "pending", !.due = FALSE]  \* mutant

\* mark_action_failed_or_retry: a backoff, or the end.
FailedOrRetry(row) ==
  IF row.attempts >= MaxAttempts
  THEN MarkedFailed(row)
  ELSE [row EXCEPT !.status = "pending", !.due = FALSE]

CancelsRunningToo(row) == Retired(row)  \* mutant

\* cancel_scheduled_action and the other cancels of pending rows.
Cancelled(row) == IF row.status = "pending" THEN [row EXCEPT !.status = "cancelled"] ELSE row

StaysRunning(row) == row  \* mutant

\* requeue_orphaned_running, at the scheduler's start.
Orphaned(row) == IF row.status = "running" THEN [row EXCEPT !.status = "pending"] ELSE row

=============================================================================
