--------------------------- MODULE DecisionLedger ---------------------------
(***************************************************************************)
(* The rows of memory/decision_ledger.py: what each of its statements does *)
(* to a row, each a compare-and-set on the status. ReplySend, Bookings and *)
(* ActionCards share them and add who calls them, and when.                *)
(***************************************************************************)

\* "approved" is approved_unchanged or approved_with_edit, "closed" is
\* closed_externally.
LedgerStatuses ==
  {"proposed", "executing", "approved", "executed", "failed", "rejected", "reversed", "closed"}

OpenCard(row) == row.status \in {"proposed", "executing"}

\* mark_resolved and mark_executed
MarkedResolved(row, how) ==
  IF row.status = "proposed" THEN [row EXCEPT !.status = how] ELSE row

ClaimsNothing(row) == row  \* mutant

\* claim_for_execution: who may carry it out.
ClaimedCard(row) ==
  IF row.status = "proposed" THEN [row EXCEPT !.status = "executing"] ELSE row

OfferedAfterAFailure(row, how) ==  \* mutant
  IF row.status # "executing" THEN row
  ELSE [row EXCEPT !.status = IF how = "failed" THEN "proposed" ELSE how]

\* finish_execution
ExecutionFinished(row, how) ==
  IF row.status = "executing" THEN [row EXCEPT !.status = how] ELSE row

\* release_claim: nothing was done.
Released(row) == IF row.status = "executing" THEN [row EXCEPT !.status = "proposed"] ELSE row

\* close_externally
ClosedCard(row) == IF OpenCard(row) THEN [row EXCEPT !.status = "closed"] ELSE row

\* update_open_payload, with the payload as it was read.
Updated(row, new, expected) ==
  IF row.status = "proposed" /\ row.payload = expected
  THEN [row EXCEPT !.payload = new] ELSE row

\* hand_back: an auto_execute row waits for its person after all.
HandedBack(row, payload) ==
  IF row.status = "proposed" /\ row.gate = "auto"
  THEN [row EXCEPT !.gate = "propose", !.payload = payload] ELSE row

\* mark_reversed
ReversedCard(row) ==
  IF row.status \in {"proposed", "approved", "executed"}
  THEN [row EXCEPT !.status = "reversed"] ELSE row

=============================================================================
