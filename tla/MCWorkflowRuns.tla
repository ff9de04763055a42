--------------------------- MODULE MCWorkflowRuns ---------------------------
(* Instances of WorkflowRuns for TLC. *)
EXTENDS WorkflowRuns, TLC

CONSTANTS p1, p2, k1, k2

BothKicksAtOne == [k \in Kicks |-> p1]
AKickEach == (k1 :> p1) @@ (k2 :> p2)

\* Workflow definitions: two approval gates, and an approval gate between a
\* question and an action step that may hold writes.
TwoApprovals == <<"approval", "approval">>
QuestionThenApproval == <<"question", "approval">>
ApprovalThenHeld == <<"approval", "held">>

Symmetry == Permutations(Runs) \union Permutations(Tokens)
=============================================================================
