------------------------ MODULE GatedActions_proofs ------------------------
(***************************************************************************)
(* Proofs about GatedActions, for any number of rows, texts and restarts,  *)
(* whatever the gate decides and with or without database errors.          *)
(***************************************************************************)
EXTENDS GatedActions, FiniteSetTheorems, TLAPS

-----------------------------------------------------------------------------
(* The statements of the queue *)

\* What the proofs keep about a row and the same row a statement later.
SameWork(row, next) == next.content = row.content /\ next.via = row.via /\ next.gated = row.gated

\* claim_due_actions gives a row of the queue, running.
LEMMA TakenRow ==
  ASSUME NEW row \in ActionRow
  PROVE  Taken(row) \in ActionRow /\ Taken(row).status = "running" /\ SameWork(row, Taken(row))
<1> DEFINE n == row.attempts + 1
<1>1. n \in Nat
  BY DEF ActionRow
<1>2. Taken(row) = [row EXCEPT !.status = "running", !.attempts = n]
  BY DEF Taken
<1> HIDE DEF n
<1> QED
  BY <1>1, <1>2 DEF ActionRow, ActionStatuses, SameWork

LEMMA TakenBackRow ==
  ASSUME NEW row \in ActionRow
  PROVE  TakenBack(row) \in ActionRow /\ SameWork(row, TakenBack(row))
         /\ (TakenBack(row).status = "none" <=> row.status = "none")
<1>1. CASE row.status = "running"
  <2> DEFINE n == IF row.attempts = 0 THEN 0 ELSE row.attempts - 1
  <2>1. n \in Nat
    BY DEF ActionRow
  <2>2. TakenBack(row) = [row EXCEPT !.status = "pending", !.due = FALSE, !.attempts = n]
    BY <1>1 DEF TakenBack
  <2> HIDE DEF n
  <2> QED
    BY <1>1, <2>1, <2>2 DEF ActionRow, ActionStatuses, SameWork
<1>2. CASE row.status # "running"
  BY <1>2 DEF TakenBack, SameWork
<1> QED
  BY <1>1, <1>2

\* The statements that end an execution or a wait.
LEMMA EndedRow ==
  ASSUME NEW row \in ActionRow, NEW next \in {MarkedDone(row), MarkedFailed(row), Retired(row),
                                              Cancelled(row), Orphaned(row)}
  PROVE  next \in ActionRow /\ SameWork(row, next)
BY DEF ActionRow, ActionStatuses, MarkedDone, MarkedFailed, Retired, Cancelled, Orphaned, SameWork

LEMMA RetriedRow ==
  ASSUME NEW row \in ActionRow
  PROVE  FailedOrRetry(row) \in ActionRow /\ SameWork(row, FailedOrRetry(row))
BY DEF ActionRow, ActionStatuses, FailedOrRetry, MarkedFailed, SameWork

\* A person's cancel leaves a claimed row alone, the sweep at the start
\* leaves every other row alone.
LEMMA QueueGuards ==
  ASSUME NEW row \in ActionRow
  PROVE  /\ DueToRun(row) => row.status = "pending"
         /\ row.status # "pending" => Cancelled(row) = row
         /\ row.status # "running" => Orphaned(row) = row
BY DEF DueToRun, Cancelled, Orphaned

-----------------------------------------------------------------------------
(* Types *)

\* A row that is in the table says what to send.
RowsSaySomething == \A i \in Ids : rows[i].status # "none" => rows[i].content \in Contents

GateShape == GateTypeOK /\ RowsSaySomething /\ WorkedRowsAreRunning

\* A card of a kind the gate may file is a card of the model.
LEMMA OwnCardType ==
  ASSUME NEW i \in Ids, rows[i].content \in Contents,
         NEW kind \in Levels \intersect {"propose", "escalate", "unrouted"}
  PROVE  OwnCard(i, kind) \in Cards
<1>1. KeyOf(i, kind) \in (IF kind = "escalate" THEN Contents ELSE Subjects)
  BY GateAssumption DEF KeyOf
<1>2. CASE kind = "propose"
  BY <1>1, <1>2 DEF OwnCard, Cards
<1>3. CASE kind = "unrouted"
  BY <1>1, <1>3 DEF OwnCard, Cards
<1>4. CASE kind = "escalate"
  BY <1>1, <1>4 DEF OwnCard, Cards
<1> QED
  BY <1>2, <1>3, <1>4

LEMMA GateShapeInit == GateInit => GateShape
<1> SUFFICES ASSUME GateInit PROVE GateShape
  OBVIOUS
<1>1. NoAction \in ActionRow /\ NoAction.status = "none"
  BY DEF NoAction, ActionRow, ActionStatuses
<1>2. NoTask \in Task /\ NoTask.pc = "none"
  BY DEF NoTask, Task, TaskPcs
<1>3. EmptyCard \in Card
  BY DEF EmptyCard, Card, CardStatuses, ApprovalStatuses
<1>4. GateTypeOK
  BY <1>1, <1>2, <1>3 DEF GateInit, GateTypeOK, HandlerPcs
<1>5. RowsSaySomething /\ WorkedRowsAreRunning
  BY <1>1, <1>2 DEF GateInit, RowsSaySomething, WorkedRowsAreRunning
<1> QED
  BY <1>4, <1>5 DEF GateShape

\* A step that gives row i a new state, and ends its task, keeps the shape.
LEMMA EndsShape ==
  ASSUME GateShape, NEW i \in Ids, NEW row \in ActionRow, SameWork(rows[i], row),
         rows[i].status # "none",
         Ends(i, row), UNCHANGED <<sent, cards, handler, reviewed, holding, crashes>>
  PROVE  GateShape'
<1> USE DEF GateShape, GateTypeOK
<1>1. NoTask \in Task /\ NoTask.pc = "none"
  BY DEF NoTask, Task, TaskPcs
<1>2. rows' \in [Ids -> ActionRow] /\ task' \in [Ids -> Task]
  BY <1>1 DEF Ends
<1>3. \A j \in Ids : j # i => rows'[j] = rows[j] /\ task'[j] = task[j]
  BY DEF Ends
<1>4. rows'[i] = row /\ task'[i] = NoTask
  BY DEF Ends
<1>5. RowsSaySomething'
  BY <1>3, <1>4 DEF RowsSaySomething, SameWork
<1>6. WorkedRowsAreRunning'
  BY <1>1, <1>3, <1>4 DEF WorkedRowsAreRunning
<1> QED
  BY <1>2, <1>5, <1>6

\* So does one that changes a row of the queue nobody works on.
LEMMA WaitingRowShape ==
  ASSUME GateShape, NEW i \in Ids, NEW row \in ActionRow,
         row.status # "none" => row.content \in Contents,
         task[i].pc # "none" => row.status = "running",
         rows' = [rows EXCEPT ![i] = row],
         UNCHANGED <<task, sent, cards, reviewed, holding, crashes>>,
         handler' \in [Cards -> HandlerPcs]
  PROVE  GateShape'
<1> USE DEF GateShape, GateTypeOK
<1>1. rows' \in [Ids -> ActionRow]
  OBVIOUS
<1>2. (\A j \in Ids : j # i => rows'[j] = rows[j]) /\ rows'[i] = row
  OBVIOUS
<1>3. RowsSaySomething'
  BY <1>2 DEF RowsSaySomething
<1>4. WorkedRowsAreRunning'
  BY <1>2 DEF WorkedRowsAreRunning
<1> QED
  BY <1>1, <1>3, <1>4

\* And one that moves the task of a claimed row, whatever it does to cards.
LEMMA TaskShape ==
  ASSUME GateShape, NEW i \in Ids, NEW next \in Task, task[i].pc # "none",
         task' = [task EXCEPT ![i] = next], cards' \in [Cards -> Card],
         sent' \in [Ids -> Nat],
         UNCHANGED <<rows, handler, reviewed, holding, crashes>>
  PROVE  GateShape'
<1> USE DEF GateShape, GateTypeOK
<1>1. task' \in [Ids -> Task]
  OBVIOUS
<1>2. \A j \in Ids : task'[j].pc # "none" => task[j].pc # "none"
  OBVIOUS
<1>3. WorkedRowsAreRunning' /\ RowsSaySomething'
  BY <1>2 DEF WorkedRowsAreRunning, RowsSaySomething
<1> QED
  BY <1>1, <1>3

\* And one that only changes cards, their handlers and the review's list.
LEMMA TableShape ==
  ASSUME GateShape, cards' \in [Cards -> Card], handler' \in [Cards -> HandlerPcs],
         reviewed' \subseteq Cards, UNCHANGED <<rows, task, sent, holding, crashes>>
  PROVE  GateShape'
BY DEF GateShape, GateTypeOK, RowsSaySomething, WorkedRowsAreRunning

-----------------------------------------------------------------------------
(* The steps *)

LEMMA QueueStepShape ==
  ASSUME GateShape, NEW i \in Ids, QueueStep(i)
  PROVE  GateShape'
<1> USE DEF GateShape, GateTypeOK
<1>1. ASSUME NEW content \in Contents, NEW gated \in Gating, Schedule(i, content, gated)
      PROVE  GateShape'
  <2> DEFINE row == [NoAction EXCEPT !.status = "pending", !.gated = gated, !.content = content]
  <2>1. row \in ActionRow /\ row.content \in Contents
    BY GateAssumption DEF NoAction, ActionRow, ActionStatuses
  <2>2. task[i].pc = "none"
    BY <1>1 DEF Schedule, WorkedRowsAreRunning
  <2> QED
    BY <1>1, <2>1, <2>2, WaitingRowShape DEF Schedule
<1>2. CASE BecomesDue(i)
  <2> DEFINE row == [rows[i] EXCEPT !.due = TRUE]
  <2>1. row \in ActionRow /\ row.status = rows[i].status /\ row.content = rows[i].content
    BY DEF ActionRow
  <2>2. task[i].pc = "none"
    BY <1>2 DEF BecomesDue, WorkedRowsAreRunning
  <2>3. rows' = [rows EXCEPT ![i] = row]
    BY <1>2 DEF BecomesDue
  <2> QED
    BY <1>2, <2>1, <2>2, <2>3, WaitingRowShape DEF BecomesDue, RowsSaySomething
<1>3. CASE CancelAction(i)
  <2> DEFINE row == Cancelled(rows[i])
  <2>1. row \in ActionRow /\ SameWork(rows[i], row)
    BY EndedRow
  <2>2. task[i].pc # "none" => row = rows[i] /\ rows[i].status = "running"
    BY QueueGuards DEF WorkedRowsAreRunning
  <2>3. row.status # "none" => row.content \in Contents
    BY <1>3, <2>1, <2>2 DEF CancelAction, RowsSaySomething, SameWork
  <2>4. rows' = [rows EXCEPT ![i] = row]
    BY <1>3 DEF CancelAction
  <2> QED
    BY <1>3, <2>1, <2>2, <2>3, <2>4, WaitingRowShape DEF CancelAction
<1> QED
  BY <1>1, <1>2, <1>3 DEF QueueStep


\* What propose_via_alert leaves: a card of the task's own, or none, and a
\* table of cards.
LEMMA FiledShape ==
  ASSUME GateShape, NEW i \in Ids, rows[i].content \in Contents,
         NEW kind \in Levels \intersect {"propose", "escalate", "unrouted"}, FilesCard(i, kind)
  PROVE  /\ cards' \in [Cards -> Card]
         /\ \E next \in Task : task' = [task EXCEPT ![i] = next]
<1> USE DEF GateShape, GateTypeOK
<1> DEFINE own == OwnCard(i, kind)
           After(card) == [pc |-> IF kind = "unrouted" THEN "unplaced" ELSE "filed", card |-> card]
<1>1. own \in Cards
  BY OwnCardType
<1>2. After(own) \in Task /\ After(NoCard) \in Task
  BY <1>1 DEF Task, TaskPcs
<1>3. CASE Inserts(i, kind)
  <2> DEFINE filled == [EmptyCard EXCEPT !.status = "unread", !.content = rows[i].content]
  <2>1. filled \in Card
    BY DEF EmptyCard, Card, CardStatuses, ApprovalStatuses
  <2>2. CASE cards[own].status = "none"
    <3>1. cards' = [cards EXCEPT ![own] = filled] /\ task' = [task EXCEPT ![i] = After(own)]
      BY <1>3, <2>2 DEF Inserts, FiledBy
    <3> QED
      BY <1>1, <1>2, <2>1, <3>1
  <2>3. CASE cards[own].status # "none"
    <3>1. cards' = cards /\ task' = [task EXCEPT ![i] = After(NoCard)]
      BY <1>3, <2>3 DEF Inserts, FiledBy
    <3> QED
      BY <1>2, <3>1
  <2> QED
    BY <2>2, <2>3
<1>4. ASSUME NEW open \in SUBSET Cards, Refreshes(i, kind, open)
      PROVE  /\ cards' \in [Cards -> Card]
             /\ \E next \in Task : task' = [task EXCEPT ![i] = next]
  <2>1. PICK c \in Cards : cards' = [cards EXCEPT ![c].content = rows[i].content]
    BY <1>4 DEF Refreshes
  <2>2. [cards[c] EXCEPT !.content = rows[i].content] \in Card
    BY DEF Card
  <2>3. cards' = [cards EXCEPT ![c] = [cards[c] EXCEPT !.content = rows[i].content]]
    BY <2>1
  <2>4. task' = [task EXCEPT ![i] = After(NoCard)]
    BY <1>4 DEF Refreshes, FiledBy
  <2> QED
    BY <1>2, <2>2, <2>3, <2>4
<1>5. OpenWith(kind, KeyOf(i, kind)) \in SUBSET Cards
  BY DEF OpenWith
<1> QED
  BY <1>3, <1>4, <1>5 DEF FilesCard

LEMMA TaskStepShape ==
  ASSUME GateShape, NEW i \in Ids, TaskStep(i)
  PROVE  GateShape'
<1> USE DEF GateShape, GateTypeOK
<1>1. ASSUME task[i].pc # "none"
      PROVE  rows[i].status = "running" /\ rows[i].content \in Contents
  BY <1>1 DEF WorkedRowsAreRunning, RowsSaySomething
<1>2. CASE Dispatch(i)
  <2>1. [task[i] EXCEPT !.pc = "working"] \in Task
    BY DEF Task, TaskPcs
  <2>2. task' = [task EXCEPT ![i] = [task[i] EXCEPT !.pc = "working"]]
    BY <1>2 DEF Dispatch
  <2> QED
    BY <1>2, <2>1, <2>2, TaskShape DEF Dispatch, AtGate
<1>3. CASE Defer(i)
  <2>1. task[i].pc # "none"
    BY <1>3 DEF Defer, AtGate
  <2>2. TakenBack(rows[i]) \in ActionRow /\ SameWork(rows[i], TakenBack(rows[i]))
    BY TakenBackRow
  <2> QED
    BY <1>1, <1>3, <2>1, <2>2, EndsShape DEF Defer
<1>4. CASE Propose(i)
  <2>1. task[i].pc # "none"
    BY <1>4 DEF Propose, AtGate
  <2>2. PICK kind \in Levels \intersect {"propose", "escalate", "unrouted"} : FilesCard(i, kind)
    BY <1>4 DEF Propose
  <2>3. /\ cards' \in [Cards -> Card]
        /\ \E next \in Task : task' = [task EXCEPT ![i] = next]
    BY <1>1, <2>1, <2>2, FiledShape
  <2> QED
    BY <1>4, <2>1, <2>3, TaskShape DEF Propose
<1>5. CASE ProposeFails(i)
  <2>1. task[i].pc # "none"
    BY <1>5 DEF ProposeFails, AtGate
  <2>2. ASSUME NEW kind \in Levels \intersect {"propose", "unrouted"}, FiledBy(i, kind, NoCard),
               UNCHANGED rows
        PROVE  GateShape'
    <3> DEFINE next == [pc |-> IF kind = "unrouted" THEN "unplaced" ELSE "filed", card |-> NoCard]
    <3>1. next \in Task
      BY DEF Task, TaskPcs
    <3> QED
      BY <1>5, <2>1, <2>2, <3>1, TaskShape DEF ProposeFails, FiledBy
  <2>3. CASE Ends(i, FailedOrRetry(rows[i]))
    <3>1. FailedOrRetry(rows[i]) \in ActionRow /\ SameWork(rows[i], FailedOrRetry(rows[i]))
      BY RetriedRow
    <3> QED
      BY <1>1, <1>5, <2>1, <2>3, <3>1, EndsShape DEF ProposeFails
  <2> QED
    BY <1>5, <2>2, <2>3 DEF ProposeFails
<1>6. CASE Bind(i)
  <2>1. task[i].pc # "none"
    BY <1>6 DEF Bind
  <2>2. [task[i] EXCEPT !.pc = "bound"] \in Task
    BY DEF Task, TaskPcs
  <2>3. task' = [task EXCEPT ![i] = [task[i] EXCEPT !.pc = "bound"]]
    BY <1>6 DEF Bind
  <2>4. cards' \in [Cards -> Card]
    <3>1. CASE UNCHANGED cards
      BY <3>1
    <3>2. CASE task[i].card # NoCard /\ cards' = [cards EXCEPT ![task[i].card].holds = i]
      <4> DEFINE c == task[i].card
      <4>1. c \in Cards
        BY <3>2 DEF Task
      <4>2. [cards[c] EXCEPT !.holds = i] \in Card
        BY <4>1 DEF Card
      <4>3. cards' = [cards EXCEPT ![c] = [cards[c] EXCEPT !.holds = i]]
        BY <3>2
      <4> QED
        BY <4>1, <4>2, <4>3
    <3> QED
      BY <1>6, <3>1, <3>2 DEF Bind
  <2> QED
    BY <1>6, <2>1, <2>2, <2>3, <2>4, TaskShape DEF Bind
<1>7. CASE GateMarks(i)
  <2>1. task[i].pc # "none"
    BY <1>7 DEF GateMarks
  <2>2. PICK row \in {MarkedDone(rows[i]), MarkedFailed(rows[i])} : Ends(i, row)
    BY <1>7 DEF GateMarks
  <2>3. row \in ActionRow /\ SameWork(rows[i], row)
    BY <2>2, EndedRow
  <2> QED
    BY <1>1, <1>7, <2>1, <2>2, <2>3, EndsShape DEF GateMarks
<1>8. CASE TaskSends(i)
  <2>1. [task[i] EXCEPT !.pc = "sent"] \in Task
    BY DEF Task, TaskPcs
  <2>2. task' = [task EXCEPT ![i] = [task[i] EXCEPT !.pc = "sent"]]
    BY <1>8 DEF TaskSends
  <2>3. sent' \in [Ids -> Nat]
    BY <1>8 DEF TaskSends
  <2> QED
    BY <1>8, <2>1, <2>2, <2>3, TaskShape DEF TaskSends
<1>9. CASE TaskEnds(i)
  <2>1. task[i].pc # "none"
    BY <1>9 DEF TaskEnds
  <2>2. PICK row \in {MarkedDone(rows[i]), Retired(rows[i]), FailedOrRetry(rows[i])} : Ends(i, row)
    BY <1>9 DEF TaskEnds
  <2>3. row \in ActionRow /\ SameWork(rows[i], row)
    BY <2>2, EndedRow, RetriedRow
  <2> QED
    BY <1>1, <1>9, <2>1, <2>2, <2>3, EndsShape DEF TaskEnds
<1>10. CASE TaskLost(i)
  <2>1. task[i].pc # "none"
    BY <1>10 DEF TaskLost
  <2>2. NoTask \in Task
    BY DEF NoTask, Task, TaskPcs
  <2> QED
    BY <1>10, <2>1, <2>2, TaskShape DEF TaskLost
<1> QED
  BY <1>2, <1>3, <1>4, <1>5, <1>6, <1>7, <1>8, <1>9, <1>10 DEF TaskStep


\* Setting one card's approval, or its status, gives a table of cards.
LEMMA CardChange ==
  ASSUME GateShape, NEW c \in Cards, NEW status \in CardStatuses, NEW approval \in ApprovalStatuses
  PROVE  /\ [cards EXCEPT ![c].status = status] \in [Cards -> Card]
         /\ [cards EXCEPT ![c].approval = approval] \in [Cards -> Card]
         /\ [cards EXCEPT ![c].content = NoContent] \in [Cards -> Card]
         /\ [cards EXCEPT ![c].status = status, ![c].approval = approval] \in [Cards -> Card]
<1> USE DEF GateShape, GateTypeOK
<1>1. /\ [cards[c] EXCEPT !.status = status] \in Card
      /\ [cards[c] EXCEPT !.approval = approval] \in Card
      /\ [cards[c] EXCEPT !.content = NoContent] \in Card
  BY DEF Card
<1> DEFINE both == [[cards[c] EXCEPT !.status = status] EXCEPT !.approval = approval]
<1>2. both \in Card
  BY DEF Card
<1>3. /\ [cards EXCEPT ![c].status = status] = [cards EXCEPT ![c] = [cards[c] EXCEPT !.status = status]]
      /\ [cards EXCEPT ![c].approval = approval]
           = [cards EXCEPT ![c] = [cards[c] EXCEPT !.approval = approval]]
      /\ [cards EXCEPT ![c].content = NoContent]
           = [cards EXCEPT ![c] = [cards[c] EXCEPT !.content = NoContent]]
  OBVIOUS
<1>4. [cards EXCEPT ![c].status = status, ![c].approval = approval] = [cards EXCEPT ![c] = both]
  OBVIOUS
<1> HIDE DEF both
<1> QED
  BY <1>1, <1>2, <1>3, <1>4

LEMMA AnsweredShape ==
  ASSUME GateShape, NEW c \in Cards, NEW outcome \in {"done", "failed", "running"},
         Answered(c, outcome), UNCHANGED <<rows, task, sent, reviewed, holding, crashes>>
  PROVE  GateShape'
<1>1. cards' \in [Cards -> Card]
  BY CardChange DEF Answered, ApprovalStatuses, CardStatuses
<1>2. handler' \in [Cards -> HandlerPcs]
  BY DEF Answered, GateShape, GateTypeOK, HandlerPcs
<1> QED
  BY <1>1, <1>2, TableShape DEF GateShape, GateTypeOK

LEMMA ApproveStepShape ==
  ASSUME GateShape, NEW c \in Cards, ApproveStep(c)
  PROVE  GateShape'
<1>1. ASSUME NEW edited \in Edits, ApproveClaims(c, edited)
      PROVE  GateShape'
  <2>1. cards' \in [Cards -> Card]
    BY <1>1, CardChange DEF ApproveClaims, ApprovalStatuses, CardStatuses
  <2>2. handler' \in [Cards -> HandlerPcs]
    BY <1>1 DEF ApproveClaims, GateShape, GateTypeOK, HandlerPcs
  <2> QED
    BY <1>1, <2>1, <2>2, TableShape DEF ApproveClaims, GateShape, GateTypeOK
<1>2. ASSUME NEW i \in Ids, ApproveQueues(c, i)
      PROVE  GateShape'
  <2> DEFINE held == cards[c].holds
             row == Copy(rows[held], c)
  <2>1. held \in Ids
    BY <1>2 DEF ApproveQueues, HoldsDone, GateShape, GateTypeOK, Card
  <2>2. rows[held].content \in Contents
    BY <1>2, <2>1 DEF ApproveQueues, HoldsDone, GateShape, RowsSaySomething
  <2>3. row \in ActionRow /\ row.content \in Contents
    BY <2>2 DEF Copy, NoAction, ActionRow, ActionStatuses
  <2>4. task[i].pc = "none"
    BY <1>2 DEF ApproveQueues, GateShape, WorkedRowsAreRunning
  <2>5. handler' \in [Cards -> HandlerPcs]
    BY <1>2 DEF ApproveQueues, GateShape, GateTypeOK, HandlerPcs
  <2>6. rows' = [rows EXCEPT ![i] = row]
    BY <1>2 DEF ApproveQueues
  <2> HIDE DEF row
  <2> QED
    BY <1>2, <2>3, <2>4, <2>5, <2>6, WaitingRowShape DEF ApproveQueues
<1>3. CASE ApproveQueued(c)
  BY <1>3, AnsweredShape DEF ApproveQueued
<1>4. CASE ApproveFails(c)
  BY <1>4, AnsweredShape DEF ApproveFails
<1>5. CASE ApproveChats(c)
  <2>1. CASE handler' = [handler EXCEPT ![c] = "chatting"] /\ UNCHANGED cards
    BY <1>5, <2>1, TableShape DEF ApproveChats, GateShape, GateTypeOK, HandlerPcs
  <2>2. CASE Answered(c, "failed")
    BY <1>5, <2>2, AnsweredShape DEF ApproveChats
  <2> QED
    BY <1>5, <2>1, <2>2 DEF ApproveChats
<1>6. CASE ChatEnds(c)
  BY <1>6, AnsweredShape DEF ChatEnds
<1> QED
  BY <1>1, <1>2, <1>3, <1>4, <1>5, <1>6 DEF ApproveStep

LEMMA CardStepShape ==
  ASSUME GateShape, NEW c \in Cards, CardStep(c)
  PROVE  GateShape'
<1> USE DEF GateShape, GateTypeOK
<1>1. ASSUME NEW status \in CardStatuses, SetStatus(c, status)
      PROVE  GateShape'
  <2>1. cards' \in [Cards -> Card]
    BY <1>1, CardChange DEF SetStatus, ApprovalStatuses
  <2> QED
    BY <1>1, <2>1, TableShape DEF SetStatus
<1>2. ASSUME NEW status \in Clicks, Click(c, status)
      PROVE  GateShape'
  <2>1. status \in CardStatuses
    BY GateAssumption DEF CardStatuses
  <2> QED
    BY <1>1, <1>2, <2>1 DEF Click
<1>3. CASE Reopen(c)
  BY <1>1, <1>3 DEF Reopen, CardStatuses
<1>4. CASE Expire(c)
  BY <1>1, <1>4 DEF Expire, CardStatuses
<1>5. CASE ReviewReads(c)
  BY <1>5, TableShape DEF ReviewReads
<1>6. CASE ReviewActs(c)
  <2>1. \A v \in Verdicts \ {"changed"} : v \in CardStatuses
    BY GateAssumption DEF CardStatuses
  <2>2. cards' \in [Cards -> Card]
    <3>1. CASE cards' = cards
      BY <3>1
    <3>2. ASSUME NEW v \in Verdicts \ {"changed"}, cards' = [cards EXCEPT ![c].status = v]
          PROVE  cards' \in [Cards -> Card]
      BY <2>1, <3>2, CardChange DEF ApprovalStatuses
    <3>3. CASE cards' = [cards EXCEPT ![c].content = NoContent]
      BY <3>3, CardChange DEF ApprovalStatuses, CardStatuses
    <3> QED
      BY <1>6, <3>1, <3>2, <3>3 DEF ReviewActs
  <2> QED
    BY <1>6, <2>2, TableShape DEF ReviewActs
<1> QED
  BY <1>2, <1>3, <1>4, <1>5, <1>6 DEF CardStep

LEMMA ClaimDueShape ==
  ASSUME GateShape, ClaimDue
  PROVE  GateShape'
<1> USE DEF GateShape, GateTypeOK
<1> DEFINE due == {i \in Ids : DueToRun(rows[i])}
<1>1. /\ rows' = [i \in Ids |-> IF i \in due THEN Taken(rows[i]) ELSE rows[i]]
      /\ task' = [i \in Ids |-> IF i \in due THEN [NoTask EXCEPT !.pc = "claimed"] ELSE task[i]]
      /\ UNCHANGED <<sent, cards, handler, reviewed, holding, crashes>>
  BY DEF ClaimDue
<1>2. [NoTask EXCEPT !.pc = "claimed"] \in Task
  BY DEF NoTask, Task, TaskPcs
<1>3. \A i \in due : /\ rows[i].status = "pending" /\ Taken(rows[i]) \in ActionRow
                     /\ Taken(rows[i]).status = "running" /\ SameWork(rows[i], Taken(rows[i]))
  BY QueueGuards, TakenRow
<1> HIDE DEF due
<1>4. rows' \in [Ids -> ActionRow]
  BY <1>1, <1>3
<1>5. task' \in [Ids -> Task]
  BY <1>1, <1>2
<1>6. RowsSaySomething'
  BY <1>1, <1>3 DEF RowsSaySomething, SameWork
<1>7. WorkedRowsAreRunning'
  BY <1>1, <1>3 DEF WorkedRowsAreRunning
<1> QED
  BY <1>1, <1>4, <1>5, <1>6, <1>7

LEMMA RestartShape ==
  ASSUME GateShape, Restart
  PROVE  GateShape'
<1> USE DEF GateShape, GateTypeOK
<1>1. \A i \in Ids : Orphaned(rows[i]) \in ActionRow /\ SameWork(rows[i], Orphaned(rows[i]))
                     /\ (rows[i].status = "none" => Orphaned(rows[i]) = rows[i])
  BY EndedRow, QueueGuards
<1>2. rows' \in [Ids -> ActionRow]
  BY <1>1 DEF Restart
<1>3. RowsSaySomething'
  BY <1>1 DEF Restart, RowsSaySomething, SameWork
<1>4. NoTask \in Task /\ NoTask.pc = "none"
  BY DEF NoTask, Task, TaskPcs
<1>5. task' \in [Ids -> Task] /\ WorkedRowsAreRunning'
  BY <1>4 DEF Restart, WorkedRowsAreRunning
<1>6. \A card \in Card : Interrupted(card) \in Card
  BY DEF Interrupted, Card, ApprovalStatuses
<1>7. cards' \in [Cards -> Card] /\ handler' \in [Cards -> HandlerPcs]
  BY <1>6 DEF Restart, HandlerPcs
<1>8. reviewed' \subseteq Cards /\ crashes' \in Nat /\ UNCHANGED <<sent, holding>>
  BY DEF Restart
<1> QED
  BY <1>2, <1>3, <1>5, <1>7, <1>8

LEMMA GateShapeStep == GateShape /\ [GateNext]_gateVars => GateShape'
<1> SUFFICES ASSUME GateShape, [GateNext]_gateVars PROVE GateShape'
  OBVIOUS
<1>1. CASE UNCHANGED gateVars
  BY <1>1 DEF gateVars, GateShape, GateTypeOK, RowsSaySomething, WorkedRowsAreRunning
<1>2. CASE SetHolding
  BY <1>2 DEF SetHolding, HoldsOrGoesOn, GateShape, GateTypeOK, RowsSaySomething, WorkedRowsAreRunning
<1> QED
  BY <1>1, <1>2, QueueStepShape, TaskStepShape, ApproveStepShape, CardStepShape,
     ClaimDueShape, RestartShape DEF GateNext

LEMMA ShapeAlways == GateSpec => []GateShape
BY GateShapeInit, GateShapeStep, PTL DEF GateSpec

\* Every variable of the gate stays in its type: rows, tasks, cards and the
\* ids they refer to.
THEOREM GateTypeCorrect == GateSpec => []GateTypeOK
<1>1. GateShape => GateTypeOK
  BY DEF GateShape
<1> QED
  BY <1>1, ShapeAlways, PTL

\* A row some task works on is running, whatever cancels, claims, approvals,
\* database errors and restarts come between.
THEOREM WorkedRunning == GateSpec => []WorkedRowsAreRunning
<1>1. GateShape => WorkedRowsAreRunning
  BY DEF GateShape
<1> QED
  BY <1>1, ShapeAlways, PTL


-----------------------------------------------------------------------------
(* What is over stays over *)

\* The steps that change other rows only, or this one where it is not over.
LEMMA SettledStep ==
  ASSUME GateShape, [GateNext]_gateVars, NEW i \in Ids, rows[i].status \in Settled
  PROVE  rows'[i].status = rows[i].status
<1> USE DEF GateShape, GateTypeOK
<1>1. rows[i].status \notin {"none", "pending", "running"}
  BY DEF Settled
<1>2. task[i].pc = "none"
  BY <1>1 DEF WorkedRowsAreRunning
<1>3. ASSUME NEW j \in Ids, QueueStep(j) PROVE rows'[i].status = rows[i].status
  <2>1. Cancelled(rows[i]) = rows[i]
    BY <1>1 DEF Cancelled
  <2>2. CASE \E content \in Contents, gated \in Gating : Schedule(j, content, gated)
    BY <1>1, <2>2 DEF Schedule
  <2>3. CASE BecomesDue(j)
    BY <1>1, <2>3 DEF BecomesDue
  <2>4. CASE CancelAction(j)
    BY <2>1, <2>4 DEF CancelAction
  <2> QED
    BY <1>3, <2>2, <2>3, <2>4 DEF QueueStep
<1>4. ASSUME NEW j \in Ids, TaskStep(j) PROVE rows'[i].status = rows[i].status
  <2>1. UNCHANGED rows \/ (task[j].pc # "none" /\ \E row : Ends(j, row))
    BY <1>4 DEF TaskStep, Dispatch, Defer, Propose, ProposeFails, Bind, GateMarks, TaskSends,
       TaskEnds, TaskLost, AtGate
  <2> QED
    BY <1>2, <2>1 DEF Ends
<1>5. ASSUME NEW c \in Cards, ApproveStep(c) \/ CardStep(c) PROVE rows'[i].status = rows[i].status
  <2>1. UNCHANGED rows \/ \E j \in Ids : ApproveQueues(c, j)
    BY <1>5 DEF ApproveStep, ApproveClaims, ApproveQueued, ApproveFails, ApproveChats, ChatEnds,
       CardStep, Click, Reopen, Expire, ReviewReads, ReviewActs, SetStatus
  <2> QED
    BY <1>1, <2>1 DEF ApproveQueues
<1>6. CASE ClaimDue
  BY <1>1, <1>6, QueueGuards DEF ClaimDue
<1>7. CASE Restart
  BY <1>1, <1>7, QueueGuards DEF Restart
<1>8. CASE SetHolding \/ UNCHANGED gateVars
  BY <1>8 DEF SetHolding, gateVars
<1> QED
  BY <1>3, <1>4, <1>5, <1>6, <1>7, <1>8 DEF GateNext

\* Whatever a person was told of a row that is done, failed or cancelled
\* stays true: no late task, retry, cancel or sweep at the start changes it.
THEOREM SettledStay == GateSpec => SettledStays
<1>1. GateShape /\ [GateNext]_gateVars =>
        [\A i \in Ids : rows[i].status \in Settled => rows'[i].status = rows[i].status]_gateVars
  BY SettledStep
<1> QED
  BY <1>1, ShapeAlways, PTL DEF GateSpec, SettledStays

-----------------------------------------------------------------------------
(* The card of a held action *)

OnACard(i) ==
  \E c \in Cards :
    \/ cards'[c].status = "unread" /\ cards'[c].content = rows[i].content
    \/ cards[c].status # "none" /\ c.occ = i

\* propose_via_alert for a kind whose cards have a key of their own: the open
\* card it refreshes, the card it inserts, or the action's own card of before.
LEMMA FiledOnACard ==
  ASSUME GateShape, NEW i \in Ids, rows[i].status # "none",
         NEW kind \in Levels \intersect {"escalate", "unrouted"}, FilesCard(i, kind)
  PROVE  OnACard(i)
<1> USE DEF GateShape, GateTypeOK
<1> DEFINE own == OwnCard(i, kind)
           open == OpenWith(kind, KeyOf(i, kind))
<1>1. own \in Cards /\ own.occ = i
  <2>1. rows[i].content \in Contents
    BY DEF RowsSaySomething
  <2>2. own \in Cards
    BY <2>1, OwnCardType
  <2> QED
    BY <2>2 DEF OwnCard
<1>2. CASE Refreshes(i, kind, open)
  <2>1. PICK c \in open : cards' = [cards EXCEPT ![c].content = rows[i].content]
    BY <1>2 DEF Refreshes
  <2>2. c \in Cards /\ cards[c].status = "unread" /\ cards[c] \in Card
    BY <2>1 DEF OpenWith
  <2>3. cards'[c].status = "unread" /\ cards'[c].content = rows[i].content
    BY <2>1, <2>2 DEF Card
  <2> QED
    BY <2>2, <2>3 DEF OnACard
<1>3. CASE Inserts(i, kind) /\ cards[own].status = "none"
  <2> DEFINE filled == [EmptyCard EXCEPT !.status = "unread", !.content = rows[i].content]
  <2>1. cards' = [cards EXCEPT ![own] = filled]
    BY <1>3 DEF Inserts
  <2>2. filled.status = "unread" /\ filled.content = rows[i].content
    BY DEF EmptyCard
  <2>3. cards'[own] = filled
    BY <1>1, <2>1
  <2> QED
    BY <1>1, <2>2, <2>3 DEF OnACard
<1>4. CASE cards[own].status # "none"
  BY <1>1, <1>4 DEF OnACard
<1> QED
  BY <1>2, <1>3, <1>4 DEF FilesCard

\* Only the gate's own step takes a claimed row to its filed card.
LEMMA FilingIsProposing ==
  ASSUME GateShape, [GateNext]_gateVars, NEW i \in Ids,
         task[i].pc = "claimed", task'[i].pc \in {"filed", "unplaced"}
  PROVE  Propose(i) \/ ProposeFails(i)
<1> USE DEF GateShape, GateTypeOK
<1>1. task'[i] # task[i] /\ task[i] \in Task
  BY DEF Task
<1>2. ASSUME NEW j \in Ids, QueueStep(j) PROVE FALSE
  BY <1>1, <1>2 DEF QueueStep, Schedule, BecomesDue, CancelAction
<1>3. ASSUME NEW j \in Ids, TaskStep(j) PROVE Propose(i) \/ ProposeFails(i)
  <2>1. \E next : task' = [task EXCEPT ![j] = next]
    BY <1>3, Zenon DEF TaskStep, Dispatch, Defer, Propose, ProposeFails, Bind, GateMarks, TaskSends,
       TaskEnds, TaskLost, Ends, FilesCard, Refreshes, Inserts, FiledBy
  <2>2. j = i
    BY <1>1, <2>1
  <2>3. Propose(i) \/ ProposeFails(i) \/ Dispatch(i) \/ Defer(i) \/ TaskEnds(i) \/ TaskLost(i)
        \/ Bind(i) \/ GateMarks(i) \/ TaskSends(i)
    BY <1>3, <2>2 DEF TaskStep
  <2>4. ~Dispatch(i)
    BY DEF Dispatch, Task
  <2>5. ~Defer(i) /\ ~TaskEnds(i) /\ ~TaskLost(i)
    BY DEF Defer, TaskEnds, TaskLost, Ends, NoTask
  <2>6. ~Bind(i) /\ ~GateMarks(i) /\ ~TaskSends(i)
    BY DEF Bind, GateMarks, TaskSends
  <2> QED
    BY <2>3, <2>4, <2>5, <2>6
<1>4. ASSUME NEW c \in Cards, ApproveStep(c) \/ CardStep(c) PROVE FALSE
  <2>1. UNCHANGED task
    BY <1>4 DEF ApproveStep, ApproveClaims, ApproveQueues, ApproveQueued, ApproveFails,
       ApproveChats, ChatEnds, CardStep, Click, Reopen, Expire, ReviewReads, ReviewActs, SetStatus
  <2> QED
    BY <1>1, <2>1
<1>5. ~ClaimDue
  BY DEF ClaimDue, NoTask
<1>6. ~Restart
  BY DEF Restart, NoTask
<1>7. ~SetHolding /\ ~UNCHANGED gateVars
  BY <1>1 DEF SetHolding, gateVars
<1> QED
  BY <1>2, <1>3, <1>4, <1>5, <1>6, <1>7 DEF GateNext

\* Where departments only escalate, or propose with nobody to approve it, no
\* held action is let go of without a card that says it: an insert that finds
\* a card of that key means the action's own card, never another's. (Routed
\* proposals share one card per subject and do lose actions, whether or not
\* the database fails; an unrouted one is lost when it does.)
THEOREM HeldOnACard ==
  "propose" \notin Levels /\ ~(DbFaults /\ "unrouted" \in Levels) =>
    (GateSpec => HeldWorkHasACard)
<1> SUFFICES ASSUME "propose" \notin Levels, ~(DbFaults /\ "unrouted" \in Levels)
             PROVE  GateSpec => HeldWorkHasACard
  OBVIOUS
<1>1. ASSUME GateShape, [GateNext]_gateVars, NEW i \in Ids,
             task[i].pc = "claimed", task'[i].pc \in {"filed", "unplaced"}
      PROVE  OnACard(i)
  <2>1. rows[i].status = "running"
    BY <1>1 DEF GateShape, WorkedRowsAreRunning
  <2>2. Propose(i) \/ ProposeFails(i)
    BY <1>1, FilingIsProposing
  <2>3. CASE Propose(i)
    <3>1. PICK kind \in Levels \intersect {"escalate", "unrouted"} : FilesCard(i, kind)
      BY <2>3 DEF Propose
    <3> QED
      BY <1>1, <2>1, <3>1, FiledOnACard
  <2>4. CASE ProposeFails(i)
    <3>1. Ends(i, FailedOrRetry(rows[i]))
      BY <2>4 DEF ProposeFails
    <3> QED
      BY <1>1, <3>1 DEF Ends, NoTask, GateShape, GateTypeOK
  <2> QED
    BY <2>2, <2>3, <2>4
<1>2. GateShape /\ [GateNext]_gateVars =>
        [\A i \in Ids : task[i].pc = "claimed" /\ task'[i].pc \in {"filed", "unplaced"} =>
           \E c \in Cards :
             \/ cards'[c].status = "unread" /\ cards'[c].content = rows[i].content
             \/ cards[c].status # "none" /\ c.occ = i]_gateVars
  BY <1>1 DEF OnACard
<1> QED
  BY <1>2, ShapeAlways, PTL DEF GateSpec, HeldWorkHasACard

-----------------------------------------------------------------------------
(* Attempts *)

\* Before a task sends, its row has an attempt more than messages sent; a row
\* that waits has an attempt left.
Tries(i) ==
  /\ sent[i] <= rows[i].attempts
  /\ rows[i].attempts <= MaxAttempts + crashes
  /\ rows[i].status = "none" => sent[i] = 0
  /\ rows[i].status = "pending" => rows[i].attempts < MaxAttempts + crashes
  /\ task[i].pc \notin {"none", "sent"} => sent[i] < rows[i].attempts

RetriesCounted == \A i \in Ids : Tries(i)

\* What the statements of the queue do to the attempts.
LEMMA Attempts ==
  ASSUME NEW row \in ActionRow
  PROVE  /\ Taken(row).attempts = row.attempts + 1
         /\ TakenBack(row).attempts <= row.attempts
         /\ row.status = "running" /\ row.attempts > 0 =>
              TakenBack(row).attempts = row.attempts - 1
         /\ \A next \in {MarkedDone(row), MarkedFailed(row), Retired(row), Cancelled(row),
                         Orphaned(row), FailedOrRetry(row)} : next.attempts = row.attempts
         /\ \A next \in {MarkedDone(row), MarkedFailed(row)} : next.status \notin {"none", "pending"}
         /\ row.status = "running" => Retired(row).status = "cancelled"
         /\ FailedOrRetry(row).status # "none"
         /\ FailedOrRetry(row).status = "pending" => row.attempts < MaxAttempts
         /\ Cancelled(row).status \in {row.status, "cancelled"}
<1>1. row.attempts \in Nat
  BY DEF ActionRow
<1>2. Taken(row).attempts = row.attempts + 1
  BY Zenon DEF Taken, ActionRow
<1>3. TakenBack(row).attempts \in {row.attempts, IF row.attempts = 0 THEN 0 ELSE row.attempts - 1}
      /\ (row.status = "running" =>
            TakenBack(row).attempts = IF row.attempts = 0 THEN 0 ELSE row.attempts - 1)
  <2> DEFINE n == IF row.attempts = 0 THEN 0 ELSE row.attempts - 1
  <2>1. row.status = "running" =>
          TakenBack(row) = [row EXCEPT !.status = "pending", !.due = FALSE, !.attempts = n]
    BY DEF TakenBack
  <2>2. row.status # "running" => TakenBack(row) = row
    BY DEF TakenBack
  <2> HIDE DEF n
  <2>3. TakenBack(row).attempts \in {row.attempts, n} /\ (row.status = "running" => TakenBack(row).attempts = n)
    BY <2>1, <2>2 DEF ActionRow
  <2> QED
    BY <2>3 DEF n
<1>4. /\ \A next \in {MarkedDone(row), MarkedFailed(row), Retired(row), Cancelled(row),
                      Orphaned(row), FailedOrRetry(row)} : next.attempts = row.attempts
      /\ \A next \in {MarkedDone(row), MarkedFailed(row)} : next.status \notin {"none", "pending"}
      /\ row.status = "running" => Retired(row).status = "cancelled"
      /\ FailedOrRetry(row).status # "none"
      /\ Cancelled(row).status \in {row.status, "cancelled"}
  BY DEF ActionRow, MarkedDone, MarkedFailed, Retired, Cancelled, Orphaned, FailedOrRetry
<1>5. FailedOrRetry(row).status = "pending" => row.attempts < MaxAttempts
  <2>1. row.attempts >= MaxAttempts => FailedOrRetry(row).status = "failed"
    BY DEF FailedOrRetry, MarkedFailed, ActionRow
  <2> QED
    BY <1>1, <2>1, AttemptsAssumption
<1> QED
  BY <1>1, <1>2, <1>3, <1>4, <1>5


\* A step that leaves row i, its attempts and its messages alone, and moves
\* its task no further than before sending.
LEMMA TriesKept ==
  ASSUME GateShape, NEW i \in Ids, Tries(i), crashes' = crashes, sent'[i] = sent[i],
         rows'[i].attempts = rows[i].attempts, rows'[i].status \in {rows[i].status, "cancelled"},
         task'[i].pc \notin {"none", "sent"} => task[i].pc \notin {"none", "sent"}
  PROVE  Tries(i)'
BY DEF Tries, GateShape, GateTypeOK

\* A task that ends gives its row one of four states.
LEMMA TriesEnd ==
  ASSUME GateShape, NEW i \in Ids, Tries(i), task[i].pc # "none",
         NEW row \in {MarkedDone(rows[i]), MarkedFailed(rows[i]), Retired(rows[i]),
                      FailedOrRetry(rows[i])},
         Ends(i, row), crashes' = crashes, sent' = sent
  PROVE  Tries(i)'
<1> USE DEF GateShape, GateTypeOK
<1>1. rows'[i] = row /\ task'[i].pc = "none"
  BY DEF Ends, NoTask
<1>2. rows[i].status = "running" /\ rows[i] \in ActionRow
  BY DEF WorkedRowsAreRunning
<1>3. row.attempts = rows[i].attempts /\ row.status # "none"
  BY <1>2, Attempts
<1>4. row.status = "pending" => rows[i].attempts < MaxAttempts
  BY <1>2, Attempts
<1> QED
  BY <1>1, <1>2, <1>3, <1>4, AttemptsAssumption DEF Tries, ActionRow

LEMMA TriesTask ==
  ASSUME GateShape, NEW i \in Ids, Tries(i), TaskStep(i)
  PROVE  Tries(i)'
<1> USE DEF GateShape, GateTypeOK
<1>1. rows[i] \in ActionRow /\ rows[i].attempts \in Nat /\ sent[i] \in Nat
  BY DEF ActionRow
<1>2. CASE Dispatch(i)
  <2>1. task'[i].pc = "working" /\ task[i].pc = "claimed"
    BY <1>2 DEF Dispatch, AtGate, Task
  <2> QED
    BY <1>1, <1>2, <2>1, TriesKept DEF Dispatch
<1>3. CASE Defer(i)
  <2>1. rows[i].status = "running" /\ sent[i] < rows[i].attempts
    BY <1>3 DEF Defer, AtGate, WorkedRowsAreRunning, Tries
  <2>2. rows'[i] = TakenBack(rows[i]) /\ task'[i].pc = "none" /\ UNCHANGED <<sent, crashes>>
    BY <1>3 DEF Defer, Ends, NoTask
  <2>3. rows'[i].attempts = rows[i].attempts - 1
    BY <1>1, <2>1, <2>2, Attempts
  <2>4. rows'[i].status # "none"
    BY <1>1, <2>1, <2>2, TakenBackRow
  <2> QED
    BY <1>1, <2>1, <2>2, <2>3, <2>4, AttemptsAssumption DEF Tries
<1>4. CASE Propose(i)
  <2>1. task[i].pc = "claimed"
    BY <1>4 DEF Propose, AtGate
  <2> QED
    BY <1>1, <1>4, <2>1, TriesKept DEF Propose
<1>5. CASE ProposeFails(i)
  <2>1. task[i].pc = "claimed"
    BY <1>5 DEF ProposeFails, AtGate
  <2>2. CASE Ends(i, FailedOrRetry(rows[i]))
    BY <1>5, <2>1, <2>2, TriesEnd DEF ProposeFails
  <2>3. CASE UNCHANGED rows
    BY <1>1, <1>5, <2>1, <2>3, TriesKept DEF ProposeFails
  <2> QED
    BY <1>5, <2>2, <2>3 DEF ProposeFails
<1>6. CASE Bind(i)
  <2>1. task[i].pc = "filed"
    BY <1>6 DEF Bind
  <2> QED
    BY <1>1, <1>6, <2>1, TriesKept DEF Bind
<1>7. CASE GateMarks(i)
  <2>1. task[i].pc # "none"
    BY <1>7 DEF GateMarks
  <2>2. PICK row \in {MarkedDone(rows[i]), MarkedFailed(rows[i])} : Ends(i, row)
    BY <1>7 DEF GateMarks
  <2> QED
    BY <1>7, <2>1, <2>2, TriesEnd DEF GateMarks
<1>8. CASE TaskSends(i)
  <2>1. sent[i] < rows[i].attempts /\ rows[i].status = "running"
    BY <1>8 DEF TaskSends, Tries, WorkedRowsAreRunning
  <2>2. sent'[i] = sent[i] + 1 /\ task'[i].pc = "sent" /\ UNCHANGED <<rows, crashes>>
    BY <1>8 DEF TaskSends, Task
  <2> QED
    BY <1>1, <2>1, <2>2 DEF Tries
<1>9. CASE TaskEnds(i)
  <2>1. task[i].pc # "none"
    BY <1>9 DEF TaskEnds
  <2>2. PICK row \in {MarkedDone(rows[i]), Retired(rows[i]), FailedOrRetry(rows[i])} : Ends(i, row)
    BY <1>9 DEF TaskEnds
  <2> QED
    BY <1>9, <2>1, <2>2, TriesEnd DEF TaskEnds
<1>10. CASE TaskLost(i)
  <2>1. task'[i].pc = "none"
    BY <1>10 DEF TaskLost, NoTask
  <2> QED
    BY <1>1, <1>10, <2>1, TriesKept DEF TaskLost
<1> QED
  BY <1>2, <1>3, <1>4, <1>5, <1>6, <1>7, <1>8, <1>9, <1>10 DEF TaskStep

LEMMA TriesStep ==
  ASSUME GateShape, RetriesCounted, [GateNext]_gateVars, NEW i \in Ids
  PROVE  Tries(i)'
<1> USE DEF GateShape, GateTypeOK
<1>1. Tries(i) /\ rows[i] \in ActionRow /\ rows[i].attempts \in Nat /\ sent[i] \in Nat
  BY DEF RetriesCounted, ActionRow
<1>2. ASSUME crashes' = crashes, sent' = sent, task' = task, rows'[i] = rows[i] PROVE Tries(i)'
  BY <1>1, <1>2, TriesKept
<1>3. ASSUME NEW j \in Ids, QueueStep(j) PROVE Tries(i)'
  <2>1. ASSUME NEW content \in Contents, NEW gated \in Gating, Schedule(j, content, gated)
        PROVE  Tries(i)'
    <3>1. CASE j = i
      <4>1. rows[i].status = "none"
        BY <2>1, <3>1 DEF Schedule
      <4>2. rows'[i].status = "pending" /\ rows'[i].attempts = 0
        BY <2>1, <3>1 DEF Schedule, NoAction
      <4>3. sent'[i] = sent[i] /\ crashes' = crashes /\ task'[i].pc = "none"
        BY <2>1, <3>1, <4>1 DEF Schedule, WorkedRowsAreRunning
      <4> QED
        BY <1>1, <4>1, <4>2, <4>3, AttemptsAssumption DEF Tries
    <3>2. CASE j # i
      BY <1>2, <2>1, <3>2 DEF Schedule
    <3> QED
      BY <3>1, <3>2
  <2>2. CASE BecomesDue(j)
    <3>1. rows'[i].attempts = rows[i].attempts /\ rows'[i].status = rows[i].status
      BY <2>2 DEF BecomesDue, ActionRow
    <3> QED
      BY <1>1, <2>2, <3>1, TriesKept DEF BecomesDue
  <2>3. CASE CancelAction(j)
    <3>1. rows'[i] \in {rows[i], Cancelled(rows[i])}
      BY <2>3 DEF CancelAction
    <3>2. rows'[i].attempts = rows[i].attempts /\ rows'[i].status \in {rows[i].status, "cancelled"}
      BY <1>1, <3>1, Attempts
    <3> QED
      BY <1>1, <2>3, <3>2, TriesKept DEF CancelAction
  <2> QED
    BY <1>3, <2>1, <2>2, <2>3 DEF QueueStep
<1>4. ASSUME NEW j \in Ids, TaskStep(j) PROVE Tries(i)'
  <2>1. CASE j = i
    BY <1>1, <1>4, <2>1, TriesTask
  <2>2. CASE j # i
    <3>1. rows'[i] = rows[i]
      BY <1>4, <2>2 DEF TaskStep, Dispatch, Defer, Propose, ProposeFails, Bind, GateMarks,
         TaskSends, TaskEnds, TaskLost, Ends
    <3>2. task'[i] = task[i]
      BY <1>4, <2>2 DEF TaskStep, Dispatch, Defer, Propose, ProposeFails, Bind, GateMarks,
         TaskSends, TaskEnds, TaskLost, Ends, FilesCard, Inserts, Refreshes, FiledBy
    <3>3. sent'[i] = sent[i] /\ crashes' = crashes
      BY <1>4, <2>2 DEF TaskStep, Dispatch, Defer, Propose, ProposeFails, Bind, GateMarks,
         TaskSends, TaskEnds, TaskLost
    <3> QED
      BY <1>1, <3>1, <3>2, <3>3, TriesKept
  <2> QED
    BY <2>1, <2>2
<1>5. ASSUME NEW c \in Cards, ApproveStep(c) \/ CardStep(c) PROVE Tries(i)'
  <2>1. task' = task /\ sent' = sent /\ crashes' = crashes
    BY <1>5 DEF ApproveStep, ApproveClaims, ApproveQueues, ApproveQueued, ApproveFails,
       ApproveChats, ChatEnds, CardStep, Click, Reopen, Expire, ReviewReads, ReviewActs, SetStatus
  <2>2. UNCHANGED rows \/ \E j \in Ids : ApproveQueues(c, j)
    BY <1>5 DEF ApproveStep, ApproveClaims, ApproveQueued, ApproveFails, ApproveChats, ChatEnds,
       CardStep, Click, Reopen, Expire, ReviewReads, ReviewActs, SetStatus
  <2>3. ASSUME ApproveQueues(c, i) PROVE Tries(i)'
    <3>1. rows[i].status = "none"
      BY <2>3 DEF ApproveQueues
    <3>2. rows'[i] = Copy(rows[cards[c].holds], c)
      BY <2>3 DEF ApproveQueues
    <3>3. rows'[i].attempts = 0 /\ rows'[i].status = "pending"
      BY <3>2 DEF Copy, NoAction
    <3>4. task[i].pc = "none"
      BY <3>1 DEF WorkedRowsAreRunning
    <3> QED
      BY <1>1, <2>1, <3>1, <3>3, <3>4, AttemptsAssumption DEF Tries
  <2>4. ASSUME NEW j \in Ids \ {i}, ApproveQueues(c, j) PROVE rows'[i] = rows[i]
    BY <2>4 DEF ApproveQueues
  <2> QED
    BY <1>2, <2>1, <2>2, <2>3, <2>4
<1>6. CASE ClaimDue
  <2>1. UNCHANGED <<sent, crashes>>
    BY <1>6 DEF ClaimDue
  <2>2. CASE DueToRun(rows[i])
    <3>1. rows[i].status = "pending" /\ rows'[i] = Taken(rows[i])
      BY <1>6, <2>2, QueueGuards DEF ClaimDue
    <3>2. rows'[i].attempts = rows[i].attempts + 1 /\ rows'[i].status = "running"
      BY <1>1, <3>1, Attempts, TakenRow
    <3> QED
      BY <1>1, <2>1, <3>1, <3>2, AttemptsAssumption DEF Tries
  <2>3. CASE ~DueToRun(rows[i])
    <3>1. rows'[i] = rows[i] /\ task'[i] = task[i]
      BY <1>6, <2>3 DEF ClaimDue
    <3> QED
      BY <1>1, <2>1, <3>1, TriesKept
  <2> QED
    BY <2>2, <2>3
<1>7. CASE Restart
  <2>1. rows'[i] \in {rows[i], Orphaned(rows[i])}
    BY <1>7 DEF Restart
  <2>2. rows'[i].attempts = rows[i].attempts /\ (rows'[i].status = "none" => rows[i].status = "none")
    BY <1>1, <2>1, Attempts DEF Orphaned, ActionRow
  <2>3. task'[i].pc = "none" /\ sent' = sent /\ crashes' = crashes + 1
    BY <1>7 DEF Restart, NoTask
  <2> QED
    BY <1>1, <2>2, <2>3, AttemptsAssumption DEF Tries
<1>8. CASE SetHolding \/ UNCHANGED gateVars
  BY <1>2, <1>8 DEF SetHolding, gateVars
<1> QED
  BY <1>3, <1>4, <1>5, <1>6, <1>7, <1>8 DEF GateNext

LEMMA TriesInit == GateInit => RetriesCounted
<1>1. NoAction.status = "none" /\ NoAction.attempts = 0 /\ NoTask.pc = "none"
  BY DEF NoAction, NoTask
<1> QED
  BY <1>1, AttemptsAssumption DEF GateInit, RetriesCounted, Tries

\* A message goes out at most once per attempt, and an action is tried at
\* most MaxAttempts times and once more per restart: deferrals, approvals,
\* cancels and lost updates add none.
THEOREM RetriesAreBounded == GateSpec => []RetriesBounded
<1>1. RetriesCounted => RetriesBounded
  BY DEF RetriesCounted, Tries, RetriesBounded
<1>2. GateShape /\ RetriesCounted /\ [GateNext]_gateVars => RetriesCounted'
  BY TriesStep DEF RetriesCounted
<1> QED
  BY <1>1, <1>2, TriesInit, ShapeAlways, PTL DEF GateSpec


-----------------------------------------------------------------------------
(* What goes out is what was approved *)

\* The card of id c stands for an action with this text: a proposal was filed
\* with it, an escalation has it as its key.
StandsFor(c, card, content) ==
  \/ c.kind = "propose" /\ card.status # "none" /\ card.content \in {content, NoContent}
  \/ c.kind = "escalate" /\ c.key = content

EscalationsSayTheirKey ==
  \A c \in Cards : c.kind = "escalate" => cards[c].content \in {c.key, NoContent}
ApprovedCardsAreFiled ==
  \A c \in Cards : /\ handler[c] # "idle" => cards[c].approval # "none"
                   /\ cards[c].approval # "none" => cards[c].status # "none"
HeldRows ==
  \A c \in Cards : cards[c].holds # NoId =>
    rows[cards[c].holds].status # "none" /\ StandsFor(c, cards[c], rows[cards[c].holds].content)
FiledTasks ==
  \A i \in Ids : task[i].pc = "filed" /\ task[i].card # NoCard =>
    StandsFor(task[i].card, cards[task[i].card], rows[i].content)
CopiesAreApproved ==
  \A i \in Ids : rows[i].via # NoCard =>
    /\ ~rows[i].gated /\ cards[rows[i].via].approval # "none"
    /\ StandsFor(rows[i].via, cards[rows[i].via], rows[i].content)
GateHolds ==
  "execute" \notin Levels =>
    \A i \in Ids : sent[i] > 0 \/ task[i].pc \in {"working", "sent"} => ~rows[i].gated

CardsSpeak ==
  /\ EscalationsSayTheirKey /\ ApprovedCardsAreFiled /\ HeldRows /\ FiledTasks
  /\ CopiesAreApproved /\ GateHolds

\* A row that is in the table keeps its work.
LEMMA WorkKept ==
  ASSUME GateShape, [GateNext]_gateVars, NEW i \in Ids, rows[i].status # "none"
  PROVE  SameWork(rows[i], rows'[i]) /\ rows'[i].status # "none"
<1> USE DEF GateShape, GateTypeOK
<1>1. SameWork(rows[i], rows[i]) /\ rows[i] \in ActionRow
  BY DEF SameWork
<1>2. ASSUME NEW j \in Ids, QueueStep(j)
      PROVE  SameWork(rows[i], rows'[i]) /\ rows'[i].status # "none"
  <2>1. CASE \E content \in Contents, gated \in Gating : Schedule(j, content, gated)
    BY <1>1, <2>1 DEF Schedule
  <2>2. CASE BecomesDue(j)
    BY <1>1, <2>2 DEF BecomesDue, SameWork, ActionRow
  <2>3. CASE CancelAction(j)
    <3>1. rows'[i] \in {rows[i], Cancelled(rows[i])}
      BY <2>3 DEF CancelAction
    <3> QED
      BY <1>1, <3>1, EndedRow, Attempts
  <2> QED
    BY <1>2, <2>1, <2>2, <2>3 DEF QueueStep
<1>3. ASSUME NEW j \in Ids, TaskStep(j)
      PROVE  SameWork(rows[i], rows'[i]) /\ rows'[i].status # "none"
  <2>1. \/ UNCHANGED rows
        \/ task[j].pc # "none" /\ \E row \in {TakenBack(rows[j]), MarkedDone(rows[j]),
             MarkedFailed(rows[j]), Retired(rows[j]), FailedOrRetry(rows[j])} : Ends(j, row)
    BY <1>3 DEF TaskStep, Dispatch, Defer, Propose, ProposeFails, Bind, GateMarks, TaskSends,
       TaskEnds, TaskLost, AtGate
  <2>2. task[j].pc # "none" => rows[j].status = "running"
    BY DEF WorkedRowsAreRunning
  <2>3. CASE j = i /\ task[i].pc # "none"
    <3>1. /\ SameWork(rows[i], TakenBack(rows[i])) /\ TakenBack(rows[i]).status # "none"
          /\ \A row \in {MarkedDone(rows[i]), MarkedFailed(rows[i]), Retired(rows[i]),
                         FailedOrRetry(rows[i])} : SameWork(rows[i], row) /\ row.status # "none"
      <4>1. rows[i].status = "running"
        BY <2>2, <2>3
      <4>2. SameWork(rows[i], TakenBack(rows[i])) /\ TakenBack(rows[i]).status # "none"
        BY <1>1, <4>1, TakenBackRow
      <4>3. \A row \in {MarkedDone(rows[i]), MarkedFailed(rows[i]), Retired(rows[i]),
                        FailedOrRetry(rows[i])} : SameWork(rows[i], row)
        BY <1>1, EndedRow, RetriedRow
      <4>4. \A row \in {MarkedDone(rows[i]), MarkedFailed(rows[i]), Retired(rows[i]),
                        FailedOrRetry(rows[i])} : row.status # "none"
        BY <1>1, <4>1, Attempts
      <4> QED
        BY <4>2, <4>3, <4>4
    <3> QED
      BY <1>1, <2>1, <2>3, <3>1 DEF Ends
  <2>4. CASE j # i \/ task[i].pc = "none"
    BY <1>1, <2>1, <2>4 DEF Ends
  <2> QED
    BY <2>3, <2>4
<1>4. ASSUME NEW c \in Cards, ApproveStep(c) \/ CardStep(c) PROVE rows'[i] = rows[i]
  <2>1. UNCHANGED rows \/ \E j \in Ids : ApproveQueues(c, j)
    BY <1>4 DEF ApproveStep, ApproveClaims, ApproveQueued, ApproveFails, ApproveChats, ChatEnds,
       CardStep, Click, Reopen, Expire, ReviewReads, ReviewActs, SetStatus
  <2> QED
    BY <2>1 DEF ApproveQueues
<1>5. CASE ClaimDue
  BY <1>1, <1>5, TakenRow DEF ClaimDue
<1>6. CASE Restart
  <2>1. rows'[i] \in {rows[i], Orphaned(rows[i])}
    BY <1>6 DEF Restart
  <2>2. SameWork(rows[i], Orphaned(rows[i])) /\ Orphaned(rows[i]).status # "none"
    BY <1>1, EndedRow DEF Orphaned, ActionRow
  <2> QED
    BY <1>1, <2>1, <2>2
<1>7. CASE SetHolding \/ UNCHANGED gateVars
  BY <1>1, <1>7 DEF SetHolding, gateVars
<1> QED
  BY <1>1, <1>2, <1>3, <1>4, <1>5, <1>6, <1>7 DEF GateNext


\* What a step may make of card c: once filed it stays filed, once approved
\* approved; a proposal keeps its text or loses it to the review; an
\* escalation says its key.
Becomes(c, next) ==
  /\ cards[c].status # "none" => next.status # "none"
  /\ cards[c].approval # "none" => next.approval # "none"
  /\ next.approval # "none" => next.status # "none"
  /\ c.kind = "propose" /\ cards[c].status # "none" => next.content \in {cards[c].content, NoContent}
  /\ c.kind = "escalate" => next.content \in {c.key, NoContent}

KeepsHold(c, next) == next.holds \in {cards[c].holds, NoId}

LEMMA BecomesFiled ==
  ASSUME GateShape, EscalationsSayTheirKey, ApprovedCardsAreFiled, NEW i \in Ids,
         rows[i].content \in Contents,
         NEW kind \in Levels \intersect {"propose", "escalate", "unrouted"}, FilesCard(i, kind),
         NEW c \in Cards
  PROVE  Becomes(c, cards'[c]) /\ KeepsHold(c, cards'[c])
<1> USE DEF GateShape, GateTypeOK
<1> DEFINE own == OwnCard(i, kind)
<1>1. own \in Cards
  BY OwnCardType
<1>2. own.kind = kind /\ own.key = KeyOf(i, kind)
  BY DEF OwnCard
<1>3. Becomes(c, cards[c]) /\ KeepsHold(c, cards[c])
  BY DEF Becomes, KeepsHold, EscalationsSayTheirKey, ApprovedCardsAreFiled
<1>4. CASE Inserts(i, kind)
  <2> DEFINE filled == [EmptyCard EXCEPT !.status = "unread", !.content = rows[i].content]
  <2>1. filled.status = "unread" /\ filled.content = rows[i].content /\ filled.holds = NoId
        /\ filled.approval = "none"
    BY DEF EmptyCard
  <2>2. CASE cards[own].status = "none"
    <3>1. cards' = [cards EXCEPT ![own] = filled]
      BY <1>4, <2>2 DEF Inserts
    <3>2. CASE c = own
      <4>1. cards'[c] = filled /\ cards[c].approval = "none"
        BY <1>1, <2>2, <3>1, <3>2 DEF ApprovedCardsAreFiled
      <4>2. c.kind = "escalate" => filled.content = c.key
        BY <1>2, <2>1, <3>2 DEF KeyOf
      <4> HIDE DEF filled, own
      <4> QED
        BY <2>1, <2>2, <3>2, <4>1, <4>2 DEF Becomes, KeepsHold
    <3>3. CASE c # own
      BY <1>3, <3>1, <3>3
    <3> QED
      BY <3>2, <3>3
  <2>3. CASE cards[own].status # "none"
    BY <1>3, <1>4, <2>3 DEF Inserts
  <2> QED
    BY <2>2, <2>3
<1>5. CASE kind # "propose" /\ Refreshes(i, kind, OpenWith(kind, KeyOf(i, kind)))
  <2>1. PICK d \in OpenWith(kind, KeyOf(i, kind)) : cards' = [cards EXCEPT ![d].content = rows[i].content]
    BY <1>5 DEF Refreshes
  <2>2. CASE c = d
    <3>1. c.kind = kind /\ c.key = KeyOf(i, kind)
      BY <2>1, <2>2 DEF OpenWith
    <3>2. cards'[c] = [cards[c] EXCEPT !.content = rows[i].content]
      BY <2>1, <2>2
    <3>3. /\ cards'[c].status = cards[c].status /\ cards'[c].approval = cards[c].approval
          /\ cards'[c].holds = cards[c].holds /\ cards'[c].content = rows[i].content
      BY <3>2 DEF Card
    <3>4. c.kind = "escalate" => rows[i].content = c.key
      BY <3>1 DEF KeyOf
    <3> QED
      BY <1>3, <1>5, <3>1, <3>3, <3>4 DEF Becomes, KeepsHold
  <2>3. CASE c # d
    BY <1>3, <2>1, <2>3
  <2> QED
    BY <2>2, <2>3
<1> QED
  BY <1>4, <1>5 DEF FilesCard

LEMMA BecomesByTask ==
  ASSUME GateShape, EscalationsSayTheirKey, ApprovedCardsAreFiled, NEW i \in Ids, TaskStep(i),
         NEW c \in Cards
  PROVE  /\ Becomes(c, cards'[c])
         /\ KeepsHold(c, cards'[c])
              \/ (Bind(i) /\ c = task[i].card /\ c # NoCard /\ cards'[c].holds = i)
<1> USE DEF GateShape, GateTypeOK
<1>1. Becomes(c, cards[c]) /\ KeepsHold(c, cards[c])
  BY DEF Becomes, KeepsHold, EscalationsSayTheirKey, ApprovedCardsAreFiled
<1>2. UNCHANGED cards \/ Propose(i) \/ Bind(i)
  BY DEF TaskStep, Dispatch, Defer, ProposeFails, GateMarks, TaskSends, TaskEnds, TaskLost
<1>3. CASE Propose(i)
  <2>1. rows[i].content \in Contents
    BY <1>3 DEF Propose, AtGate, WorkedRowsAreRunning, RowsSaySomething
  <2> QED
    BY <1>3, <2>1, BecomesFiled DEF Propose
<1>4. CASE Bind(i)
  <2>1. CASE task[i].card # NoCard /\ cards' = [cards EXCEPT ![task[i].card].holds = i]
    <3>1. CASE c = task[i].card
      <4>1. cards'[c] = [cards[c] EXCEPT !.holds = i]
        BY <2>1, <3>1
      <4>2. /\ cards'[c].status = cards[c].status /\ cards'[c].approval = cards[c].approval
            /\ cards'[c].holds = i /\ cards'[c].content = cards[c].content
        BY <4>1 DEF Card
      <4> QED
        BY <1>1, <1>4, <2>1, <3>1, <4>2 DEF Becomes
    <3>2. CASE c # task[i].card
      BY <1>1, <2>1, <3>2
    <3> QED
      BY <3>1, <3>2
  <2>2. CASE UNCHANGED cards
    BY <1>1, <2>2
  <2> QED
    BY <1>4, <2>1, <2>2 DEF Bind
<1> QED
  BY <1>1, <1>2, <1>3, <1>4

\* The approvals, the clicks and the reviews of card d.
LEMMA BecomesByPeople ==
  ASSUME GateShape, EscalationsSayTheirKey, ApprovedCardsAreFiled, NEW d \in Cards,
         ApproveStep(d) \/ CardStep(d), NEW c \in Cards
  PROVE  Becomes(c, cards'[c]) /\ KeepsHold(c, cards'[c])
<1> USE DEF GateShape, GateTypeOK
<1>1. Becomes(c, cards[c]) /\ KeepsHold(c, cards[c])
  BY DEF Becomes, KeepsHold, EscalationsSayTheirKey, ApprovedCardsAreFiled
<1>2. ASSUME NEW outcome \in {"done", "failed", "running"}, Answered(d, outcome),
             handler[d] # "idle"
      PROVE  Becomes(c, cards'[c]) /\ KeepsHold(c, cards'[c])
  <2>1. cards[d].status # "none"
    BY <1>2 DEF ApprovedCardsAreFiled
  <2>2. cards'[d] = [cards[d] EXCEPT !.approval = outcome] /\ (c # d => cards'[c] = cards[c])
    BY <1>2 DEF Answered
  <2>3. /\ cards'[d].status = cards[d].status /\ cards'[d].approval = outcome
        /\ cards'[d].holds = cards[d].holds /\ cards'[d].content = cards[d].content
    BY <2>2 DEF Card
  <2> QED
    BY <1>1, <2>1, <2>2, <2>3 DEF Becomes, KeepsHold
<1>3. ASSUME NEW status \in CardStatuses \ {"none"}, SetStatus(d, status)
      PROVE  Becomes(c, cards'[c]) /\ KeepsHold(c, cards'[c])
  <2>1. cards'[d] = [cards[d] EXCEPT !.status = status] /\ (c # d => cards'[c] = cards[c])
    BY <1>3 DEF SetStatus
  <2>2. /\ cards'[d].status = status /\ cards'[d].approval = cards[d].approval
        /\ cards'[d].holds = cards[d].holds /\ cards'[d].content = cards[d].content
    BY <2>1 DEF Card
  <2> QED
    BY <1>1, <1>3, <2>1, <2>2 DEF Becomes, KeepsHold
<1>4. ASSUME NEW edited \in Edits, ApproveClaims(d, edited)
      PROVE  Becomes(c, cards'[c]) /\ KeepsHold(c, cards'[c])
  <2>1. cards'[d] = [[cards[d] EXCEPT !.status = "ack"] EXCEPT !.approval = "running"]
        /\ (c # d => cards'[c] = cards[c])
    BY <1>4 DEF ApproveClaims
  <2>2. /\ cards'[d].status = "ack" /\ cards'[d].approval = "running"
        /\ cards'[d].holds = cards[d].holds /\ cards'[d].content = cards[d].content
    BY <2>1 DEF Card
  <2> QED
    BY <1>1, <2>1, <2>2 DEF Becomes, KeepsHold
<1>5. CASE ReviewActs(d)
  <2>1. \A v \in Verdicts \ {"changed"} : v # "none"
    BY GateAssumption
  <2>2. \/ cards' = cards
        \/ \E v \in Verdicts \ {"changed"} : cards' = [cards EXCEPT ![d].status = v]
        \/ cards' = [cards EXCEPT ![d].content = NoContent]
    BY <1>5 DEF ReviewActs
  <2>3. CASE cards' = cards
    BY <1>1, <2>3
  <2>4. ASSUME NEW v \in Verdicts \ {"changed"}, cards' = [cards EXCEPT ![d].status = v]
        PROVE  Becomes(c, cards'[c]) /\ KeepsHold(c, cards'[c])
    <3>1. cards'[d] = [cards[d] EXCEPT !.status = v] /\ (c # d => cards'[c] = cards[c])
      BY <2>4
    <3>2. /\ cards'[d].status = v /\ cards'[d].approval = cards[d].approval
          /\ cards'[d].holds = cards[d].holds /\ cards'[d].content = cards[d].content
      BY <3>1 DEF Card
    <3> QED
      BY <1>1, <2>1, <3>1, <3>2 DEF Becomes, KeepsHold
  <2>5. CASE cards' = [cards EXCEPT ![d].content = NoContent]
    <3>1. cards'[d] = [cards[d] EXCEPT !.content = NoContent] /\ (c # d => cards'[c] = cards[c])
      BY <2>5
    <3>2. /\ cards'[d].status = cards[d].status /\ cards'[d].approval = cards[d].approval
          /\ cards'[d].holds = cards[d].holds /\ cards'[d].content = NoContent
      BY <3>1 DEF Card
    <3> QED
      BY <1>1, <3>1, <3>2 DEF Becomes, KeepsHold
  <2> QED
    BY <2>2, <2>3, <2>4, <2>5
<1>6. CASE ApproveStep(d)
  <2>1. \/ \E edited \in Edits : ApproveClaims(d, edited)
        \/ UNCHANGED cards
        \/ handler[d] # "idle" /\ \E outcome \in {"done", "failed", "running"} : Answered(d, outcome)
    BY <1>6 DEF ApproveStep, ApproveQueues, ApproveQueued, ApproveFails, ApproveChats, ChatEnds
  <2> QED
    BY <1>1, <1>2, <1>4, <2>1
<1>7. CASE CardStep(d)
  <2>1. \A status \in Clicks : status \in CardStatuses \ {"none"}
    BY GateAssumption DEF CardStatuses
  <2>2. \/ \E status \in CardStatuses \ {"none"} : SetStatus(d, status)
        \/ UNCHANGED cards
        \/ ReviewActs(d)
    BY <1>7, <2>1 DEF CardStep, Click, Reopen, Expire, ReviewReads, CardStatuses
  <2> QED
    BY <1>1, <1>3, <1>5, <2>2
<1> QED
  BY <1>6, <1>7

LEMMA BecomesStep ==
  ASSUME GateShape, EscalationsSayTheirKey, ApprovedCardsAreFiled, [GateNext]_gateVars,
         NEW c \in Cards
  PROVE  /\ Becomes(c, cards'[c])
         /\ KeepsHold(c, cards'[c])
              \/ \E i \in Ids : Bind(i) /\ c = task[i].card /\ c # NoCard /\ cards'[c].holds = i
<1> USE DEF GateShape, GateTypeOK
<1>1. Becomes(c, cards[c]) /\ KeepsHold(c, cards[c])
  BY DEF Becomes, KeepsHold, EscalationsSayTheirKey, ApprovedCardsAreFiled
<1>2. CASE Restart
  <2>1. cards'[c] = Interrupted(cards[c])
    BY <1>2 DEF Restart
  <2>2. /\ cards'[c].status = cards[c].status /\ cards'[c].holds = cards[c].holds
        /\ cards'[c].content = cards[c].content
        /\ cards'[c].approval # "none" <=> cards[c].approval # "none"
    BY <2>1 DEF Interrupted, Card
  <2> QED
    BY <1>1, <2>2 DEF Becomes, KeepsHold
<1>3. CASE UNCHANGED cards
  BY <1>1, <1>3
<1>4. \/ UNCHANGED cards \/ Restart
      \/ \E i \in Ids : TaskStep(i)
      \/ \E d \in Cards : ApproveStep(d) \/ CardStep(d)
  BY DEF GateNext, QueueStep, Schedule, BecomesDue, CancelAction, ClaimDue, SetHolding, gateVars
<1> QED
  BY <1>2, <1>3, <1>4, BecomesByTask, BecomesByPeople


LEMMA StandsForKept ==
  ASSUME NEW c \in Cards, NEW content, StandsFor(c, cards[c], content), Becomes(c, cards'[c])
  PROVE  StandsFor(c, cards'[c], content)
BY DEF StandsFor, Becomes

\* Who starts handling a card has approved it.
LEMMA HandlersApprove ==
  ASSUME GateShape, ApprovedCardsAreFiled, [GateNext]_gateVars, NEW c \in Cards,
         handler'[c] # "idle", Becomes(c, cards'[c])
  PROVE  cards'[c].approval # "none"
<1> USE DEF GateShape, GateTypeOK
<1>1. CASE handler[c] # "idle"
  BY <1>1 DEF ApprovedCardsAreFiled, Becomes
<1>2. CASE \E edited \in Edits : ApproveClaims(c, edited)
  <2>1. cards'[c] = [[cards[c] EXCEPT !.status = "ack"] EXCEPT !.approval = "running"]
    BY <1>2 DEF ApproveClaims
  <2> QED
    BY <2>1 DEF Card
<1>3. handler[c] # "idle" \/ \E edited \in Edits : ApproveClaims(c, edited)
  <2>1. ASSUME NEW d \in Cards, ApproveStep(d)
        PROVE  handler[c] # "idle" \/ \E edited \in Edits : ApproveClaims(c, edited)
    BY <2>1 DEF ApproveStep, ApproveClaims, ApproveQueues, ApproveQueued, ApproveFails,
       ApproveChats, ChatEnds, Answered
  <2>2. ASSUME NEW d \in Cards, CardStep(d) PROVE UNCHANGED handler
    BY <2>2 DEF CardStep, Click, Reopen, Expire, ReviewReads, ReviewActs, SetStatus
  <2>3. ASSUME NEW i \in Ids, QueueStep(i) \/ TaskStep(i) PROVE UNCHANGED handler
    BY <2>3 DEF QueueStep, Schedule, BecomesDue, CancelAction, TaskStep, Dispatch, Defer, Propose,
       ProposeFails, Bind, GateMarks, TaskSends, TaskEnds, TaskLost
  <2>4. CASE ClaimDue \/ SetHolding \/ UNCHANGED gateVars
    BY <2>4 DEF ClaimDue, SetHolding, gateVars
  <2>5. CASE Restart
    BY <2>5 DEF Restart
  <2> QED
    BY <2>1, <2>2, <2>3, <2>4, <2>5 DEF GateNext
<1> QED
  BY <1>1, <1>2, <1>3

\* A row comes into the table by being scheduled or by an approval.
LEMMA RowAppears ==
  ASSUME GateShape, [GateNext]_gateVars, NEW i \in Ids, rows[i].status = "none"
  PROVE  \/ rows'[i] = rows[i]
         \/ rows'[i].via = NoCard
         \/ \E c \in Cards : ApproveQueues(c, i)
<1> USE DEF GateShape, GateTypeOK
<1>1. ASSUME NEW j \in Ids, QueueStep(j)
      PROVE  rows'[i] = rows[i] \/ rows'[i].via = NoCard
  <2>1. CASE \E content \in Contents, gated \in Gating : Schedule(j, content, gated)
    BY <2>1 DEF Schedule, NoAction
  <2>2. CASE BecomesDue(j)
    BY <2>2 DEF BecomesDue
  <2>3. CASE CancelAction(j)
    BY <2>3, QueueGuards DEF CancelAction
  <2> QED
    BY <1>1, <2>1, <2>2, <2>3 DEF QueueStep
<1>2. ASSUME NEW j \in Ids, TaskStep(j) PROVE rows'[i] = rows[i]
  <2>1. UNCHANGED rows \/ (task[j].pc # "none" /\ \E row : Ends(j, row))
    BY <1>2 DEF TaskStep, Dispatch, Defer, Propose, ProposeFails, Bind, GateMarks, TaskSends,
       TaskEnds, TaskLost, AtGate
  <2> QED
    BY <2>1 DEF Ends, WorkedRowsAreRunning
<1>3. ASSUME NEW c \in Cards, ApproveStep(c) \/ CardStep(c)
      PROVE  rows'[i] = rows[i] \/ ApproveQueues(c, i)
  <2>1. UNCHANGED rows \/ \E j \in Ids : ApproveQueues(c, j)
    BY <1>3 DEF ApproveStep, ApproveClaims, ApproveQueued, ApproveFails, ApproveChats, ChatEnds,
       CardStep, Click, Reopen, Expire, ReviewReads, ReviewActs, SetStatus
  <2>2. ASSUME NEW j \in Ids \ {i}, ApproveQueues(c, j) PROVE rows'[i] = rows[i]
    BY <2>2 DEF ApproveQueues
  <2> QED
    BY <2>1, <2>2
<1>4. CASE ClaimDue
  BY <1>4, QueueGuards DEF ClaimDue
<1>5. CASE Restart
  BY <1>5, QueueGuards DEF Restart
<1>6. CASE SetHolding \/ UNCHANGED gateVars
  BY <1>6 DEF SetHolding, gateVars
<1> QED
  BY <1>1, <1>2, <1>3, <1>4, <1>5, <1>6 DEF GateNext

\* A task gets to "filed" by filing, and its card is the one it filed.
LEMMA TaskFiles ==
  ASSUME GateShape, [GateNext]_gateVars, NEW i \in Ids, task'[i].pc = "filed",
         task'[i].card # NoCard
  PROVE  \/ task'[i] = task[i]
         \/ \E kind \in {"propose", "escalate"} :
              /\ rows' = rows /\ task'[i].card = OwnCard(i, kind) /\ OwnCard(i, kind) \in Cards
              /\ cards'[OwnCard(i, kind)].status = "unread"
              /\ cards'[OwnCard(i, kind)].content = rows[i].content
<1> USE DEF GateShape, GateTypeOK
<1>1. ASSUME NEW j \in Ids, TaskStep(j), j # i PROVE task'[i] = task[i]
  BY <1>1 DEF TaskStep, Dispatch, Defer, Propose, ProposeFails, Bind, GateMarks,
     TaskSends, TaskEnds, TaskLost, Ends, FilesCard, Inserts, Refreshes, FiledBy
<1>2. CASE TaskStep(i) /\ ~Propose(i)
  <2>1. task'[i].pc # "filed" \/ task'[i].card = NoCard
    BY <1>2 DEF TaskStep, Dispatch, Defer, ProposeFails, Bind, GateMarks, TaskSends, TaskEnds,
       TaskLost, Ends, FiledBy, NoTask, AtGate, Task
  <2> QED
    BY <2>1
<1>3. CASE Propose(i)
  <2>1. PICK kind \in Levels \intersect {"propose", "escalate", "unrouted"} : FilesCard(i, kind)
    BY <1>3 DEF Propose
  <2>2. rows' = rows /\ rows[i].content \in Contents
    BY <1>3 DEF Propose, AtGate, WorkedRowsAreRunning, RowsSaySomething
  <2>3. Inserts(i, kind) /\ cards[OwnCard(i, kind)].status = "none"
    BY <2>1 DEF FilesCard, Inserts, Refreshes, FiledBy
  <2> DEFINE own == OwnCard(i, kind)
             filled == [EmptyCard EXCEPT !.status = "unread", !.content = rows[i].content]
  <2>4. own \in Cards
    BY <2>2, OwnCardType
  <2>5. cards' = [cards EXCEPT ![own] = filled] /\ FiledBy(i, kind, own)
    BY <2>3 DEF Inserts
  <2>6. task'[i].card = own /\ kind # "unrouted"
    BY <2>5 DEF FiledBy
  <2>7. filled.status = "unread" /\ filled.content = rows[i].content
    BY DEF EmptyCard
  <2>8. cards'[own] = filled
    BY <2>4, <2>5
  <2> HIDE DEF filled
  <2> QED
    BY <2>2, <2>4, <2>6, <2>7, <2>8
<1>4. ASSUME NEW c \in Cards, ApproveStep(c) \/ CardStep(c) PROVE task' = task
  BY <1>4 DEF ApproveStep, ApproveClaims, ApproveQueues, ApproveQueued, ApproveFails,
     ApproveChats, ChatEnds, CardStep, Click, Reopen, Expire, ReviewReads, ReviewActs, SetStatus
<1>5. ASSUME NEW j \in Ids, QueueStep(j) PROVE task' = task
  BY <1>5 DEF QueueStep, Schedule, BecomesDue, CancelAction
<1>6. CASE ClaimDue
  BY <1>6 DEF ClaimDue, NoTask
<1>7. CASE Restart
  BY <1>7 DEF Restart, NoTask
<1>8. CASE SetHolding \/ UNCHANGED gateVars
  BY <1>8 DEF SetHolding, gateVars
<1> QED
  BY <1>1, <1>2, <1>3, <1>4, <1>5, <1>6, <1>7, <1>8 DEF GateNext


\* A task gets to sending through Dispatch, which the gate allows.
LEMMA SendingIsDispatched ==
  ASSUME GateShape, [GateNext]_gateVars, NEW i \in Ids,
         sent'[i] > 0 \/ task'[i].pc \in {"working", "sent"}
  PROVE  sent[i] > 0 \/ task[i].pc \in {"working", "sent"} \/ Dispatch(i)
<1> USE DEF GateShape, GateTypeOK
<1>1. ASSUME NEW j \in Ids, TaskStep(j), j # i PROVE task'[i] = task[i] /\ sent'[i] = sent[i]
  BY <1>1 DEF TaskStep, Dispatch, Defer, Propose, ProposeFails, Bind, GateMarks,
     TaskSends, TaskEnds, TaskLost, Ends, FilesCard, Inserts, Refreshes, FiledBy
<1>2. ASSUME TaskStep(i)
      PROVE  sent[i] > 0 \/ task[i].pc \in {"working", "sent"} \/ Dispatch(i)
  <2>1. CASE TaskSends(i)
    BY <2>1 DEF TaskSends
  <2>2. CASE Propose(i)
    <3>1. sent'[i] = sent[i]
      BY <2>2 DEF Propose
    <3>2. task'[i].pc \in {"filed", "unplaced"}
      BY <2>2 DEF Propose, FilesCard, Inserts, Refreshes, FiledBy
    <3> QED
      BY <3>1, <3>2
  <2>3. CASE Defer(i) \/ ProposeFails(i) \/ Bind(i) \/ GateMarks(i) \/ TaskEnds(i) \/ TaskLost(i)
    <3>1. sent'[i] = sent[i]
      BY <2>3 DEF Defer, ProposeFails, Bind, GateMarks, TaskEnds, TaskLost
    <3>2. task'[i].pc \in {"none", "filed", "unplaced", "bound"}
      BY <2>3 DEF Defer, ProposeFails, Bind, GateMarks, TaskEnds, TaskLost, Ends, FiledBy,
         NoTask, Task
    <3> QED
      BY <3>1, <3>2
  <2> QED
    BY <1>2, <2>1, <2>2, <2>3 DEF TaskStep
<1>3. ASSUME NEW c \in Cards, ApproveStep(c) \/ CardStep(c) PROVE task' = task /\ sent' = sent
  BY <1>3 DEF ApproveStep, ApproveClaims, ApproveQueues, ApproveQueued, ApproveFails,
     ApproveChats, ChatEnds, CardStep, Click, Reopen, Expire, ReviewReads, ReviewActs, SetStatus
<1>4. ASSUME NEW j \in Ids, QueueStep(j) PROVE task' = task /\ sent' = sent
  BY <1>4 DEF QueueStep, Schedule, BecomesDue, CancelAction
<1>5. CASE ClaimDue
  <2>1. sent' = sent /\ (task'[i] = task[i] \/ task'[i].pc = "claimed")
    BY <1>5 DEF ClaimDue, NoTask
  <2> QED
    BY <2>1
<1>6. CASE Restart
  BY <1>6 DEF Restart, NoTask
<1>7. CASE SetHolding \/ UNCHANGED gateVars
  BY <1>7 DEF SetHolding, gateVars
<1> QED
  BY <1>1, <1>2, <1>3, <1>4, <1>5, <1>6, <1>7 DEF GateNext

LEMMA CardsSpeakInit == GateInit => CardsSpeak
<1>1. NoAction.via = NoCard /\ NoTask.pc = "none"
  BY DEF NoAction, NoTask
<1>2. EmptyCard.content = NoContent /\ EmptyCard.holds = NoId /\ EmptyCard.approval = "none"
  BY DEF EmptyCard
<1> QED
  BY <1>1, <1>2 DEF GateInit, CardsSpeak, EscalationsSayTheirKey, ApprovedCardsAreFiled,
     HeldRows, FiledTasks, CopiesAreApproved, GateHolds

LEMMA CardsSpeakStep ==
  ASSUME GateShape, RetriesCounted, CardsSpeak, [GateNext]_gateVars
  PROVE  CardsSpeak'
<1> USE DEF GateShape, GateTypeOK, CardsSpeak
<1>1. GateShape'
  BY GateShapeStep
<1>2. \A c \in Cards :
        /\ Becomes(c, cards'[c])
        /\ KeepsHold(c, cards'[c])
             \/ \E i \in Ids : Bind(i) /\ c = task[i].card /\ c # NoCard /\ cards'[c].holds = i
  BY BecomesStep
<1>3. \A c \in Cards : \A content : StandsFor(c, cards[c], content) => StandsFor(c, cards'[c], content)
  BY <1>2, StandsForKept
<1>4. \A i \in Ids : rows[i].status # "none" =>
        SameWork(rows[i], rows'[i]) /\ rows'[i].status # "none"
  BY WorkKept
<1>5. EscalationsSayTheirKey'
  BY <1>2 DEF EscalationsSayTheirKey, Becomes
<1>6. ApprovedCardsAreFiled'
  BY <1>2, HandlersApprove DEF ApprovedCardsAreFiled, Becomes
<1>7. HeldRows'
  <2> SUFFICES ASSUME NEW c \in Cards, cards'[c].holds # NoId
               PROVE  /\ rows'[cards'[c].holds].status # "none"
                      /\ StandsFor(c, cards'[c], rows'[cards'[c].holds].content)
    BY DEF HeldRows
  <2>1. CASE KeepsHold(c, cards'[c])
    <3>1. cards'[c].holds = cards[c].holds /\ cards[c].holds \in Ids
      BY <2>1 DEF KeepsHold, Card
    <3>2. rows[cards[c].holds].status # "none" /\ StandsFor(c, cards[c], rows[cards[c].holds].content)
      BY <3>1 DEF HeldRows
    <3>3. /\ rows'[cards[c].holds].content = rows[cards[c].holds].content
          /\ rows'[cards[c].holds].status # "none"
      BY <1>4, <3>1, <3>2 DEF SameWork
    <3> QED
      BY <1>3, <3>1, <3>2, <3>3
  <2>2. ASSUME NEW i \in Ids, Bind(i), c = task[i].card, c # NoCard, cards'[c].holds = i
        PROVE  rows'[i].status # "none" /\ StandsFor(c, cards'[c], rows'[i].content)
    <3>1. task[i].pc = "filed" /\ rows' = rows
      BY <2>2 DEF Bind
    <3>2. rows[i].status = "running" /\ StandsFor(c, cards[c], rows[i].content)
      BY <2>2, <3>1 DEF FiledTasks, WorkedRowsAreRunning
    <3> QED
      BY <1>3, <3>1, <3>2
  <2> QED
    BY <1>2, <2>1, <2>2
<1>8. FiledTasks'
  <2> SUFFICES ASSUME NEW i \in Ids, task'[i].pc = "filed", task'[i].card # NoCard
               PROVE  StandsFor(task'[i].card, cards'[task'[i].card], rows'[i].content)
    BY DEF FiledTasks
  <2>1. CASE task'[i] = task[i]
    <3>1. StandsFor(task[i].card, cards[task[i].card], rows[i].content) /\ rows[i].status = "running"
      BY <2>1 DEF FiledTasks, WorkedRowsAreRunning
    <3>2. rows'[i].content = rows[i].content /\ task[i].card \in Cards
      BY <1>4, <2>1, <3>1 DEF SameWork, Task
    <3> QED
      BY <1>3, <2>1, <3>1, <3>2
  <2>2. ASSUME NEW kind \in {"propose", "escalate"}, rows' = rows,
               task'[i].card = OwnCard(i, kind), OwnCard(i, kind) \in Cards,
               cards'[OwnCard(i, kind)].status = "unread",
               cards'[OwnCard(i, kind)].content = rows[i].content
        PROVE  StandsFor(task'[i].card, cards'[task'[i].card], rows'[i].content)
    <3> DEFINE own == OwnCard(i, kind)
    <3>1. own.kind = kind /\ (kind = "escalate" => own.key = rows[i].content)
      BY DEF OwnCard, KeyOf
    <3> HIDE DEF own
    <3>2. StandsFor(own, cards'[own], rows[i].content)
      BY <2>2, <3>1 DEF StandsFor, own
    <3> QED
      BY <2>2, <3>2 DEF own
  <2> QED
    BY <2>1, <2>2, TaskFiles
<1>9. CopiesAreApproved'
  <2> SUFFICES ASSUME NEW i \in Ids, rows'[i].via # NoCard
               PROVE  /\ ~rows'[i].gated /\ cards'[rows'[i].via].approval # "none"
                      /\ StandsFor(rows'[i].via, cards'[rows'[i].via], rows'[i].content)
    BY DEF CopiesAreApproved
  <2>1. CASE SameWork(rows[i], rows'[i])
    <3>1. /\ ~rows[i].gated /\ cards[rows[i].via].approval # "none"
          /\ StandsFor(rows[i].via, cards[rows[i].via], rows[i].content) /\ rows[i].via \in Cards
      BY <2>1 DEF CopiesAreApproved, SameWork, ActionRow
    <3> QED
      BY <1>2, <1>3, <2>1, <3>1 DEF SameWork, Becomes
  <2>2. ASSUME NEW c \in Cards, ApproveQueues(c, i)
        PROVE  /\ ~rows'[i].gated /\ cards'[rows'[i].via].approval # "none"
               /\ StandsFor(rows'[i].via, cards'[rows'[i].via], rows'[i].content)
    <3> DEFINE held == rows[cards[c].holds]
    <3>1. handler[c] # "idle" /\ cards[c].holds # NoId /\ rows'[i] = Copy(held, c)
      BY <2>2 DEF ApproveQueues, HoldsDone
    <3>2. cards[c].approval # "none" /\ StandsFor(c, cards[c], held.content)
      BY <3>1 DEF ApprovedCardsAreFiled, HeldRows
    <3>3. rows'[i].via = c /\ rows'[i].content = held.content /\ ~rows'[i].gated
      BY <3>1 DEF Copy, NoAction
    <3> QED
      BY <1>2, <1>3, <3>2, <3>3 DEF Becomes
  <2> QED
    BY <1>4, <2>1, <2>2, RowAppears DEF SameWork
<1>10. GateHolds'
  <2> SUFFICES ASSUME "execute" \notin Levels, NEW i \in Ids,
                      sent'[i] > 0 \/ task'[i].pc \in {"working", "sent"}
               PROVE  ~rows'[i].gated
    BY DEF GateHolds
  <2>1. sent[i] > 0 \/ task[i].pc \in {"working", "sent"} \/ Dispatch(i)
    BY SendingIsDispatched
  <2>2. rows[i].status # "none" /\ ~rows[i].gated
    <3>1. CASE sent[i] > 0
      BY <3>1 DEF GateHolds, RetriesCounted, Tries
    <3>2. CASE task[i].pc \in {"working", "sent"}
      BY <3>2 DEF GateHolds, WorkedRowsAreRunning
    <3>3. CASE Dispatch(i)
      BY <3>3 DEF Dispatch, AtGate, WorkedRowsAreRunning
    <3> QED
      BY <2>1, <3>1, <3>2, <3>3
  <2> QED
    BY <1>4, <2>2 DEF SameWork
<1> QED
  BY <1>5, <1>6, <1>7, <1>8, <1>9, <1>10

\* Where no department executes on its own, an action of a department never
\* goes out before a person approved its card, and then with that card's
\* text, unless the review has rewritten the card.
THEOREM NothingUnapproved == GateSpec => []NothingUnapprovedGoesOut
<1>1. GateShape /\ CardsSpeak => NothingUnapprovedGoesOut
  <2> SUFFICES ASSUME GateShape, CardsSpeak, "execute" \notin Levels, NEW i \in Ids, sent[i] > 0
               PROVE  IF rows[i].via = NoCard THEN ~rows[i].gated
                      ELSE /\ cards[rows[i].via].approval # "none"
                           /\ cards[rows[i].via].content \in {rows[i].content, NoContent}
    BY DEF NothingUnapprovedGoesOut
  <2>1. CASE rows[i].via = NoCard
    BY <2>1 DEF CardsSpeak, GateHolds
  <2>2. CASE rows[i].via # NoCard
    <3>1. rows[i].via \in Cards
      BY <2>2 DEF GateShape, GateTypeOK, ActionRow
    <3>2. cards[rows[i].via].approval # "none" /\ StandsFor(rows[i].via, cards[rows[i].via], rows[i].content)
      BY <2>2 DEF CardsSpeak, CopiesAreApproved
    <3> QED
      BY <2>2, <3>1, <3>2 DEF StandsFor, CardsSpeak, EscalationsSayTheirKey
  <2> QED
    BY <2>1, <2>2
<1>2. GateShape /\ RetriesCounted /\ [GateNext]_gateVars => RetriesCounted'
  BY TriesStep DEF RetriesCounted
<1> QED
  BY <1>1, <1>2, TriesInit, CardsSpeakInit, CardsSpeakStep, ShapeAlways, PTL DEF GateSpec


-----------------------------------------------------------------------------
(* An approval is carried out once *)

Copies(c) == {i \in Ids : rows[i].via = c}

\* Whether card c has had its action queued, as far as its approval tells.
HasQueued(c) == cards[c].approval = "done" \/ handler[c] = "queued"

CopiesCounted ==
  \A c \in Cards :
    /\ IsFiniteSet(Copies(c))
    /\ Cardinality(Copies(c)) <= crashes + (IF HasQueued(c) THEN 1 ELSE 0)
    /\ handler[c] # "idle" => cards[c].approval = "running"

\* The gate leaves approvals alone.
LEMMA ApprovalsByTask ==
  ASSUME GateShape, ApprovedCardsAreFiled, NEW i \in Ids, TaskStep(i), NEW c \in Cards
  PROVE  cards'[c].approval = cards[c].approval /\ UNCHANGED <<handler, crashes>>
<1> USE DEF GateShape, GateTypeOK
<1>1. UNCHANGED <<handler, crashes>>
  BY DEF TaskStep, Dispatch, Defer, Propose, ProposeFails, Bind, GateMarks, TaskSends, TaskEnds,
     TaskLost
<1>2. CASE Propose(i)
  <2>1. PICK kind \in Levels \intersect {"propose", "escalate", "unrouted"} : FilesCard(i, kind)
    BY <1>2 DEF Propose
  <2>2. OwnCard(i, kind) \in Cards
    BY <1>2, OwnCardType DEF Propose, AtGate, WorkedRowsAreRunning, RowsSaySomething
  <2>3. CASE Inserts(i, kind) /\ cards[OwnCard(i, kind)].status = "none"
    <3> DEFINE filled == [EmptyCard EXCEPT !.status = "unread", !.content = rows[i].content]
    <3>1. filled.approval = "none" /\ cards[OwnCard(i, kind)].approval = "none"
      BY <2>2, <2>3 DEF EmptyCard, ApprovedCardsAreFiled
    <3>2. cards' = [cards EXCEPT ![OwnCard(i, kind)] = filled]
      BY <2>3 DEF Inserts
    <3> HIDE DEF filled
    <3> QED
      BY <1>1, <2>2, <3>1, <3>2
  <2>4. CASE UNCHANGED cards
    BY <1>1, <2>4
  <2>5. CASE \E d \in Cards : cards' = [cards EXCEPT ![d].content = rows[i].content]
    BY <1>1, <2>5 DEF Card
  <2> QED
    BY <2>1, <2>3, <2>4, <2>5 DEF FilesCard, Inserts, Refreshes, OpenWith
<1>3. CASE Bind(i)
  <2>1. CASE cards' = [cards EXCEPT ![task[i].card].holds = i]
    BY <1>1, <2>1 DEF Card
  <2> QED
    BY <1>1, <1>3, <2>1 DEF Bind
<1>4. UNCHANGED cards \/ Propose(i) \/ Bind(i)
  BY DEF TaskStep, Dispatch, Defer, ProposeFails, GateMarks, TaskSends, TaskEnds, TaskLost
<1> QED
  BY <1>1, <1>2, <1>3, <1>4

\* Without database errors an approval that has queued its action says so,
\* or is cut off by a restart.
LEMMA ApprovalsByStep ==
  ASSUME ~DbFaults, GateShape, ApprovedCardsAreFiled, [GateNext]_gateVars, NEW c \in Cards,
         handler[c] # "idle" => cards[c].approval = "running"
  PROVE  /\ (crashes' = crashes /\ (HasQueued(c) => HasQueued(c)')) \/ crashes' = crashes + 1
         /\ handler'[c] # "idle" => cards'[c].approval = "running"
<1> USE DEF GateShape, GateTypeOK
<1> DEFINE Goal == /\ (crashes' = crashes /\ (HasQueued(c) => HasQueued(c)')) \/ crashes' = crashes + 1
                   /\ handler'[c] # "idle" => cards'[c].approval = "running"
<1>1. ASSUME cards'[c].approval = cards[c].approval, handler'[c] = handler[c], crashes' = crashes
      PROVE  Goal
  BY <1>1 DEF HasQueued
<1>2. ASSUME NEW i \in Ids, TaskStep(i) PROVE Goal
  BY <1>1, <1>2, ApprovalsByTask
<1>3. ASSUME NEW i \in Ids, QueueStep(i) PROVE Goal
  BY <1>1, <1>3 DEF QueueStep, Schedule, BecomesDue, CancelAction
<1>4. ASSUME NEW d \in Cards, CardStep(d) PROVE Goal
  <2>1. UNCHANGED <<handler, crashes>>
    BY <1>4 DEF CardStep, Click, Reopen, Expire, ReviewReads, ReviewActs, SetStatus
  <2>2. \/ cards' = cards
        \/ \E v : cards' = [cards EXCEPT ![d].status = v]
        \/ cards' = [cards EXCEPT ![d].content = NoContent]
    BY <1>4 DEF CardStep, Click, Reopen, Expire, ReviewReads, ReviewActs, SetStatus
  <2>3. cards'[c].approval = cards[c].approval
    BY <2>2 DEF Card
  <2> QED
    BY <1>1, <2>1, <2>3
<1>5. ASSUME NEW d \in Cards, ApproveStep(d) PROVE Goal
  <2>1. crashes' = crashes
    BY <1>5 DEF ApproveStep, ApproveClaims, ApproveQueues, ApproveQueued, ApproveFails,
       ApproveChats, ChatEnds
  <2>2. CASE c # d
    <3>1. cards'[c] = cards[c] /\ handler'[c] = handler[c]
      BY <1>5, <2>2 DEF ApproveStep, ApproveClaims, ApproveQueues, ApproveQueued, ApproveFails,
         ApproveChats, ChatEnds, Answered
    <3> QED
      BY <1>1, <2>1, <3>1
  <2>3. ASSUME NEW outcome, Answered(c, outcome), handler[c] # "idle",
               handler[c] = "queued" => outcome = "done"
        PROVE  Goal
    <3>1. handler'[c] = "idle" /\ cards'[c] = [cards[c] EXCEPT !.approval = outcome]
      BY <2>3 DEF Answered
    <3>2. cards'[c].approval = outcome /\ cards[c].approval = "running"
      BY <2>3, <3>1 DEF Card
    <3> QED
      BY <2>1, <2>3, <3>1, <3>2 DEF HasQueued
  <2>4. CASE \E edited \in Edits : ApproveClaims(c, edited)
    <3>1. ~HasQueued(c) /\ cards'[c] = [[cards[c] EXCEPT !.status = "ack"] EXCEPT !.approval = "running"]
      BY <2>4 DEF ApproveClaims, Claimable, HasQueued
    <3>2. cards'[c].approval = "running"
      BY <3>1 DEF Card
    <3> QED
      BY <2>1, <3>1, <3>2
  <2>5. CASE \E i \in Ids : ApproveQueues(c, i)
    BY <2>1, <2>5 DEF ApproveQueues, HasQueued
  <2>6. CASE ApproveQueued(c)
    BY <2>3, <2>6 DEF ApproveQueued
  <2>7. CASE ApproveFails(c)
    BY <2>7 DEF ApproveFails
  <2>8. CASE ApproveChats(c)
    <3>1. CASE handler' = [handler EXCEPT ![c] = "chatting"] /\ UNCHANGED cards
      BY <2>1, <2>8, <3>1 DEF ApproveChats, HasQueued
    <3>2. CASE Answered(c, "failed")
      BY <2>3, <2>8, <3>2 DEF ApproveChats
    <3> QED
      BY <2>8, <3>1, <3>2 DEF ApproveChats
  <2>9. CASE ChatEnds(c)
    BY <2>3, <2>9 DEF ChatEnds
  <2> HIDE DEF Goal
  <2> QED
    BY <1>5, <2>2, <2>4, <2>5, <2>6, <2>7, <2>8, <2>9 DEF ApproveStep
<1>6. CASE Restart
  BY <1>6 DEF Restart
<1>7. CASE ClaimDue \/ SetHolding \/ UNCHANGED gateVars
  BY <1>1, <1>7 DEF ClaimDue, SetHolding, gateVars
<1> QED
  BY <1>2, <1>3, <1>4, <1>5, <1>6, <1>7 DEF GateNext

\* A step adds at most the row an approval queues.
LEMMA CopiesStep ==
  ASSUME GateShape, [GateNext]_gateVars, NEW c \in Cards
  PROVE  \/ Copies(c)' \subseteq Copies(c)
         \/ \E i \in Ids : ApproveQueues(c, i) /\ Copies(c)' \subseteq Copies(c) \union {i}
<1>1. c # NoCard
  BY GateNullAssumption
<1>2. \A i \in Ids : rows'[i].via = c =>
        rows[i].via = c \/ \E d \in Cards : ApproveQueues(d, i)
  BY <1>1, WorkKept, RowAppears DEF SameWork
<1>3. ASSUME NEW d \in Cards, NEW i \in Ids, ApproveQueues(d, i)
      PROVE  rows'[i].via = d /\ \A j \in Ids \ {i} : rows'[j] = rows[j]
  BY <1>3 DEF ApproveQueues, Copy, NoAction, GateShape, GateTypeOK
<1> QED
  BY <1>2, <1>3 DEF Copies

LEMMA CopiesCountedStep ==
  ASSUME ~DbFaults, GateShape, CardsSpeak, CopiesCounted, [GateNext]_gateVars
  PROVE  CopiesCounted'
<1> SUFFICES ASSUME NEW c \in Cards
             PROVE  /\ IsFiniteSet(Copies(c)')
                    /\ Cardinality(Copies(c)') <= crashes' + (IF HasQueued(c)' THEN 1 ELSE 0)
                    /\ handler'[c] # "idle" => cards'[c].approval = "running"
  BY DEF CopiesCounted
<1> DEFINE old == Copies(c)
           new == Copies(c)'
<1>1. /\ IsFiniteSet(old) /\ Cardinality(old) <= crashes + (IF HasQueued(c) THEN 1 ELSE 0)
      /\ handler[c] # "idle" => cards[c].approval = "running"
  BY DEF CopiesCounted
<1>2. /\ (crashes' = crashes /\ (HasQueued(c) => HasQueued(c)')) \/ crashes' = crashes + 1
      /\ handler'[c] # "idle" => cards'[c].approval = "running"
  BY <1>1, ApprovalsByStep DEF CardsSpeak
<1>3. crashes \in Nat /\ Cardinality(old) \in Nat
  BY <1>1, FS_CardinalityType DEF GateShape, GateTypeOK
<1>4. CASE new \subseteq old
  <2>1. IsFiniteSet(new) /\ Cardinality(new) <= Cardinality(old)
    BY <1>1, <1>4, FS_Subset
  <2>2. Cardinality(new) \in Nat
    BY <2>1, FS_CardinalityType
  <2> HIDE DEF old, new
  <2>3. Cardinality(new) <= crashes' + (IF HasQueued(c)' THEN 1 ELSE 0)
    BY <1>1, <1>2, <1>3, <2>1, <2>2
  <2> QED
    BY <1>2, <2>1, <2>3 DEF new
<1>5. ASSUME NEW i \in Ids, ApproveQueues(c, i), new \subseteq old \union {i}
      PROVE  IsFiniteSet(new) /\ Cardinality(new) <= crashes' + (IF HasQueued(c)' THEN 1 ELSE 0)
  <2>1. handler[c] = "claimed" /\ handler'[c] = "queued" /\ crashes' = crashes
    BY <1>5 DEF ApproveQueues, GateShape, GateTypeOK
  <2>2. ~HasQueued(c) /\ HasQueued(c)'
    BY <1>1, <2>1 DEF HasQueued
  <2>3. IsFiniteSet(old \union {i}) /\ Cardinality(old \union {i}) <= Cardinality(old) + 1
    <3>1. /\ IsFiniteSet(old \union {i})
          /\ Cardinality(old \union {i}) = IF i \in old THEN Cardinality(old) ELSE Cardinality(old) + 1
      BY <1>1, FS_AddElement
    <3> HIDE DEF old
    <3> QED
      BY <1>3, <3>1
  <2>4. IsFiniteSet(new) /\ Cardinality(new) <= Cardinality(old \union {i})
    BY <1>5, <2>3, FS_Subset
  <2>5. Cardinality(new) \in Nat /\ Cardinality(old \union {i}) \in Nat
    BY <2>3, <2>4, FS_CardinalityType
  <2> HIDE DEF old, new
  <2> QED
    BY <1>1, <1>3, <2>1, <2>2, <2>3, <2>4, <2>5
<1> QED
  BY <1>2, <1>4, <1>5, CopiesStep

\* As long as the database raises no errors, a card's action is queued once,
\* and once more at most for every restart, however often it is approved,
\* reopened or set back to read.
THEOREM CarriedOnce == ~DbFaults => (GateSpec => []CarriedOutOnce)
<1> SUFFICES ASSUME ~DbFaults PROVE GateSpec => []CarriedOutOnce
  OBVIOUS
<1>1. ASSUME GateInit PROVE CopiesCounted
  <2>1. \A c \in Cards : Copies(c) = {}
    BY <1>1, GateNullAssumption DEF GateInit, NoAction, Copies
  <2>2. IsFiniteSet({}) /\ Cardinality({}) = 0
    BY FS_EmptySet
  <2>3. \A c \in Cards : ~HasQueued(c) /\ handler[c] = "idle" /\ crashes = 0
    BY <1>1 DEF GateInit, EmptyCard, HasQueued
  <2> QED
    BY <2>1, <2>2, <2>3 DEF CopiesCounted
<1>2. GateShape /\ RetriesCounted /\ [GateNext]_gateVars => RetriesCounted'
  BY TriesStep DEF RetriesCounted
<1>3. ASSUME GateShape, CopiesCounted PROVE CarriedOutOnce
  <2> SUFFICES ASSUME NEW c \in Cards PROVE Cardinality(Copies(c)) <= 1 + crashes
    BY DEF CarriedOutOnce, Copies
  <2>1. /\ IsFiniteSet(Copies(c))
        /\ Cardinality(Copies(c)) <= crashes + (IF HasQueued(c) THEN 1 ELSE 0)
    BY <1>3 DEF CopiesCounted
  <2>2. Cardinality(Copies(c)) \in Nat /\ crashes \in Nat
    BY <1>3, <2>1, FS_CardinalityType DEF GateShape, GateTypeOK
  <2> QED
    BY <2>1, <2>2
<1>4. GateShape /\ CardsSpeak /\ CopiesCounted /\ [GateNext]_gateVars => CopiesCounted'
  BY CopiesCountedStep
<1> QED
  BY <1>1, <1>2, <1>3, <1>4, TriesInit, CardsSpeakInit, CardsSpeakStep, ShapeAlways, PTL DEF GateSpec

=============================================================================
