---------------------------- MODULE GatedActions ----------------------------
(***************************************************************************)
(* Scheduled actions and the authority gate: the scheduler claims what is  *)
(* due (scheduler/runner.py), a department's action is turned into a card  *)
(* for its approver instead of being sent (departments/authority.py,       *)
(* alerts/store.py), and approving the card queues the action it holds, or *)
(* runs a chat turn that does it (api/routes/alerts.py,                    *)
(* alerts/approvals.py).                                                   *)
(*                                                                         *)
(* One process, one asyncio loop: the code of a task or an async handler   *)
(* runs undisturbed between two awaits (LoopFree), except by a crash and   *)
(* by the routes FastAPI runs in threads (Click, Reopen, CancelAction).    *)
(***************************************************************************)
EXTENDS ScheduledActions, FiniteSets, Runner

CONSTANTS
  Ids,         \* rows of scheduled_actions
  NoId,
  Contents,    \* what an action is to send, and to whom (action_key)
  Subjects,    \* the first 60 characters of its text, with its department
  SubjectOf,
  NoContent,   \* also the text of a card the alert review has rewritten
  NoCard,
  Levels,      \* what the gate may decide, of Decisions below
  Gating,      \* whether scheduled rows have a department
  Clicks,      \* the statuses a person sets with POST /alerts/{id}/ack
  Verdicts,    \* what the alert review may do to a card
  Edits,       \* whether an approver may change the text
  MaxCrashes,  \* bound: restarts
  DbFaults     \* whether "database is locked" errors happen

\* "unrouted" is a proposal with nobody to approve it.
Decisions == {"execute", "propose", "unrouted", "escalate"}

\* A card's external_id. A proposal has one per subject; an unrouted one and
\* an escalation carry the id of the row as their suffix.
Cards ==
  (IF "propose" \in Levels
   THEN [kind : {"propose"}, key : Subjects, occ : {NoId}] ELSE {}) \union
  (IF "unrouted" \in Levels
   THEN [kind : {"unrouted"}, key : Subjects, occ : Ids] ELSE {}) \union
  (IF "escalate" \in Levels
   THEN [kind : {"escalate"}, key : Contents, occ : Ids] ELSE {})

ASSUME GateAssumption ==
  /\ SubjectOf \in [Contents -> Subjects]
  /\ Levels \subseteq Decisions
  /\ Gating \subseteq BOOLEAN
  /\ Clicks \subseteq {"read", "ack", "dismissed"}
  /\ Verdicts \subseteq {"resolved", "dismissed", "changed"}
  /\ Edits \subseteq BOOLEAN
  /\ DbFaults \in BOOLEAN /\ MaxCrashes \in Nat
ASSUME GateNullAssumption ==
  NoId \notin Ids /\ NoContent \notin Contents /\ NoCard \notin Cards

VARIABLES
  rows,      \* the scheduled_actions table
  task,      \* the asyncio task of each claimed row
  sent,      \* messages sent while executing each row
  cards,     \* the alerts table with alert_held_actions and alert_approvals
  handler,   \* the approve request, or the chat turn it started, per card
  reviewed,  \* cards the alert review has shown to its model
  crashes    \* restarts so far

gateVars == <<rows, task, sent, cards, handler, reviewed, holding, crashes>>

-----------------------------------------------------------------------------
(* Data *)

ActionRow == [status : ActionStatuses, attempts : Nat, due : BOOLEAN,
              gated : BOOLEAN, content : Contents \union {NoContent},
              via : Cards \union {NoCard}]
NoAction == [status |-> "none", attempts |-> 0, due |-> FALSE, gated |-> FALSE,
             content |-> NoContent, via |-> NoCard]

\* "filed": the card is in the table; "unplaced": so is one for nobody;
\* "bound": record_held_action has run; "sent": the turn has sent its message
\* and goes on.
TaskPcs == {"none", "claimed", "filed", "unplaced", "bound", "working", "sent"}
Task == [pc : TaskPcs, card : Cards \union {NoCard}]
NoTask == [pc |-> "none", card |-> NoCard]

CardStatuses == {"none", "unread", "read", "ack", "dismissed", "resolved", "expired"}
ApprovalStatuses == {"none", "running", "done", "failed"}
Card == [status : CardStatuses, content : Contents \union {NoContent},
         holds : Ids \union {NoId}, approval : ApprovalStatuses]
EmptyCard == [status |-> "none", content |-> NoContent, holds |-> NoId, approval |-> "none"]

HandlerPcs == {"idle", "claimed", "edited", "queued", "chatting"}

GateTypeOK ==
  /\ rows \in [Ids -> ActionRow]
  /\ task \in [Ids -> Task]
  /\ sent \in [Ids -> Nat]
  /\ cards \in [Cards -> Card]
  /\ handler \in [Cards -> HandlerPcs]
  /\ reviewed \subseteq Cards
  /\ holding \in BOOLEAN
  /\ crashes \in Nat

GateInit ==
  /\ rows = [i \in Ids |-> NoAction]
  /\ task = [i \in Ids |-> NoTask]
  /\ sent = [i \in Ids |-> 0]
  /\ cards = [c \in Cards |-> EmptyCard]
  /\ handler = [c \in Cards |-> "idle"]
  /\ reviewed = {}
  /\ holding = FALSE
  /\ crashes = 0

\* The loop may turn to somebody else: nobody is between two statements of
\* one uninterrupted stretch.
LoopFree ==
  /\ \A i \in Ids : task[i].pc \notin {"filed", "unplaced", "bound"}
  /\ \A c \in Cards : handler[c] \notin {"claimed", "edited", "queued"}

-----------------------------------------------------------------------------
(* The queue *)

\* A follow-up is scheduled, with or without a department.
Schedule(i, content, gated) ==
  /\ LoopFree
  /\ rows[i].status = "none"
  /\ rows' = [rows EXCEPT ![i] = [NoAction EXCEPT !.status = "pending",
                                    !.gated = gated, !.content = content]]
  /\ UNCHANGED <<task, sent, cards, handler, reviewed, holding, crashes>>

BecomesDue(i) ==
  /\ rows[i].status = "pending" /\ ~rows[i].due
  /\ rows' = [rows EXCEPT ![i].due = TRUE]
  /\ UNCHANGED <<task, sent, cards, handler, reviewed, holding, crashes>>

CancelAction(i) ==
  /\ rows[i].status = "pending" \/ task[i].pc # "none"
  /\ rows' = [rows EXCEPT ![i] = Cancelled(@)]
  /\ UNCHANGED <<task, sent, cards, handler, reviewed, holding, crashes>>

\* One tick claims everything that is due and starts a task for each row.
ClaimDue ==
  LET due == {i \in Ids : DueToRun(rows[i])} IN
  /\ LoopFree /\ ~holding /\ due # {}
  /\ rows' = [i \in Ids |-> IF i \in due THEN Taken(rows[i]) ELSE rows[i]]
  /\ task' = [i \in Ids |-> IF i \in due THEN [NoTask EXCEPT !.pc = "claimed"]
                                         ELSE task[i]]
  /\ UNCHANGED <<sent, cards, handler, reviewed, holding, crashes>>

SetHolding ==
  /\ HoldsOrGoesOn
  /\ UNCHANGED <<rows, task, sent, cards, handler, reviewed, crashes>>

-----------------------------------------------------------------------------
(* _execute_action: the gate *)

\* Task i ends and leaves its row like this.
Ends(i, row) ==
  /\ rows' = [rows EXCEPT ![i] = row]
  /\ task' = [task EXCEPT ![i] = NoTask]

AtGate(i) == task[i].pc = "claimed" /\ LoopFree

\* No department, or one that executes on its own: the turn begins.
Dispatch(i) ==
  /\ AtGate(i)
  /\ rows[i].gated => "execute" \in Levels
  /\ task' = [task EXCEPT ![i].pc = "working"]
  /\ UNCHANGED <<rows, sent, cards, handler, reviewed, holding, crashes>>

\* The approver is outside their hours (an escalation does not wait).
Defer(i) ==
  /\ AtGate(i) /\ rows[i].gated /\ "propose" \in Levels
  /\ Ends(i, TakenBack(rows[i]))
  /\ UNCHANGED <<sent, cards, handler, reviewed, holding, crashes>>

KeyOf(i, kind) == IF kind = "escalate" THEN rows[i].content ELSE SubjectOf[rows[i].content]
OpenWith(kind, key) ==
  {c \in Cards : c.kind = kind /\ c.key = key /\ cards[c].status = "unread"}
OwnCard(i, kind) ==
  [kind |-> kind, key |-> KeyOf(i, kind), occ |-> IF kind = "propose" THEN NoId ELSE i]

FiledBy(i, kind, card) ==
  task' = [task EXCEPT ![i] = [pc |-> IF kind = "unrouted" THEN "unplaced" ELSE "filed",
                               card |-> card]]

\* INSERT OR IGNORE: the task goes on with the card's id, or with none.
Inserts(i, kind) ==
  LET c == OwnCard(i, kind) IN
  IF cards[c].status = "none"
  THEN /\ cards' = [cards EXCEPT ![c] = [EmptyCard EXCEPT !.status = "unread",
                                                        !.content = rows[i].content]]
       /\ FiledBy(i, kind, c)
  ELSE UNCHANGED cards /\ FiledBy(i, kind, NoCard)

Refreshes(i, kind, open) ==
  /\ \E c \in open : cards' = [cards EXCEPT ![c].content = rows[i].content]
  /\ FiledBy(i, kind, NoCard)

FoldsIntoHandled(i, kind) ==  \* mutant: folds into any card of the key, open or not
  LET same == {c \in Cards : /\ c.kind = kind /\ c.key = KeyOf(i, kind)
                             /\ cards[c].status # "none"} IN
  IF kind # "propose" /\ same # {} THEN Refreshes(i, kind, same) ELSE Inserts(i, kind)

ReturnsTheOpenCard(i, kind) ==  \* mutant: a suppressed duplicate returns the card that is there
  /\ cards' = IF cards[OwnCard(i, kind)].status = "none"
              THEN [cards EXCEPT ![OwnCard(i, kind)].status = "unread",
                                 ![OwnCard(i, kind)].content = rows[i].content]
              ELSE cards
  /\ FiledBy(i, kind, OwnCard(i, kind))

\* propose_via_alert: with a suffix, an open card of the same key is
\* refreshed; else it is inserted.
FilesCard(i, kind) ==
  LET open == OpenWith(kind, KeyOf(i, kind)) IN
  IF kind # "propose" /\ open # {} THEN Refreshes(i, kind, open) ELSE Inserts(i, kind)

Propose(i) ==
  /\ AtGate(i) /\ rows[i].gated
  /\ \E kind \in Levels \intersect {"propose", "escalate", "unrouted"} : FilesCard(i, kind)
  /\ UNCHANGED <<rows, sent, handler, reviewed, holding, crashes>>

\* The store fails: a proposal goes on without a card, an escalation is
\* tried again.
ProposeFails(i) ==
  /\ DbFaults /\ AtGate(i) /\ rows[i].gated
  /\ \/ /\ \E kind \in Levels \intersect {"propose", "unrouted"} : FiledBy(i, kind, NoCard)
        /\ UNCHANGED rows
     \/ "escalate" \in Levels /\ Ends(i, FailedOrRetry(rows[i]))
  /\ UNCHANGED <<sent, cards, handler, reviewed, holding, crashes>>

\* _record_held_action, best effort.
Bind(i) ==
  /\ task[i].pc = "filed"
  /\ \/ /\ task[i].card # NoCard
        /\ cards' = [cards EXCEPT ![task[i].card].holds = i]
     \/ /\ task[i].card = NoCard \/ DbFaults
        /\ UNCHANGED cards
  /\ task' = [task EXCEPT ![i].pc = "bound"]
  /\ UNCHANGED <<rows, sent, handler, reviewed, holding, crashes>>

\* The held row is done; one that nobody can approve has failed.
GateMarks(i) ==
  /\ \/ task[i].pc = "bound" /\ Ends(i, MarkedDone(rows[i]))
     \/ task[i].pc = "unplaced" /\ Ends(i, MarkedFailed(rows[i]))
  /\ UNCHANGED <<sent, cards, handler, reviewed, holding, crashes>>

-----------------------------------------------------------------------------
(* _execute_action: the turn that sends *)

TaskSends(i) ==
  /\ LoopFree /\ task[i].pc = "working"
  /\ task' = [task EXCEPT ![i].pc = "sent"]
  /\ sent' = [sent EXCEPT ![i] = @ + 1]
  /\ UNCHANGED <<rows, cards, handler, reviewed, holding, crashes>>

\* The turn ends: it answered; it says there is nothing left to do; it
\* raised, before or after it sent.
TaskEnds(i) ==
  /\ LoopFree /\ task[i].pc \in {"working", "sent"}
  /\ \E row \in {MarkedDone(rows[i]), Retired(rows[i]), FailedOrRetry(rows[i])} : Ends(i, row)
  /\ UNCHANGED <<sent, cards, handler, reviewed, holding, crashes>>

\* Marking the row raises in a task nobody awaits: the row stays running.
TaskLost(i) ==
  /\ DbFaults
  /\ task[i].pc \in {"unplaced", "bound"} \/ (LoopFree /\ task[i].pc # "none")
  /\ task' = [task EXCEPT ![i] = NoTask]
  /\ UNCHANGED <<rows, sent, cards, handler, reviewed, holding, crashes>>

-----------------------------------------------------------------------------
(* Approving a card *)

ClaimableTwice(card) ==  \* mutant: looks at the card's status only
  card.status \in {"unread", "read"} \/ (card.status = "ack" /\ card.approval = "failed")

\* approvals.claim
Claimable(card) ==
  /\ card.approval \in {"none", "failed"}
  /\ \/ card.status \in {"unread", "read"}
     \/ card.status = "ack" /\ card.approval = "failed"

\* A copy needs a row: a bound of the model.
ApproveClaims(c, edited) ==
  /\ LoopFree /\ handler[c] = "idle"
  /\ \E i \in Ids : rows[i].status = "none"
  /\ Claimable(cards[c])
  /\ cards' = [cards EXCEPT ![c].status = "ack", ![c].approval = "running"]
  /\ handler' = [handler EXCEPT ![c] = IF edited THEN "edited" ELSE "claimed"]
  /\ UNCHANGED <<rows, task, sent, reviewed, holding, crashes>>

HoldsDone(c) == cards[c].holds # NoId /\ rows[cards[c].holds].status = "done"

Copy(row, c) == [NoAction EXCEPT !.status = "pending", !.due = TRUE,
                                 !.content = row.content, !.via = c]

\* _requeue_scheduled_action: the held action again, without its department.
ApproveQueues(c, i) ==
  /\ handler[c] = "claimed" /\ HoldsDone(c)
  /\ rows[i].status = "none"
  /\ rows' = [rows EXCEPT ![i] = Copy(rows[cards[c].holds], c)]
  /\ handler' = [handler EXCEPT ![c] = "queued"]
  /\ UNCHANGED <<task, sent, cards, reviewed, holding, crashes>>

Answered(c, outcome) ==
  /\ cards' = [cards EXCEPT ![c].approval = outcome]
  /\ handler' = [handler EXCEPT ![c] = "idle"]

ApproveQueued(c) ==
  /\ handler[c] = "queued"
  /\ Answered(c, "done")
  /\ UNCHANGED <<rows, task, sent, reviewed, holding, crashes>>

\* The insert, or the update of the approval after it, raises; so may the
\* update that says so.
ApproveFails(c) ==
  /\ DbFaults
  /\ handler[c] = "queued" \/ (handler[c] = "claimed" /\ HoldsDone(c))
  /\ \E outcome \in {"failed", "running"} : Answered(c, outcome)
  /\ UNCHANGED <<rows, task, sent, reviewed, holding, crashes>>

\* Anything else is done by a chat turn, which may fail to start.
ApproveChats(c) ==
  /\ handler[c] = "edited" \/ (handler[c] = "claimed" /\ ~HoldsDone(c))
  /\ \/ handler' = [handler EXCEPT ![c] = "chatting"] /\ UNCHANGED cards
     \/ Answered(c, "failed")
  /\ UNCHANGED <<rows, task, sent, reviewed, holding, crashes>>

ChatEnds(c) ==
  /\ LoopFree /\ handler[c] = "chatting"
  /\ \E outcome \in {"done", "failed"} : Answered(c, outcome)
  /\ UNCHANGED <<rows, task, sent, reviewed, holding, crashes>>

-----------------------------------------------------------------------------
(* What else changes a card *)

SetStatus(c, status) ==
  /\ cards' = [cards EXCEPT ![c].status = status]
  /\ UNCHANGED <<rows, task, sent, handler, reviewed, holding, crashes>>

\* ack_alert, at any moment and from any status.
Click(c, status) ==
  /\ cards[c].status \notin {"none", status}
  /\ SetStatus(c, status)

Reopen(c) ==
  /\ cards[c].status \in {"resolved", "expired", "dismissed"}
  /\ SetStatus(c, "unread")

\* expire_stale_alerts
Expire(c) ==
  /\ LoopFree /\ cards[c].status = "unread"
  /\ SetStatus(c, "expired")

\* The alert review picks a live card and asks its model.
ReviewReads(c) ==
  /\ Verdicts # {} /\ LoopFree /\ cards[c].status = "unread" /\ c \notin reviewed
  /\ reviewed' = reviewed \union {c}
  /\ UNCHANGED <<rows, task, sent, cards, handler, holding, crashes>>

\* apply_verdict, on the card as it is by now; or it keeps its hands off.
ReviewActs(c) ==
  /\ LoopFree /\ c \in reviewed
  /\ cards' \in {cards} \union
                {[cards EXCEPT ![c].status = v] : v \in Verdicts \ {"changed"}} \union
                {[cards EXCEPT ![c].content = NoContent] : v \in Verdicts \intersect {"changed"}}
  /\ reviewed' = reviewed \ {c}
  /\ UNCHANGED <<rows, task, sent, handler, holding, crashes>>

-----------------------------------------------------------------------------
(* A crash, and the next start *)

LeavesRunning(card) == card  \* mutant

\* fail_stale_running
Interrupted(card) == IF card.approval = "running" THEN [card EXCEPT !.approval = "failed"] ELSE card

Restart ==
  /\ crashes < MaxCrashes
  /\ \/ rows' = [i \in Ids |-> Orphaned(rows[i])]
     \/ DbFaults /\ UNCHANGED rows  \* best effort
  /\ task' = [i \in Ids |-> NoTask]
  /\ cards' = [c \in Cards |-> Interrupted(cards[c])]
  /\ handler' = [c \in Cards |-> "idle"]
  /\ reviewed' = {}
  /\ crashes' = crashes + 1
  /\ UNCHANGED <<sent, holding>>

-----------------------------------------------------------------------------
(* Specification *)

TaskStep(i) ==
  Dispatch(i) \/ Defer(i) \/ Propose(i) \/ ProposeFails(i) \/ Bind(i) \/ GateMarks(i)
  \/ TaskSends(i) \/ TaskEnds(i) \/ TaskLost(i)

ApproveStep(c) ==
  \/ \E edited \in Edits : ApproveClaims(c, edited)
  \/ \E i \in Ids : ApproveQueues(c, i)
  \/ ApproveQueued(c) \/ ApproveFails(c) \/ ApproveChats(c) \/ ChatEnds(c)

CardStep(c) ==
  \/ \E status \in Clicks : Click(c, status)
  \/ Reopen(c) \/ Expire(c) \/ ReviewReads(c) \/ ReviewActs(c)

QueueStep(i) ==
  \/ \E content \in Contents, gated \in Gating : Schedule(i, content, gated)
  \/ BecomesDue(i) \/ CancelAction(i)

GateNext ==
  \/ \E i \in Ids : QueueStep(i) \/ TaskStep(i)
  \/ \E c \in Cards : ApproveStep(c) \/ CardStep(c)
  \/ ClaimDue \/ SetHolding \/ Restart

GateSpec == GateInit /\ [][GateNext]_gateVars

\* Clocks advance, the poll polls and a turn ends. The gate and the poll get
\* strong fairness: others hold the loop again and again, each time briefly,
\* and a deferred row comes back at the start of its approver's window. Of the
\* tasks that can go on, some one does.
GateFairness ==
  /\ SF_gateVars(ClaimDue)
  /\ SF_gateVars(\E i \in Ids : Dispatch(i) \/ Propose(i))
  /\ SF_gateVars(\E i \in Ids : TaskEnds(i))
  /\ SF_gateVars(\E c \in Cards : ChatEnds(c))
  /\ \A i \in Ids :
       WF_gateVars(BecomesDue(i)) /\ WF_gateVars(Bind(i)) /\ WF_gateVars(GateMarks(i))
  /\ \A c \in Cards :
       /\ WF_gateVars(\E i \in Ids : ApproveQueues(c, i))
       /\ WF_gateVars(ApproveQueued(c)) /\ WF_gateVars(ApproveChats(c))

FairGateSpec == GateSpec /\ GateFairness

-----------------------------------------------------------------------------
(* Properties *)

\* While a task works on a row the row is running, whoever cancels, claims or
\* requeues meanwhile: nothing is dispatched that the queue says is over, and
\* no two tasks have one row (claim_due_actions, cancel_scheduled_action).
WorkedRowsAreRunning == \A i \in Ids : task[i].pc # "none" => rows[i].status = "running"

\* A row that is done, failed or cancelled stays so: what a person was told
\* of it is final, though mark_action_done and the retries test nothing.
SettledStays ==
  [][\A i \in Ids : rows[i].status \in Settled => rows'[i].status = rows[i].status]_gateVars

\* Where no department executes on its own, a department's action goes out
\* only after a person approved its card, and what goes out is what that card
\* says, unless the alert review has rewritten the card.
NothingUnapprovedGoesOut ==
  "execute" \notin Levels =>
    \A i \in Ids : sent[i] > 0 =>
      IF rows[i].via = NoCard THEN ~rows[i].gated
      ELSE /\ cards[rows[i].via].approval # "none"
           /\ cards[rows[i].via].content \in {rows[i].content, NoContent}

\* However often a card is approved, reopened or set back to read, its action
\* is queued once, and once more at most for every restart that cut an
\* approval off (approvals.claim).
CarriedOutOnce ==
  \A c \in Cards : Cardinality({i \in Ids : rows[i].via = c}) <= 1 + crashes

\* An action is tried, and its message sent, at most MaxAttempts times and
\* once more per restart, however often it is deferred.
RetriesBounded ==
  \A i \in Ids : sent[i] <= rows[i].attempts /\ rows[i].attempts <= MaxAttempts + crashes

\* A held action that has a card key of its own is on an open card when the
\* gate lets go of it, unless its own card was filed before a restart:
\* it never folds into a card somebody has already handled.
HeldWorkHasACard ==
  [][\A i \in Ids : task[i].pc = "claimed" /\ task'[i].pc \in {"filed", "unplaced"} =>
       \E c \in Cards :
         \/ cards'[c].status = "unread" /\ cards'[c].content = rows[i].content
         \/ cards[c].status # "none" /\ c.occ = i]_gateVars

\* Unless the scheduler is held for ever, every action comes to an end:
\* through deferrals, retries and restarts.
DueActionsSettle ==
  <>[]~holding =>
    \A i \in Ids : rows[i].status = "pending" ~> rows[i].status \in Settled

\* Every approval ends, also one that a restart cuts off: no card stays
\* "running", which nobody can approve again.
ApprovalsEnd == \A c \in Cards : cards[c].approval = "running" ~> cards[c].approval # "running"

\* runner.py:418 "None means the card folded into one already open, which
\* keeps its own binding": a proposal without a card of its own is on one.
UnboundMeansFolded ==
  \A i \in Ids : task[i] = [pc |-> "filed", card |-> NoCard] =>
    \E c \in Cards : cards[c].status = "unread" /\ cards[c].content = rows[i].content

\* approvals.py:100 "A card whose last approval failed can be approved again."
FailedApprovalsCanBeRetried ==
  \A c \in Cards : cards[c].approval = "failed" => Claimable(cards[c])

=============================================================================
