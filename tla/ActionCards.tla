----------------------------- MODULE ActionCards -----------------------------
(***************************************************************************)
(* Suggested actions (delegation/action_cards.py): cards of a few actions, *)
(* carried out on their person's tap or, when every rule allows, on their  *)
(* own. Either claims the card first and then does its actions one after   *)
(* the other, each an await; the cards that run on their own do so one at  *)
(* a time, under a lock, so that the daily limit counts the one before.    *)
(***************************************************************************)
EXTENDS DecisionLedger, Naturals, FiniteSets

CONSTANTS
  CardIds,
  CardSize,       \* actions on a card
  Turns,          \* taps and Executive turns that may run at once
  OnItsOwnPerDay, \* ON_ITS_OWN_PER_DAY
  MaxStops        \* bound on crashes

ASSUME ActionCardsAssumption ==
  /\ IsFiniteSet(CardIds) /\ CardSize \in Nat \ {0}
  /\ OnItsOwnPerDay \in Nat /\ MaxStops \in Nat
  /\ "free" \notin Turns

VARIABLES
  suggested, \* the rows; the payload is what results say was done
  turn,      \* what each turn is carrying out
  lock,      \* _ON_ITS_OWN_LOCK
  today,     \* the cards it carried out on its own today
  done,      \* how often each action of each card happened
  stops      \* crashes so far

cardVars == <<suggested, turn, lock, today, done, stops>>

CardActions == 1..CardSize

ActionCard ==
  [status : LedgerStatuses \cup {"absent"}, gate : {"propose", "auto"},
   payload : SUBSET CardActions]

\* waiting: for the lock. left: the chosen actions not done yet; well: those
\* whose result was done or waiting.
Turn ==
  [pc : {"idle", "waiting", "running"}, card : CardIds \cup {"none"}, own : BOOLEAN,
   left : SUBSET CardActions, well : SUBSET CardActions]

NoSuggestion == "none"

NoTurn == [pc |-> "idle", card |-> NoSuggestion, own |-> FALSE, left |-> {}, well |-> {}]

\* A card not proposed yet is "absent".
CardsInit ==
  /\ suggested = [c \in CardIds |-> [status |-> "absent", gate |-> "propose", payload |-> {}]]
  /\ turn = [t \in Turns |-> NoTurn]
  /\ lock = "free"
  /\ today = {}
  /\ done = [c \in CardIds |-> [i \in CardActions |-> 0]]
  /\ stops = 0

Runs(t, c, own, chosen) ==
  turn' = [turn EXCEPT ![t] = [pc |-> "running", card |-> c, own |-> own,
                               left |-> chosen, well |-> {}]]

TurnOver(t) == turn' = [turn EXCEPT ![t] = NoTurn]

\* propose. On a turn that found nothing against it the card is auto, and
\* the turn goes on to run it; the same actions still waiting are that card,
\* which the second turn then runs too.
ProposeCard(c) ==
  /\ suggested[c].status = "absent"
  /\ suggested' = [suggested EXCEPT ![c].status = "proposed"]
  /\ UNCHANGED <<turn, lock, today, done, stops>>

ProposeToRun(t, c) ==
  /\ turn[t].pc = "idle" /\ suggested[c].status \in {"absent", "proposed"}
  /\ suggested' = IF suggested[c].status = "absent"
              THEN [suggested EXCEPT ![c].status = "proposed", ![c].gate = "auto"]
                  ELSE suggested
  /\ IF suggested'[c].gate = "auto"
     THEN turn' = [turn EXCEPT ![t] = [NoTurn EXCEPT !.pc = "waiting", !.card = c,
                                                     !.own = TRUE]]
     ELSE UNCHANGED turn
  /\ UNCHANGED <<lock, today, done, stops>>

\* approve: everything up to the claim, in one stretch.
ApproveCard(t, c, chosen) ==
  /\ turn[t].pc = "idle" /\ suggested[c].status = "proposed" /\ chosen # {}
  /\ suggested' = [suggested EXCEPT ![c] = ClaimedCard(suggested[c])]
  /\ Runs(t, c, FALSE, chosen)
  /\ UNCHANGED <<lock, today, done, stops>>

DismissCard(c) ==
  /\ suggested[c].status = "proposed"
  /\ suggested' = [suggested EXCEPT ![c] = MarkedResolved(suggested[c], "rejected")]
  /\ UNCHANGED <<turn, lock, today, done, stops>>

DoneToday == CardSize * Cardinality(today)

WithinLimit(c) == DoneToday + CardSize <= OnItsOwnPerDay

LockIgnored(t) == turn[t].pc = "waiting"  \* mutant

TakesLock(t) == turn[t].pc = "waiting" /\ lock = "free"

\* run_on_its_own, under the lock: a rule holds the card back, someone else
\* has it, or it runs.
OwnHeldBack(t) ==
  LET c == turn[t].card IN
  /\ TakesLock(t)
  /\ suggested' = [suggested EXCEPT ![c] = HandedBack(suggested[c], {})]
  /\ TurnOver(t)
  /\ UNCHANGED <<lock, today, done, stops>>

OwnTooLate(t) ==
  /\ TakesLock(t) /\ suggested[turn[t].card].status # "proposed"
  /\ TurnOver(t)
  /\ UNCHANGED <<suggested, lock, today, done, stops>>

OwnRuns(t) ==
  LET c == turn[t].card IN
  /\ TakesLock(t) /\ suggested[c].status = "proposed" /\ WithinLimit(c)
  /\ lock' = t
  /\ suggested' = [suggested EXCEPT ![c] = ClaimedCard(suggested[c])]
  /\ Runs(t, c, TRUE, CardActions)
  /\ UNCHANGED <<today, done, stops>>

\* One action: done, or failed; a failure may have happened all the same.
DoAction(t, i, happened, reported) ==
  LET c == turn[t].card IN
  /\ turn[t].pc = "running" /\ i \in turn[t].left
  /\ \A j \in turn[t].left : i <= j
  /\ reported => happened
  /\ done' = IF happened THEN [done EXCEPT ![c][i] = @ + 1] ELSE done
  /\ turn' = [turn EXCEPT ![t].left = @ \ {i}, ![t].well = IF reported THEN @ \cup {i} ELSE @]
  /\ UNCHANGED <<suggested, lock, today, stops>>

AlwaysApproved(t) == "approved"  \* mutant

\* finish_execution
CarriedOut(t) ==
  IF turn[t].well = {} THEN "failed" ELSE IF turn[t].own THEN "executed" ELSE "approved"

CardFinishes(t) ==
  LET c == turn[t].card IN
  /\ turn[t].pc = "running" /\ turn[t].left = {}
  /\ suggested' = [suggested EXCEPT ![c] =
                     [ExecutionFinished(suggested[c], CarriedOut(t)) EXCEPT !.payload = turn[t].well]]
  /\ today' = IF suggested'[c].status = "executed" THEN today \cup {c} ELSE today
  /\ lock' = IF turn[t].own THEN "free" ELSE lock
  /\ TurnOver(t)
  /\ UNCHANGED <<done, stops>>

NewDay == today # {} /\ today' = {} /\ UNCHANGED <<suggested, turn, lock, done, stops>>

\* The process stops. Nothing looks for the cards it was carrying out.
CardsCrash ==
  /\ \E t \in Turns : turn[t].pc # "idle"
  /\ stops < MaxStops /\ stops' = stops + 1
  /\ turn' = [t \in Turns |-> NoTurn]
  /\ lock' = "free"
  /\ UNCHANGED <<suggested, today, done>>
-----------------------------------------------------------------------------
TurnNext(t) ==
  \/ OwnHeldBack(t) \/ OwnTooLate(t) \/ OwnRuns(t)
  \/ \E i \in CardActions, happened, reported \in BOOLEAN : DoAction(t, i, happened, reported)
  \/ CardFinishes(t)

CardsNext ==
  \/ \E c \in CardIds : ProposeCard(c) \/ DismissCard(c)
  \/ \E t \in Turns, c \in CardIds : ProposeToRun(t, c)
  \/ \E t \in Turns, c \in CardIds, chosen \in SUBSET CardActions : ApproveCard(t, c, chosen)
  \/ \E t \in Turns : TurnNext(t)
  \/ NewDay
  \/ CardsCrash

CardsSpec == CardsInit /\ [][CardsNext]_cardVars

-----------------------------------------------------------------------------
CardsTypeOK ==
  /\ suggested \in [CardIds -> ActionCard]
  /\ turn \in [Turns -> Turn]
  /\ lock \in Turns \cup {"free"}
  /\ today \subseteq CardIds
  /\ done \in [CardIds -> [CardActions -> Nat]]
  /\ stops \in Nat

\* Two turns proposed the same card, two taps and its own turn fall together:
\* no action of a card happens twice.
ActionHappensOnce == \A c \in CardIds, i \in CardActions : done[c][i] <= 1

OnItsOwnNow == {t \in Turns : turn[t].pc = "running" /\ turn[t].own}

\* However many turns run on their own at once, what they did today and are
\* doing now stays within the daily limit.
OwnWithinTheDay ==
  DoneToday + CardSize * Cardinality(OnItsOwnNow) <= OnItsOwnPerDay

\* What a card says is right, whoever was about to run it: a dismissed one
\* did nothing; one that says an action was done did it.
SuggestionIsRight ==
  \A c \in CardIds :
    /\ suggested[c].status = "rejected" => \A i \in CardActions : done[c][i] = 0
    /\ suggested[c].status \in {"approved", "executed"} => suggested[c].payload # {}
    /\ \A i \in suggested[c].payload : done[c][i] > 0

\* A card and the turns at it, as CardPromise sees them.
CardStanding(c) ==
  CASE suggested[c].status = "absent" -> "unmade"
    [] suggested[c].status = "proposed" -> "offered"
    [] suggested[c].status = "executing" -> "taken"
    [] OTHER -> "over"

CarriedOutNow(c) == \E t \in Turns : turn[t].pc = "running" /\ turn[t].card = c

ActionPromise == INSTANCE CardPromise WITH
  Cards <- CardIds,
  Deeds <- CardActions,
  standing <- [c \in CardIds |-> CardStanding(c)],
  atWork <- {c \in CardIds : CarriedOutNow(c)},
  times <- done

\* Through taps, turns that run on their own, failures and crashes: an action
\* is done only on a card taken for it, and once, and no card is offered again
\* once one of its actions was done, whatever the turn was told of it.
ActionsKeepPromise == ActionPromise!PromiseSpec

=============================================================================
