----------------------------- MODULE CardPromise -----------------------------
(***************************************************************************)
(* What Act as me promises about a card, without claims, mailboxes, turns  *)
(* or scans: a card is taken before anything is done on it, and what it    *)
(* asks for is done once; it is offered again only while nothing was done  *)
(* and nothing is under way any more; a card that is over stays over.      *)
(* ReplySend and ActionCards implement it (memory/decision_ledger.py keeps *)
(* the rows of both).                                                      *)
(***************************************************************************)
EXTENDS Naturals

CONSTANTS Cards, Deeds

VARIABLES
  standing, \* where each card is
  atWork,   \* the cards somebody is at, or has asked a service to carry out
  times     \* how often each deed of each card was done

promiseVars == <<standing, atWork, times>>

PromiseInit ==
  /\ standing \in [Cards -> {"unmade", "offered"}]
  /\ atWork = {}
  /\ times = [c \in Cards |-> [i \in Deeds |-> 0]]

Stands(c, from, to) == standing[c] \in from /\ standing' = [standing EXCEPT ![c] = to]

MayStop(c) == atWork' \in {atWork, atWork \ {c}}

NothingDone(c) == \A i \in Deeds : times[c][i] = 0

Offer(c) == Stands(c, {"unmade"}, "offered") /\ UNCHANGED <<atWork, times>>

Take(c) ==
  /\ Stands(c, {"offered"}, "taken")
  /\ atWork' \in {atWork, atWork \cup {c}}
  /\ UNCHANGED times

Start(c) ==
  /\ standing[c] = "taken" /\ atWork' = atWork \cup {c}
  /\ UNCHANGED <<standing, times>>

Perform(c, i) ==
  /\ c \in atWork /\ times[c][i] = 0
  /\ times' = [times EXCEPT ![c][i] = 1]
  /\ MayStop(c)
  /\ UNCHANGED standing

\* Work may end, or be lost, at any time.
Stop == atWork' \subseteq atWork /\ UNCHANGED <<standing, times>>

GiveBack(c) ==
  /\ Stands(c, {"taken"}, "offered") /\ NothingDone(c)
  /\ atWork' = atWork \ {c}
  /\ UNCHANGED times

Close(c) ==
  /\ Stands(c, {"offered", "taken"}, "over")
  /\ MayStop(c)
  /\ UNCHANGED times

PromiseNext ==
  \/ Stop
  \/ \E c \in Cards :
       \/ Offer(c) \/ Take(c) \/ Start(c) \/ GiveBack(c) \/ Close(c)
       \/ \E i \in Deeds : Perform(c, i)

PromiseSpec == PromiseInit /\ [][PromiseNext]_promiseVars

=============================================================================
