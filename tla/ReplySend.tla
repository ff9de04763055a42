------------------------------ MODULE ReplySend ------------------------------
(***************************************************************************)
(* One reply card of Act as me, and everything that may send, change or    *)
(* close it at the same time: taps on Send (delegation/reply_send.py), the *)
(* watcher's own send under Handle it for me, changes on the card          *)
(* (delegation/card_drafts.py), Dismiss, the watcher's reconciler          *)
(* (delegation/inbox.py), and the person in their own mailbox. Each await  *)
(* of the mail service is a step of its own; what runs between two awaits  *)
(* is one step. The mailbox is external, modelled by what the code asks of *)
(* it: a draft is read, made, rewritten, deleted or sent by its id.        *)
(***************************************************************************)
EXTENDS DecisionLedger, Runner, Naturals, FiniteSets

CONSTANTS
  Taps,         \* requests that may run at once (web, chat)
  CardGates,    \* gate modes the card may be made with
  InMailbox,    \* whether the watcher saved the draft in the mailbox
  MaxDrafts,    \* drafts ever made for this card
  MaxChanges,   \* bound on changes to a draft or to the card's words
  MaxTroubles   \* bound on crashes, lost answers and refusals of the mail service

ASSUME ReplyAssumption ==
  /\ CardGates \subseteq {"propose", "auto"} /\ InMailbox \subseteq BOOLEAN
  /\ MaxDrafts \in Nat \ {0} /\ MaxChanges \in Nat /\ MaxTroubles \in Nat
  /\ "own" \notin Taps

VARIABLES
  card,      \* the row of decision_instances
  sending,   \* is it in inbox.SENDING?
  making,    \* in card_drafts._MAKING?
  editing,   \* in card_drafts._EDITING?
  sender,    \* the send path of each tap, and of the watcher's own send
  editor,    \* a change on the card
  dismisser, \* replies.dismiss after a reject
  scan,      \* the reconciler's turn for this card
  seenOnce,  \* the unconfirmed_seen flag, and whether a send was unconfirmed then
  misjudged, \* see MayJudge
  mail,      \* the drafts made for this card
  replied,   \* is a message of theirs in the thread?
  troubles   \* crashes, lost answers and refusals so far

replyVars == <<card, sending, making, editing, sender, editor, dismisser, scan, seenOnce,
               misjudged, mail, replied, troubles>>

DraftIds == 1..MaxDrafts
NoDraft == 0

\* What the card keeps: its draft ("" on the card alone), draft_message_id,
\* edited_version (seen by an edit on the card), and its words by number.
Payload == [draft : 0..MaxDrafts, made : Nat, edited : Nat, words : Nat]

ReplyCard == [status : LedgerStatuses, gate : {"propose", "auto"}, payload : Payload]

\* going: a send request the service has not finished. version: its message
\* id, new with every change. shown: the sent message is in the thread. Two
\* ghosts: swapped, it changed while a send request was out, and checked, the
\* version its sender had read.
MailDraft ==
  [where : {"none", "drafts", "going", "sent", "bySelf", "deleted"}, version : Nat,
   shown : BOOLEAN, swapped : BOOLEAN, checked : Nat]

SenderPcs ==
  {"idle", "checking", "making", "reading", "thread", "rereading", "sending", "went",
   "unmaking", "takingback", "over"}

\* start: the payload the request came with. made: is the draft its own?
Sender ==
  [pc : SenderPcs, start : Payload, draft : 0..MaxDrafts, version : Nat, made : BOOLEAN]

Senders == Taps \cup {"own"}

CardOnly(payload) == payload.draft = NoDraft

Readable(d) == mail[d].where \in {"drafts", "going"}

\* later_messages: a message of theirs after the one the card answers.
AnsweredMeanwhile == replied \/ \E d \in DraftIds : mail[d].shown

NoPayload == [draft |-> NoDraft, made |-> 0, edited |-> 0, words |-> 0]

NoSend ==
  [pc |-> "idle", start |-> NoPayload, draft |-> NoDraft, version |-> 0, made |-> FALSE]

NoEdit == [pc |-> "idle", start |-> NoPayload, version |-> 0]

NoScan ==
  [pc |-> "idle", seen |-> [status |-> "proposed", gate |-> "propose", payload |-> NoPayload],
   gone |-> FALSE]

FirstPayload(inMailbox) ==
  [draft |-> IF inMailbox THEN 1 ELSE NoDraft, made |-> IF inMailbox THEN 1 ELSE 0,
   edited |-> 0, words |-> 0]

ReplyInit ==
  /\ \E gate \in CardGates, inMailbox \in InMailbox :
       /\ card = [status |-> "proposed", gate |-> gate, payload |-> FirstPayload(inMailbox)]
       /\ mail = [d \in DraftIds |->
                    [where |-> IF inMailbox /\ d = 1 THEN "drafts" ELSE "none",
                     version |-> IF inMailbox /\ d = 1 THEN 1 ELSE 0,
                     shown |-> FALSE, swapped |-> FALSE, checked |-> 0]]
       /\ sender = [t \in Senders |->
                      [NoSend EXCEPT
                         !.pc = IF t = "own" /\ gate # "auto" THEN "over" ELSE "idle"]]
  /\ editor = NoEdit
  /\ scan = NoScan
  /\ dismisser = [pc |-> "idle", draft |-> NoDraft]
  /\ sending = FALSE /\ making = FALSE /\ editing = FALSE
  /\ seenOnce = "no" /\ misjudged = FALSE /\ replied = FALSE /\ troubles = 0

Trouble == troubles < MaxTroubles /\ troubles' = troubles + 1

NotSending == <<editor, dismisser, scan, seenOnce, misjudged, replied>>
-----------------------------------------------------------------------------
\* The send path.
Moves(t, pc) == sender' = [sender EXCEPT ![t].pc = pc]

\* What a sender ends with: the watcher's own send hands a refused card back
\* with the payload it started with.
Left(t, row) == IF t = "own" THEN HandedBack(row, sender[t].start) ELSE row

Over(t) == IF t = "own" THEN "over" ELSE "idle"

\* SendRefused: a draft made by this request is taken back first.
Refuse(t, row) ==
  IF sender[t].made
  THEN Moves(t, "takingback") /\ card' = row
  ELSE sender' = [sender EXCEPT ![t] = [NoSend EXCEPT !.pc = Over(t)]]
       /\ card' = Left(t, row)

\* _close_card leaves a card alone that is being sent.
CloseUnlessSending(row) == IF sending THEN row ELSE ClosedCard(row)

TapBegins(t) ==
  /\ sender[t].pc = "idle" /\ (t # "own" => card.status = "proposed")
  /\ sender' = [sender EXCEPT ![t] = [NoSend EXCEPT !.pc = "checking", !.start = card.payload]]
  /\ UNCHANGED <<card, sending, making, editing, mail, troubles, NotSending>>

\* The mailbox is reached (gmail_status), or one of the checks refuses.
TapReads(t) ==
  /\ sender[t].pc = "checking" /\ ~CardOnly(sender[t].start)
  /\ sender' = [sender EXCEPT ![t].pc = "reading", ![t].draft = sender[t].start.draft]
  /\ UNCHANGED <<card, sending, making, editing, mail, troubles, NotSending>>

TapMakes(t) ==
  /\ sender[t].pc = "checking" /\ CardOnly(sender[t].start)
  /\ ~making /\ ~editing /\ CardOnly(card.payload)
  /\ making' = TRUE
  /\ sender' = [sender EXCEPT ![t].pc = "making", ![t].start = card.payload]
  /\ UNCHANGED <<card, sending, editing, mail, troubles, NotSending>>

TapTurnedDown(t) ==
  /\ sender[t].pc \in {"checking", "reading", "thread"}
  /\ Refuse(t, card)
  /\ UNCHANGED <<sending, making, editing, mail, troubles, NotSending>>

\* make_draft: create_draft returned, and the card takes the draft unless it
\* changed meanwhile.
DraftMade(t, d) ==
  /\ sender[t].pc = "making" /\ mail[d].where = "none"
  /\ \A e \in 1..(d - 1) : mail[e].where # "none"
  /\ mail' = [mail EXCEPT ![d].where = "drafts", ![d].version = 1]
  /\ making' = FALSE
  /\ LET start == sender[t].start
         new == Updated(card, [start EXCEPT !.draft = d, !.made = 1], start) IN
     IF new # card
     THEN /\ card' = new
          /\ sender' = [sender EXCEPT ![t] = [pc |-> "reading", start |-> new.payload,
                                              draft |-> d, version |-> 0, made |-> TRUE]]
     ELSE /\ sender' = [sender EXCEPT ![t].pc = "unmaking", ![t].draft = d]
          /\ UNCHANGED card
  /\ UNCHANGED <<sending, editing, troubles, NotSending>>

MakingFails(t) ==
  /\ sender[t].pc = "making"
  /\ making' = FALSE
  /\ Refuse(t, card)
  /\ UNCHANGED <<sending, editing, mail, troubles, NotSending>>

\* The service made the draft and its answer was lost: nobody knows of it.
MakingUnconfirmed(t, d) ==
  /\ sender[t].pc = "making" /\ mail[d].where = "none"
  /\ \A e \in 1..(d - 1) : mail[e].where # "none"
  /\ Trouble
  /\ mail' = [mail EXCEPT ![d].where = "drafts", ![d].version = 1]
  /\ making' = FALSE
  /\ Refuse(t, card)
  /\ UNCHANGED <<sending, editing, NotSending>>

TapReadsDraft(t) ==
  LET d == sender[t].draft IN
  /\ sender[t].pc = "reading"
  /\ IF Readable(d)
     THEN /\ sender' = [sender EXCEPT ![t].pc = "thread", ![t].version = mail[d].version]
          /\ UNCHANGED card
     ELSE Refuse(t, CloseUnlessSending(card))
  /\ UNCHANGED <<sending, making, editing, mail, troubles, NotSending>>

\* The thread is read: answered meanwhile, or claimed for sending.
TapFindsAnswer(t) ==
  /\ sender[t].pc = "thread" /\ AnsweredMeanwhile
  /\ Refuse(t, CloseUnlessSending(card))
  /\ UNCHANGED <<sending, making, editing, mail, troubles, NotSending>>

ClaimsRegardless(t) == sender[t].pc = "thread" /\ ~AnsweredMeanwhile  \* mutant

\* SENDING, then claim_for_execution. On its own, never a changed draft.
MayClaim(t) ==
  /\ sender[t].pc = "thread" /\ ~AnsweredMeanwhile
  /\ ~sending /\ card.status = "proposed"
  /\ t = "own" => sender[t].version = sender[t].start.made

TapClaims(t) ==
  /\ MayClaim(t)
  /\ sending' = TRUE
  /\ card' = ClaimedCard(card)
  /\ Moves(t, "rereading")
  /\ UNCHANGED <<making, editing, mail, troubles, NotSending>>

SendsUnread(t) == Readable(sender[t].draft)  \* mutant

\* The draft is read once more: is it still the version that was checked?
StillAsChecked(t) ==
  Readable(sender[t].draft) /\ mail[sender[t].draft].version = sender[t].version

TapRereads(t) ==
  LET d == sender[t].draft IN
  /\ sender[t].pc = "rereading"
  /\ IF StillAsChecked(t)
     THEN /\ Moves(t, "sending")
          /\ mail' = [mail EXCEPT ![d].swapped = mail[d].where = "going" /\ mail[d].swapped]
          /\ UNCHANGED <<card, sending>>
     ELSE /\ sending' = FALSE
          /\ Refuse(t, IF Readable(d) THEN Released(card) ELSE ClosedCard(Released(card)))
          /\ UNCHANGED mail
  /\ UNCHANGED <<making, editing, troubles, NotSending>>

RereadFails(t) ==
  /\ sender[t].pc = "rereading"
  /\ sending' = FALSE
  /\ Refuse(t, Released(card))
  /\ UNCHANGED <<making, editing, mail, troubles, NotSending>>

Goes(d, checked) ==
  [mail EXCEPT ![d].where = "sent", ![d].checked = checked]

MailSends(t) ==
  LET d == sender[t].draft IN
  /\ sender[t].pc = "sending" /\ mail[d].where = "drafts"
  /\ mail' = Goes(d, sender[t].version)
  /\ Moves(t, "went")
  /\ UNCHANGED <<card, sending, making, editing, troubles, NotSending>>

TapFinishes(t) ==
  /\ sender[t].pc = "went"
  /\ sending' = FALSE
  /\ card' = ExecutionFinished(card, IF t = "own" THEN "executed" ELSE "approved")
  /\ sender' = [sender EXCEPT ![t] = [NoSend EXCEPT !.pc = Over(t)]]
  /\ UNCHANGED <<making, editing, mail, troubles, NotSending>>

\* The service refuses, or knows no such draft.
SendRefused(t) ==
  /\ sender[t].pc = "sending"
  /\ sending' = FALSE
  /\ Refuse(t, IF Readable(sender[t].draft) THEN Released(card)
               ELSE ClosedCard(Released(card)))
  /\ UNCHANGED <<making, editing, mail, troubles, NotSending>>

\* No answer, or a 5xx: the request may still be under way.
LeftUnconfirmed(t, row) ==
  LET d == sender[t].draft IN
  /\ sender[t].pc \in {"sending", "went"} /\ Trouble
  /\ sending' = FALSE
  /\ mail' = IF mail[d].where = "drafts"
             THEN [mail EXCEPT ![d].where = "going", ![d].checked = sender[t].version]
             ELSE mail
  /\ sender' = [sender EXCEPT ![t] = [NoSend EXCEPT !.pc = Over(t)]]
  /\ card' = Left(t, row)
  /\ UNCHANGED <<making, editing, NotSending>>

OfferedUnconfirmed(t) == LeftUnconfirmed(t, Released(card))  \* mutant

\* The card stays executing for the reconciler.
SendUnconfirmed(t) == LeftUnconfirmed(t, card)

KeepsTheDraft(d) == mail  \* mutant

\* _delete_quietly: the draft goes, unless it went already or the service
\* fails. Then take_back keeps the reply on its card alone again.
Deleted(d) == IF mail[d].where = "drafts" THEN [mail EXCEPT ![d].where = "deleted"] ELSE mail

DraftTakenBack(t) ==
  IF card.payload.draft = sender[t].draft
  THEN Updated(card, [card.payload EXCEPT !.draft = NoDraft, !.made = 0], card.payload)
  ELSE card

TapUndoes(t) ==
  /\ sender[t].pc \in {"takingback", "unmaking"}
  /\ \/ mail' = Deleted(sender[t].draft) /\ UNCHANGED troubles
     \/ Trouble /\ UNCHANGED mail
  /\ card' = Left(t, IF sender[t].pc = "takingback" THEN DraftTakenBack(t) ELSE card)
  /\ sender' = [sender EXCEPT ![t] = [NoSend EXCEPT !.pc = Over(t)]]
  /\ UNCHANGED <<sending, making, editing, NotSending>>
-----------------------------------------------------------------------------
\* card_drafts.edit and redraft: new words on the card, and in the mailbox
\* when the draft is there and still the version the card last saw.
SendPath == <<sender, sending, making, dismisser, scan, seenOnce, misjudged, replied,
              troubles>>

\* The bound: changes of the card's words and of the drafts.
MayChange ==
  card.payload.words + Cardinality({d \in DraftIds : mail[d].version > 1}) < MaxChanges

EditBegins ==
  /\ MayChange
  /\ editor.pc = "idle" /\ card.status = "proposed" /\ card.gate # "auto"
  /\ ~sending /\ ~editing /\ ~making
  /\ editing' = TRUE
  /\ editor' = [pc |-> "writing", start |-> card.payload, version |-> 0]
  /\ UNCHANGED <<card, mail, SendPath>>

EditOver == editing' = FALSE /\ editor' = NoEdit

LastSeen(p) == IF p.edited # 0 THEN p.edited ELSE p.made

EditRewrites ==
  LET d == editor.start.draft IN
  /\ editor.pc = "writing" /\ d # NoDraft
  /\ mail[d].where = "drafts" /\ mail[d].version = LastSeen(editor.start)
  /\ mail' = [mail EXCEPT ![d].version = @ + 1, ![d].swapped = \E t \in Senders :
                              sender[t].pc = "sending" /\ sender[t].draft = d]
  /\ editor' = [editor EXCEPT !.pc = "saving", !.version = mail[d].version + 1]
  /\ UNCHANGED <<card, editing, SendPath>>

EditSaves ==
  /\ \/ editor.pc = "saving"
     \/ /\ editor.pc = "writing" /\ editor.start.draft = NoDraft
  /\ card' = Updated(card,
                     [editor.start EXCEPT !.words = @ + 1,
                        !.edited = IF editor.pc = "saving" THEN editor.version ELSE @],
                     editor.start)
  /\ EditOver
  /\ UNCHANGED <<mail, SendPath>>

\* Changed or gone in the mailbox, or the service fails.
EditRefused ==
  LET d == editor.start.draft IN
  /\ editor.pc = "writing"
  /\ card' \in {card} \cup
       IF d # NoDraft /\ ~Readable(d) THEN {CloseUnlessSending(card)} ELSE {}
  /\ EditOver
  /\ UNCHANGED <<mail, SendPath>>
-----------------------------------------------------------------------------
\* Dismiss: the reject, then replies.dismiss deletes the draft nobody edited.
SendersAndScan ==
  <<sender, sending, making, editing, editor, scan, seenOnce, misjudged, replied,
    troubles>>

Reject ==
  /\ card.status = "proposed"
  /\ card' = MarkedResolved(card, "rejected")
  /\ dismisser' = [pc |-> IF CardOnly(card.payload) THEN "idle" ELSE "reading",
                   draft |-> card.payload.draft]
  /\ UNCHANGED <<mail, SendersAndScan>>

DismissReads ==
  LET d == dismisser.draft IN
  /\ dismisser.pc = "reading"
  /\ \/ /\ Readable(d) /\ mail[d].version \in {card.payload.made, card.payload.edited}
        /\ dismisser' = [dismisser EXCEPT !.pc = "deleting"]
     \/ dismisser' = [pc |-> "idle", draft |-> NoDraft]
  /\ UNCHANGED <<card, mail, SendersAndScan>>

DismissDeletes ==
  /\ dismisser.pc = "deleting"
  /\ mail' = Deleted(dismisser.draft)
  /\ dismisser' = [pc |-> "idle", draft |-> NoDraft]
  /\ UNCHANGED <<card, SendersAndScan>>
-----------------------------------------------------------------------------
\* reconcile and settle_sends, one person's scan at a time, the watcher's own
\* send being part of one. The cards are listed first: one listed while it was
\* being sent may be free again at its turn. One listed as proposed is taken in
\* its turn at once, since a tap can come after the turn as well as before it.
NotScanning == <<sender, sending, making, editing, editor, dismisser, mail, replied, troubles>>

ScanIdle == scan' = NoScan

ScanLists ==
  /\ scan.pc = "idle" /\ sender["own"].pc = "over" /\ card.status = "executing"
  /\ scan' = [pc |-> "listed", seen |-> card, gone |-> FALSE]
  /\ UNCHANGED <<card, seenOnce, misjudged, NotScanning>>

ScanPasses ==
  /\ scan.pc = "listed"
  /\ sending \/ CardOnly(scan.seen.payload)
  /\ UNCHANGED card /\ ScanIdle
  /\ UNCHANGED <<seenOnce, misjudged, NotScanning>>

ScanTurnsProposed ==
  /\ scan.pc = "idle" /\ sender["own"].pc = "over" /\ card.status = "proposed"
  /\ scan' = [pc |-> IF CardOnly(card.payload) THEN "read" ELSE "reading", seen |-> card,
              gone |-> FALSE]
  /\ UNCHANGED <<card, seenOnce, misjudged, NotScanning>>

ScanExpires ==
  /\ scan.pc = "idle" /\ sender["own"].pc = "over" /\ card.status = "proposed"
  /\ card' = CloseUnlessSending(card)
  /\ UNCHANGED <<scan, seenOnce, misjudged, NotScanning>>

ScanTurnsExecuting ==
  /\ scan.pc = "listed" /\ ~sending /\ ~CardOnly(scan.seen.payload)
  /\ scan' = [scan EXCEPT !.pc = "reading"]
  /\ UNCHANGED <<card, seenOnce, misjudged, NotScanning>>

ScanReads ==
  /\ scan.pc = "reading"
  /\ scan' = [scan EXCEPT !.pc = "read", !.gone = ~Readable(scan.seen.payload.draft)]
  /\ UNCHANGED <<card, seenOnce, misjudged, NotScanning>>

\* The thread is read, and a proposed card judged.
ReconcileDecides ==
  /\ scan.pc = "read" /\ scan.seen.status = "proposed"
  /\ card' = IF scan.gone \/ AnsweredMeanwhile THEN CloseUnlessSending(card) ELSE card
  /\ ScanIdle
  /\ UNCHANGED <<seenOnce, misjudged, NotScanning>>

ServiceSettled ==
  \A d \in DraftIds : mail[d].where # "going" /\ (mail[d].where = "sent" => mail[d].shown)

JudgesAtFirstSight == TRUE  \* mutant

WaitsForTheMessage == FALSE  \* mutant

\* The flag is there, so two scans in a row saw the same. Between the two the
\* service has settled the send and shows what it sent: the minutes are for that.
\* Only a release takes the flag away: one set while the send listed had already
\* been refused is still there at the first sight of a later one ("stale"),
\* which may then be under way (misjudged).
MayJudge == seenOnce = "stale" \/ (seenOnce = "once" /\ ServiceSettled)

MisjudgesIt == seenOnce = "stale" /\ card.status = "executing" /\ ~ServiceSettled

\* _settle_unconfirmed_send
SettleDecides ==
  /\ scan.pc = "read" /\ scan.seen.status = "executing" /\ ~sending
  /\ \/ /\ AnsweredMeanwhile
        /\ card' =
             ExecutionFinished(card, IF scan.seen.gate = "auto" THEN "executed" ELSE "approved")
        /\ UNCHANGED <<seenOnce, misjudged>>
     \/ /\ ~AnsweredMeanwhile /\ seenOnce = "no"
        /\ seenOnce' = IF card.status = "executing" THEN "once" ELSE "stale"
        /\ UNCHANGED <<card, misjudged>>
     \/ /\ ~AnsweredMeanwhile /\ MayJudge
        /\ misjudged' = (misjudged \/ MisjudgesIt)
        /\ IF scan.gone
           THEN card' = CloseUnlessSending(card) /\ UNCHANGED seenOnce
           ELSE /\ card' = Released(card)
                /\ seenOnce' = IF card.status = "executing" THEN "no" ELSE seenOnce
  /\ ScanIdle
  /\ UNCHANGED NotScanning

SettleLeaves ==
  /\ scan.pc = "read" /\ scan.seen.status = "executing" /\ sending
  /\ UNCHANGED card /\ ScanIdle
  /\ UNCHANGED <<seenOnce, misjudged, NotScanning>>
\* While the watcher cannot scan a call to the mailbox ends its turn.
ScanFails ==
  /\ holding /\ scan.pc # "idle"
  /\ ScanIdle
  /\ UNCHANGED <<card, seenOnce, misjudged, NotScanning>>
-----------------------------------------------------------------------------
\* The person in their own mailbox, and the mail service on its own.
Ours == <<card, sending, making, editing, sender, editor, dismisser, scan, seenOnce,
          misjudged, troubles>>

MailEdits(d) ==
  /\ mail[d].where = "drafts" /\ MayChange
  /\ mail' = [mail EXCEPT ![d].version = @ + 1, ![d].swapped = \E t \in Senders :
                              sender[t].pc = "sending" /\ sender[t].draft = d]
  /\ UNCHANGED <<replied, Ours>>

SelfHandles(d) ==
  /\ mail[d].where = "drafts"
  /\ \/ mail' = [mail EXCEPT ![d].where = "deleted"]
     \/ mail' = [mail EXCEPT ![d].where = "bySelf", ![d].shown = TRUE]
  /\ UNCHANGED <<replied, Ours>>

SelfReplies ==
  /\ ~replied /\ replied' = TRUE
  /\ UNCHANGED <<mail, Ours>>

MailSettles(d) ==
  /\ mail[d].where = "going"
  /\ \/ mail' = Goes(d, mail[d].checked)
     \/ mail' = [mail EXCEPT ![d].where = "drafts"]
  /\ UNCHANGED <<replied, Ours>>

MailShows(d) ==
  /\ mail[d].where = "sent" /\ ~mail[d].shown
  /\ mail' = [mail EXCEPT ![d].shown = TRUE]
  /\ UNCHANGED <<replied, Ours>>

AtTheService(t, d) ==
  sender[t].pc = "sending" /\ sender[t].draft = d /\ mail[d].where = "drafts"

\* The process stops: a send request that is out may still go.
ReplyCrash ==
  /\ \E t \in Senders : sender[t].pc # Over(t)
  /\ Trouble
  /\ mail' = [d \in DraftIds |->
                IF \E t \in Senders : AtTheService(t, d)
                THEN LET t == CHOOSE t \in Senders : AtTheService(t, d) IN
                     [mail[d] EXCEPT !.where = "going", !.checked = sender[t].version]
                ELSE mail[d]]
  /\ sender' = [t \in Senders |-> [NoSend EXCEPT !.pc = Over(t)]]
  /\ sending' = FALSE /\ making' = FALSE /\ editing' = FALSE
  /\ editor' = NoEdit
  /\ dismisser' = [pc |-> "idle", draft |-> NoDraft]
  /\ scan' = NoScan
  /\ UNCHANGED <<card, seenOnce, misjudged, replied>>
-----------------------------------------------------------------------------
SendNext(t) ==
  \/ TapReads(t) \/ TapMakes(t) \/ TapTurnedDown(t)
  \/ \E d \in DraftIds : DraftMade(t, d) \/ MakingUnconfirmed(t, d)
  \/ MakingFails(t) \/ TapReadsDraft(t) \/ TapFindsAnswer(t) \/ TapClaims(t)
  \/ TapRereads(t) \/ RereadFails(t) \/ MailSends(t) \/ TapFinishes(t)
  \/ SendRefused(t) \/ SendUnconfirmed(t) \/ TapUndoes(t)

EditNext == EditRewrites \/ EditSaves \/ EditRefused

DismissNext == DismissReads \/ DismissDeletes

ScanNext ==
  \/ ScanLists \/ ScanPasses \/ ScanTurnsProposed \/ ScanExpires
  \/ ScanTurnsExecuting \/ ScanReads
  \/ ReconcileDecides \/ SettleDecides \/ SettleLeaves \/ ScanFails

MailNext ==
  \/ \E d \in DraftIds : MailEdits(d) \/ SelfHandles(d) \/ MailSettles(d) \/ MailShows(d)
  \/ SelfReplies

ReplyNext ==
  \/ \E t \in Senders : TapBegins(t) \/ SendNext(t)
  \/ EditBegins \/ EditNext
  \/ Reject \/ DismissNext
  \/ ScanNext
  \/ MailNext
  \/ ReplyCrash

ReplySpec == ReplyInit /\ [][ReplyNext]_replyVars

\* Each request runs on, the watcher gets to its own send, and the mail
\* service settles what it was asked.
RequestsRunOn ==
  /\ WF_replyVars(\E t \in Senders : SendNext(t))
  /\ WF_replyVars(\E d \in DraftIds : MailSettles(d) \/ MailShows(d))

\* While nothing holds it the watcher scans every few minutes, and sends on its
\* own. Holding stands here for a client slot that is active and a mailbox that
\* is disconnected too; "Check now" scans all the same.
WatcherScans ==
  /\ WF_replyVars(~holding /\ ScanNext)
  /\ WF_replyVars(~holding /\ TapBegins("own"))

FairReplySpec == ReplySpec /\ RequestsRunOn /\ WatcherScans
-----------------------------------------------------------------------------
ReplyTypeOK ==
  /\ card \in ReplyCard
  /\ {sending, making, editing, misjudged, replied} \subseteq BOOLEAN
  /\ seenOnce \in {"no", "once", "stale"}
  /\ sender \in [Senders -> Sender]
  /\ editor \in [pc : {"idle", "writing", "saving"}, start : Payload, version : Nat]
  /\ dismisser \in [pc : {"idle", "reading", "deleting"}, draft : 0..MaxDrafts]
  /\ scan \in [pc : {"idle", "listed", "reading", "read"}, seen : ReplyCard, gone : BOOLEAN]
  /\ mail \in [DraftIds -> MailDraft]
  /\ troubles \in Nat

\* However many taps, scans and the watcher's own send fall together, one of
\* them at most is past the claim, the card is executing and in SENDING then,
\* and nobody else closes or releases it under the send.
ClaimIsExclusive ==
  \A t \in Senders : sender[t].pc \in {"rereading", "sending", "went"} =>
    /\ sending /\ card.status = "executing"
    /\ \A u \in Senders \ {t} : sender[u].pc \notin {"rereading", "sending", "went"}

\* One reply goes for a card, whatever was made, taken back and made again,
\* unless the reconciler judged a send under way by a stale flag.
OneMessagePerCard ==
  ~misjudged => Cardinality({d \in DraftIds : mail[d].where = "sent"}) <= 1

\* What the card says became of its reply is right: sent means that a message
\* of theirs is in the thread, from here or their own mailbox; dismissed, that
\* none goes from here any more, of however many requests for one (unless
\* one of them was misjudged).
ReplyCardIsRight ==
  /\ card.status \in {"approved", "executed"} =>
       replied \/ \E d \in DraftIds : mail[d].where \in {"sent", "bySelf"}
  /\ card.status = "rejected" /\ ~misjudged =>
       \A d \in DraftIds : mail[d].where \notin {"going", "sent"}

\* What goes is the version the checks read, unless it changed while the
\* service had the request.
SentAsChecked ==
  \A d \in DraftIds :
    mail[d].where = "sent" /\ ~mail[d].swapped => mail[d].version = mail[d].checked

\* No request leaves a draft behind that no card and no request knows of,
\* unless the process or the service failed it.
NoDraftLeftBehind ==
  troubles = 0 =>
    \A d \in DraftIds : mail[d].where = "drafts" =>
      \/ card.payload.draft = d
      \/ \E t \in Senders : sender[t].draft = d /\ sender[t].pc # Over(t)

\* A send nobody confirmed is settled by the watcher, once it scans for good.
UnconfirmedSettles ==
  <>[]~holding =>
    (card.status = "executing" /\ card.payload.draft # NoDraft ~> card.status # "executing")

\* The card, what is under way for it, and what went, as CardPromise sees them.
ReplyStanding ==
  CASE card.status = "proposed" -> "offered"
    [] card.status = "executing" -> "taken"
    [] OTHER -> "over"

ReplyUnderWay ==
  \/ \E t \in Senders : sender[t].pc = "sending"
  \/ \E d \in DraftIds : mail[d].where = "going"

SentDrafts == {d \in DraftIds : mail[d].where = "sent"}

ReplyPromise == INSTANCE CardPromise WITH
  Cards <- {"reply"},
  Deeds <- {"mail"},
  standing <- [c \in {"reply"} |-> ReplyStanding],
  atWork <- {c \in {"reply"} : ReplyUnderWay},
  times <- [c \in {"reply"} |-> [i \in {"mail"} |-> Cardinality(SentDrafts)]]

\* Through taps, scans, refusals, lost answers and crashes: a reply goes only
\* from a card taken for it, and once, and the card is offered again only
\* while none went and no request for one can still go, up to the first send
\* the reconciler misjudged.
ReplyKeepsPromise ==
  /\ ReplyPromise!PromiseInit
  /\ [][misjudged' \/ ReplyPromise!PromiseNext]_(ReplyPromise!promiseVars)

=============================================================================
