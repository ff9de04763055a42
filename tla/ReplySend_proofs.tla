-------------------------- MODULE ReplySend_proofs --------------------------
(***************************************************************************)
(* Proofs about ReplySend, for any taps, drafts, changes, and troubles of  *)
(* the process and of the mail service.                                    *)
(***************************************************************************)
EXTENDS ReplySend, FiniteSetTheorems, TLAPS

-----------------------------------------------------------------------------
(* The inductive invariant *)

Claimant(t) == sender[t].pc \in {"rereading", "sending", "went"}

\* A send request that was or may be carried out.
Out(d) == mail[d].where \in {"going", "sent"}

HasDraft(t) ==
  \/ sender[t].pc \in {"reading", "thread", "rereading", "sending", "went", "unmaking",
                       "takingback"}
  \/ sender[t].made

\* Types, and who names a draft names one there can be.
ReplyShape == ReplyTypeOK /\ \A t \in Senders : HasDraft(t) => sender[t].draft \in DraftIds

\* What a sender past the claim relies on.
SenderFits(t) ==
  LET d == sender[t].draft IN
  /\ Claimant(t) =>
       /\ sending /\ card.status = "executing"
       /\ \A u \in Senders \ {t} : ~Claimant(u)
  /\ sender[t].pc = "went" => mail[d].where = "sent"
  /\ sender[t].pc = "sending" =>
       /\ mail[d].where # "none"
       /\ Readable(d) /\ ~mail[d].swapped => mail[d].version = sender[t].version

\* Once a request is out, the card is not on offer, nobody is about to send,
\* and no other draft is out, as long as none was misjudged. Misjudged or not,
\* it goes as it was checked.
DraftFits(d) ==
  /\ Out(d) /\ ~misjudged =>
       /\ card.status # "proposed"
       /\ \A t \in Senders : sender[t].pc \notin {"rereading", "sending"}
       /\ mail[d].where = "going" => \A t \in Senders : ~Claimant(t)
       /\ \A e \in DraftIds : Out(e) => e = d
  /\ Out(d) /\ ~mail[d].swapped => mail[d].version = mail[d].checked
  /\ mail[d].shown => mail[d].where \in {"sent", "bySelf"}

ReplyInv ==
  /\ ReplyShape
  /\ \A t \in Senders : SenderFits(t)
  /\ \A d \in DraftIds : DraftFits(d)
  /\ ReplyCardIsRight

-----------------------------------------------------------------------------
(* The statements of the ledger *)

LEMMA PayloadTypes ==
  /\ NoPayload \in Payload
  /\ \A p \in Payload, d \in 0..MaxDrafts :
       [p EXCEPT !.draft = d, !.made = 1] \in Payload
  /\ \A p \in Payload, d \in 0..MaxDrafts :
       [p EXCEPT !.draft = NoDraft, !.made = 0] \in Payload
  /\ \A p \in Payload, w \in Nat, e \in Nat : [p EXCEPT !.words = w, !.edited = e] \in Payload
<1>0. 0 \in 0..MaxDrafts /\ 0 \in Nat /\ 1 \in Nat
  BY ReplyAssumption
<1>1. NoPayload \in Payload
  BY <1>0 DEF NoPayload, Payload, NoDraft
<1>2. ASSUME NEW p \in Payload, NEW d \in 0..MaxDrafts, NEW n \in Nat
      PROVE  [p EXCEPT !.draft = d, !.made = n] \in Payload
  BY DEF Payload
<1>3. ASSUME NEW p \in Payload, NEW w \in Nat, NEW e \in Nat
      PROVE  [p EXCEPT !.words = w, !.edited = e] \in Payload
  BY DEF Payload
<1> QED
  BY <1>0, <1>1, <1>2, <1>3 DEF NoDraft

LEMMA ReplyRowTypes ==
  ASSUME NEW r \in ReplyCard
  PROVE  /\ ClaimedCard(r) \in ReplyCard
         /\ Released(r) \in ReplyCard
         /\ ClosedCard(r) \in ReplyCard
         /\ MarkedResolved(r, "rejected") \in ReplyCard
         /\ \A how \in {"approved", "executed"} : ExecutionFinished(r, how) \in ReplyCard
         /\ \A p, q \in Payload : Updated(r, p, q) \in ReplyCard
         /\ \A p \in Payload : HandedBack(r, p) \in ReplyCard
  BY DEF ReplyCard, LedgerStatuses, ClaimedCard, Released, ClosedCard, MarkedResolved,
     ExecutionFinished, Updated, HandedBack

LEMMA ReplyEffects ==
  ASSUME NEW r \in ReplyCard
  PROVE  /\ ClaimedCard(r).status = IF r.status = "proposed" THEN "executing" ELSE r.status
         /\ Released(r).status = IF r.status = "executing" THEN "proposed" ELSE r.status
         /\ ClosedCard(r).status = IF r.status \in {"proposed", "executing"} THEN "closed" ELSE r.status
         /\ MarkedResolved(r, "rejected").status = IF r.status = "proposed" THEN "rejected" ELSE r.status
         /\ \A how : ExecutionFinished(r, how).status = IF r.status = "executing" THEN how ELSE r.status
         /\ \A p, q : Updated(r, p, q).status = r.status
         /\ \A p : HandedBack(r, p).status = r.status
  BY DEF ReplyCard, OpenCard, ClaimedCard, Released, ClosedCard, MarkedResolved,
     ExecutionFinished, Updated, HandedBack

LEMMA UpdateEffects ==
  ASSUME NEW r \in ReplyCard, NEW p \in Payload, NEW q \in Payload
  PROVE  Updated(r, p, q) \in ReplyCard /\ Updated(r, p, q).status = r.status
BY ReplyRowTypes, ReplyEffects

LEMMA LeftEffects ==
  ASSUME ReplyTypeOK, NEW t \in Senders, NEW r \in ReplyCard
  PROVE  Left(t, r) \in ReplyCard /\ Left(t, r).status = r.status
<1>1. sender[t].start \in Payload
  BY DEF ReplyTypeOK, Sender
<1> QED
  BY <1>1, ReplyRowTypes, ReplyEffects DEF Left

LEMMA CloseEffects ==
  ASSUME NEW r \in ReplyCard
  PROVE  /\ CloseUnlessSending(r) \in ReplyCard
         /\ CloseUnlessSending(r).status = r.status \/ (~sending /\ CloseUnlessSending(r).status = "closed")
  BY ReplyRowTypes, ReplyEffects DEF CloseUnlessSending

-----------------------------------------------------------------------------
(* Who moves, and how *)

\* One sender moves, to a place and a draft of its own.
OneMoves(t) ==
  /\ sender' \in [Senders -> Sender]
  /\ \A u \in Senders : u # t => sender'[u] = sender[u]
  /\ HasDraft(t)' => sender'[t].draft \in DraftIds

LEMMA SenderSet ==
  ASSUME ReplyShape, NEW t \in Senders, NEW s \in Sender,
         sender' = [sender EXCEPT ![t] = s],
         s.made \/ s.pc \notin {"idle", "checking", "making", "over"} => s.draft \in DraftIds
  PROVE  OneMoves(t) /\ sender'[t] = s
<1>1. sender \in [Senders -> Sender]
  BY DEF ReplyShape, ReplyTypeOK
<1>2. sender' \in [Senders -> Sender] /\ sender'[t] = s
  BY <1>1
<1>3. \A u \in Senders : u # t => sender'[u] = sender[u]
  BY <1>1
<1> QED
  BY <1>2, <1>3 DEF OneMoves, HasDraft

LEMMA SenderSettles ==
  ASSUME ReplyShape, NEW t \in Senders,
         sender' = [sender EXCEPT ![t] = [NoSend EXCEPT !.pc = Over(t)]]
  PROVE  OneMoves(t) /\ sender'[t].pc = Over(t) /\ Over(t) \in {"idle", "over"}
<1> DEFINE s == [NoSend EXCEPT !.pc = Over(t)]
<1>0. Over(t) \in {"idle", "over"} /\ 0 \in 0..MaxDrafts
  BY ReplyAssumption DEF Over
<1>3a. NoSend \in Sender /\ ~NoSend.made
  BY <1>0, PayloadTypes DEF NoSend, Sender, SenderPcs, NoDraft
<1>1. s \in Sender /\ s.pc = Over(t) /\ ~s.made /\ Over(t) \in {"idle", "over"}
  BY <1>0, <1>3a DEF Sender, SenderPcs
<1>2. sender' = [sender EXCEPT ![t] = s]
  OBVIOUS
<1> HIDE DEF s
<1>3. s.made \/ s.pc \notin {"idle", "checking", "making", "over"} => s.draft \in DraftIds
  BY <1>1
<1> QED
  BY <1>1, <1>2, <1>3, SenderSet

LEMMA SenderMoves ==
  ASSUME ReplyShape, NEW t \in Senders, NEW pc \in SenderPcs, Moves(t, pc),
         pc \notin {"idle", "checking", "making", "over"} => HasDraft(t)
  PROVE  OneMoves(t) /\ sender'[t] = [sender[t] EXCEPT !.pc = pc] /\ sender'[t].pc = pc
<1> DEFINE s == [sender[t] EXCEPT !.pc = pc]
<1>1. sender[t] \in Sender
  BY DEF ReplyShape, ReplyTypeOK
<1>2. s \in Sender /\ s.pc = pc /\ s.draft = sender[t].draft /\ s.made = sender[t].made
  BY <1>1 DEF Sender
<1>3. sender' = [sender EXCEPT ![t] = s]
  BY DEF Moves
<1> HIDE DEF s
<1>4. s.made \/ s.pc \notin {"idle", "checking", "making", "over"} => s.draft \in DraftIds
  BY <1>2 DEF ReplyShape, HasDraft
<1>5. OneMoves(t) /\ sender'[t] = s
  BY <1>2, <1>3, <1>4, SenderSet
<1> QED
  BY <1>2, <1>5 DEF s

LEMMA RefuseEffects ==
  ASSUME ReplyShape, NEW t \in Senders, NEW r \in ReplyCard, Refuse(t, r)
  PROVE  /\ OneMoves(t) /\ sender'[t].pc \in {"idle", "over", "takingback"}
         /\ card' \in ReplyCard /\ card'.status = r.status
<1>1. CASE sender[t].made
  <2>1. Moves(t, "takingback") /\ card' = r
    BY <1>1 DEF Refuse
  <2>2. "takingback" \in SenderPcs /\ HasDraft(t)
    BY <1>1 DEF SenderPcs, HasDraft
  <2> QED
    BY <2>1, <2>2, SenderMoves
<1>2. CASE ~sender[t].made
  <2>1. sender' = [sender EXCEPT ![t] = [NoSend EXCEPT !.pc = Over(t)]] /\ card' = Left(t, r)
    BY <1>2 DEF Refuse
  <2>2. OneMoves(t) /\ sender'[t].pc \in {"idle", "over"}
    BY <2>1, SenderSettles
  <2> QED
    BY <2>1, <2>2, LeftEffects DEF ReplyShape
<1> QED
  BY <1>1, <1>2

-----------------------------------------------------------------------------
(* Steps that carry no send on *)

QuietSender(t) ==
  \/ sender'[t] = sender[t]
  \/ ~Claimant(t) /\ sender'[t].pc \notin {"rereading", "sending", "went"}

QuietCard ==
  \/ card'.status = card.status
  \/ ~sending /\ card'.status = "closed"
  \/ card.status = "proposed" /\ card'.status = "rejected"
  \/ ~sending /\ card'.status \in {"approved", "executed"} /\ AnsweredMeanwhile
  \/ ~sending /\ card'.status = "proposed" /\ (misjudged' \/ \A d \in DraftIds : ~Out(d))

\* What a step may do to a draft without a send request being made.
QuietDraft(d) ==
  /\ mail'[d].where \in {"going", "sent"} =>
       /\ mail[d].where = mail'[d].where \/ mail[d].where = "going"
       /\ mail'[d].version = mail[d].version /\ mail'[d].checked = mail[d].checked
       /\ mail'[d].swapped = mail[d].swapped
  /\ mail'[d].shown => mail'[d].where \in {"sent", "bySelf"}
  /\ mail[d].where # "none" => mail'[d].where # "none"
  /\ mail[d].where \in {"sent", "bySelf"} => mail'[d].where = mail[d].where
  /\ \A t \in Senders :
       /\ sender[t].pc = "sending" /\ sender[t].draft = d
       /\ Readable(d)' /\ ~mail'[d].swapped
       => Readable(d) /\ ~mail[d].swapped /\ mail'[d].version = mail[d].version

QuietReply ==
  /\ ReplyShape' /\ sending' = sending
  /\ \A t \in Senders : QuietSender(t)
  /\ QuietCard
  /\ \A d \in DraftIds : QuietDraft(d)
  /\ replied => replied'
  /\ misjudged => misjudged'

LEMMA ReplyQuietKeeps ==
  ASSUME ReplyInv, QuietReply
  PROVE  ReplyInv'
<1>1. \A t \in Senders : Claimant(t)' => Claimant(t) /\ sender'[t] = sender[t]
  BY DEF QuietReply, QuietSender, Claimant
<1>2. \A t \in Senders : Claimant(t) => sending /\ card.status = "executing"
  BY DEF ReplyInv, SenderFits
<1>3. (\E t \in Senders : Claimant(t)) => card'.status = "executing"
  BY <1>2 DEF QuietReply, QuietCard
<1>4. \A d \in DraftIds : Out(d)' => Out(d)
  BY DEF QuietReply, QuietDraft, Out
<1>5. ASSUME NEW t \in Senders
      PROVE  SenderFits(t)'
  <2>1. Claimant(t)' => /\ sending' /\ card'.status = "executing"
                        /\ \A u \in Senders \ {t} : ~Claimant(u)'
    BY <1>1, <1>2, <1>3, <1>5 DEF QuietReply, ReplyInv, SenderFits
  <2>2. ASSUME sender'[t].pc = "went"
        PROVE  mail'[sender'[t].draft].where = "sent"
    <3>1. sender'[t] = sender[t] /\ sender[t].pc = "went"
      BY <1>1, <2>2 DEF Claimant
    <3>2. sender[t].draft \in DraftIds /\ mail[sender[t].draft].where = "sent"
      BY <3>1 DEF ReplyInv, ReplyShape, HasDraft, SenderFits
    <3> QED
      BY <3>1, <3>2 DEF QuietReply, QuietDraft
  <2>3. ASSUME sender'[t].pc = "sending"
        PROVE  /\ mail'[sender'[t].draft].where # "none"
               /\ Readable(sender[t].draft)' /\ ~mail'[sender'[t].draft].swapped =>
                    mail'[sender'[t].draft].version = sender'[t].version
    <3>1. sender'[t] = sender[t] /\ sender[t].pc = "sending"
      BY <1>1, <2>3 DEF Claimant
    <3> DEFINE d == sender[t].draft
    <3>2. d \in DraftIds /\ mail[d].where # "none"
          /\ (Readable(d) /\ ~mail[d].swapped => mail[d].version = sender[t].version)
      BY <3>1 DEF ReplyInv, ReplyShape, HasDraft, SenderFits
    <3>3. QuietDraft(d)
      BY <3>2 DEF QuietReply
    <3> QED
      BY <3>1, <3>2, <3>3 DEF QuietDraft, Readable
  <2> QED
    BY <2>1, <2>2, <2>3 DEF SenderFits, Claimant
<1>6. ASSUME NEW d \in DraftIds
      PROVE  DraftFits(d)'
  <2>1. QuietDraft(d) /\ DraftFits(d)
    BY DEF QuietReply, ReplyInv
  <2>2. mail'[d].shown => mail'[d].where \in {"sent", "bySelf"}
    BY <2>1 DEF QuietDraft, Readable
  <2>3. Out(d)' /\ ~mail'[d].swapped => mail'[d].version = mail'[d].checked
    BY <1>4, <2>1 DEF QuietDraft, DraftFits, Out
  <2>4. ASSUME Out(d)', ~misjudged'
        PROVE  /\ card'.status # "proposed"
               /\ \A t \in Senders : sender'[t].pc \notin {"rereading", "sending"}
               /\ mail'[d].where = "going" => \A t \in Senders : ~Claimant(t)'
               /\ \A e \in DraftIds : Out(e)' => e = d
    <3>1. Out(d) /\ ~misjudged
      BY <1>4, <2>4 DEF QuietReply
    <3>2. card'.status # "proposed"
      BY <2>1, <2>4, <3>1 DEF QuietReply, QuietCard, DraftFits
    <3>3. \A t \in Senders : sender'[t].pc \notin {"rereading", "sending"}
      BY <1>1, <2>1, <3>1 DEF DraftFits, Claimant
    <3>4. mail'[d].where = "going" => \A t \in Senders : ~Claimant(t)'
      BY <1>1, <2>1, <3>1 DEF DraftFits, QuietDraft, Out
    <3>5. \A e \in DraftIds : Out(e)' => e = d
      BY <1>4, <2>1, <3>1 DEF DraftFits
    <3> QED
      BY <3>2, <3>3, <3>4, <3>5
  <2> QED
    BY <2>2, <2>3, <2>4 DEF DraftFits, Out
<1>7. ReplyCardIsRight'
  <2>1. \A d \in DraftIds : mail[d].where \in {"sent", "bySelf"} => mail'[d].where \in {"sent", "bySelf"}
    BY DEF QuietReply, QuietDraft
  <2>2. \A d \in DraftIds : mail[d].shown => mail[d].where \in {"sent", "bySelf"}
    BY DEF ReplyInv, DraftFits
  <2>3. AnsweredMeanwhile => replied' \/ \E d \in DraftIds : mail'[d].where \in {"sent", "bySelf"}
    BY <2>1, <2>2 DEF AnsweredMeanwhile, QuietReply
  <2>4. card.status \in {"approved", "executed"} =>
          replied' \/ \E d \in DraftIds : mail'[d].where \in {"sent", "bySelf"}
    BY <2>1 DEF ReplyInv, ReplyCardIsRight, QuietReply
  <2>5. card'.status \in {"approved", "executed"} =>
          replied' \/ \E d \in DraftIds : mail'[d].where \in {"sent", "bySelf"}
    BY <2>3, <2>4 DEF QuietReply, QuietCard
  <2>6. card'.status = "rejected" => card.status \in {"rejected", "proposed"}
    BY DEF QuietReply, QuietCard
  <2>7. card.status \in {"rejected", "proposed"} /\ ~misjudged => \A d \in DraftIds : ~Out(d)
    BY DEF ReplyInv, ReplyCardIsRight, DraftFits, Out
  <2>8. card'.status = "rejected" /\ ~misjudged' =>
          \A d \in DraftIds : mail'[d].where \notin {"going", "sent"}
    BY <1>4, <2>6, <2>7 DEF QuietReply, Out
  <2> QED
    BY <2>5, <2>8 DEF ReplyCardIsRight
<1> QED
  BY <1>5, <1>6, <1>7 DEF ReplyInv, QuietReply

-----------------------------------------------------------------------------
(* Changes of the mailbox that carry no send on *)

LEMMA MailStays ==
  ASSUME ReplyInv, mail' = mail
  PROVE  mail' \in [DraftIds -> MailDraft] /\ \A d \in DraftIds : QuietDraft(d)
BY DEF ReplyInv, ReplyShape, ReplyTypeOK, DraftFits, QuietDraft, Readable

\* One draft changes.
LEMMA OneDraft ==
  ASSUME ReplyInv, NEW d \in DraftIds, NEW m \in MailDraft, mail' = [mail EXCEPT ![d] = m],
         QuietDraft(d)
  PROVE  mail' \in [DraftIds -> MailDraft] /\ \A e \in DraftIds : QuietDraft(e)
<1>1. mail \in [DraftIds -> MailDraft]
  BY DEF ReplyInv, ReplyShape, ReplyTypeOK
<1>2. mail' \in [DraftIds -> MailDraft] /\ \A e \in DraftIds : e # d => mail'[e] = mail[e]
  BY <1>1
<1>3. ASSUME NEW e \in DraftIds, e # d
      PROVE  QuietDraft(e)
  BY <1>2, <1>3 DEF ReplyInv, DraftFits, QuietDraft, Readable
<1> QED
  BY <1>2, <1>3

LEMMA MailDeleted ==
  ASSUME ReplyInv, NEW d, mail' = Deleted(d)
  PROVE  mail' \in [DraftIds -> MailDraft] /\ \A e \in DraftIds : QuietDraft(e)
<1>1. CASE d \in DraftIds /\ mail[d].where = "drafts"
  <2> DEFINE m == [mail[d] EXCEPT !.where = "deleted"]
  <2>1. mail \in [DraftIds -> MailDraft] /\ mail[d] \in MailDraft /\ ~mail[d].shown
    BY <1>1 DEF ReplyInv, ReplyShape, ReplyTypeOK, DraftFits
  <2>2. m \in MailDraft /\ m.where = "deleted" /\ ~m.shown
    BY <2>1 DEF MailDraft
  <2>3. mail' = [mail EXCEPT ![d] = m]
    BY <1>1 DEF Deleted
  <2> HIDE DEF m
  <2>4. QuietDraft(d)
    BY <1>1, <2>1, <2>2, <2>3 DEF QuietDraft, Readable
  <2> QED
    BY <1>1, <2>2, <2>3, <2>4, OneDraft
<1>2. CASE d \in DraftIds /\ mail[d].where # "drafts"
  BY <1>2, MailStays DEF Deleted
<1>3. CASE d \notin DraftIds
  <2>1. mail \in [DraftIds -> MailDraft]
    BY DEF ReplyInv, ReplyShape, ReplyTypeOK
  <2>2. mail' = mail
    BY <1>3, <2>1 DEF Deleted
  <2> QED
    BY <2>2, MailStays
<1> QED
  BY <1>1, <1>2, <1>3

LEMMA MailMade ==
  ASSUME ReplyInv, NEW d \in DraftIds, mail[d].where = "none",
         mail' = [mail EXCEPT ![d].where = "drafts", ![d].version = 1]
  PROVE  mail' \in [DraftIds -> MailDraft] /\ \A e \in DraftIds : QuietDraft(e)
<1> DEFINE m == [mail[d] EXCEPT !.where = "drafts", !.version = 1]
<1>1. mail \in [DraftIds -> MailDraft] /\ mail[d] \in MailDraft /\ ~mail[d].shown
  BY DEF ReplyInv, ReplyShape, ReplyTypeOK, DraftFits
<1>2. m \in MailDraft /\ m.where = "drafts" /\ ~m.shown
  BY <1>1 DEF MailDraft
<1>3. mail' = [mail EXCEPT ![d] = m]
  OBVIOUS
<1> HIDE DEF m
<1>4. \A t \in Senders : ~(sender[t].pc = "sending" /\ sender[t].draft = d)
  BY DEF ReplyInv, SenderFits
<1>5. QuietDraft(d)
  BY <1>1, <1>2, <1>3, <1>4 DEF QuietDraft, Readable
<1> QED
  BY <1>2, <1>3, <1>5, OneDraft

\* A draft somebody rewrites is a new version, noted when a request is out.
LEMMA MailRewritten ==
  ASSUME ReplyInv, NEW d \in DraftIds, mail[d].where = "drafts",
         mail' = [mail EXCEPT ![d].version = @ + 1, ![d].swapped = \E t \in Senders :
                                 sender[t].pc = "sending" /\ sender[t].draft = d]
  PROVE  mail' \in [DraftIds -> MailDraft] /\ \A e \in DraftIds : QuietDraft(e)
<1> DEFINE v == mail[d].version + 1
           w == \E t \in Senders : sender[t].pc = "sending" /\ sender[t].draft = d
           m == [mail[d] EXCEPT !.version = v, !.swapped = w]
<1>1. mail \in [DraftIds -> MailDraft] /\ mail[d] \in MailDraft /\ ~mail[d].shown
  BY DEF ReplyInv, ReplyShape, ReplyTypeOK, DraftFits
<1>2. v \in Nat /\ w \in BOOLEAN
  BY <1>1 DEF MailDraft
<1>3. \A t \in Senders : sender[t].pc = "sending" /\ sender[t].draft = d => w
  OBVIOUS
<1>4. mail' = [mail EXCEPT ![d].version = v, ![d].swapped = w]
  OBVIOUS
<1> HIDE DEF v, w
<1>5. mail' = [mail EXCEPT ![d] = m]
  BY <1>1, <1>4
<1>6. m \in MailDraft /\ m.where = "drafts" /\ ~m.shown /\ m.swapped = w
  BY <1>1, <1>2 DEF MailDraft
<1> HIDE DEF m
<1>7. mail'[d] = m
  BY <1>1, <1>5
<1>8. QuietDraft(d)
  BY <1>1, <1>3, <1>6, <1>7 DEF QuietDraft, Readable
<1> QED
  BY <1>5, <1>6, <1>8, OneDraft

-----------------------------------------------------------------------------
(* The steps of the send path before the claim *)

LEMMA TapIsQuiet ==
  ASSUME ReplyInv, NEW t \in Senders, OneMoves(t), ~Claimant(t),
         sender'[t].pc \notin {"rereading", "sending", "went"},
         card' \in ReplyCard, QuietCard, sending' = sending, making' \in BOOLEAN,
         editing' \in BOOLEAN,
         mail' \in [DraftIds -> MailDraft], \A d \in DraftIds : QuietDraft(d),
         troubles' \in Nat, UNCHANGED NotSending
  PROVE  QuietReply
<1>1. \A u \in Senders : QuietSender(u)
  BY DEF OneMoves, QuietSender
<1>2. \A u \in Senders : HasDraft(u)' => sender'[u].draft \in DraftIds
  BY DEF OneMoves, HasDraft, ReplyInv, ReplyShape
<1>3. ReplyTypeOK'
  BY DEF ReplyInv, ReplyShape, ReplyTypeOK, NotSending, OneMoves
<1> QED
  BY <1>1, <1>2, <1>3 DEF QuietReply, ReplyShape, NotSending

LEMMA TroubleType ==
  ASSUME ReplyInv, Trouble \/ troubles' = troubles
  PROVE  troubles' \in Nat
BY DEF ReplyInv, ReplyShape, ReplyTypeOK, Trouble

\* A request that is turned down before its claim.
LEMMA RefusedIsQuiet ==
  ASSUME ReplyInv, NEW t \in Senders, ~Claimant(t), NEW r \in ReplyCard, Refuse(t, r),
         r.status = card.status \/ (~sending /\ r.status = "closed"),
         sending' = sending, making' \in BOOLEAN, editing' = editing,
         mail' \in [DraftIds -> MailDraft], \A d \in DraftIds : QuietDraft(d),
         troubles' \in Nat, UNCHANGED NotSending
  PROVE  QuietReply
<1>1. ReplyShape /\ editing \in BOOLEAN
  BY DEF ReplyInv, ReplyShape, ReplyTypeOK
<1>2. /\ OneMoves(t) /\ sender'[t].pc \in {"idle", "over", "takingback"}
      /\ card' \in ReplyCard /\ card'.status = r.status
  BY <1>1, RefuseEffects
<1>3. QuietCard
  BY <1>2 DEF QuietCard
<1> QED
  BY <1>1, <1>2, <1>3, TapIsQuiet

LEMMA BeforeTheClaim ==
  ASSUME ReplyInv, NEW t \in Senders,
         \/ TapBegins(t) \/ TapReads(t) \/ TapMakes(t) \/ TapTurnedDown(t)
         \/ \E d \in DraftIds : DraftMade(t, d) \/ MakingUnconfirmed(t, d)
         \/ MakingFails(t) \/ TapReadsDraft(t) \/ TapFindsAnswer(t) \/ TapUndoes(t)
  PROVE  QuietReply
<1>0. /\ ReplyShape /\ ReplyTypeOK /\ card \in ReplyCard /\ card.payload \in Payload
      /\ sending \in BOOLEAN /\ making \in BOOLEAN /\ editing \in BOOLEAN /\ troubles \in Nat
      /\ sender[t] \in Sender /\ sender[t].start \in Payload
      /\ 0 \in 0..MaxDrafts /\ 1 \in Nat
  BY ReplyAssumption DEF ReplyInv, ReplyShape, ReplyTypeOK, ReplyCard, Sender
<1>1. CASE TapBegins(t)
  <2> DEFINE s == [NoSend EXCEPT !.pc = "checking", !.start = card.payload]
  <2>1. NoSend \in Sender /\ ~NoSend.made
    BY <1>0, PayloadTypes DEF NoSend, Sender, SenderPcs, NoDraft
  <2>2. s \in Sender /\ s.pc = "checking" /\ ~s.made
    BY <1>0, <2>1 DEF Sender, SenderPcs
  <2>3. sender' = [sender EXCEPT ![t] = s]
    BY <1>1 DEF TapBegins
  <2> HIDE DEF s
  <2>4. OneMoves(t) /\ sender'[t] = s
    BY <1>0, <2>2, <2>3, SenderSet
  <2>5. ~Claimant(t) /\ QuietCard
    BY <1>1 DEF TapBegins, Claimant, QuietCard
  <2> QED
    BY <1>0, <1>1, <2>2, <2>4, <2>5, MailStays, TapIsQuiet DEF TapBegins
<1>2. CASE TapReads(t)
  <2> DEFINE s == [sender[t] EXCEPT !.pc = "reading", !.draft = sender[t].start.draft]
  <2>1. sender[t].start.draft \in DraftIds
    BY <1>0, <1>2, ReplyAssumption DEF TapReads, CardOnly, NoDraft, Payload, DraftIds
  <2>1a. sender[t].start.draft \in 0..MaxDrafts
    BY <1>0 DEF Payload
  <2>2. s \in Sender /\ s.pc = "reading" /\ s.draft = sender[t].start.draft
    BY <1>0, <2>1a DEF Sender, SenderPcs
  <2>3. sender' = [sender EXCEPT ![t] = s]
    BY <1>0, <1>2 DEF TapReads, ReplyTypeOK
  <2> HIDE DEF s
  <2>4. OneMoves(t) /\ sender'[t] = s
    BY <1>0, <2>1, <2>2, <2>3, SenderSet
  <2>5. ~Claimant(t) /\ QuietCard
    BY <1>2 DEF TapReads, Claimant, QuietCard
  <2> QED
    BY <1>0, <1>2, <2>2, <2>4, <2>5, MailStays, TapIsQuiet DEF TapReads
<1>3. CASE TapMakes(t)
  <2> DEFINE s == [sender[t] EXCEPT !.pc = "making", !.start = card.payload]
  <2>2. s \in Sender /\ s.pc = "making" /\ s.draft = sender[t].draft /\ s.made = sender[t].made
    BY <1>0 DEF Sender, SenderPcs
  <2>3. sender' = [sender EXCEPT ![t] = s]
    BY <1>0, <1>3 DEF TapMakes, ReplyTypeOK
  <2> HIDE DEF s
  <2>4. s.made \/ s.pc \notin {"idle", "checking", "making", "over"} => s.draft \in DraftIds
    BY <1>0, <2>2 DEF ReplyShape, HasDraft
  <2>5. OneMoves(t) /\ sender'[t] = s
    BY <1>0, <2>2, <2>3, <2>4, SenderSet
  <2>6. ~Claimant(t) /\ QuietCard
    BY <1>3 DEF TapMakes, Claimant, QuietCard
  <2> QED
    BY <1>0, <1>3, <2>2, <2>5, <2>6, MailStays, TapIsQuiet DEF TapMakes
<1>4. CASE TapTurnedDown(t)
  <2>1. ~Claimant(t) /\ Refuse(t, card) /\ sending' = sending /\ making' \in BOOLEAN
        /\ editing' = editing /\ troubles' \in Nat /\ mail' = mail /\ UNCHANGED NotSending
    BY <1>0, <1>4 DEF TapTurnedDown, Claimant
  <2> QED
    BY <1>0, <1>4, <2>1, MailStays, RefusedIsQuiet DEF TapTurnedDown
<1>5. ASSUME NEW d \in DraftIds, DraftMade(t, d)
      PROVE  QuietReply
  <2>1. mail' \in [DraftIds -> MailDraft] /\ \A e \in DraftIds : QuietDraft(e)
    BY <1>5, MailMade DEF DraftMade
  <2>2. ~Claimant(t)
    BY <1>5 DEF DraftMade, Claimant
  <2> DEFINE start == sender[t].start
             new == Updated(card, [start EXCEPT !.draft = d, !.made = 1], start)
  <2>3. d \in 0..MaxDrafts
    BY ReplyAssumption DEF DraftIds
  <2>4. new \in ReplyCard /\ new.status = card.status /\ new.payload \in Payload
    <3> DEFINE p == [start EXCEPT !.draft = d, !.made = 1]
    <3>1. p \in Payload
      BY <1>0, <2>3, PayloadTypes
    <3> HIDE DEF p
    <3>2. Updated(card, p, start) \in ReplyCard /\ Updated(card, p, start).status = card.status
      BY <1>0, <3>1, UpdateEffects
    <3> QED
      BY <3>2 DEF ReplyCard, p
  <2>5. CASE new # card
    <3> DEFINE s == [pc |-> "reading", start |-> new.payload, draft |-> d, version |-> 0,
                     made |-> TRUE]
    <3>1. s \in Sender /\ s.pc = "reading" /\ s.draft = d
      BY <2>3, <2>4 DEF Sender, SenderPcs
    <3>2. card' = new /\ sender' = [sender EXCEPT ![t] = s]
      BY <1>5, <2>5 DEF DraftMade
    <3> HIDE DEF s, new
    <3>3. OneMoves(t) /\ sender'[t] = s
      BY <1>0, <3>1, <3>2, SenderSet
    <3>4. QuietCard
      BY <2>4, <3>2 DEF QuietCard
    <3> QED
      BY <1>0, <1>5, <2>1, <2>2, <2>4, <3>1, <3>2, <3>3, <3>4, TapIsQuiet DEF DraftMade
  <2>6. CASE new = card
    <3> DEFINE s == [sender[t] EXCEPT !.pc = "unmaking", !.draft = d]
    <3>1. s \in Sender /\ s.pc = "unmaking" /\ s.draft = d
      BY <1>0, <2>3 DEF Sender, SenderPcs
    <3>2. card' = card /\ sender' = [sender EXCEPT ![t] = s]
      BY <1>0, <1>5, <2>6 DEF DraftMade, ReplyTypeOK
    <3> HIDE DEF s, new
    <3>3. OneMoves(t) /\ sender'[t] = s
      BY <1>0, <3>1, <3>2, SenderSet
    <3>4. QuietCard
      BY <3>2 DEF QuietCard
    <3> QED
      BY <1>0, <1>5, <2>1, <2>2, <3>1, <3>2, <3>3, <3>4, TapIsQuiet DEF DraftMade
  <2> QED
    BY <2>5, <2>6
<1>6. ASSUME NEW d \in DraftIds, MakingUnconfirmed(t, d)
      PROVE  QuietReply
  <2>1. mail' \in [DraftIds -> MailDraft] /\ \A e \in DraftIds : QuietDraft(e)
    BY <1>6, MailMade DEF MakingUnconfirmed
  <2>2. ~Claimant(t) /\ Refuse(t, card) /\ sending' = sending /\ making' \in BOOLEAN /\ editing' = editing
        /\ troubles' \in Nat /\ UNCHANGED NotSending
    BY <1>0, <1>6, TroubleType DEF MakingUnconfirmed, Claimant
  <2> QED
    BY <1>0, <1>6, <2>1, <2>2, RefusedIsQuiet DEF MakingUnconfirmed
<1>7. CASE MakingFails(t)
  <2>1. ~Claimant(t) /\ Refuse(t, card) /\ mail' = mail /\ sending' = sending /\ making' \in BOOLEAN /\ editing' = editing
        /\ troubles' \in Nat /\ UNCHANGED NotSending
    BY <1>0, <1>7 DEF MakingFails, Claimant
  <2> QED
    BY <1>0, <1>7, <2>1, MailStays, RefusedIsQuiet DEF MakingFails
<1>8. CASE TapReadsDraft(t)
  <2>1. ~Claimant(t)
    BY <1>8 DEF TapReadsDraft, Claimant
  <2> DEFINE d == sender[t].draft
  <2>2. CASE Readable(d)
    <3> DEFINE s == [sender[t] EXCEPT !.pc = "thread", !.version = mail[d].version]
    <3>1. d \in DraftIds /\ mail[d] \in MailDraft /\ mail[d].version \in Nat
      BY <1>0, <1>8 DEF TapReadsDraft, ReplyShape, HasDraft, ReplyTypeOK, MailDraft
    <3>2. s \in Sender /\ s.pc = "thread" /\ s.draft = d
      BY <1>0, <3>1 DEF Sender, SenderPcs
    <3>3. card' = card /\ sender' = [sender EXCEPT ![t] = s]
      BY <1>0, <1>8, <2>2 DEF TapReadsDraft, ReplyTypeOK
    <3> HIDE DEF s
    <3>4. OneMoves(t) /\ sender'[t] = s
      BY <1>0, <3>1, <3>2, <3>3, SenderSet
    <3>5. QuietCard
      BY <3>3 DEF QuietCard
    <3> QED
      BY <1>0, <1>8, <2>1, <3>2, <3>3, <3>4, <3>5, MailStays, TapIsQuiet DEF TapReadsDraft
  <2>3. CASE ~Readable(d)
    <3>1. Refuse(t, CloseUnlessSending(card)) /\ mail' = mail /\ sending' = sending /\ making' \in BOOLEAN /\ editing' = editing
          /\ troubles' \in Nat /\ UNCHANGED NotSending
      BY <1>0, <1>8, <2>3 DEF TapReadsDraft
    <3> QED
      BY <1>0, <1>8, <2>1, <3>1, CloseEffects, MailStays, RefusedIsQuiet DEF TapReadsDraft
  <2> QED
    BY <2>2, <2>3
<1>9. CASE TapFindsAnswer(t)
  <2>1. ~Claimant(t) /\ Refuse(t, CloseUnlessSending(card)) /\ mail' = mail /\ sending' = sending /\ making' \in BOOLEAN /\ editing' = editing
        /\ troubles' \in Nat /\ UNCHANGED NotSending
    BY <1>0, <1>9 DEF TapFindsAnswer, Claimant
  <2> QED
    BY <1>0, <1>9, <2>1, CloseEffects, MailStays, RefusedIsQuiet DEF TapFindsAnswer
<1>10. CASE TapUndoes(t)
  <2>1. ~Claimant(t)
    BY <1>10 DEF TapUndoes, Claimant
  <2>2. mail' \in [DraftIds -> MailDraft] /\ \A e \in DraftIds : QuietDraft(e)
    BY <1>10, MailDeleted, MailStays DEF TapUndoes
  <2>3. troubles' \in Nat
    BY <1>10, TroubleType DEF TapUndoes
  <2>4. OneMoves(t) /\ sender'[t].pc \in {"idle", "over"}
    BY <1>0, <1>10, SenderSettles DEF TapUndoes
  <2> DEFINE r == IF sender[t].pc = "takingback" THEN DraftTakenBack(t) ELSE card
  <2>5. r \in ReplyCard /\ r.status = card.status
    <3> DEFINE p == [card.payload EXCEPT !.draft = NoDraft, !.made = 0]
    <3>1. p \in Payload
      BY <1>0, PayloadTypes
    <3>2. DraftTakenBack(t) \in {card, Updated(card, p, card.payload)}
      BY DEF DraftTakenBack
    <3> HIDE DEF p
    <3> QED
      BY ZenonT(40), <1>0, <3>1, <3>2, UpdateEffects
  <2>6. card' = Left(t, r)
    BY <1>10 DEF TapUndoes
  <2> HIDE DEF r
  <2>7. card' \in ReplyCard /\ QuietCard
    BY <1>0, <2>5, <2>6, LeftEffects DEF QuietCard
  <2> QED
    BY <1>0, <1>10, <2>1, <2>2, <2>3, <2>4, <2>7, TapIsQuiet DEF TapUndoes
<1> QED
  BY <1>1, <1>2, <1>3, <1>4, <1>5, <1>6, <1>7, <1>8, <1>9, <1>10

-----------------------------------------------------------------------------
(* The claim, and the send *)

LEMMA MoveShape ==
  ASSUME ReplyInv, NEW t \in Senders, OneMoves(t), card' \in ReplyCard, sending' \in BOOLEAN,
         making' = making, editing' = editing, mail' \in [DraftIds -> MailDraft],
         troubles' \in Nat, UNCHANGED NotSending
  PROVE  ReplyShape'
<1>1. \A u \in Senders : HasDraft(u)' => sender'[u].draft \in DraftIds
  BY DEF OneMoves, HasDraft, ReplyInv, ReplyShape
<1>2. ReplyTypeOK'
  BY DEF ReplyInv, ReplyShape, ReplyTypeOK, NotSending, OneMoves
<1> QED
  BY <1>1, <1>2 DEF ReplyShape

\* While one is past the claim, nobody else is, and before its message went
\* nothing is out.
LEMMA TheClaimant ==
  ASSUME ReplyInv, NEW t \in Senders, Claimant(t)
  PROVE  /\ sending /\ card \in ReplyCard /\ card.status = "executing"
         /\ sender[t].draft \in DraftIds
         /\ \A u \in Senders : u # t => ~Claimant(u)
         /\ sender[t].pc \in {"rereading", "sending"} /\ ~misjudged =>
              \A d \in DraftIds : ~Out(d)
BY DEF ReplyInv, SenderFits, DraftFits, Claimant, ReplyShape, HasDraft, ReplyTypeOK

LEMMA ClaimStep ==
  ASSUME ReplyInv, NEW t \in Senders, TapClaims(t)
  PROVE  ReplyInv'
<1>0. ReplyShape /\ card \in ReplyCard /\ troubles \in Nat
  BY DEF ReplyInv, ReplyShape, ReplyTypeOK
<1>1. /\ sender[t].pc = "thread" /\ ~sending /\ card.status = "proposed" /\ mail' = mail
      /\ sending' = TRUE /\ card' = ClaimedCard(card) /\ Moves(t, "rereading")
      /\ making' = making /\ editing' = editing /\ troubles' = troubles /\ UNCHANGED NotSending
  BY DEF TapClaims, MayClaim
<1>2. "rereading" \in SenderPcs /\ HasDraft(t)
  BY <1>1 DEF SenderPcs, HasDraft
<1>3. OneMoves(t) /\ sender'[t].pc = "rereading"
  BY <1>0, <1>1, <1>2, SenderMoves
<1>4. card' \in ReplyCard /\ card'.status = "executing"
  BY <1>0, <1>1, ReplyRowTypes, ReplyEffects
<1>5. mail' \in [DraftIds -> MailDraft]
  BY <1>1, MailStays
<1>6. ReplyShape'
  BY <1>0, <1>1, <1>3, <1>4, <1>5, MoveShape
<1>7. \A u \in Senders : ~Claimant(u)
  BY <1>1 DEF ReplyInv, SenderFits
<1>8. misjudged' = misjudged /\ (~misjudged => \A d \in DraftIds : ~Out(d))
  BY <1>1 DEF ReplyInv, DraftFits, NotSending
<1>9. \A u \in Senders : Claimant(u)' => u = t
  BY <1>3, <1>7 DEF OneMoves, Claimant
<1>10. \A u \in Senders : SenderFits(u)'
  BY <1>1, <1>3, <1>4, <1>9 DEF SenderFits, Claimant
<1>11. \A d \in DraftIds : DraftFits(d)'
  BY <1>1, <1>8 DEF ReplyInv, DraftFits, Out
<1>12. ReplyCardIsRight'
  BY <1>4 DEF ReplyCardIsRight
<1> QED
  BY <1>6, <1>10, <1>11, <1>12 DEF ReplyInv

LEMMA ClaimEnds ==
  ASSUME ReplyInv, NEW t \in Senders, Claimant(t), OneMoves(t),
         sender'[t].pc \notin {"rereading", "sending", "went"},
         sending' = FALSE, mail' = mail, making' = making, editing' = editing,
         troubles' \in Nat, UNCHANGED NotSending, card' \in ReplyCard,
         \/ sender[t].pc # "went" /\ card'.status \in {"proposed", "closed"}
         \/ sender[t].pc = "went" /\ card'.status \in {"approved", "executed"}
  PROVE  ReplyInv'
<1>1. mail' \in [DraftIds -> MailDraft]
  BY MailStays
<1>2. ReplyShape'
  BY <1>1, MoveShape
<1>3. \A u \in Senders : ~Claimant(u)'
  BY TheClaimant DEF OneMoves, Claimant
<1>4. \A u \in Senders : SenderFits(u)'
  BY <1>3 DEF SenderFits, Claimant
<1>5. /\ misjudged' = misjudged
      /\ card'.status = "proposed" /\ ~misjudged => \A d \in DraftIds : ~Out(d)
  BY TheClaimant DEF Claimant, NotSending
<1>6. \A d \in DraftIds : DraftFits(d)'
  BY <1>3, <1>5 DEF ReplyInv, DraftFits, Out, Claimant
<1>7. sender[t].pc = "went" => sender[t].draft \in DraftIds /\ mail[sender[t].draft].where = "sent"
  BY TheClaimant DEF ReplyInv, SenderFits
<1>8. ReplyCardIsRight'
  BY <1>7 DEF ReplyCardIsRight
<1> QED
  BY <1>2, <1>4, <1>6, <1>8 DEF ReplyInv

LEMMA RereadStep ==
  ASSUME ReplyInv, NEW t \in Senders, TapRereads(t)
  PROVE  ReplyInv'
<1> DEFINE d == sender[t].draft
<1>0. /\ ReplyShape /\ card \in ReplyCard /\ troubles \in Nat /\ Claimant(t)
      /\ mail \in [DraftIds -> MailDraft]
  BY DEF ReplyInv, ReplyShape, ReplyTypeOK, TapRereads, Claimant
<1>1. /\ sending /\ card.status = "executing" /\ d \in DraftIds
      /\ \A u \in Senders : u # t => ~Claimant(u)
      /\ misjudged' = misjudged /\ (~misjudged => \A e \in DraftIds : ~Out(e))
  BY <1>0, TheClaimant DEF TapRereads, NotSending
<1>2. CASE StillAsChecked(t)
  <2> DEFINE w == mail[d].where = "going" /\ mail[d].swapped
             m == [mail[d] EXCEPT !.swapped = w]
  <2>1. mail' = [mail EXCEPT ![d] = m] /\ Moves(t, "sending") /\ card' = card
        /\ sending' = sending /\ making' = making /\ editing' = editing
        /\ troubles' = troubles /\ UNCHANGED NotSending
    BY <1>2 DEF TapRereads
  <2>2a. w \in BOOLEAN /\ (mail[d].where = "going" /\ ~w => ~mail[d].swapped)
    OBVIOUS
  <2> HIDE DEF w
  <2>2. /\ m \in MailDraft /\ m.where = mail[d].where /\ m.version = mail[d].version
        /\ m.shown = mail[d].shown /\ m.checked = mail[d].checked /\ m.swapped = w
    BY ZenonT(40), <1>0, <1>1, <2>2a DEF MailDraft
  <2>3. mail[d].where \in {"drafts", "going"} /\ mail[d].version = sender[t].version
    BY <1>1, <1>2 DEF StillAsChecked, Readable
  <2> HIDE DEF m
  <2>4. mail' \in [DraftIds -> MailDraft] /\ mail'[d] = m
        /\ \A e \in DraftIds : e # d => mail'[e] = mail[e]
    BY <1>0, <1>1, <2>1, <2>2
  <2>5. "sending" \in SenderPcs /\ HasDraft(t)
    BY <1>0 DEF SenderPcs, HasDraft, Claimant
  <2>6. OneMoves(t) /\ sender'[t] = [sender[t] EXCEPT !.pc = "sending"]
        /\ sender'[t].pc = "sending"
    BY <1>0, <2>1, <2>5, SenderMoves
  <2>7. sender'[t].draft = d /\ sender'[t].version = sender[t].version
    BY <2>6 DEF ReplyShape, ReplyTypeOK, Sender
  <2>8. ReplyShape'
    BY <1>0, <1>1, <2>1, <2>4, <2>6, MoveShape
  <2>9. \A u \in Senders : Claimant(u)' => u = t
    BY <1>1, <2>6 DEF OneMoves, Claimant
  <2>10. \A u \in Senders : SenderFits(u)'
    BY ZenonT(40), <1>1, <2>1, <2>2, <2>3, <2>4, <2>6, <2>7, <2>9 DEF SenderFits, Claimant
  <2>11. \A e \in DraftIds : DraftFits(e)'
    <3>1. \A e \in DraftIds :
            /\ mail'[e].where = mail[e].where /\ mail'[e].shown = mail[e].shown
            /\ mail'[e].version = mail[e].version /\ mail'[e].checked = mail[e].checked
            /\ Out(e) /\ ~mail'[e].swapped => ~mail[e].swapped
      BY <2>2, <2>2a, <2>3, <2>4 DEF Out
    <3> QED
      BY <1>1, <3>1 DEF ReplyInv, DraftFits, Out
  <2>12. ReplyCardIsRight'
    BY <1>1, <2>1 DEF ReplyCardIsRight
  <2> QED
    BY <2>8, <2>10, <2>11, <2>12 DEF ReplyInv
<1>3. CASE ~StillAsChecked(t)
  <2> DEFINE r == IF Readable(d) THEN Released(card) ELSE ClosedCard(Released(card))
  <2>1. Released(card) \in ReplyCard /\ Released(card).status = "proposed"
    BY <1>0, <1>1, ReplyRowTypes, ReplyEffects
  <2>2. r \in ReplyCard /\ r.status \in {"proposed", "closed"}
    BY <2>1, ReplyRowTypes, ReplyEffects
  <2>3. Refuse(t, r) /\ sending' = FALSE /\ mail' = mail /\ making' = making
        /\ editing' = editing /\ troubles' = troubles /\ UNCHANGED NotSending
    BY <1>3 DEF TapRereads
  <2> HIDE DEF r
  <2>4. /\ OneMoves(t) /\ sender'[t].pc \in {"idle", "over", "takingback"}
        /\ card' \in ReplyCard /\ card'.status = r.status
    BY <1>0, <2>2, <2>3, RefuseEffects
  <2>5. sender[t].pc # "went"
    BY DEF TapRereads
  <2> QED
    BY <1>0, <2>2, <2>3, <2>4, <2>5, ClaimEnds
<1> QED
  BY <1>2, <1>3

LEMMA RefusedAfterTheClaim ==
  ASSUME ReplyInv, NEW t \in Senders, RereadFails(t) \/ SendRefused(t)
  PROVE  ReplyInv'
<1>0. /\ ReplyShape /\ card \in ReplyCard /\ troubles \in Nat /\ Claimant(t)
      /\ sender[t].pc \in {"rereading", "sending"}
  BY DEF ReplyInv, ReplyShape, ReplyTypeOK, RereadFails, SendRefused, Claimant
<1>1. card.status = "executing"
  BY <1>0, TheClaimant
<1>2. Released(card) \in ReplyCard /\ Released(card).status = "proposed"
  BY <1>0, <1>1, ReplyRowTypes, ReplyEffects
<1>3. /\ ClosedCard(Released(card)) \in ReplyCard
      /\ ClosedCard(Released(card)).status = "closed"
  BY <1>2, ReplyRowTypes, ReplyEffects
<1>4. PICK r \in ReplyCard : Refuse(t, r) /\ r.status \in {"proposed", "closed"}
  BY <1>2, <1>3 DEF RereadFails, SendRefused
<1>5. sending' = FALSE /\ mail' = mail /\ making' = making /\ editing' = editing
      /\ troubles' = troubles /\ UNCHANGED NotSending
  BY DEF RereadFails, SendRefused
<1>6. /\ OneMoves(t) /\ sender'[t].pc \in {"idle", "over", "takingback"}
      /\ card' \in ReplyCard /\ card'.status = r.status
  BY <1>0, <1>4, RefuseEffects
<1> QED
  BY <1>0, <1>4, <1>5, <1>6, ClaimEnds

LEMMA FinishStep ==
  ASSUME ReplyInv, NEW t \in Senders, TapFinishes(t)
  PROVE  ReplyInv'
<1>0. /\ ReplyShape /\ card \in ReplyCard /\ troubles \in Nat /\ Claimant(t)
  BY DEF ReplyInv, ReplyShape, ReplyTypeOK, TapFinishes, Claimant
<1>1. card.status = "executing"
  BY <1>0, TheClaimant
<1>2. card' \in ReplyCard /\ card'.status \in {"approved", "executed"}
  BY <1>0, <1>1, ReplyRowTypes, ReplyEffects DEF TapFinishes
<1>3. OneMoves(t) /\ sender'[t].pc \in {"idle", "over"}
  BY <1>0, SenderSettles DEF TapFinishes
<1> QED
  BY <1>0, <1>2, <1>3, ClaimEnds DEF TapFinishes

\* The message is at the service: one that went, or one that may still go.
LEMMA MessageOut ==
  ASSUME ReplyInv, NEW t \in Senders, sender[t].pc = "sending", NEW m \in MailDraft,
         mail[sender[t].draft].where = "drafts",
         mail' = [mail EXCEPT ![sender[t].draft] = m],
         m.where \in {"going", "sent"},
         m.version = mail[sender[t].draft].version, m.shown = mail[sender[t].draft].shown,
         m.swapped = mail[sender[t].draft].swapped, m.checked = sender[t].version
  PROVE  /\ mail' \in [DraftIds -> MailDraft]
         /\ ~misjudged => \A d \in DraftIds : Out(d)' => d = sender[t].draft
         /\ mail'[sender[t].draft] = m
         /\ \A d \in DraftIds : Out(d)' /\ ~mail'[d].swapped =>
              mail'[d].version = mail'[d].checked
         /\ \A d \in DraftIds : mail'[d].shown => mail'[d].where \in {"sent", "bySelf"}
<1> DEFINE d == sender[t].draft
<1>0. /\ mail \in [DraftIds -> MailDraft] /\ d \in DraftIds
      /\ ~misjudged => \A e \in DraftIds : ~Out(e)
  BY TheClaimant DEF ReplyInv, ReplyShape, ReplyTypeOK, Claimant
<1>1. /\ mail' \in [DraftIds -> MailDraft] /\ mail'[d] = m
      /\ \A e \in DraftIds : e # d => mail'[e] = mail[e]
  BY <1>0
<1>2. ~m.swapped => m.version = m.checked
  BY DEF ReplyInv, SenderFits, Readable
<1>3. \A e \in DraftIds : mail'[e].shown => mail'[e].where \in {"sent", "bySelf"}
  BY <1>0, <1>1 DEF ReplyInv, DraftFits
<1>4. \A e \in DraftIds : Out(e)' /\ ~mail'[e].swapped => mail'[e].version = mail'[e].checked
  BY <1>0, <1>1, <1>2 DEF ReplyInv, DraftFits, Out
<1> QED
  BY <1>0, <1>1, <1>3, <1>4 DEF Out

LEMMA SendStep ==
  ASSUME ReplyInv, NEW t \in Senders, MailSends(t)
  PROVE  ReplyInv'
<1> DEFINE d == sender[t].draft
           m == [mail[d] EXCEPT !.where = "sent", !.checked = sender[t].version]
<1>0. /\ ReplyShape /\ card \in ReplyCard /\ troubles \in Nat /\ Claimant(t) /\ sending \in BOOLEAN
      /\ mail \in [DraftIds -> MailDraft] /\ sender[t].version \in Nat
  BY DEF ReplyInv, ReplyShape, ReplyTypeOK, MailSends, Claimant, Sender
<1>1. /\ sending /\ card.status = "executing" /\ d \in DraftIds
      /\ \A u \in Senders : u # t => ~Claimant(u)
  BY <1>0, TheClaimant
<1>2. /\ sender[t].pc = "sending" /\ mail[d].where = "drafts" /\ mail' = [mail EXCEPT ![d] = m]
      /\ Moves(t, "went") /\ card' = card /\ sending' = sending
      /\ making' = making /\ editing' = editing /\ troubles' = troubles /\ UNCHANGED NotSending
  BY <1>0, <1>1 DEF MailSends, Goes
<1>3. /\ m \in MailDraft /\ m.where = "sent" /\ m.version = mail[d].version
      /\ m.shown = mail[d].shown /\ m.swapped = mail[d].swapped /\ m.checked = sender[t].version
  BY ZenonT(40), <1>0, <1>1 DEF MailDraft
<1> HIDE DEF m
<1>4. /\ mail' \in [DraftIds -> MailDraft]
      /\ ~misjudged => \A e \in DraftIds : Out(e)' => e = d
      /\ mail'[d] = m
      /\ \A e \in DraftIds : Out(e)' /\ ~mail'[e].swapped => mail'[e].version = mail'[e].checked
      /\ \A e \in DraftIds : mail'[e].shown => mail'[e].where \in {"sent", "bySelf"}
  BY <1>2, <1>3, MessageOut
<1>5. "went" \in SenderPcs /\ HasDraft(t)
  BY <1>2 DEF SenderPcs, HasDraft
<1>6. OneMoves(t) /\ sender'[t] = [sender[t] EXCEPT !.pc = "went"] /\ sender'[t].pc = "went"
  BY <1>0, <1>2, <1>5, SenderMoves
<1>7. sender'[t].draft = d
  BY <1>6 DEF ReplyShape, ReplyTypeOK, Sender
<1>8. ReplyShape'
  BY <1>0, <1>2, <1>4, <1>6, MoveShape
<1>9. \A u \in Senders : Claimant(u)' => u = t
  BY <1>1, <1>6 DEF OneMoves, Claimant
<1>10. card'.status = "executing" /\ sending' /\ mail'[d].where = "sent"
  BY <1>1, <1>2, <1>3, <1>4
<1>11. \A u \in Senders : SenderFits(u)'
  <2>1. ASSUME NEW u \in Senders, u # t
        PROVE  SenderFits(u)'
    BY <1>9, <2>1 DEF SenderFits, Claimant
  <2>2. SenderFits(t)'
    BY <1>6, <1>7, <1>9, <1>10 DEF SenderFits, Claimant
  <2> QED
    BY <2>1, <2>2
<1>12. \A u \in Senders : sender'[u].pc \notin {"rereading", "sending"}
  BY <1>6, <1>9 DEF Claimant
<1>13. \A e \in DraftIds : DraftFits(e)'
  BY <1>2, <1>3, <1>4, <1>10, <1>12 DEF DraftFits, Out, NotSending
<1>14. ReplyCardIsRight'
  BY <1>10 DEF ReplyCardIsRight
<1> QED
  BY <1>8, <1>11, <1>13, <1>14 DEF ReplyInv

LEMMA UnconfirmedStep ==
  ASSUME ReplyInv, NEW t \in Senders, SendUnconfirmed(t)
  PROVE  ReplyInv'
<1> DEFINE d == sender[t].draft
           m == [mail[d] EXCEPT !.where = "going", !.checked = sender[t].version]
<1>0. /\ ReplyShape /\ ReplyTypeOK /\ card \in ReplyCard /\ Claimant(t)
      /\ mail \in [DraftIds -> MailDraft] /\ sender[t].version \in Nat
  BY DEF ReplyInv, ReplyShape, ReplyTypeOK, SendUnconfirmed, LeftUnconfirmed, Claimant, Sender
<1>1. /\ sending /\ card.status = "executing" /\ d \in DraftIds
      /\ \A u \in Senders : u # t => ~Claimant(u)
  BY <1>0, TheClaimant
<1>2. /\ sending' = FALSE /\ making' = making /\ editing' = editing /\ troubles' \in Nat
      /\ UNCHANGED NotSending
      /\ mail' = IF mail[d].where = "drafts" THEN [mail EXCEPT ![d] = m] ELSE mail
  BY <1>0, <1>1, TroubleType DEF SendUnconfirmed, LeftUnconfirmed
<1>3. card' \in ReplyCard /\ card'.status = "executing"
  BY <1>0, <1>1, LeftEffects DEF SendUnconfirmed, LeftUnconfirmed
<1>4. OneMoves(t) /\ sender'[t].pc \in {"idle", "over"}
  BY <1>0, SenderSettles DEF SendUnconfirmed, LeftUnconfirmed
<1>5. /\ m \in MailDraft /\ m.where = "going" /\ m.version = mail[d].version
      /\ m.shown = mail[d].shown /\ m.swapped = mail[d].swapped /\ m.checked = sender[t].version
  BY ZenonT(40), <1>0, <1>1 DEF MailDraft
<1> HIDE DEF m
<1>6. \A u \in Senders : ~Claimant(u)'
  BY <1>1, <1>4 DEF OneMoves, Claimant
<1>7. mail' \in [DraftIds -> MailDraft] /\ \A e \in DraftIds : DraftFits(e)'
  <2>1. CASE mail[d].where = "drafts"
    <3>1. sender[t].pc = "sending"
      BY <1>0, <2>1 DEF SendUnconfirmed, LeftUnconfirmed, ReplyInv, SenderFits
    <3>2. /\ mail' \in [DraftIds -> MailDraft]
          /\ ~misjudged => \A e \in DraftIds : Out(e)' => e = d
          /\ mail'[d] = m
          /\ \A e \in DraftIds : Out(e)' /\ ~mail'[e].swapped =>
               mail'[e].version = mail'[e].checked
          /\ \A e \in DraftIds : mail'[e].shown => mail'[e].where \in {"sent", "bySelf"}
      BY <1>2, <1>5, <2>1, <3>1, MessageOut
    <3> QED
      BY <1>1, <1>2, <1>3, <1>6, <3>2 DEF DraftFits, Out, Claimant, NotSending
  <2>2. CASE mail[d].where # "drafts"
    BY <1>0, <1>2, <1>3, <1>6, <2>2 DEF ReplyInv, DraftFits, Out, Claimant, NotSending
  <2> QED
    BY <2>1, <2>2
<1>8. ReplyShape'
  BY <1>0, <1>2, <1>3, <1>4, <1>7, MoveShape
<1>9. \A u \in Senders : SenderFits(u)'
  BY <1>6 DEF SenderFits, Claimant
<1>10. ReplyCardIsRight'
  BY <1>3 DEF ReplyCardIsRight
<1> QED
  BY <1>7, <1>8, <1>9, <1>10 DEF ReplyInv

-----------------------------------------------------------------------------
(* Edits, dismissals, the reconciler, the mailbox *)

LEMMA NobodyMoves ==
  ASSUME ReplyInv, ReplyTypeOK', sender' = sender, sending' = sending, QuietCard,
         \A d \in DraftIds : QuietDraft(d), replied => replied', misjudged => misjudged'
  PROVE  QuietReply
BY DEF ReplyInv, ReplyShape, HasDraft, QuietReply, QuietSender

LEMMA EditSteps ==
  ASSUME ReplyInv, EditBegins \/ EditNext
  PROVE  QuietReply
<1>0. /\ ReplyTypeOK /\ card \in ReplyCard /\ card.payload \in Payload
      /\ editor.start \in Payload /\ editor.version \in Nat /\ 0 \in Nat
      /\ mail \in [DraftIds -> MailDraft]
  BY DEF ReplyInv, ReplyShape, ReplyTypeOK, ReplyCard
<1>1. CASE EditBegins
  <2>1. mail' = mail /\ card' = card /\ UNCHANGED SendPath
    BY <1>1 DEF EditBegins
  <2>2. ReplyTypeOK'
    BY <1>0, <1>1 DEF EditBegins, SendPath, ReplyTypeOK
  <2>3. QuietCard
    BY <2>1 DEF QuietCard
  <2> QED
    BY <2>1, <2>2, <2>3, MailStays, NobodyMoves DEF SendPath
<1>2. CASE EditRewrites
  <2> DEFINE d == editor.start.draft
  <2>1. d \in DraftIds
    BY <1>0, <1>2, ReplyAssumption DEF EditRewrites, NoDraft, Payload, DraftIds
  <2>2. mail' \in [DraftIds -> MailDraft] /\ \A e \in DraftIds : QuietDraft(e)
    BY <1>2, <2>1, MailRewritten DEF EditRewrites
  <2>3. mail[d].version + 1 \in Nat
    BY <1>0, <2>1 DEF MailDraft
  <2>4. editor' \in [pc : {"idle", "writing", "saving"}, start : Payload, version : Nat]
    <3> DEFINE v == mail[d].version + 1
    <3>1. v \in Nat /\ editor' = [editor EXCEPT !.pc = "saving", !.version = v]
      BY <1>2, <2>3 DEF EditRewrites
    <3> HIDE DEF v
    <3> QED
      BY <1>0, <3>1 DEF ReplyTypeOK
  <2>5. card' = card /\ editing' = editing /\ UNCHANGED SendPath
    BY <1>2 DEF EditRewrites
  <2>6. ReplyTypeOK'
    BY <1>0, <2>2, <2>4, <2>5 DEF SendPath, ReplyTypeOK
  <2>7. QuietCard
    BY <2>5 DEF QuietCard
  <2> QED
    BY <2>2, <2>5, <2>6, <2>7, NobodyMoves DEF SendPath
<1>3. ASSUME NEW r \in ReplyCard, card' = r,
             r.status = card.status \/ (~sending /\ r.status = "closed"),
             EditOver, UNCHANGED <<mail, SendPath>>
      PROVE  QuietReply
  <2>1. NoEdit \in [pc : {"idle", "writing", "saving"}, start : Payload, version : Nat]
    BY PayloadTypes DEF NoEdit
  <2>2. ReplyTypeOK'
    BY <1>0, <1>3, <2>1 DEF EditOver, SendPath, ReplyTypeOK
  <2>3. QuietCard
    BY <1>3 DEF QuietCard
  <2> QED
    BY <1>3, <2>2, <2>3, MailStays, NobodyMoves DEF SendPath
<1>4. CASE EditSaves
  <2> DEFINE w == editor.start.words + 1
             e == IF editor.pc = "saving" THEN editor.version ELSE editor.start.edited
             p == [editor.start EXCEPT !.words = w, !.edited = e]
  <2>1. w \in Nat /\ e \in Nat
    BY <1>0 DEF Payload
  <2>2. card' = Updated(card, [editor.start EXCEPT !.words = w, !.edited = e], editor.start)
    BY <1>0, <1>4 DEF EditSaves, Payload
  <2> HIDE DEF w, e
  <2>3. p \in Payload /\ card' = Updated(card, p, editor.start)
    BY <1>0, <2>1, <2>2, PayloadTypes
  <2> HIDE DEF p
  <2>4. card' \in ReplyCard /\ card'.status = card.status
    BY <1>0, <2>3, UpdateEffects
  <2> QED
    BY <1>3, <1>4, <2>4 DEF EditSaves
<1>5. CASE EditRefused
  <2>1. card' \in {card, CloseUnlessSending(card)} /\ EditOver /\ UNCHANGED <<mail, SendPath>>
    BY <1>5 DEF EditRefused
  <2> QED
    BY <1>0, <1>3, <2>1, CloseEffects
<1> QED
  BY <1>1, <1>2, <1>4, <1>5 DEF EditNext

LEMMA DismissSteps ==
  ASSUME ReplyInv, Reject \/ DismissNext
  PROVE  QuietReply
<1>0. /\ ReplyTypeOK /\ card \in ReplyCard /\ card.payload.draft \in 0..MaxDrafts
      /\ dismisser.draft \in 0..MaxDrafts /\ NoDraft \in 0..MaxDrafts
  BY ReplyAssumption DEF ReplyInv, ReplyShape, ReplyTypeOK, ReplyCard, Payload, NoDraft
<1>1. CASE Reject
  <2>1. card' \in ReplyCard /\ QuietCard
    BY <1>0, <1>1, ReplyRowTypes, ReplyEffects DEF Reject, QuietCard
  <2>2. mail' = mail /\ UNCHANGED SendersAndScan
    BY <1>1 DEF Reject
  <2>3. ReplyTypeOK'
    BY <1>0, <1>1, <2>1, <2>2 DEF Reject, SendersAndScan, ReplyTypeOK
  <2> QED
    BY <2>1, <2>2, <2>3, MailStays, NobodyMoves DEF SendersAndScan
<1>2. CASE DismissReads
  <2>1. card' = card /\ mail' = mail /\ UNCHANGED SendersAndScan
    BY <1>2 DEF DismissReads
  <2>2. dismisser' \in [pc : {"idle", "reading", "deleting"}, draft : 0..MaxDrafts]
    BY <1>0, <1>2 DEF DismissReads, ReplyTypeOK
  <2>3. ReplyTypeOK' /\ QuietCard
    BY <1>0, <2>1, <2>2 DEF SendersAndScan, ReplyTypeOK, QuietCard
  <2> QED
    BY <2>1, <2>3, MailStays, NobodyMoves DEF SendersAndScan
<1>3. CASE DismissDeletes
  <2>1. mail' \in [DraftIds -> MailDraft] /\ \A e \in DraftIds : QuietDraft(e)
    BY <1>3, MailDeleted DEF DismissDeletes
  <2>2. card' = card /\ UNCHANGED SendersAndScan
        /\ dismisser' \in [pc : {"idle", "reading", "deleting"}, draft : 0..MaxDrafts]
    BY <1>0, <1>3 DEF DismissDeletes
  <2>3. ReplyTypeOK' /\ QuietCard
    BY <1>0, <2>1, <2>2 DEF SendersAndScan, ReplyTypeOK, QuietCard
  <2> QED
    BY <2>1, <2>2, <2>3, NobodyMoves DEF SendersAndScan
<1> QED
  BY <1>1, <1>2, <1>3 DEF DismissNext

LEMMA ScanSteps ==
  ASSUME ReplyInv, ScanNext
  PROVE  QuietReply
<1> DEFINE ScanType == [pc : {"idle", "listed", "reading", "read"}, seen : ReplyCard,
                        gone : BOOLEAN]
<1>0. /\ ReplyTypeOK /\ card \in ReplyCard /\ scan \in ScanType /\ scan.seen \in ReplyCard
      /\ seenOnce \in {"no", "once", "stale"} /\ misjudged \in BOOLEAN
  BY DEF ReplyInv, ReplyShape, ReplyTypeOK
<1>1. NoScan \in ScanType
  BY PayloadTypes DEF NoScan, ReplyCard, LedgerStatuses
<1>2. ASSUME card' \in ReplyCard, QuietCard, scan' \in ScanType,
             seenOnce' \in {"no", "once", "stale"}, misjudged' \in BOOLEAN,
             misjudged => misjudged', UNCHANGED NotScanning
      PROVE  QuietReply
  <2>1. ReplyTypeOK'
    BY <1>0, <1>2 DEF NotScanning, ReplyTypeOK
  <2> QED
    BY <1>2, <2>1, MailStays, NobodyMoves DEF NotScanning
<1>3. CASE /\ \/ ScanLists \/ ScanPasses \/ ScanTurnsProposed
              \/ ScanTurnsExecuting \/ ScanReads \/ SettleLeaves \/ ScanFails
  <2>1. /\ card' = card /\ seenOnce' = seenOnce /\ misjudged' = misjudged
        /\ UNCHANGED NotScanning
    BY <1>3 DEF ScanLists, ScanPasses, ScanTurnsProposed, ScanTurnsExecuting, ScanReads,
       SettleLeaves, ScanFails
  <2>2. scan' \in ScanType
    <3>1. CASE ScanPasses \/ SettleLeaves \/ ScanFails
      BY <1>1, <3>1 DEF ScanPasses, SettleLeaves, ScanFails, ScanIdle
    <3>2. CASE ScanLists
      BY <1>0, <3>2 DEF ScanLists
    <3>3. CASE ScanTurnsProposed
      BY <1>0, <3>3 DEF ScanTurnsProposed
    <3>4. CASE ScanTurnsExecuting
      BY <1>0, <3>4 DEF ScanTurnsExecuting
    <3>5. CASE ScanReads
      <4> DEFINE g == ~Readable(scan.seen.payload.draft)
      <4>1. g \in BOOLEAN /\ scan' = [scan EXCEPT !.pc = "read", !.gone = g]
        BY <3>5 DEF ScanReads
      <4> HIDE DEF g
      <4> QED
        BY <1>0, <4>1
    <3> QED
      BY <1>3, <3>1, <3>2, <3>3, <3>4, <3>5
  <2>3. QuietCard
    BY <2>1 DEF QuietCard
  <2> QED
    BY <1>0, <1>2, <2>1, <2>2, <2>3
<1>4. CASE ScanExpires \/ ReconcileDecides
  <2>1. card' \in {card, CloseUnlessSending(card)} /\ scan' \in {scan, NoScan}
        /\ seenOnce' = seenOnce /\ misjudged' = misjudged /\ UNCHANGED NotScanning
    BY <1>4 DEF ScanExpires, ReconcileDecides, ScanIdle
  <2>2. card' \in ReplyCard /\ QuietCard
    BY <1>0, <2>1, CloseEffects DEF QuietCard
  <2> QED
    BY <1>0, <1>1, <1>2, <2>1, <2>2
<1>5. CASE SettleDecides
  <2>1. ~sending /\ scan' = NoScan /\ UNCHANGED NotScanning
    BY <1>5 DEF SettleDecides, ScanIdle
  <2>2. /\ seenOnce' \in {"no", "once", "stale"} /\ misjudged' \in BOOLEAN
        /\ misjudged => misjudged'
    <3>1. MisjudgesIt \in BOOLEAN
      BY DEF MisjudgesIt
    <3>2. misjudged' = misjudged \/ misjudged' = (misjudged \/ MisjudgesIt)
      BY <1>5 DEF SettleDecides
    <3>3. misjudged' \in BOOLEAN /\ (misjudged => misjudged')
      BY <1>0, <3>1, <3>2
    <3>4. seenOnce' \in {"no", "once", "stale"}
      BY <1>0, <1>5 DEF SettleDecides
    <3> QED
      BY <3>3, <3>4
  <2>3. CASE /\ AnsweredMeanwhile
             /\ card' = ExecutionFinished(card,
                          IF scan.seen.gate = "auto" THEN "executed" ELSE "approved")
    <3>0. PICK how \in {"approved", "executed"} : card' = ExecutionFinished(card, how)
      BY <2>3
    <3>1. card' \in ReplyCard /\ QuietCard
      <4>1. card \in ReplyCard
        BY <1>0
      <4>2. card' \in ReplyCard
        BY <3>0, <4>1, ReplyRowTypes
      <4>3. card'.status = IF card.status = "executing" THEN how ELSE card.status
        BY <3>0, <4>1, ReplyEffects
      <4> QED
        BY <2>1, <2>3, <4>2, <4>3 DEF QuietCard
    <3> QED
      BY <1>1, <1>2, <2>1, <2>2, <3>1
  <2>4. CASE card' = card
    <3>1. QuietCard
      BY <2>4 DEF QuietCard
    <3> QED
      BY <1>0, <1>1, <1>2, <2>1, <2>2, <2>4, <3>1
  <2>5. CASE card' = CloseUnlessSending(card)
    <3>1. card' \in ReplyCard /\ QuietCard
      BY <1>0, <2>5, CloseEffects DEF QuietCard
    <3> QED
      BY <1>1, <1>2, <2>1, <2>2, <3>1
  <2>6. CASE /\ ~AnsweredMeanwhile /\ MayJudge /\ card' = Released(card)
             /\ misjudged' = (misjudged \/ MisjudgesIt)
    <3>1. card.status = "executing" => misjudged' \/ \A d \in DraftIds : ~Out(d)
      BY <2>6 DEF MayJudge, MisjudgesIt, ServiceSettled, AnsweredMeanwhile, Out
    <3>2. card' \in ReplyCard
      BY <1>0, <2>6, ReplyRowTypes
    <3>3. card'.status = IF card.status = "executing" THEN "proposed" ELSE card.status
      BY <1>0, <2>6, ReplyEffects
    <3>4. QuietCard
      BY <2>1, <3>1, <3>3 DEF QuietCard
    <3> QED
      BY <1>1, <1>2, <2>1, <2>2, <3>2, <3>4
  <2> QED
    BY <1>5, <2>3, <2>4, <2>5, <2>6 DEF SettleDecides
<1> QED
  BY <1>3, <1>4, <1>5 DEF ScanNext

LEMMA MailSteps ==
  ASSUME ReplyInv, MailNext
  PROVE  QuietReply
<1>0. ReplyTypeOK /\ mail \in [DraftIds -> MailDraft]
  BY DEF ReplyInv, ReplyShape, ReplyTypeOK
<1>1. ASSUME mail' \in [DraftIds -> MailDraft], \A e \in DraftIds : QuietDraft(e),
             replied' \in BOOLEAN, replied => replied', UNCHANGED Ours
      PROVE  QuietReply
  <2>1. ReplyTypeOK' /\ QuietCard
    BY <1>0, <1>1 DEF Ours, ReplyTypeOK, QuietCard
  <2> QED
    BY <1>1, <2>1, NobodyMoves DEF Ours
<1>2. replied \in BOOLEAN
  BY <1>0 DEF ReplyTypeOK
<1>3. CASE SelfReplies
  <2>1. mail' = mail /\ replied' = TRUE /\ UNCHANGED Ours
    BY <1>3 DEF SelfReplies
  <2> QED
    BY <1>1, <2>1, MailStays
<1>4. ASSUME NEW d \in DraftIds, MailEdits(d)
      PROVE  QuietReply
  <2>1. mail' \in [DraftIds -> MailDraft] /\ \A e \in DraftIds : QuietDraft(e)
    BY <1>4, MailRewritten DEF MailEdits
  <2>2. replied' = replied /\ UNCHANGED Ours
    BY <1>4 DEF MailEdits
  <2> QED
    BY <1>1, <1>2, <2>1, <2>2
<1>5. ASSUME NEW d \in DraftIds, NEW m \in MailDraft, mail' = [mail EXCEPT ![d] = m],
             QuietDraft(d), replied' = replied, UNCHANGED Ours
      PROVE  QuietReply
  <2>1. mail' \in [DraftIds -> MailDraft] /\ \A e \in DraftIds : QuietDraft(e)
    BY <1>5, OneDraft
  <2> QED
    BY <1>1, <1>2, <1>5, <2>1
<1>6. ASSUME NEW d \in DraftIds, SelfHandles(d)
      PROVE  QuietReply
  <2> DEFINE m1 == [mail[d] EXCEPT !.where = "deleted"]
             m2 == [mail[d] EXCEPT !.where = "bySelf", !.shown = TRUE]
  <2>1. /\ mail[d] \in MailDraft /\ mail[d].where = "drafts" /\ ~mail[d].shown
        /\ mail' = [mail EXCEPT ![d] = m1] \/ mail' = [mail EXCEPT ![d] = m2]
        /\ replied' = replied /\ UNCHANGED Ours
    BY <1>0, <1>6 DEF SelfHandles, ReplyInv, DraftFits
  <2>2. m1 \in MailDraft /\ m1.where = "deleted" /\ ~m1.shown
        /\ m2 \in MailDraft /\ m2.where = "bySelf"
    BY <2>1 DEF MailDraft
  <2> HIDE DEF m1, m2
  <2>3. mail'[d] \in {m1, m2}
    BY <1>0, <2>1
  <2>4. QuietDraft(d)
    BY <2>1, <2>2, <2>3 DEF QuietDraft, Readable
  <2> QED
    BY <1>5, <2>1, <2>2, <2>4
<1>7. ASSUME NEW d \in DraftIds, MailSettles(d)
      PROVE  QuietReply
  <2> DEFINE m1 == [mail[d] EXCEPT !.where = "sent"]
             m2 == [mail[d] EXCEPT !.where = "drafts"]
  <2>1. /\ mail[d] \in MailDraft /\ mail[d].where = "going" /\ ~mail[d].shown
        /\ replied' = replied /\ UNCHANGED Ours
    BY <1>0, <1>7 DEF MailSettles, ReplyInv, DraftFits
  <2>2. /\ m1 \in MailDraft /\ m1.where = "sent" /\ m1.shown = mail[d].shown
        /\ m1.version = mail[d].version /\ m1.checked = mail[d].checked
        /\ m1.swapped = mail[d].swapped
        /\ m2 \in MailDraft /\ m2.where = "drafts" /\ m2.shown = mail[d].shown
        /\ m2.version = mail[d].version /\ m2.swapped = mail[d].swapped
    BY <2>1 DEF MailDraft
  <2>3. mail' = [mail EXCEPT ![d] = m1] \/ mail' = [mail EXCEPT ![d] = m2]
    BY <1>0, <1>7, <2>1 DEF MailSettles, Goes, MailDraft
  <2> HIDE DEF m1, m2
  <2>4. mail'[d] \in {m1, m2}
    BY <1>0, <2>3
  <2>5. QuietDraft(d)
    BY <2>1, <2>2, <2>4 DEF QuietDraft, Readable
  <2> QED
    BY <1>5, <2>1, <2>2, <2>3, <2>5
<1>8. ASSUME NEW d \in DraftIds, MailShows(d)
      PROVE  QuietReply
  <2> DEFINE m == [mail[d] EXCEPT !.shown = TRUE]
  <2>1. /\ mail[d] \in MailDraft /\ mail[d].where = "sent" /\ mail' = [mail EXCEPT ![d] = m]
        /\ replied' = replied /\ UNCHANGED Ours
    BY <1>0, <1>8 DEF MailShows
  <2>2. /\ m \in MailDraft /\ m.where = "sent" /\ m.version = mail[d].version
        /\ m.checked = mail[d].checked /\ m.swapped = mail[d].swapped
    BY <2>1 DEF MailDraft
  <2> HIDE DEF m
  <2>3. mail'[d] = m
    BY <1>0, <2>1
  <2>4. QuietDraft(d)
    BY <2>1, <2>2, <2>3 DEF QuietDraft, Readable
  <2> QED
    BY <1>5, <2>1, <2>2, <2>4
<1> QED
  BY <1>3, <1>4, <1>6, <1>7, <1>8 DEF MailNext

-----------------------------------------------------------------------------
(* The process stops *)

LEMMA ReplyCrashStep ==
  ASSUME ReplyInv, ReplyCrash
  PROVE  ReplyInv'
<1>0. /\ ReplyTypeOK /\ ReplyShape /\ mail \in [DraftIds -> MailDraft] /\ card \in ReplyCard
      /\ sender \in [Senders -> Sender] /\ troubles' \in Nat
  BY TroubleType DEF ReplyInv, ReplyShape, ReplyTypeOK, ReplyCrash
<1>0a. 0 \in 0..MaxDrafts
  BY ReplyAssumption
<1>1. NoSend \in Sender /\ ~NoSend.made
  BY <1>0a, PayloadTypes DEF NoSend, Sender, SenderPcs, NoDraft
<1>2. \A t \in Senders : Over(t) \in {"idle", "over"}
  BY DEF Over
<1>3. ASSUME NEW t \in Senders
      PROVE  /\ sender'[t] \in Sender /\ sender'[t].pc \in {"idle", "over"} /\ ~sender'[t].made
  <2> DEFINE o == Over(t)
  <2>1. sender'[t] = [NoSend EXCEPT !.pc = o]
    BY DEF ReplyCrash
  <2>2. o \in {"idle", "over"}
    BY <1>2
  <2> HIDE DEF o
  <2> QED
    BY <1>1, <2>1, <2>2 DEF Sender, SenderPcs
<1>4. ASSUME NEW d \in DraftIds, NEW t \in Senders, AtTheService(t, d)
      PROVE  LET u == CHOOSE u \in Senders : AtTheService(u, d) IN
             u \in Senders /\ AtTheService(u, d)
  BY <1>4
<1>5. ASSUME NEW d \in DraftIds
      PROVE  \/ mail'[d] = mail[d]
             \/ \E t \in Senders : /\ AtTheService(t, d)
                   /\ mail'[d] = [mail[d] EXCEPT !.where = "going", !.checked = sender[t].version]
  <2>1. CASE \E t \in Senders : AtTheService(t, d)
    <3> DEFINE u == CHOOSE t \in Senders : AtTheService(t, d)
    <3>1. u \in Senders /\ AtTheService(u, d)
      BY <2>1, <1>4
    <3>2. mail'[d] = [mail[d] EXCEPT !.where = "going", !.checked = sender[u].version]
      BY <2>1 DEF ReplyCrash
    <3> HIDE DEF u
    <3> QED
      BY <3>1, <3>2
  <2>2. CASE ~\E t \in Senders : AtTheService(t, d)
    BY <2>2 DEF ReplyCrash
  <2> QED
    BY <2>1, <2>2
<1>6. \A d \in DraftIds, t \in Senders : AtTheService(t, d) =>
        /\ mail[d].where = "drafts" /\ card.status = "executing"
        /\ ~misjudged => \A e \in DraftIds : ~Out(e)
        /\ ~mail[d].swapped => mail[d].version = sender[t].version
        /\ \A u \in Senders : Claimant(u) => u = t
  BY TheClaimant DEF AtTheService, ReplyInv, SenderFits, Claimant, Readable
<1>7. ASSUME NEW d \in DraftIds, NEW t \in Senders, AtTheService(t, d),
             mail'[d] = [mail[d] EXCEPT !.where = "going", !.checked = sender[t].version]
      PROVE  /\ mail'[d] \in MailDraft /\ mail'[d].where = "going" /\ ~mail'[d].shown
             /\ ~mail'[d].swapped => mail'[d].version = mail'[d].checked
             /\ card.status = "executing"
             /\ ~misjudged => \A e \in DraftIds : e # d => ~Out(e)'
  <2>1. mail[d] \in MailDraft /\ sender[t].version \in Nat
    BY <1>0 DEF Sender
  <2>2. /\ mail'[d] \in MailDraft /\ mail'[d].where = "going" /\ mail'[d].shown = mail[d].shown
        /\ mail'[d].swapped = mail[d].swapped /\ mail'[d].version = mail[d].version
        /\ mail'[d].checked = sender[t].version
    BY <1>7, <2>1 DEF MailDraft
  <2>3. ~mail[d].shown
    BY <1>6, <1>7 DEF ReplyInv, DraftFits
  <2>4. ASSUME ~misjudged, NEW e \in DraftIds, e # d
        PROVE  ~Out(e)'
    <3>1. mail'[e] = mail[e]
      <4>1. ASSUME NEW u \in Senders, AtTheService(u, e)
            PROVE  FALSE
        BY <1>6, <1>7, <2>4, <4>1 DEF AtTheService, Claimant
      <4> QED
        BY <1>5, <4>1
    <3> QED
      BY <1>6, <1>7, <2>4, <3>1 DEF Out
  <2> QED
    BY <1>6, <1>7, <2>2, <2>3, <2>4
<1>8. mail' \in [DraftIds -> MailDraft]
  <2>1. \A d \in DraftIds : mail'[d] \in MailDraft
    BY <1>0, <1>5, <1>7
  <2>2. mail' = [d \in DraftIds |-> mail'[d]]
    BY DEF ReplyCrash
  <2> QED
    BY <2>1, <2>2
<1>9. ReplyShape'
  <2>1. sender' \in [Senders -> Sender]
    <3>1. sender' = [t \in Senders |-> sender'[t]]
      BY DEF ReplyCrash
    <3> QED
      BY <1>3, <3>1
  <2>2. /\ NoEdit \in [pc : {"idle", "writing", "saving"}, start : Payload, version : Nat]
        /\ NoScan \in [pc : {"idle", "listed", "reading", "read"}, seen : ReplyCard,
                       gone : BOOLEAN]
        /\ [pc |-> "idle", draft |-> NoDraft]
             \in [pc : {"idle", "reading", "deleting"}, draft : 0..MaxDrafts]
    BY <1>0a, PayloadTypes DEF NoEdit, NoScan, NoDraft, ReplyCard, LedgerStatuses
  <2>3. ReplyTypeOK'
    BY <1>0, <1>8, <2>1, <2>2 DEF ReplyCrash, ReplyTypeOK
  <2> QED
    BY <1>3, <2>3 DEF ReplyShape, HasDraft
<1>10. \A t \in Senders : ~Claimant(t)'
  BY <1>3 DEF Claimant
<1>11. \A t \in Senders : SenderFits(t)'
  BY <1>10 DEF SenderFits, Claimant
<1>12. card' = card /\ replied' = replied /\ misjudged' = misjudged
  BY DEF ReplyCrash
<1>13. ASSUME NEW d \in DraftIds
       PROVE  DraftFits(d)'
  <2>1. CASE \E t \in Senders : /\ AtTheService(t, d)
               /\ mail'[d] = [mail[d] EXCEPT !.where = "going", !.checked = sender[t].version]
    BY <1>7, <1>10, <1>12, <2>1 DEF DraftFits, Out, Claimant
  <2>2. CASE mail'[d] = mail[d]
    <3>1. ASSUME ~misjudged, Out(d)', NEW e \in DraftIds, Out(e)'
          PROVE  e = d
      <4>1. CASE mail'[e] = mail[e]
        BY <2>2, <3>1, <4>1 DEF Out, ReplyInv, DraftFits
      <4>2. CASE mail'[e] # mail[e]
        BY <1>5, <1>7, <3>1, <4>2
      <4> QED
        BY <4>1, <4>2
    <3>2. Out(d)' = Out(d)
      BY <2>2 DEF Out
    <3>3. DraftFits(d)
      BY DEF ReplyInv
    <3> QED
      BY <1>10, <1>12, <2>2, <3>1, <3>2, <3>3 DEF DraftFits, Out, Claimant
  <2> QED
    BY <1>5, <2>1, <2>2
<1>14. ReplyCardIsRight'
  <2>1. ASSUME NEW d \in DraftIds
        PROVE  /\ mail[d].where \in {"sent", "bySelf"} => mail'[d].where = mail[d].where
               /\ card.status = "rejected" => mail'[d] = mail[d]
    <3>1. CASE mail'[d] = mail[d]
      BY <3>1
    <3>2. CASE \E t \in Senders : AtTheService(t, d)
      BY <1>6, <3>2
    <3> QED
      BY <1>5, <3>1, <3>2
  <2> QED
    BY <1>12, <2>1 DEF ReplyInv, ReplyCardIsRight
<1> QED
  BY <1>9, <1>11, <1>13, <1>14 DEF ReplyInv

-----------------------------------------------------------------------------
(* No draft is left behind *)

\* It made the draft it names, and takes it back if it does not send it.
Maker(t) == sender[t].made \/ sender[t].pc = "unmaking"

MadeFits ==
  \A t \in Senders : sender[t].made => sender[t].pc \notin {"idle", "checking", "making", "over"}

\* The watcher's draft is on the card for good: nobody makes another.
DraftKept ==
  /\ card.payload.draft = 1
  /\ \A t \in Senders :
       /\ ~Maker(t) /\ sender[t].pc \notin {"making", "takingback"}
       /\ sender[t].pc \notin {"idle", "over"} => sender[t].start.draft = 1
  /\ editor.pc # "idle" => editor.start.draft = 1
  /\ \A d \in DraftIds : d # 1 => mail[d].where = "none"

MakersAtWork ==
  \A d \in DraftIds : mail[d].where = "drafts" =>
    \E t \in Senders : Maker(t) /\ sender[t].draft = d

DraftInv ==
  /\ MadeFits
  /\ troubles = 0 => /\ \A d \in DraftIds : mail[d].where # "going"
                     /\ DraftKept \/ MakersAtWork

\* What a step owes the drafts.
OwnsDrafts ==
  /\ \A d \in DraftIds : mail'[d].where = "going" => mail[d].where = "going"
  /\ DraftKept => DraftKept'
  /\ \A d \in DraftIds : mail'[d].where = "drafts" =>
       \/ \E t \in Senders : Maker(t)' /\ sender'[t].draft = d
       \/ /\ mail[d].where \in {"drafts", "going"}
          /\ \A t \in Senders : Maker(t) /\ sender[t].draft = d =>
               Maker(t)' /\ sender'[t].draft = d

LEMMA OwningKeeps ==
  ASSUME DraftInv, MadeFits', troubles' = 0 => troubles = 0 /\ OwnsDrafts
  PROVE  DraftInv'
<1> SUFFICES ASSUME troubles' = 0
             PROVE  (\A d \in DraftIds : mail[d].where # "going")' /\ (DraftKept \/ MakersAtWork)'
  BY DEF DraftInv
<1>1. OwnsDrafts /\ (\A d \in DraftIds : mail[d].where # "going") /\ (DraftKept \/ MakersAtWork)
  BY DEF DraftInv
<1>2. (\A d \in DraftIds : mail[d].where # "going")'
  BY <1>1 DEF OwnsDrafts
<1>3. CASE DraftKept
  BY <1>1, <1>2, <1>3 DEF OwnsDrafts
<1>4. CASE MakersAtWork
  BY <1>1, <1>2, <1>4 DEF OwnsDrafts, MakersAtWork
<1> QED
  BY <1>1, <1>3, <1>4

\* A step counted as a trouble owes nothing.
LEMMA TroubleOwesNothing ==
  ASSUME ReplyInv, DraftInv, MadeFits', Trouble
  PROVE  DraftInv'
<1>1. troubles \in Nat /\ troubles' = troubles + 1
  BY DEF ReplyInv, ReplyShape, ReplyTypeOK, Trouble
<1>2. troubles' # 0
  BY <1>1
<1> QED
  BY <1>2, OwningKeeps

\* The statements keep the payload or write the one they are given.
LEMMA PayloadEffects ==
  ASSUME NEW r \in ReplyCard
  PROVE  /\ ClaimedCard(r).payload = r.payload /\ Released(r).payload = r.payload
         /\ ClosedCard(r).payload = r.payload
         /\ CloseUnlessSending(r).payload = r.payload
         /\ ClosedCard(Released(r)).payload = r.payload
         /\ MarkedResolved(r, "rejected").payload = r.payload
         /\ \A how : ExecutionFinished(r, how).payload = r.payload
         /\ \A p, q : Updated(r, p, q).payload \in {r.payload, p}
         /\ \A p : HandedBack(r, p).payload \in {r.payload, p}
  BY DEF ReplyCard, CloseUnlessSending, ClaimedCard, Released, ClosedCard, MarkedResolved,
     ExecutionFinished, Updated, HandedBack, OpenCard

LEMMA RefuseOwns ==
  ASSUME ReplyShape, NEW t \in Senders, NEW r \in ReplyCard, Refuse(t, r)
  PROVE  /\ OneMoves(t)
         /\ sender[t].made => /\ Maker(t)' /\ sender'[t].draft = sender[t].draft
                              /\ sender'[t].pc = "takingback"
         /\ ~sender[t].made => ~sender'[t].made /\ sender'[t].pc \in {"idle", "over"}
         /\ card'.payload \in {r.payload, sender[t].start}
  <1>1. CASE sender[t].made
    <2>1. Moves(t, "takingback") /\ card' = r
      BY <1>1 DEF Refuse
    <2>2. "takingback" \in SenderPcs /\ HasDraft(t)
      BY <1>1 DEF SenderPcs, HasDraft
    <2>3. OneMoves(t) /\ sender'[t] = [sender[t] EXCEPT !.pc = "takingback"]
          /\ sender'[t].pc = "takingback"
      BY <2>1, <2>2, SenderMoves
    <2>4. sender[t] \in Sender
      BY DEF ReplyShape, ReplyTypeOK
    <2>5. sender'[t].draft = sender[t].draft /\ sender'[t].made = sender[t].made
      BY <2>3, <2>4 DEF Sender
    <2> QED
      BY <1>1, <2>1, <2>3, <2>5 DEF Maker
  <1>2. CASE ~sender[t].made
    <2>1. sender' = [sender EXCEPT ![t] = [NoSend EXCEPT !.pc = Over(t)]] /\ card' = Left(t, r)
      BY <1>2 DEF Refuse
    <2>2. OneMoves(t) /\ sender'[t].pc = Over(t) /\ Over(t) \in {"idle", "over"}
      BY <2>1, SenderSettles
    <2>3. ~sender'[t].made
      BY <2>1 DEF ReplyShape, ReplyTypeOK, NoSend
    <2>4. card'.payload \in {r.payload, sender[t].start}
      BY <2>1, PayloadEffects DEF Left
    <2> QED
      BY <1>2, <2>2, <2>3, <2>4
  <1> QED
    BY <1>1, <1>2

\* One sender moves, the draft it made in hand until it is gone.
LEMMA TapOwns ==
  ASSUME ReplyInv, DraftInv, NEW t \in Senders, OneMoves(t),
         sender'[t].made => sender'[t].pc \notin {"idle", "checking", "making", "over"},
         editor' = editor, troubles' = troubles,
         \A d \in DraftIds :
           \/ mail'[d].where = mail[d].where
           \/ mail'[d].where \notin {"going", "drafts"}
           \/ mail'[d].where = "drafts" /\ Maker(t)' /\ sender'[t].draft = d,
         Maker(t) => \/ Maker(t)' /\ sender'[t].draft = sender[t].draft
                     \/ mail'[sender[t].draft].where # "drafts",
         DraftKept => /\ card'.payload.draft = 1
                      /\ ~Maker(t)' /\ sender'[t].pc \notin {"making", "takingback"}
                      /\ sender'[t].pc \notin {"idle", "over"} => sender'[t].start.draft = 1
                      /\ \A d \in DraftIds : d # 1 => mail'[d].where = "none"
  PROVE  DraftInv'
<1>1. MadeFits'
  BY DEF DraftInv, MadeFits, OneMoves
<1>2. \A d \in DraftIds : mail'[d].where = "going" => mail[d].where = "going"
  OBVIOUS
<1>3. DraftKept => DraftKept'
  BY DEF DraftKept, OneMoves, Maker
<1>4. ASSUME NEW d \in DraftIds, mail'[d].where = "drafts"
      PROVE  \/ \E u \in Senders : Maker(u)' /\ sender'[u].draft = d
             \/ /\ mail[d].where \in {"drafts", "going"}
                /\ \A u \in Senders : Maker(u) /\ sender[u].draft = d =>
                     Maker(u)' /\ sender'[u].draft = d
  <2>1. CASE Maker(t)' /\ sender'[t].draft = d
    BY <2>1
  <2>2. CASE mail'[d].where = mail[d].where /\ ~(Maker(t)' /\ sender'[t].draft = d)
    <3>1. ~(Maker(t) /\ sender[t].draft = d)
      BY <1>4, <2>2
    <3>2. \A u \in Senders : Maker(u) /\ sender[u].draft = d => Maker(u)' /\ sender'[u].draft = d
      BY <3>1 DEF OneMoves, Maker
    <3> QED
      BY <1>4, <2>2, <3>2
  <2> QED
    BY <1>4, <2>1, <2>2
<1> QED
  BY <1>1, <1>2, <1>3, <1>4, OwningKeeps DEF OwnsDrafts

\* A request is refused: what it made it goes on to take back.
LEMMA RefusedOwns ==
  ASSUME ReplyInv, DraftInv, NEW t \in Senders, NEW r \in ReplyCard, Refuse(t, r),
         r.payload = card.payload, sender[t].pc \notin {"idle", "over", "unmaking"},
         editor' = editor, troubles' = troubles, mail' = mail
  PROVE  DraftInv'
<1>1. /\ OneMoves(t)
      /\ sender[t].made => /\ Maker(t)' /\ sender'[t].draft = sender[t].draft
                           /\ sender'[t].pc = "takingback"
      /\ ~sender[t].made => ~sender'[t].made /\ sender'[t].pc \in {"idle", "over"}
      /\ card'.payload \in {r.payload, sender[t].start}
  BY RefuseOwns DEF ReplyInv
<1>2. sender'[t].made => sender'[t].pc \notin {"idle", "checking", "making", "over"}
  BY <1>1
<1>3. Maker(t) => Maker(t)' /\ sender'[t].draft = sender[t].draft
  BY <1>1 DEF Maker
<1>4. DraftKept => /\ card'.payload.draft = 1
                   /\ ~Maker(t)' /\ sender'[t].pc \in {"idle", "over"}
                   /\ \A d \in DraftIds : d # 1 => mail'[d].where = "none"
  BY <1>1 DEF DraftKept, Maker
<1> QED
  BY <1>1, <1>2, <1>3, <1>4, TapOwns

\* A sender only moves on, its draft and its start as they were.
LEMMA MovesOwn ==
  ASSUME ReplyInv, DraftInv, NEW t \in Senders, OneMoves(t),
         sender[t].pc \notin {"idle", "over", "unmaking"},
         sender'[t].pc \notin {"idle", "over", "making", "takingback", "unmaking", "checking"},
         sender'[t].made = sender[t].made, sender'[t].start = sender[t].start,
         sender'[t].draft = sender[t].draft \/ ~sender[t].made,
         card'.payload = card.payload, editor' = editor, troubles' = troubles,
         \A d \in DraftIds : mail'[d].where = mail[d].where \/ mail'[d].where = "sent",
         DraftKept => \A d \in DraftIds : d # 1 => mail'[d].where = "none"
  PROVE  DraftInv'
<1>1. Maker(t) => Maker(t)' /\ sender'[t].draft = sender[t].draft
  BY DEF Maker
<1>2. DraftKept => ~Maker(t)' /\ sender'[t].start.draft = 1 /\ card'.payload.draft = 1
  BY DEF DraftKept, Maker
<1>3. sender'[t].made => sender'[t].pc \notin {"idle", "checking", "making", "over"}
  OBVIOUS
<1> QED
  BY <1>1, <1>2, <1>3, TapOwns

LEMMA BeginOwns ==
  ASSUME ReplyInv, DraftInv, NEW t \in Senders, TapBegins(t) \/ TapReads(t) \/ TapMakes(t)
  PROVE  DraftInv'
<1>0. /\ ReplyShape /\ ReplyTypeOK /\ sender[t] \in Sender /\ card.payload \in Payload
      /\ sender[t].start \in Payload /\ sender \in [Senders -> Sender]
  BY DEF ReplyInv, ReplyShape, ReplyTypeOK, ReplyCard, Sender
<1>1. CASE TapBegins(t)
  <2> DEFINE s == [NoSend EXCEPT !.pc = "checking", !.start = card.payload]
  <2>1. 0 \in 0..MaxDrafts
    BY ReplyAssumption
  <2>2. NoSend \in Sender /\ ~NoSend.made
    BY <2>1, PayloadTypes DEF NoSend, Sender, SenderPcs, NoDraft
  <2>3. s \in Sender /\ s.pc = "checking" /\ ~s.made /\ s.start = card.payload
    BY <1>0, <2>2 DEF Sender, SenderPcs
  <2>4. /\ sender' = [sender EXCEPT ![t] = s] /\ sender[t].pc = "idle"
        /\ card' = card /\ mail' = mail /\ editor' = editor /\ troubles' = troubles
    BY <1>1 DEF TapBegins, NotSending
  <2> HIDE DEF s
  <2>5. OneMoves(t) /\ sender'[t] = s
    BY <1>0, <2>3, <2>4, SenderSet
  <2>6. ~Maker(t) /\ ~Maker(t)'
    BY <2>3, <2>4, <2>5 DEF Maker, DraftInv, MadeFits
  <2>7. DraftKept => card'.payload.draft = 1 /\ sender'[t].start.draft = 1
                /\ \A d \in DraftIds : d # 1 => mail'[d].where = "none"
    BY <2>3, <2>4, <2>5 DEF DraftKept
  <2> QED
    BY <2>3, <2>4, <2>5, <2>6, <2>7, TapOwns
<1>2. CASE TapReads(t)
  <2> DEFINE d == sender[t].start.draft
             s == [sender[t] EXCEPT !.pc = "reading", !.draft = d]
  <2>1. d \in 0..MaxDrafts /\ d \in DraftIds
    BY <1>0, <1>2, ReplyAssumption DEF TapReads, CardOnly, NoDraft, Payload, DraftIds
  <2> HIDE DEF d
  <2>2. s \in Sender /\ s.pc = "reading" /\ s.draft = d /\ s.made = sender[t].made
        /\ s.start = sender[t].start
    BY <1>0, <2>1 DEF Sender, SenderPcs
  <2>3. /\ sender' = [sender EXCEPT ![t] = s] /\ sender[t].pc = "checking"
        /\ card' = card /\ mail' = mail /\ editor' = editor /\ troubles' = troubles
    BY <1>0, <1>2 DEF TapReads, NotSending, d
  <2> HIDE DEF s
  <2>4. OneMoves(t) /\ sender'[t] = s
    BY <1>0, <2>1, <2>2, <2>3, SenderSet
  <2>5. ~sender[t].made
    BY <2>3 DEF DraftInv, MadeFits
  <2>6. DraftKept => \A e \in DraftIds : e # 1 => mail'[e].where = "none"
    BY <2>3 DEF DraftKept
  <2> QED
    BY <2>2, <2>3, <2>4, <2>5, <2>6, MovesOwn
<1>3. CASE TapMakes(t)
  <2> DEFINE s == [sender[t] EXCEPT !.pc = "making", !.start = card.payload]
  <2>1. s \in Sender /\ s.pc = "making" /\ s.draft = sender[t].draft /\ s.made = sender[t].made
    BY <1>0 DEF Sender, SenderPcs
  <2>2. /\ sender' = [sender EXCEPT ![t] = s] /\ sender[t].pc = "checking"
        /\ card' = card /\ mail' = mail /\ editor' = editor /\ troubles' = troubles
        /\ card.payload.draft = 0
    BY <1>0, <1>3 DEF TapMakes, NotSending, CardOnly, NoDraft
  <2> HIDE DEF s
  <2>3. ~sender[t].made
    BY <2>2 DEF DraftInv, MadeFits
  <2>4. s.made \/ s.pc \notin {"idle", "checking", "making", "over"} => s.draft \in DraftIds
    BY <2>1, <2>3
  <2>5. OneMoves(t) /\ sender'[t] = s
    BY <1>0, <2>1, <2>2, <2>4, SenderSet
  <2>6. ~Maker(t) /\ ~Maker(t)' /\ ~DraftKept
    BY <2>1, <2>2, <2>3, <2>5 DEF Maker, DraftKept
  <2> QED
    BY <2>1, <2>2, <2>3, <2>5, <2>6, TapOwns
<1> QED
  BY <1>1, <1>2, <1>3

LEMMA MakeOwns ==
  ASSUME ReplyInv, DraftInv, NEW t \in Senders, NEW d \in DraftIds, DraftMade(t, d)
  PROVE  DraftInv'
<1>0. /\ ReplyShape /\ ReplyTypeOK /\ card \in ReplyCard /\ sender[t] \in Sender
      /\ sender[t].start \in Payload /\ sender \in [Senders -> Sender]
      /\ mail \in [DraftIds -> MailDraft] /\ d \in 0..MaxDrafts
  BY ReplyAssumption DEF ReplyInv, ReplyShape, ReplyTypeOK, Sender, DraftIds
<1>1. /\ sender[t].pc = "making" /\ editor' = editor /\ troubles' = troubles
      /\ mail' = [mail EXCEPT ![d].where = "drafts", ![d].version = 1]
  BY DEF DraftMade, NotSending
<1>2. /\ mail'[d].where = "drafts"
      /\ \A e \in DraftIds : e # d => mail'[e] = mail[e]
  BY <1>0, <1>1 DEF MailDraft
<1>3. ~DraftKept /\ ~Maker(t)
  BY <1>1 DEF DraftKept, Maker, DraftInv, MadeFits
<1>4. PICK s \in Sender :
        /\ sender' = [sender EXCEPT ![t] = s] /\ s.draft = d
        /\ (s.pc = "reading" /\ s.made) \/ s.pc = "unmaking"
  <2> DEFINE new == Updated(card, [sender[t].start EXCEPT !.draft = d, !.made = 1],
                            sender[t].start)
  <2>1. CASE new # card
    <3> DEFINE p == [sender[t].start EXCEPT !.draft = d, !.made = 1]
               s == [pc |-> "reading", start |-> new.payload, draft |-> d, version |-> 0,
                     made |-> TRUE]
    <3>1. p \in Payload
      BY <1>0, PayloadTypes
    <3> HIDE DEF p
    <3>2. Updated(card, p, sender[t].start).payload \in Payload
      BY <1>0, <3>1, UpdateEffects DEF ReplyCard
    <3>3. new.payload \in Payload
      BY <3>2 DEF p
    <3>4. sender' = [sender EXCEPT ![t] = s]
      BY <2>1 DEF DraftMade
    <3> HIDE DEF new
    <3>5. s \in Sender /\ s.draft = d /\ s.pc = "reading" /\ s.made
      BY <1>0, <3>3 DEF Sender, SenderPcs
    <3> HIDE DEF s
    <3> QED
      BY <3>4, <3>5
  <2>2. CASE new = card
    <3> DEFINE s == [sender[t] EXCEPT !.pc = "unmaking", !.draft = d]
    <3>1. sender' = [sender EXCEPT ![t] = s]
      BY <1>0, <2>2 DEF DraftMade
    <3>2. s \in Sender /\ s.draft = d /\ s.pc = "unmaking"
      BY <1>0 DEF Sender, SenderPcs
    <3> HIDE DEF s
    <3> QED
      BY <3>1, <3>2
  <2> QED
    BY <2>1, <2>2
<1>5. s.pc \in {"reading", "unmaking"} /\ s.draft \in DraftIds
  BY <1>4
<1>6. OneMoves(t) /\ sender'[t] = s
  BY <1>0, <1>4, <1>5, SenderSet
<1>7. Maker(t)' /\ sender'[t].draft = d
  BY <1>4, <1>6 DEF Maker
<1>8. sender'[t].pc \notin {"idle", "checking", "making", "over"}
  BY <1>5, <1>6
<1> QED
  BY <1>1, <1>2, <1>3, <1>6, <1>7, <1>8, TapOwns

\* The steps that only read, claim or send.
LEMMA OnwardOwns ==
  ASSUME ReplyInv, DraftInv, NEW t \in Senders, NEW pc \in {"rereading", "sending", "went"},
         Moves(t, pc), HasDraft(t), sender[t].pc \notin {"idle", "over", "unmaking"},
         card'.payload = card.payload, UNCHANGED <<troubles, NotSending>>,
         \A d \in DraftIds : mail'[d].where = mail[d].where
           \/ (mail[d].where = "drafts" /\ mail'[d].where = "sent")
  PROVE  DraftInv'
<1>1. pc \in SenderPcs
  BY DEF SenderPcs
<1>2. OneMoves(t) /\ sender'[t] = [sender[t] EXCEPT !.pc = pc] /\ sender'[t].pc = pc
  BY <1>1, SenderMoves DEF ReplyInv
<1>3. /\ sender'[t].made = sender[t].made /\ sender'[t].start = sender[t].start
      /\ sender'[t].draft = sender[t].draft
  BY <1>2 DEF ReplyInv, ReplyShape, ReplyTypeOK, Sender
<1>4. DraftKept => \A d \in DraftIds : d # 1 => mail'[d].where = "none"
  BY DEF DraftKept
<1> QED
  BY <1>2, <1>3, <1>4, MovesOwn DEF NotSending

LEMMA SendOwns ==
  ASSUME ReplyInv, DraftInv, NEW t \in Senders, TapBegins(t) \/ SendNext(t)
  PROVE  DraftInv'
<1>0. /\ ReplyShape /\ ReplyTypeOK /\ card \in ReplyCard /\ sender[t] \in Sender
      /\ sender \in [Senders -> Sender] /\ mail \in [DraftIds -> MailDraft]
  BY DEF ReplyInv, ReplyShape, ReplyTypeOK
<1>1. CASE TapBegins(t) \/ TapReads(t) \/ TapMakes(t)
  BY <1>1, BeginOwns
<1>2. ASSUME NEW d \in DraftIds, DraftMade(t, d)
      PROVE  DraftInv'
  BY <1>2, MakeOwns
<1>3. CASE TapTurnedDown(t) \/ MakingFails(t) \/ TapFindsAnswer(t) \/ RereadFails(t)
  <2>1. PICK r \in ReplyCard : Refuse(t, r) /\ r.payload = card.payload
    <3>1. {card, CloseUnlessSending(card), Released(card)} \subseteq ReplyCard
      BY <1>0, CloseEffects, ReplyRowTypes
    <3>2. \A r \in {card, CloseUnlessSending(card), Released(card)} : r.payload = card.payload
      BY <1>0, PayloadEffects
    <3>3. \E r \in {card, CloseUnlessSending(card), Released(card)} : Refuse(t, r)
      BY <1>3 DEF TapTurnedDown, MakingFails, TapFindsAnswer, RereadFails
    <3> QED
      BY <3>1, <3>2, <3>3
  <2>2. /\ sender[t].pc \notin {"idle", "over", "unmaking"} /\ editor' = editor
        /\ troubles' = troubles /\ mail' = mail
    BY <1>3 DEF TapTurnedDown, MakingFails, TapFindsAnswer, RereadFails, NotSending
  <2> QED
    BY <2>1, <2>2, RefusedOwns
<1>4. CASE SendRefused(t)
  <2>1. PICK r \in ReplyCard : Refuse(t, r) /\ r.payload = card.payload
    <3>1. {Released(card), ClosedCard(Released(card))} \subseteq ReplyCard
      BY <1>0, ReplyRowTypes
    <3>2. \A r \in {Released(card), ClosedCard(Released(card))} : r.payload = card.payload
      BY <1>0, PayloadEffects
    <3>3. \E r \in {Released(card), ClosedCard(Released(card))} : Refuse(t, r)
      BY <1>4 DEF SendRefused
    <3> QED
      BY <3>1, <3>2, <3>3
  <2>2. /\ sender[t].pc \notin {"idle", "over", "unmaking"} /\ editor' = editor
        /\ troubles' = troubles /\ mail' = mail
    BY <1>4 DEF SendRefused, NotSending
  <2> QED
    BY <2>1, <2>2, RefusedOwns
<1>5. CASE TapReadsDraft(t)
  <2> DEFINE d == sender[t].draft
  <2>1. CASE Readable(d)
    <3> DEFINE s == [sender[t] EXCEPT !.pc = "thread", !.version = mail[d].version]
    <3>1. HasDraft(t) /\ d \in DraftIds /\ sender[t].pc = "reading"
      BY <1>0, <1>5 DEF TapReadsDraft, ReplyShape, HasDraft
    <3>2. mail[d].version \in Nat
      BY <1>0, <3>1 DEF MailDraft
    <3>3. s \in Sender /\ s.pc = "thread" /\ s.draft = d /\ s.made = sender[t].made
          /\ s.start = sender[t].start
      BY <1>0, <3>2 DEF Sender, SenderPcs
    <3>4. /\ sender' = [sender EXCEPT ![t] = s] /\ card' = card /\ mail' = mail
          /\ editor' = editor /\ troubles' = troubles
      BY <1>0, <1>5, <2>1 DEF TapReadsDraft, NotSending
    <3> HIDE DEF s
    <3>5. OneMoves(t) /\ sender'[t] = s
      BY <1>0, <3>1, <3>3, <3>4, SenderSet
    <3>6. DraftKept => \A e \in DraftIds : e # 1 => mail'[e].where = "none"
      BY <3>4 DEF DraftKept
    <3> QED
      BY <3>1, <3>3, <3>4, <3>5, <3>6, MovesOwn
  <2>2. CASE ~Readable(d)
    <3>1. /\ Refuse(t, CloseUnlessSending(card)) /\ sender[t].pc = "reading" /\ editor' = editor
          /\ troubles' = troubles /\ mail' = mail
      BY <1>5, <2>2 DEF TapReadsDraft, NotSending
    <3>2. CloseUnlessSending(card) \in ReplyCard
          /\ CloseUnlessSending(card).payload = card.payload
      BY <1>0, CloseEffects, PayloadEffects
    <3> QED
      BY <3>1, <3>2, RefusedOwns
  <2> QED
    BY <2>1, <2>2
<1>6. CASE TapClaims(t)
  <2>1. /\ Moves(t, "rereading") /\ sender[t].pc = "thread" /\ HasDraft(t) /\ mail' = mail
        /\ card' = ClaimedCard(card) /\ UNCHANGED <<troubles, NotSending>>
    BY <1>6 DEF TapClaims, MayClaim, HasDraft
  <2>2. card'.payload = card.payload
    BY <1>0, <2>1, PayloadEffects
  <2> QED
    BY <2>1, <2>2, OnwardOwns
<1>7. CASE TapRereads(t)
  <2> DEFINE d == sender[t].draft
  <2>1. sender[t].pc = "rereading" /\ HasDraft(t) /\ d \in DraftIds
        /\ UNCHANGED <<troubles, NotSending>>
    BY <1>0, <1>7 DEF TapRereads, ReplyShape, HasDraft
  <2>2. CASE StillAsChecked(t)
    <3> DEFINE w == mail[d].where = "going" /\ mail[d].swapped
    <3>1. Moves(t, "sending") /\ card' = card /\ mail' = [mail EXCEPT ![d].swapped = w]
      BY <1>7, <2>2 DEF TapRereads
    <3> HIDE DEF w
    <3>2. \A e \in DraftIds : mail'[e].where = mail[e].where
      BY <1>0, <2>1, <3>1 DEF MailDraft
    <3> QED
      BY <2>1, <3>1, <3>2, OnwardOwns
  <2>3. CASE ~StillAsChecked(t)
    <3>1. mail' = mail /\ \E r \in {Released(card), ClosedCard(Released(card))} : Refuse(t, r)
      BY <1>7, <2>3 DEF TapRereads
    <3>2. {Released(card), ClosedCard(Released(card))} \subseteq ReplyCard
      BY <1>0, ReplyRowTypes
    <3>3. \A r \in {Released(card), ClosedCard(Released(card))} : r.payload = card.payload
      BY <1>0, PayloadEffects
    <3> QED
      BY <2>1, <3>1, <3>2, <3>3, RefusedOwns DEF NotSending
  <2> QED
    BY <2>2, <2>3
<1>8. CASE MailSends(t)
  <2> DEFINE d == sender[t].draft
  <2>1. /\ sender[t].pc = "sending" /\ HasDraft(t) /\ d \in DraftIds /\ Moves(t, "went")
        /\ card' = card /\ mail[d].where = "drafts" /\ mail' = Goes(d, sender[t].version)
        /\ UNCHANGED <<troubles, NotSending>>
    BY <1>0, <1>8 DEF MailSends, ReplyShape, HasDraft
  <2>2. mail'[d].where = "sent" /\ \A e \in DraftIds : e # d => mail'[e] = mail[e]
    BY <1>0, <2>1 DEF Goes, MailDraft
  <2> QED
    BY <2>1, <2>2, OnwardOwns
<1>9. CASE TapFinishes(t)
  <2> DEFINE d == sender[t].draft
  <2>1. /\ sender[t].pc = "went" /\ d \in DraftIds /\ mail[d].where = "sent" /\ mail' = mail
        /\ editor' = editor /\ troubles' = troubles
        /\ sender' = [sender EXCEPT ![t] = [NoSend EXCEPT !.pc = Over(t)]]
    BY <1>0, <1>9 DEF TapFinishes, NotSending, ReplyInv, SenderFits, ReplyShape, HasDraft
  <2>2. card'.payload = card.payload
    BY <1>0, <1>9, PayloadEffects DEF TapFinishes
  <2>3. OneMoves(t) /\ sender'[t].pc \in {"idle", "over"}
    BY <1>0, <2>1, SenderSettles
  <2>4. ~sender'[t].made
    BY <1>0, <2>1 DEF NoSend
  <2>5. ~Maker(t)'
    BY <2>3, <2>4 DEF Maker
  <2>6. DraftKept => card'.payload.draft = 1 /\ \A e \in DraftIds : e # 1 => mail'[e].where = "none"
    BY <2>1, <2>2 DEF DraftKept
  <2> QED
    BY <2>1, <2>3, <2>4, <2>5, <2>6, TapOwns
<1>10. CASE TapUndoes(t)
  <2> DEFINE d == sender[t].draft
             r == IF sender[t].pc = "takingback" THEN DraftTakenBack(t) ELSE card
  <2>1. /\ sender[t].pc \in {"takingback", "unmaking"} /\ d \in DraftIds /\ ~DraftKept
        /\ editor' = editor
        /\ sender' = [sender EXCEPT ![t] = [NoSend EXCEPT !.pc = Over(t)]]
    BY <1>0, <1>10 DEF TapUndoes, NotSending, ReplyShape, HasDraft, DraftKept, Maker
  <2>2. OneMoves(t) /\ sender'[t].pc \in {"idle", "over"}
    BY <1>0, <2>1, SenderSettles
  <2>3. ~sender'[t].made
    BY <1>0, <2>1 DEF NoSend
  <2>4. MadeFits'
    BY <2>2, <2>3 DEF DraftInv, MadeFits, OneMoves
  <2>5. CASE Trouble
    BY <2>4, <2>5, TroubleOwesNothing
  <2>6. CASE mail' = Deleted(d) /\ troubles' = troubles
    <3>1. mail'[d].where # "drafts"
      BY <1>0, <2>1, <2>6 DEF Deleted, MailDraft
    <3>2. \A e \in DraftIds : mail'[e].where = mail[e].where \/ mail'[e].where = "deleted"
      BY <1>0, <2>1, <2>6 DEF Deleted, MailDraft
    <3> QED
      BY <2>1, <2>2, <2>3, <2>6, <3>1, <3>2, TapOwns
  <2> QED
    BY <1>10, <2>5, <2>6 DEF TapUndoes
<1>11. CASE SendUnconfirmed(t) \/ \E d \in DraftIds : MakingUnconfirmed(t, d)
  <2>1. Trouble
    BY <1>11 DEF SendUnconfirmed, LeftUnconfirmed, MakingUnconfirmed
  <2>2. MadeFits'
    <3>1. CASE SendUnconfirmed(t)
      <4>1. sender' = [sender EXCEPT ![t] = [NoSend EXCEPT !.pc = Over(t)]]
        BY <3>1 DEF SendUnconfirmed, LeftUnconfirmed
      <4>2. OneMoves(t) /\ ~sender'[t].made
        BY <1>0, <4>1, SenderSettles DEF NoSend
      <4> QED
        BY <4>2 DEF DraftInv, MadeFits, OneMoves
    <3>2. CASE \E d \in DraftIds : MakingUnconfirmed(t, d)
      <4>1. Refuse(t, card) /\ sender[t].pc = "making"
        BY <3>2 DEF MakingUnconfirmed
      <4>2. OneMoves(t) /\ ~sender'[t].made
        BY <1>0, <4>1, RefuseOwns DEF DraftInv, MadeFits
      <4> QED
        BY <4>2 DEF DraftInv, MadeFits, OneMoves
    <3> QED
      BY <1>11, <3>1, <3>2
  <2> QED
    BY <2>1, <2>2, TroubleOwesNothing
<1> QED
  BY <1>1, <1>2, <1>3, <1>4, <1>5, <1>6, <1>7, <1>8, <1>9, <1>10, <1>11 DEF SendNext

\* The others take no draft out of a maker's hand.
LEMMA OthersOwn ==
  ASSUME ReplyInv, DraftInv, sender' = sender, troubles' = troubles,
         \A d \in DraftIds : /\ mail'[d].where = "going" => mail[d].where = "going"
                             /\ mail'[d].where = "drafts" => mail[d].where \in {"drafts", "going"}
                             /\ mail[d].where = "none" => mail'[d].where = "none",
         \/ card'.payload = card.payload
         \/ editor.pc # "idle" /\ card'.payload.draft = editor.start.draft,
         editor'.pc # "idle" =>
           \/ editor'.start.draft = card.payload.draft
           \/ editor.pc # "idle" /\ editor'.start = editor.start
  PROVE  DraftInv'
<1>1. MadeFits' /\ \A t \in Senders : Maker(t)' <=> Maker(t)
  BY DEF DraftInv, MadeFits, Maker
<1>2. DraftKept => DraftKept'
  BY <1>1 DEF DraftKept
<1> QED
  BY <1>1, <1>2, OwningKeeps DEF OwnsDrafts

LEMMA RestOwns ==
  ASSUME ReplyInv, DraftInv,
         EditBegins \/ EditNext \/ Reject \/ DismissNext \/ ScanNext \/ MailNext
  PROVE  DraftInv'
<1>0. /\ ReplyTypeOK /\ card \in ReplyCard /\ mail \in [DraftIds -> MailDraft]
      /\ editor \in [pc : {"idle", "writing", "saving"}, start : Payload, version : Nat]
  BY DEF ReplyInv, ReplyShape, ReplyTypeOK
<1>1. CASE EditBegins
  <2>1. /\ sender' = sender /\ troubles' = troubles /\ mail' = mail /\ card' = card
        /\ editor'.start = card.payload
    BY <1>1 DEF EditBegins, SendPath
  <2> QED
    BY <2>1, OthersOwn
<1>2. CASE EditRewrites
  <2> DEFINE d == editor.start.draft
  <2>1. /\ sender' = sender /\ troubles' = troubles /\ card' = card /\ editor.pc = "writing"
        /\ editor'.start = editor.start
    BY <1>0, <1>2 DEF EditRewrites, SendPath
  <2>2. d \in DraftIds
    BY <1>0, <1>2, ReplyAssumption DEF EditRewrites, NoDraft, Payload, DraftIds
  <2>3. \A e \in DraftIds : mail'[e].where = mail[e].where
    <3> DEFINE v == mail[d].version + 1
               w == \E t \in Senders : sender[t].pc = "sending" /\ sender[t].draft = d
    <3>1. mail' = [mail EXCEPT ![d].version = v, ![d].swapped = w]
      BY <1>2 DEF EditRewrites
    <3> HIDE DEF v, w
    <3> QED
      BY <1>0, <2>2, <3>1 DEF MailDraft
  <2> QED
    BY <2>1, <2>3, OthersOwn
<1>3. CASE EditSaves \/ EditRefused
  <2>1. /\ sender' = sender /\ troubles' = troubles /\ mail' = mail /\ editor.pc # "idle"
        /\ editor'.pc = "idle"
    BY <1>3 DEF EditSaves, EditRefused, SendPath, EditOver, NoEdit
  <2>2. card'.payload = card.payload \/ card'.payload.draft = editor.start.draft
    <3>1. CASE EditSaves
      <4> DEFINE w == editor.start.words + 1
                 e == IF editor.pc = "saving" THEN editor.version ELSE editor.start.edited
                 p == [editor.start EXCEPT !.words = w, !.edited = e]
      <4>1. card' = Updated(card, [editor.start EXCEPT !.words = w, !.edited = e], editor.start)
        BY <1>0, <3>1 DEF EditSaves, Payload
      <4> HIDE DEF w, e
      <4>2. p.draft = editor.start.draft /\ card' = Updated(card, p, editor.start)
        BY <1>0, <4>1 DEF Payload
      <4> HIDE DEF p
      <4> QED
        BY <1>0, <4>2, PayloadEffects
    <3>2. CASE EditRefused
      <4>1. card' \in {card, CloseUnlessSending(card)}
        BY <3>2 DEF EditRefused
      <4> QED
        BY <1>0, <4>1, PayloadEffects
    <3> QED
      BY <1>3, <3>1, <3>2
  <2> QED
    BY <2>1, <2>2, OthersOwn
<1>4. CASE Reject \/ DismissReads \/ ScanNext
  <2>1. sender' = sender /\ troubles' = troubles /\ mail' = mail /\ editor' = editor
    BY <1>4 DEF Reject, DismissReads, SendersAndScan, ScanNext, ScanLists, ScanPasses,
       ScanTurnsProposed, ScanExpires, ScanTurnsExecuting, ScanReads, ReconcileDecides,
       SettleDecides, SettleLeaves, ScanFails, NotScanning
  <2>2. \/ card' \in {card, CloseUnlessSending(card), Released(card),
                      MarkedResolved(card, "rejected")}
        \/ \E how \in {"approved", "executed"} : card' = ExecutionFinished(card, how)
    BY <1>4 DEF Reject, DismissReads, ScanNext, ScanLists, ScanPasses,
       ScanTurnsProposed, ScanExpires, ScanTurnsExecuting, ScanReads, ReconcileDecides,
       SettleDecides, SettleLeaves, ScanFails
  <2>3. card'.payload = card.payload
    BY <1>0, <2>2, PayloadEffects
  <2> QED
    BY <2>1, <2>3, OthersOwn
<1>5. CASE DismissDeletes
  <2> DEFINE d == dismisser.draft
  <2>1. /\ sender' = sender /\ troubles' = troubles /\ card' = card /\ editor' = editor
        /\ mail' = Deleted(d)
    BY <1>5 DEF DismissDeletes, SendersAndScan
  <2>2. \A e \in DraftIds : mail'[e].where = mail[e].where
          \/ (mail[e].where = "drafts" /\ mail'[e].where = "deleted")
    BY <1>0, <2>1 DEF Deleted, MailDraft
  <2> QED
    BY <2>1, <2>2, OthersOwn
<1>6. CASE MailNext
  <2>1. /\ sender' = sender /\ troubles' = troubles /\ card' = card /\ editor' = editor
    BY <1>6 DEF MailNext, MailEdits, SelfHandles, MailSettles, MailShows, SelfReplies, Ours
  <2>2. ASSUME NEW d \in DraftIds
        PROVE  /\ mail'[d].where = "going" => mail[d].where = "going"
               /\ mail'[d].where = "drafts" => mail[d].where \in {"drafts", "going"}
               /\ mail[d].where = "none" => mail'[d].where = "none"
    <3>1. CASE SelfReplies
      BY <3>1 DEF SelfReplies
    <3>2. ASSUME NEW e \in DraftIds, MailEdits(e)
          PROVE  mail'[d].where = mail[d].where
      <4> DEFINE v == mail[e].version + 1
                 w == \E t \in Senders : sender[t].pc = "sending" /\ sender[t].draft = e
      <4>1. mail' = [mail EXCEPT ![e].version = v, ![e].swapped = w]
        BY <3>2 DEF MailEdits
      <4> HIDE DEF v, w
      <4> QED
        BY <1>0, <4>1 DEF MailDraft
    <3>3. ASSUME NEW e \in DraftIds, SelfHandles(e)
          PROVE  mail'[d].where = mail[d].where
                 \/ (mail[d].where = "drafts" /\ mail'[d].where \in {"deleted", "bySelf"})
      BY <1>0, <3>3 DEF SelfHandles, MailDraft
    <3>4. ASSUME NEW e \in DraftIds, MailSettles(e)
          PROVE  mail'[d].where = mail[d].where
                 \/ (mail[d].where = "going" /\ mail'[d].where \in {"sent", "drafts"})
      BY <1>0, <3>4 DEF MailSettles, Goes, MailDraft
    <3>5. ASSUME NEW e \in DraftIds, MailShows(e)
          PROVE  mail'[d].where = mail[d].where
      BY <1>0, <3>5 DEF MailShows, MailDraft
    <3> QED
      BY <1>6, <3>1, <3>2, <3>3, <3>4, <3>5 DEF MailNext
  <2> QED
    BY <2>1, <2>2, OthersOwn
<1> QED
  BY <1>1, <1>2, <1>3, <1>4, <1>5, <1>6 DEF EditNext, DismissNext

LEMMA CrashOwns ==
  ASSUME ReplyInv, DraftInv, ReplyCrash
  PROVE  DraftInv'
<1>1. \A t \in Senders : ~sender'[t].made
  BY DEF ReplyCrash, NoSend
<1> QED
  BY <1>1, TroubleOwesNothing DEF ReplyCrash, MadeFits

-----------------------------------------------------------------------------
(* The invariant, and what it gives *)

LEMMA ReplyInitInv == ReplyInit => ReplyInv
<1> SUFFICES ASSUME ReplyInit
             PROVE  ReplyInv
  OBVIOUS
<1>1. PICK gate \in CardGates, inMailbox \in InMailbox :
        /\ card = [status |-> "proposed", gate |-> gate, payload |-> FirstPayload(inMailbox)]
        /\ mail = [d \in DraftIds |->
                     [where |-> IF inMailbox /\ d = 1 THEN "drafts" ELSE "none",
                      version |-> IF inMailbox /\ d = 1 THEN 1 ELSE 0,
                      shown |-> FALSE, swapped |-> FALSE, checked |-> 0]]
        /\ sender = [t \in Senders |->
                       [NoSend EXCEPT
                          !.pc = IF t = "own" /\ gate # "auto" THEN "over" ELSE "idle"]]
  BY DEF ReplyInit
<1>2. /\ editor = NoEdit /\ scan = NoScan /\ dismisser = [pc |-> "idle", draft |-> NoDraft]
      /\ sending = FALSE /\ making = FALSE /\ editing = FALSE
      /\ seenOnce = "no" /\ misjudged = FALSE /\ replied = FALSE /\ troubles = 0
  BY DEF ReplyInit
<1>3. 0 \in 0..MaxDrafts /\ 1 \in 0..MaxDrafts
  BY ReplyAssumption
<1>4. FirstPayload(inMailbox) \in Payload
  <2>1. /\ [draft |-> 1, made |-> 1, edited |-> 0, words |-> 0] \in Payload
        /\ [draft |-> 0, made |-> 0, edited |-> 0, words |-> 0] \in Payload
    BY <1>3 DEF Payload
  <2> QED
    BY <2>1 DEF FirstPayload, NoDraft
<1>5. card \in ReplyCard /\ card.status = "proposed"
  <2>1. gate \in {"propose", "auto"}
    BY ReplyAssumption
  <2> QED
    BY <1>1, <1>4, <2>1 DEF ReplyCard, LedgerStatuses
<1>6. mail \in [DraftIds -> MailDraft]
      /\ \A d \in DraftIds : mail[d].where \in {"none", "drafts"} /\ ~mail[d].shown
  BY <1>1 DEF MailDraft
<1>7. NoSend \in Sender /\ ~NoSend.made
  BY <1>3, PayloadTypes DEF NoSend, Sender, SenderPcs, NoDraft
<1>8. ASSUME NEW t \in Senders
      PROVE  sender[t] \in Sender /\ sender[t].pc \in {"idle", "over"} /\ ~sender[t].made
  <2> DEFINE o == IF t = "own" /\ gate # "auto" THEN "over" ELSE "idle"
  <2>1. sender[t] = [NoSend EXCEPT !.pc = o] /\ o \in {"idle", "over"}
    BY <1>1
  <2> HIDE DEF o
  <2> QED
    BY <1>7, <2>1 DEF Sender, SenderPcs
<1>9. sender \in [Senders -> Sender]
  <2>1. sender = [t \in Senders |-> sender[t]]
    BY <1>1
  <2> QED
    BY <1>8, <2>1
<1>10. /\ NoEdit \in [pc : {"idle", "writing", "saving"}, start : Payload, version : Nat]
       /\ NoScan \in [pc : {"idle", "listed", "reading", "read"}, seen : ReplyCard,
                      gone : BOOLEAN]
       /\ [pc |-> "idle", draft |-> NoDraft]
            \in [pc : {"idle", "reading", "deleting"}, draft : 0..MaxDrafts]
  BY <1>3, PayloadTypes DEF NoEdit, NoScan, NoDraft, ReplyCard, LedgerStatuses
<1>11. ReplyShape
  BY <1>2, <1>5, <1>6, <1>8, <1>9, <1>10 DEF ReplyShape, ReplyTypeOK, HasDraft
<1>12. \A t \in Senders : SenderFits(t)
  BY <1>8 DEF SenderFits, Claimant
<1>13. \A d \in DraftIds : DraftFits(d)
  BY <1>6 DEF DraftFits, Out
<1>14. ReplyCardIsRight
  BY <1>5 DEF ReplyCardIsRight
<1> QED
  BY <1>11, <1>12, <1>13, <1>14 DEF ReplyInv

LEMMA ReplyNextInv == ReplyInv /\ [ReplyNext]_replyVars => ReplyInv'
<1> SUFFICES ASSUME ReplyInv, [ReplyNext]_replyVars
             PROVE  ReplyInv'
  OBVIOUS
<1>1. ASSUME NEW t \in Senders, TapBegins(t) \/ SendNext(t)
      PROVE  ReplyInv'
  <2>1. CASE \/ TapBegins(t) \/ TapReads(t) \/ TapMakes(t) \/ TapTurnedDown(t)
             \/ \E d \in DraftIds : DraftMade(t, d) \/ MakingUnconfirmed(t, d)
             \/ MakingFails(t) \/ TapReadsDraft(t) \/ TapFindsAnswer(t) \/ TapUndoes(t)
    BY <2>1, BeforeTheClaim, ReplyQuietKeeps
  <2>2. CASE TapClaims(t)
    BY <2>2, ClaimStep
  <2>3. CASE TapRereads(t)
    BY <2>3, RereadStep
  <2>4. CASE RereadFails(t) \/ SendRefused(t)
    BY <2>4, RefusedAfterTheClaim
  <2>5. CASE MailSends(t)
    BY <2>5, SendStep
  <2>6. CASE TapFinishes(t)
    BY <2>6, FinishStep
  <2>7. CASE SendUnconfirmed(t)
    BY <2>7, UnconfirmedStep
  <2> QED
    BY <1>1, <2>1, <2>2, <2>3, <2>4, <2>5, <2>6, <2>7 DEF SendNext
<1>2. CASE EditBegins \/ EditNext
  BY <1>2, EditSteps, ReplyQuietKeeps
<1>3. CASE Reject \/ DismissNext
  BY <1>3, DismissSteps, ReplyQuietKeeps
<1>4. CASE ScanNext
  BY <1>4, ScanSteps, ReplyQuietKeeps
<1>5. CASE MailNext
  BY <1>5, MailSteps, ReplyQuietKeeps
<1>6. CASE ReplyCrash
  BY <1>6, ReplyCrashStep
<1>7. CASE UNCHANGED replyVars
  <2>1. ReplyTypeOK' /\ QuietCard
    BY <1>7 DEF replyVars, ReplyInv, ReplyShape, ReplyTypeOK, QuietCard
  <2>2. /\ mail' = mail /\ sender' = sender /\ sending' = sending /\ replied' = replied
        /\ misjudged' = misjudged
    BY <1>7 DEF replyVars
  <2> QED
    BY <2>1, <2>2, MailStays, NobodyMoves, ReplyQuietKeeps
<1> QED
  BY <1>1, <1>2, <1>3, <1>4, <1>5, <1>6, <1>7 DEF ReplyNext

\* The inductive invariant holds throughout: the theorems below read it off
\* (delegation/reply_send.py, card_drafts.py and inbox.py).
THEOREM ReplyInvHolds == ReplySpec => []ReplyInv
BY ReplyInitInv, ReplyNextInv, PTL DEF ReplySpec

\* The types of the row, the sends, the drafts and the scan hold throughout.
THEOREM ReplyTypeCorrect == ReplySpec => []ReplyTypeOK
<1>1. ReplyInv => ReplyTypeOK
  BY DEF ReplyInv, ReplyShape
<1> QED
  BY <1>1, ReplyInvHolds, PTL

\* For any number of taps beside the watcher's own send, one of them at most is
\* past claim_for_execution, with the card executing and in SENDING.
THEOREM OneClaimant == ReplySpec => []ClaimIsExclusive
<1>1. ReplyInv => ClaimIsExclusive
  BY DEF ReplyInv, SenderFits, ClaimIsExclusive, Claimant
<1> QED
  BY <1>1, ReplyInvHolds, PTL

\* For any number of taps, drafts, crashes and lost answers, at most one reply
\* goes out for a card, unless the reconciler judged a send under way by a stale
\* unconfirmed_seen flag (send_reply, _settle_unconfirmed_send).
THEOREM OneReplyGoes == ReplySpec => []OneMessagePerCard
<1>1. ReplyInv => OneMessagePerCard
  <2> SUFFICES ASSUME ReplyInv, ~misjudged
               PROVE  OneMessagePerCard
    BY DEF OneMessagePerCard
  <2> DEFINE S == {d \in DraftIds : mail[d].where = "sent"}
  <2>1. \A d, e \in S : d = e
    BY DEF ReplyInv, DraftFits, Out
  <2>2. CASE S = {}
    BY <2>2, FS_EmptySet DEF OneMessagePerCard
  <2>3. CASE S # {}
    <3>1. PICK d \in S : TRUE
      BY <2>3
    <3>2. S = {d}
      BY <2>1, <3>1
    <3>3. Cardinality(S) = 1
      BY <3>2, FS_Singleton
    <3> QED
      BY <3>3 DEF OneMessagePerCard
  <2> QED
    BY <2>2, <2>3
<1> QED
  BY <1>1, ReplyInvHolds, PTL

\* A draft is in the mailbox only while the card or a running request knows of
\* it, for any number of both, until the process or the service fails
\* (make_draft, take_back, _hand_back).
THEOREM DraftsAreKnown == ReplySpec => []NoDraftLeftBehind
<1>1. ReplyInit => DraftInv
  <2> SUFFICES ASSUME ReplyInit
               PROVE  DraftInv
    OBVIOUS
  <2>1. PICK gate \in CardGates, inMailbox \in InMailbox :
          /\ card = [status |-> "proposed", gate |-> gate, payload |-> FirstPayload(inMailbox)]
          /\ mail = [d \in DraftIds |->
                       [where |-> IF inMailbox /\ d = 1 THEN "drafts" ELSE "none",
                        version |-> IF inMailbox /\ d = 1 THEN 1 ELSE 0,
                        shown |-> FALSE, swapped |-> FALSE, checked |-> 0]]
          /\ sender = [t \in Senders |->
                         [NoSend EXCEPT
                            !.pc = IF t = "own" /\ gate # "auto" THEN "over" ELSE "idle"]]
    BY DEF ReplyInit
  <2>2. \A t \in Senders : ~sender[t].made /\ sender[t].pc \in {"idle", "over"}
    BY <2>1 DEF NoSend
  <2>3. editor.pc = "idle"
    BY DEF ReplyInit, NoEdit
  <2>4. CASE inMailbox
    BY <2>1, <2>2, <2>3, <2>4 DEF DraftInv, MadeFits, DraftKept, Maker, FirstPayload
  <2>5. CASE ~inMailbox
    BY <2>1, <2>2, <2>5 DEF DraftInv, MadeFits, MakersAtWork
  <2> QED
    BY <2>4, <2>5
<1>2. ReplyInv /\ DraftInv /\ [ReplyNext]_replyVars => DraftInv'
  <2> SUFFICES ASSUME ReplyInv, DraftInv, [ReplyNext]_replyVars
               PROVE  DraftInv'
    OBVIOUS
  <2>1. CASE UNCHANGED replyVars
    BY <2>1, OthersOwn DEF replyVars
  <2> QED
    BY <2>1, SendOwns, RestOwns, CrashOwns DEF ReplyNext
<1>3. ReplyInv /\ DraftInv => NoDraftLeftBehind
  <2> SUFFICES ASSUME ReplyInv, DraftInv, troubles = 0, NEW d \in DraftIds,
                      mail[d].where = "drafts"
               PROVE  \/ card.payload.draft = d
                      \/ \E t \in Senders : sender[t].draft = d /\ sender[t].pc # Over(t)
    BY DEF NoDraftLeftBehind
  <2>1. CASE DraftKept
    BY <2>1 DEF DraftKept
  <2>2. CASE MakersAtWork
    <3>1. PICK t \in Senders : Maker(t) /\ sender[t].draft = d
      BY <2>2 DEF MakersAtWork
    <3>2. sender[t].pc # Over(t)
      BY <3>1 DEF Maker, DraftInv, MadeFits, Over
    <3> QED
      BY <3>1, <3>2
  <2> QED
    BY <2>1, <2>2 DEF DraftInv
<1> QED
  BY <1>1, <1>2, <1>3, ReplyInvHolds, PTL DEF ReplySpec

\* A card closed as sent has a message of theirs in the thread, and a dismissed
\* one none out from here unless it was misjudged, of however many senders
\* (_settle_unconfirmed_send, close_externally).
THEOREM CardSaysWhatBecameOfIt == ReplySpec => []ReplyCardIsRight
<1>1. ReplyInv => ReplyCardIsRight
  BY DEF ReplyInv
<1> QED
  BY <1>1, ReplyInvHolds, PTL

\* What goes is the version the checks read, whatever was edited meanwhile,
\* save under a send request that was out.
THEOREM CheckedIsSent == ReplySpec => []SentAsChecked
<1>1. ReplyInv => SentAsChecked
  BY DEF ReplyInv, DraftFits, Out, SentAsChecked
<1> QED
  BY <1>1, ReplyInvHolds, PTL

-----------------------------------------------------------------------------
(* What a card promises: the refinement of CardPromise *)

NoneGoes == \A d \in DraftIds : mail'[d].where = "sent" => mail[d].where = "sent"

\* No statement of the ledger changes a row that is over.
LEMMA OverRowStays ==
  ASSUME NEW r, ~OpenCard(r), NEW t
  PROVE  /\ ClaimedCard(r) = r /\ Released(r) = r /\ ClosedCard(r) = r
         /\ MarkedResolved(r, "rejected") = r
         /\ \A how : ExecutionFinished(r, how) = r
         /\ \A p, q : Updated(r, p, q) = r
         /\ \A p : HandedBack(r, p) = r
         /\ CloseUnlessSending(r) = r
         /\ Left(t, r) = r
BY DEF OpenCard, ClaimedCard, Released, ClosedCard, MarkedResolved, ExecutionFinished, Updated,
   HandedBack, CloseUnlessSending, Left

LEMMA OverRefused ==
  ASSUME ~OpenCard(card), NEW t, Refuse(t, card)
  PROVE  card' = card
BY OverRowStays DEF Refuse

\* A card that is over stays over, whoever comes late.
LEMMA OverStays ==
  ASSUME ~OpenCard(card), [ReplyNext]_replyVars
  PROVE  card' = card
<1>1. ASSUME NEW t \in Senders, TapBegins(t) \/ SendNext(t)
      PROVE  card' = card
  <2>1. CASE TapBegins(t) \/ TapReads(t) \/ TapMakes(t) \/ MailSends(t)
    BY <2>1 DEF TapBegins, TapReads, TapMakes, MailSends
  <2>2. CASE TapTurnedDown(t) \/ MakingFails(t) \/ \E d \in DraftIds : MakingUnconfirmed(t, d)
    BY <2>2, OverRefused DEF TapTurnedDown, MakingFails, MakingUnconfirmed
  <2>3. ASSUME NEW d \in DraftIds, DraftMade(t, d)
        PROVE  card' = card
    BY <2>3, OverRowStays DEF DraftMade
  <2>4. CASE TapReadsDraft(t) \/ TapFindsAnswer(t)
    BY <2>4, OverRowStays, OverRefused DEF TapReadsDraft, TapFindsAnswer
  <2>5. CASE TapClaims(t)
    BY <2>5, OverRowStays DEF TapClaims
  <2>6. CASE TapRereads(t) \/ RereadFails(t) \/ SendRefused(t)
    BY <2>6, OverRowStays, OverRefused DEF TapRereads, RereadFails, SendRefused
  <2>7. CASE TapFinishes(t) \/ SendUnconfirmed(t)
    BY <2>7, OverRowStays DEF TapFinishes, SendUnconfirmed, LeftUnconfirmed
  <2>8. CASE TapUndoes(t)
    BY <2>8, OverRowStays DEF TapUndoes, DraftTakenBack
  <2> QED
    BY <1>1, <2>1, <2>2, <2>3, <2>4, <2>5, <2>6, <2>7, <2>8 DEF SendNext
<1>2. CASE EditBegins \/ EditNext
  BY <1>2, OverRowStays DEF EditBegins, EditNext, EditRewrites, EditSaves, EditRefused
<1>3. CASE Reject \/ DismissNext
  BY <1>3, OverRowStays DEF Reject, DismissNext, DismissReads, DismissDeletes
<1>4. CASE ScanNext
  BY <1>4, OverRowStays
     DEF ScanNext, ScanLists, ScanPasses, ScanTurnsProposed, ScanExpires, ScanTurnsExecuting,
         ScanReads, ReconcileDecides, SettleDecides, SettleLeaves, ScanFails
<1>5. CASE MailNext
  BY <1>5 DEF MailNext, MailEdits, SelfHandles, MailSettles, MailShows, SelfReplies, Ours
<1>6. CASE ReplyCrash
  BY <1>6 DEF ReplyCrash
<1>7. CASE UNCHANGED replyVars
  BY <1>7 DEF replyVars
<1> QED
  BY <1>1, <1>2, <1>3, <1>4, <1>5, <1>6, <1>7 DEF ReplyNext

LEMMA DeletedGoesNowhere ==
  ASSUME ReplyInv, NEW d, mail' = Deleted(d)
  PROVE  NoneGoes
<1>1. mail \in [DraftIds -> MailDraft]
  BY DEF ReplyInv, ReplyShape, ReplyTypeOK
<1> QED
  BY <1>1 DEF Deleted, NoneGoes, MailDraft

\* A quiet step sends nothing, but for the mail service on its own, which does
\* not touch the card.
LEMMA QuietSends ==
  ASSUME ReplyInv,
         \/ \E t \in Senders :
              \/ TapBegins(t) \/ TapReads(t) \/ TapMakes(t) \/ TapTurnedDown(t)
              \/ \E d \in DraftIds : DraftMade(t, d) \/ MakingUnconfirmed(t, d)
              \/ MakingFails(t) \/ TapReadsDraft(t) \/ TapFindsAnswer(t) \/ TapUndoes(t)
         \/ EditBegins \/ EditNext \/ Reject \/ DismissNext \/ ScanNext \/ MailNext
  PROVE  NoneGoes \/ card' = card
<1>0. mail \in [DraftIds -> MailDraft]
  BY DEF ReplyInv, ReplyShape, ReplyTypeOK
<1>1. CASE mail' = mail
  BY <1>1 DEF NoneGoes
<1>2. ASSUME NEW t \in Senders, NEW d \in DraftIds, DraftMade(t, d) \/ MakingUnconfirmed(t, d)
      PROVE  NoneGoes
  <2>1. mail' = [mail EXCEPT ![d].where = "drafts", ![d].version = 1]
    BY <1>2 DEF DraftMade, MakingUnconfirmed
  <2>2. mail'[d].where = "drafts" /\ \A e \in DraftIds : e # d => mail'[e] = mail[e]
    BY <1>0, <2>1 DEF MailDraft
  <2> QED
    BY <2>2 DEF NoneGoes
<1>3. ASSUME NEW t \in Senders, TapUndoes(t)
      PROVE  NoneGoes
  <2>1. mail' = Deleted(sender[t].draft) \/ mail' = mail
    BY <1>3 DEF TapUndoes
  <2> QED
    BY <2>1, DeletedGoesNowhere DEF NoneGoes
<1>4. ASSUME NEW t \in Senders,
             \/ TapBegins(t) \/ TapReads(t) \/ TapMakes(t) \/ TapTurnedDown(t)
             \/ MakingFails(t) \/ TapReadsDraft(t) \/ TapFindsAnswer(t)
      PROVE  mail' = mail
  BY <1>4 DEF TapBegins, TapReads, TapMakes, TapTurnedDown, MakingFails, TapReadsDraft,
     TapFindsAnswer
<1>5. CASE EditBegins \/ EditNext
  BY <1>1, <1>5 DEF EditBegins, EditNext, EditRewrites, EditSaves, EditRefused
<1>6. CASE Reject \/ DismissNext
  BY <1>1, <1>6, DeletedGoesNowhere DEF Reject, DismissNext, DismissReads, DismissDeletes
<1>7. CASE ScanNext
  <2>1. mail' = mail
    BY <1>7
       DEF ScanNext, ScanLists, ScanPasses, ScanTurnsProposed, ScanExpires, ScanTurnsExecuting,
           ScanReads, ReconcileDecides, SettleDecides, SettleLeaves, ScanFails, NotScanning
  <2> QED
    BY <1>1, <2>1
<1>8. CASE MailNext
  BY <1>8 DEF MailNext, MailEdits, SelfHandles, MailSettles, MailShows, SelfReplies, Ours
<1> QED
  BY <1>1, <1>2, <1>3, <1>4, <1>5, <1>6, <1>7, <1>8

\* What a step does, as the promise sees it. What is under way starts only on
\* a card that stays taken or is taken; nothing goes but from what is under way,
\* and then the card stays as it is.
PromiseMove ==
  /\ \A d \in DraftIds : mail[d].where = "sent" => mail'[d].where = "sent"
  /\ OpenCard(card)' => OpenCard(card)
  /\ ReplyUnderWay' => ReplyUnderWay \/ (NoneGoes /\ card'.status = "executing")
  /\ NoneGoes \/ (ReplyUnderWay /\ card'.status = card.status)
  /\ misjudged => misjudged'

LEMMA QuietPromise ==
  ASSUME ReplyInv, QuietReply, OpenCard(card)' => OpenCard(card), NoneGoes \/ card' = card
  PROVE  PromiseMove
<1>1. \A d \in DraftIds : mail[d].where = "sent" => mail'[d].where = "sent"
  BY DEF QuietReply, QuietDraft
<1>2. \A t \in Senders : sender'[t].pc = "sending" => sender[t].pc = "sending"
  BY DEF QuietReply, QuietSender
<1>3. \A d \in DraftIds : mail'[d].where = "going" => mail[d].where = "going"
  BY DEF QuietReply, QuietDraft
<1>4. ReplyUnderWay' => ReplyUnderWay
  BY <1>2, <1>3 DEF ReplyUnderWay
<1>5. ASSUME ~NoneGoes
      PROVE  ReplyUnderWay
  <2>1. PICK d \in DraftIds : mail'[d].where = "sent" /\ mail[d].where # "sent"
    BY <1>5 DEF NoneGoes
  <2>2. mail[d].where = "going"
    BY <2>1 DEF QuietReply, QuietDraft
  <2> QED
    BY <2>2 DEF ReplyUnderWay
<1> QED
  BY <1>1, <1>4, <1>5 DEF PromiseMove, QuietReply

\* The steps of the one sender that is past its claim, or takes it.
LEMMA ClaimPromise ==
  ASSUME ReplyInv, NEW t \in Senders, OpenCard(card)' => OpenCard(card),
         \/ TapClaims(t) \/ TapRereads(t) \/ RereadFails(t) \/ MailSends(t) \/ TapFinishes(t)
         \/ SendRefused(t) \/ SendUnconfirmed(t)
  PROVE  PromiseMove
<1>0. /\ ReplyShape /\ mail \in [DraftIds -> MailDraft] /\ sender \in [Senders -> Sender]
      /\ card \in ReplyCard /\ misjudged' = misjudged
  BY DEF ReplyInv, ReplyShape, ReplyTypeOK, TapClaims, TapRereads, RereadFails, MailSends,
     TapFinishes, SendRefused, SendUnconfirmed, LeftUnconfirmed, NotSending
<1>1. ASSUME mail' = mail, \A u \in Senders : u # t => sender'[u] = sender[u],
             sender'[t].pc = "sending" => card'.status = "executing"
      PROVE  PromiseMove
  <2>1. NoneGoes
    BY <1>1 DEF NoneGoes
  <2>2. ReplyUnderWay' => ReplyUnderWay \/ card'.status = "executing"
    BY <1>1 DEF ReplyUnderWay
  <2> QED
    BY <1>0, <1>1, <2>1, <2>2 DEF PromiseMove
<1>2. ASSUME NEW r \in ReplyCard, Refuse(t, r), mail' = mail
      PROVE  PromiseMove
  <2>1. OneMoves(t) /\ sender'[t].pc # "sending"
    BY <1>0, <1>2, RefuseEffects
  <2> QED
    BY <1>1, <1>2, <2>1 DEF OneMoves
<1>3. CASE TapClaims(t)
  <2>1. "rereading" \in SenderPcs /\ HasDraft(t)
    BY <1>3 DEF TapClaims, MayClaim, SenderPcs, HasDraft
  <2>2. OneMoves(t) /\ sender'[t].pc = "rereading"
    BY <1>0, <1>3, <2>1, SenderMoves DEF TapClaims
  <2> QED
    BY <1>1, <1>3, <2>2 DEF TapClaims, OneMoves
<1>4. CASE TapRereads(t)
  <2>1. CASE StillAsChecked(t)
    <3> DEFINE d == sender[t].draft
    <3>1. "sending" \in SenderPcs /\ HasDraft(t) /\ card.status = "executing" /\ d \in DraftIds
      BY <1>4, TheClaimant DEF TapRereads, SenderPcs, HasDraft, Claimant
    <3> DEFINE w == mail[d].where = "going" /\ mail[d].swapped
    <3>2. OneMoves(t) /\ card' = card /\ mail' = [mail EXCEPT ![d].swapped = w]
      BY <1>0, <1>4, <2>1, <3>1, SenderMoves DEF TapRereads
    <3> HIDE DEF w
    <3>3. \A e \in DraftIds : mail'[e].where = mail[e].where
      BY <1>0, <3>1, <3>2 DEF MailDraft
    <3>4. NoneGoes /\ \A e \in DraftIds : mail[e].where = "sent" => mail'[e].where = "sent"
      BY <3>3 DEF NoneGoes
    <3> QED
      BY <1>0, <3>1, <3>2, <3>4 DEF PromiseMove
  <2>2. CASE ~StillAsChecked(t)
    <3>1. Released(card) \in ReplyCard /\ ClosedCard(Released(card)) \in ReplyCard
      BY <1>0, ReplyRowTypes
    <3>2. \E r \in ReplyCard : Refuse(t, r) /\ mail' = mail
      BY <1>4, <2>2, <3>1 DEF TapRereads
    <3> QED
      BY <1>2, <3>2
  <2> QED
    BY <2>1, <2>2
<1>5. CASE RereadFails(t) \/ SendRefused(t)
  <2>1. Released(card) \in ReplyCard /\ ClosedCard(Released(card)) \in ReplyCard
    BY <1>0, ReplyRowTypes
  <2>2. \E r \in ReplyCard : Refuse(t, r) /\ mail' = mail
    BY <1>5, <2>1 DEF RereadFails, SendRefused
  <2> QED
    BY <1>2, <2>2
<1>6. CASE MailSends(t)
  <2> DEFINE d == sender[t].draft
  <2>1. sender[t].pc = "sending" /\ ReplyUnderWay /\ card' = card
    BY <1>6 DEF MailSends, ReplyUnderWay
  <2>2. \A e \in DraftIds : mail[e].where = "sent" => mail'[e].where = "sent"
    <3>1. mail' = Goes(d, sender[t].version)
      BY <1>6 DEF MailSends
    <3> QED
      BY <1>0, <3>1 DEF Goes, MailDraft
  <2> QED
    BY <1>0, <2>1, <2>2 DEF PromiseMove
<1>7. CASE TapFinishes(t)
  <2>1. OneMoves(t) /\ sender'[t].pc # "sending"
    BY <1>0, <1>7, SenderSettles DEF TapFinishes
  <2> QED
    BY <1>1, <1>7, <2>1 DEF TapFinishes, OneMoves
<1>8. CASE SendUnconfirmed(t)
  <2> DEFINE d == sender[t].draft
  <2>1. OneMoves(t) /\ sender'[t].pc # "sending"
    BY <1>0, <1>8, SenderSettles DEF SendUnconfirmed, LeftUnconfirmed
  <2>2. card.status = "executing" /\ d \in DraftIds
    BY <1>8, TheClaimant DEF SendUnconfirmed, LeftUnconfirmed, Claimant
  <2>3. card' = card
    BY <1>8, <2>2 DEF SendUnconfirmed, LeftUnconfirmed, Left, HandedBack
  <2>4. CASE mail[d].where = "drafts"
    <3>1. sender[t].pc = "sending" /\ ReplyUnderWay
      BY <1>8, <2>4 DEF SendUnconfirmed, LeftUnconfirmed, ReplyInv, SenderFits, ReplyUnderWay
    <3>2. mail' = [mail EXCEPT ![d].where = "going", ![d].checked = sender[t].version]
      BY <1>8, <2>4 DEF SendUnconfirmed, LeftUnconfirmed
    <3>3. /\ mail'[d].where = "going"
          /\ \A e \in DraftIds : e # d => mail'[e] = mail[e]
      BY <1>0, <2>2, <3>2 DEF MailDraft
    <3>4. NoneGoes /\ \A e \in DraftIds : mail[e].where = "sent" => mail'[e].where = "sent"
      BY <2>4, <3>3 DEF NoneGoes
    <3> QED
      BY <1>0, <2>3, <3>1, <3>4 DEF PromiseMove
  <2>5. CASE mail[d].where # "drafts"
    <3>1. mail' = mail
      BY <1>8, <2>5 DEF SendUnconfirmed, LeftUnconfirmed
    <3> QED
      BY <1>1, <2>1, <3>1 DEF OneMoves
  <2> QED
    BY <2>4, <2>5
<1> QED
  BY <1>3, <1>4, <1>5, <1>6, <1>7, <1>8

LEMMA CrashPromise ==
  ASSUME ReplyInv, ReplyCrash
  PROVE  PromiseMove
<1>0. mail \in [DraftIds -> MailDraft]
  BY DEF ReplyInv, ReplyShape, ReplyTypeOK
<1>1. ASSUME NEW t \in Senders
      PROVE  sender'[t].pc # "sending"
  <2>1. sender'[t].pc = Over(t)
    BY DEF ReplyCrash, NoSend
  <2> QED
    BY <2>1 DEF Over
<1>2. ASSUME NEW d \in DraftIds
      PROVE  \/ mail'[d] = mail[d]
             \/ /\ mail'[d].where = "going" /\ mail[d].where = "drafts"
                /\ \E t \in Senders : sender[t].pc = "sending"
  <2>1. CASE \E t \in Senders : AtTheService(t, d)
    <3> DEFINE v == sender[CHOOSE t \in Senders : AtTheService(t, d)].version
    <3>1. mail'[d] = [mail[d] EXCEPT !.where = "going", !.checked = v]
      BY <2>1 DEF ReplyCrash
    <3> HIDE DEF v
    <3> QED
      BY <1>0, <2>1, <3>1 DEF AtTheService, MailDraft
  <2>2. CASE ~\E t \in Senders : AtTheService(t, d)
    BY <2>2 DEF ReplyCrash
  <2> QED
    BY <2>1, <2>2
<1>3. NoneGoes /\ \A d \in DraftIds : mail[d].where = "sent" => mail'[d].where = "sent"
  BY <1>2 DEF NoneGoes
<1>4. ReplyUnderWay' => ReplyUnderWay
  BY <1>1, <1>2 DEF ReplyUnderWay
<1>5. card' = card /\ misjudged' = misjudged
  BY DEF ReplyCrash
<1> QED
  BY <1>3, <1>4, <1>5 DEF PromiseMove

LEMMA EveryMove ==
  ASSUME ReplyInv, [ReplyNext]_replyVars
  PROVE  PromiseMove
<1>0. OpenCard(card)' => OpenCard(card)
  BY OverStays DEF OpenCard
<1>1. ASSUME NEW t \in Senders, TapBegins(t) \/ SendNext(t)
      PROVE  PromiseMove
  <2>1. CASE \/ TapBegins(t) \/ TapReads(t) \/ TapMakes(t) \/ TapTurnedDown(t)
             \/ \E d \in DraftIds : DraftMade(t, d) \/ MakingUnconfirmed(t, d)
             \/ MakingFails(t) \/ TapReadsDraft(t) \/ TapFindsAnswer(t) \/ TapUndoes(t)
    <3>1. QuietReply
      BY <2>1, BeforeTheClaim
    <3>2. NoneGoes \/ card' = card
      BY <2>1, QuietSends
    <3> QED
      BY <1>0, <3>1, <3>2, QuietPromise
  <2>2. CASE \/ TapClaims(t) \/ TapRereads(t) \/ RereadFails(t) \/ MailSends(t)
             \/ TapFinishes(t) \/ SendRefused(t) \/ SendUnconfirmed(t)
    BY <1>0, <2>2, ClaimPromise
  <2> QED
    BY <1>1, <2>1, <2>2 DEF SendNext
<1>2. CASE EditBegins \/ EditNext \/ Reject \/ DismissNext \/ ScanNext \/ MailNext
  <2>1. QuietReply
    BY <1>2, EditSteps, DismissSteps, ScanSteps, MailSteps
  <2>2. NoneGoes \/ card' = card
    BY <1>2, QuietSends
  <2> QED
    BY <1>0, <2>1, <2>2, QuietPromise
<1>3. CASE ReplyCrash
  BY <1>3, CrashPromise
<1>4. CASE UNCHANGED replyVars
  <2>1. mail' = mail /\ sender' = sender /\ card' = card /\ misjudged' = misjudged
    BY <1>4 DEF replyVars
  <2>2. NoneGoes /\ ReplyUnderWay' = ReplyUnderWay
    BY <2>1 DEF NoneGoes, ReplyUnderWay
  <2> QED
    BY <2>1, <2>2 DEF PromiseMove
<1> QED
  BY <1>1, <1>2, <1>3, <1>4 DEF ReplyNext

\* A set without two elements has none or one.
LEMMA NoneOrOne ==
  ASSUME NEW S, \A d, e \in S : d = e
  PROVE  Cardinality(S) = IF S = {} THEN 0 ELSE 1
<1>1. CASE S = {}
  BY <1>1, FS_EmptySet
<1>2. CASE S # {}
  <2>1. PICK d \in S : TRUE
    BY <1>2
  <2>2. S = {d}
    BY <2>1
  <2> QED
    BY <1>2, <2>2, FS_Singleton
<1> QED
  BY <1>1, <1>2

\* On offer, nothing of a reply went, and nothing is under way.
LEMMA OfferedIsFree ==
  ASSUME ReplyInv, ~misjudged, card.status = "proposed"
  PROVE  ~ReplyUnderWay /\ \A d \in DraftIds : mail[d].where # "sent"
BY DEF ReplyInv, SenderFits, DraftFits, Claimant, Out, ReplyUnderWay

LEMMA PromiseStep ==
  ASSUME ReplyInv, ReplyInv', ~misjudged, ~misjudged', PromiseMove
  PROVE  [ReplyPromise!PromiseNext]_(ReplyPromise!promiseVars)
<1> DEFINE standing == [c \in {"reply"} |-> ReplyStanding]
           atWork == {c \in {"reply"} : ReplyUnderWay}
           n == Cardinality(SentDrafts)
           times == [c \in {"reply"} |-> [i \in {"mail"} |-> n]]
<1>1. standing["reply"] = ReplyStanding /\ (standing' = standing <=> ReplyStanding' = ReplyStanding)
      /\ standing' = [standing EXCEPT !["reply"] = ReplyStanding']
  OBVIOUS
<1>2. /\ ReplyUnderWay => atWork = {"reply"}
      /\ ~ReplyUnderWay => atWork = {}
      /\ ReplyUnderWay' => atWork' = {"reply"}
      /\ ~ReplyUnderWay' => atWork' = {}
  OBVIOUS
<1>3. times["reply"]["mail"] = n /\ (n' = n => times' = times)
      /\ times' = [times EXCEPT !["reply"]["mail"] = n']
  OBVIOUS
<1>4. /\ ReplyStanding = "offered" <=> card.status = "proposed"
      /\ ReplyStanding = "taken" <=> card.status = "executing"
      /\ ReplyStanding \in {"offered", "taken", "over"}
      /\ ReplyStanding' = "offered" <=> card'.status = "proposed"
      /\ ReplyStanding' = "taken" <=> card'.status = "executing"
      /\ ReplyStanding' \in {"offered", "taken", "over"}
  BY DEF ReplyStanding
<1>5. n = IF SentDrafts = {} THEN 0 ELSE 1
  <2>1. \A d, e \in SentDrafts : d = e
    BY DEF ReplyInv, DraftFits, Out, SentDrafts
  <2> QED
    BY <2>1, NoneOrOne
<1>6. n' = IF SentDrafts' = {} THEN 0 ELSE 1
  <2>1. \A d, e \in SentDrafts' : d = e
    BY DEF ReplyInv, DraftFits, Out, SentDrafts
  <2> QED
    BY <2>1, NoneOrOne
<1>7. SentDrafts \subseteq SentDrafts' /\ (NoneGoes => SentDrafts' = SentDrafts)
  BY DEF PromiseMove, NoneGoes, SentDrafts
<1>8. ReplyStanding = "offered" => ~ReplyUnderWay
  BY <1>4, OfferedIsFree
<1>9. ReplyStanding' = "offered" => ~ReplyUnderWay' /\ SentDrafts' = {}
  BY <1>4 DEF ReplyInv, SenderFits, DraftFits, Claimant, Out, ReplyUnderWay, SentDrafts
<1>10. /\ ReplyStanding = "over" => ReplyStanding' = "over"
       /\ ReplyUnderWay' => ReplyUnderWay \/ ReplyStanding' = "taken"
       /\ NoneGoes \/ (ReplyUnderWay /\ ReplyStanding' = ReplyStanding)
  BY <1>4 DEF PromiseMove, OpenCard, ReplyStanding
<1> HIDE DEF standing, atWork, n, times
\* The message goes.
<1>11. CASE n' # n
  <2>1. n = 0 /\ n' = 1 /\ ReplyUnderWay /\ standing' = standing
    BY <1>1, <1>5, <1>6, <1>7, <1>10, <1>11
  <2>2. "reply" \in atWork /\ atWork' \in {atWork, atWork \ {"reply"}}
    BY <1>2, <2>1
  <2>3. times["reply"]["mail"] = 0 /\ times' = [times EXCEPT !["reply"]["mail"] = 1]
    BY <1>3, <2>1
  <2>4. ReplyPromise!Perform("reply", "mail")
    BY <2>1, <2>2, <2>3 DEF ReplyPromise!Perform, ReplyPromise!MayStop, standing, atWork, times, n
  <2> QED
    BY <2>4 DEF ReplyPromise!PromiseNext
\* The card stays where it is: work starts, goes on, or is lost.
<1>12. CASE n' = n /\ ReplyStanding' = ReplyStanding
  <2>1. times' = times /\ standing' = standing
    BY <1>1, <1>3, <1>12
  <2>2. CASE ReplyUnderWay' => ReplyUnderWay
    <3>1. atWork' \subseteq atWork
      BY <1>2, <2>2
    <3>2. ReplyPromise!Stop
      BY <2>1, <3>1 DEF ReplyPromise!Stop, standing, atWork, times, n
    <3> QED
      BY <3>2 DEF ReplyPromise!PromiseNext
  <2>3. CASE ReplyUnderWay' /\ ~ReplyUnderWay
    <3>1. standing["reply"] = "taken" /\ atWork' = atWork \cup {"reply"}
      BY <1>1, <1>2, <1>10, <1>12, <2>3
    <3>2. ReplyPromise!Start("reply")
      BY <2>1, <3>1 DEF ReplyPromise!Start, standing, atWork, times, n
    <3> QED
      BY <3>2 DEF ReplyPromise!PromiseNext
  <2> QED
    BY <2>2, <2>3
<1>13. CASE n' = n /\ ReplyStanding' # ReplyStanding
  <2>1. times' = times /\ standing' = [standing EXCEPT !["reply"] = ReplyStanding']
        /\ standing["reply"] = ReplyStanding
    BY <1>1, <1>3, <1>13
  <2>2. CASE ReplyStanding = "offered" /\ ReplyStanding' = "taken"
    <3>1. atWork' \in {atWork, atWork \cup {"reply"}}
      BY <1>2, <1>8, <2>2
    <3>2. ReplyPromise!Take("reply")
      BY <2>1, <2>2, <3>1 DEF ReplyPromise!Take, ReplyPromise!Stands, standing, atWork, times, n
    <3> QED
      BY <3>2 DEF ReplyPromise!PromiseNext
  <2>3. CASE ReplyStanding = "taken" /\ ReplyStanding' = "offered"
    <3>1. atWork' = atWork \ {"reply"} /\ n = 0
      BY <1>2, <1>6, <1>9, <1>13, <2>3
    <3>2. times["reply"]["mail"] = 0
      BY <1>3, <3>1
    <3>3. ReplyPromise!GiveBack("reply")
      BY <2>1, <2>3, <3>1, <3>2
         DEF ReplyPromise!GiveBack, ReplyPromise!Stands, ReplyPromise!NothingDone, standing, atWork,
             times, n
    <3> QED
      BY <3>3 DEF ReplyPromise!PromiseNext
  <2>4. CASE ReplyStanding \in {"offered", "taken"} /\ ReplyStanding' = "over"
    <3>1. atWork' \in {atWork, atWork \ {"reply"}}
      BY <1>2, <1>10, <2>4
    <3>2. ReplyPromise!Close("reply")
      BY <2>1, <2>4, <3>1
         DEF ReplyPromise!Close, ReplyPromise!Stands, ReplyPromise!MayStop, standing, atWork, times, n
    <3> QED
      BY <3>2 DEF ReplyPromise!PromiseNext
  <2> QED
    BY <1>4, <1>10, <1>13, <2>2, <2>3, <2>4
<1> QED
  BY <1>11, <1>12, <1>13

\* A reply goes only from a card taken for it, and once; the card is offered
\* again only while none went and no request can still go; a card that is over
\* stays over. For any taps, drafts, crashes and lost answers, up to the first
\* send that was misjudged (reply_send.py, claim_for_execution, release_claim,
\* settle_sends).
THEOREM ReplyPromised == ReplySpec => ReplyKeepsPromise
<1>1. ReplyInit => ReplyPromise!PromiseInit
  <2> SUFFICES ASSUME ReplyInit
               PROVE  ReplyPromise!PromiseInit
    OBVIOUS
  <2>1. ReplyInv /\ ~misjudged /\ card.status = "proposed"
    <3>1. \E gate \in CardGates, inMailbox \in InMailbox :
            card = [status |-> "proposed", gate |-> gate, payload |-> FirstPayload(inMailbox)]
      BY DEF ReplyInit
    <3>2. misjudged = FALSE
      BY DEF ReplyInit
    <3> QED
      BY <3>1, <3>2, ReplyInitInv
  <2>2. ~ReplyUnderWay /\ SentDrafts = {}
    BY <2>1, OfferedIsFree DEF SentDrafts
  <2>3. Cardinality(SentDrafts) = 0 /\ ReplyStanding = "offered"
    BY <2>1, <2>2, FS_EmptySet DEF ReplyStanding
  <2> QED
    BY <2>2, <2>3 DEF ReplyPromise!PromiseInit
<1>2. ReplyInv /\ ReplyInv' /\ [ReplyNext]_replyVars
      => [misjudged' \/ ReplyPromise!PromiseNext]_(ReplyPromise!promiseVars)
  BY EveryMove, PromiseStep DEF PromiseMove
<1> QED
  BY <1>1, <1>2, ReplyInvHolds, PTL DEF ReplySpec, ReplyKeepsPromise

=============================================================================
