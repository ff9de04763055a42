-------------------------- MODULE LedgerCards_proofs --------------------------
(***************************************************************************)
(* Proofs about the two kinds of card the decision ledger keeps: a meeting *)
(* (Bookings), for any approvers, cancellers, events and slips; and cards  *)
(* of suggested actions (ActionCards), for any finite number of them, of   *)
(* actions on a card, any taps and turns, daily limit and number of        *)
(* crashes.                                                                *)
(***************************************************************************)
EXTENDS Bookings, ActionCards, FiniteSetTheorems, TLAPS

-----------------------------------------------------------------------------
(* A meeting: the inductive invariant *)

\* On the calendar, and no row and no approval answers for it.
Stray == {e \in EventIds : event[e] = "live" /\ ~Accounted(e)}

StrayBounded == booking.gate = "propose" => Cardinality(Stray) <= slips

\* The row names an event only once it recorded one, and a cancelled one only
\* off the calendar.
RowFits ==
  /\ booking.status = "proposed" => booking.payload = NoEvent
  /\ booking.payload # NoEvent => event[booking.payload] # "none"
  /\ booking.status = "reversed" /\ booking.payload # NoEvent =>
       event[booking.payload] = "deleted"
  /\ booking.gate = "propose" => approver["auto"].pc = "over"

\* An event in hand is live, nobody else's, and not yet on the row.
HandFits(a) ==
  a \in InHand =>
    /\ approver[a].event \in EventIds /\ event[approver[a].event] = "live"
    /\ approver[a].event # booking.payload
    /\ \A b \in InHand : approver[b].event = approver[a].event => b = a

\* A cancel works on the event the row still names.
CancelFits(c) ==
  canceller[c].pc # "idle" =>
    /\ canceller[c].event = booking.payload /\ booking.payload # NoEvent
    /\ booking.status \in {"approved", "executed", "reversed"}
    /\ canceller[c].pc = "deleted" => event[booking.payload] = "deleted"

BookingFits ==
  /\ BookingTypeOK /\ RowFits
  /\ \A a \in Bookers : HandFits(a)
  /\ \A c \in Cancellers : CancelFits(c)

BookingInv == BookingFits /\ StrayBounded

-----------------------------------------------------------------------------
(* A meeting: the statements of the ledger, and counting *)

LEMMA BookingEffects ==
  ASSUME NEW r \in BookingRow
  PROVE  /\ \A how \in {"failed", "rejected"} :
              /\ MarkedResolved(r, how) \in BookingRow
              /\ MarkedResolved(r, how).payload = r.payload
              /\ MarkedResolved(r, how).gate = r.gate
              /\ MarkedResolved(r, how).status = IF r.status = "proposed" THEN how ELSE r.status
         /\ \A how \in {"approved", "executed"}, e \in 0..MaxEvents :
              /\ Recorded(r, e, how) \in BookingRow
              /\ Recorded(r, e, how).payload = IF r.status = "proposed" THEN e ELSE r.payload
              /\ Recorded(r, e, how).gate = r.gate
              /\ Recorded(r, e, how).status = IF r.status = "proposed" THEN how ELSE r.status
         /\ ReversedCard(r) \in BookingRow
         /\ ReversedCard(r).payload = r.payload /\ ReversedCard(r).gate = r.gate
         /\ ReversedCard(r).status = IF r.status \in {"proposed", "approved", "executed"}
                                     THEN "reversed" ELSE r.status
BY DEF BookingRow, LedgerStatuses, MarkedResolved, Recorded, ReversedCard

LEMMA EventIdsFacts ==
  /\ IsFiniteSet(EventIds) /\ NoEvent \notin EventIds /\ NoEvent \in 0..MaxEvents
  /\ \A e \in 0..MaxEvents : e # NoEvent => e \in EventIds
  /\ EventIds \subseteq 0..MaxEvents
<1>1. 1 \in Int /\ MaxEvents \in Int /\ MaxEvents >= 0
  BY BookingAssumption
<1>2. IsFiniteSet(EventIds)
  BY <1>1, FS_Interval DEF EventIds
<1> QED
  BY <1>1, <1>2 DEF EventIds, NoEvent

\* What a step adds to the strays it pays for with as many slips.
LEMMA StraysPaid ==
  ASSUME BookingInv, NEW X \in SUBSET EventIds, NEW n \in Nat, Cardinality(X) <= n,
         booking.gate = "propose" => Stray' \subseteq Stray \cup X,
         booking'.gate = booking.gate, slips' = slips + n
  PROVE  StrayBounded'
<1> SUFFICES ASSUME booking.gate = "propose"
             PROVE  Cardinality(Stray)' <= slips'
  BY DEF StrayBounded
<1>1. slips \in Nat /\ Cardinality(Stray) <= slips
  BY DEF BookingInv, BookingFits, BookingTypeOK, StrayBounded
<1>2. IsFiniteSet(Stray) /\ IsFiniteSet(X)
  BY EventIdsFacts, FS_Subset DEF Stray
<1>3. IsFiniteSet(Stray \cup X)
      /\ Cardinality(Stray \cup X) = Cardinality(Stray) + Cardinality(X) - Cardinality(Stray \cap X)
  BY <1>2, FS_Union
<1>4. IsFiniteSet(Stray \cap X)
  BY <1>2, FS_Subset
<1>5. /\ Cardinality(Stray) \in Nat /\ Cardinality(X) \in Nat
      /\ Cardinality(Stray \cap X) \in Nat
  BY <1>2, <1>4, FS_CardinalityType
<1>6. IsFiniteSet(Stray') /\ Cardinality(Stray') <= Cardinality(Stray \cup X)
  BY <1>3, FS_Subset
<1>7. Cardinality(Stray') \in Nat
  BY <1>6, FS_CardinalityType
<1> QED
  BY <1>1, <1>3, <1>5, <1>6, <1>7

LEMMA NoNewStrays ==
  ASSUME BookingInv, booking.gate = "propose" => Stray' \subseteq Stray,
         booking'.gate = booking.gate, slips' = slips
  PROVE  StrayBounded'
<1>1. {} \in SUBSET EventIds /\ Cardinality({}) <= 0 /\ 0 \in Nat
  BY FS_EmptySet
<1>2. slips' = slips + 0
  BY DEF BookingInv, BookingFits, BookingTypeOK
<1>3. booking.gate = "propose" => Stray' \subseteq Stray \cup {}
  OBVIOUS
<1> QED
  BY <1>1, <1>2, <1>3, StraysPaid

LEMMA OneNewStray ==
  ASSUME BookingInv, NEW e \in EventIds,
         booking.gate = "propose" => Stray' \subseteq Stray \cup {e},
         booking'.gate = booking.gate, Slip
  PROVE  StrayBounded'
<1>1. Cardinality({e}) = 1
  BY FS_Singleton
<1>2. {e} \in SUBSET EventIds
  OBVIOUS
<1>3. Cardinality({e}) <= 1 /\ 1 \in Nat
  BY <1>1
<1>4. slips' = slips + 1
  BY DEF Slip
<1> QED
  BY <1>2, <1>3, <1>4, StraysPaid

-----------------------------------------------------------------------------
(* A meeting: who moves *)

\* One booker moves, to a place and an event of its own.
BookerMoves(a, pc, e) ==
  /\ approver' \in [Bookers -> [pc : {"idle", "booking", "booked", "cleaning", "over"},
                                event : 0..MaxEvents]]
  /\ \A b \in Bookers : b # a => approver'[b] = approver[b]
  /\ approver'[a].pc = pc /\ approver'[a].event = e

LEMMA BookerSet ==
  ASSUME BookingTypeOK, NEW a \in Bookers,
         NEW pc \in {"idle", "booking", "booked", "cleaning", "over"}, NEW e \in 0..MaxEvents,
         BookerIs(a, pc, e)
  PROVE  BookerMoves(a, pc, e)
<1> DEFINE x == [pc |-> pc, event |-> e]
<1>1. /\ approver \in [Bookers -> [pc : {"idle", "booking", "booked", "cleaning", "over"},
                                   event : 0..MaxEvents]]
      /\ approver' = [approver EXCEPT ![a] = x]
      /\ x \in [pc : {"idle", "booking", "booked", "cleaning", "over"}, event : 0..MaxEvents]
      /\ x.pc = pc /\ x.event = e
  BY DEF BookingTypeOK, BookerIs
<1> HIDE DEF x
<1> QED
  BY <1>1 DEF BookerMoves

LEMMA BookerEnds ==
  ASSUME BookingTypeOK, NEW a \in Bookers, BookerOver(a)
  PROVE  /\ BookerMoves(a, IF a = "auto" THEN "over" ELSE "idle", NoEvent)
         /\ a \notin InHand'
         /\ \A b \in Bookers : b # a => (b \in InHand' <=> b \in InHand)
<1> DEFINE pc == IF a = "auto" THEN "over" ELSE "idle"
<1>1. pc \in {"idle", "booking", "booked", "cleaning", "over"} /\ pc \in {"idle", "over"}
      /\ BookerIs(a, pc, NoEvent)
  BY DEF BookerOver
<1> HIDE DEF pc
<1>2. BookerMoves(a, pc, NoEvent)
  BY <1>1, EventIdsFacts, BookerSet
<1>3. a \notin InHand' /\ \A b \in Bookers : b # a => (b \in InHand' <=> b \in InHand)
  BY <1>1, <1>2 DEF BookerMoves, InHand
<1> QED
  BY <1>2, <1>3 DEF pc

-----------------------------------------------------------------------------
(* A meeting: the approvals *)

LEMMA Facts ==
  ASSUME BookingInv
  PROVE  /\ BookingTypeOK /\ booking \in BookingRow /\ event \in [EventIds -> {"none", "live", "deleted"}]
         /\ slips \in Nat /\ booking.payload \in 0..MaxEvents /\ RowFits
         /\ \A a \in Bookers : HandFits(a) /\ approver[a].event \in 0..MaxEvents
         /\ \A c \in Cancellers : CancelFits(c)
BY DEF BookingInv, BookingFits, BookingTypeOK, BookingRow

\* The types, when one booker moves.
LEMMA BookerTypes ==
  ASSUME BookingInv, NEW a \in Bookers, NEW pc, NEW e, BookerMoves(a, pc, e),
         booking' \in BookingRow, event' \in [EventIds -> {"none", "live", "deleted"}],
         slips' \in Nat, canceller' = canceller
  PROVE  BookingTypeOK'
BY Facts DEF BookingTypeOK, BookerMoves

LEMMA SlipType ==
  ASSUME BookingInv, Slip
  PROVE  slips' \in Nat
BY Facts DEF Slip

LEMMA BeginStep ==
  ASSUME BookingInv, NEW a \in Bookers, ApproveBegins(a)
  PROVE  BookingInv'
<1>1. /\ approver[a].pc = "idle" /\ booking' = booking /\ canceller' = canceller
      /\ event' = event /\ slips' = slips
  BY DEF ApproveBegins
<1>2. BookerMoves(a, "booking", NoEvent)
  BY Facts, EventIdsFacts, BookerSet DEF ApproveBegins
<1>3. InHand' = InHand /\ a \notin InHand
  BY <1>1, <1>2 DEF InHand, BookerMoves
<1>4. \A b \in InHand : b # a /\ approver'[b] = approver[b]
  BY <1>2, <1>3 DEF InHand, BookerMoves
<1>5. BookingTypeOK'
  BY <1>1, <1>2, Facts, BookerTypes
<1>6. RowFits'
  <2>1. booking.gate = "propose" => approver'["auto"].pc = "over"
    BY <1>1, <1>2, Facts DEF RowFits, BookerMoves, Bookers
  <2> QED
    BY <1>1, <2>1, Facts DEF RowFits
<1>7. \A b \in Bookers : HandFits(b)'
  BY <1>1, <1>3, <1>4, Facts DEF HandFits
<1>8. \A c \in Cancellers : CancelFits(c)'
  BY <1>1, Facts DEF CancelFits
<1>9. Stray' \subseteq Stray
  BY <1>1, <1>3, <1>4 DEF Stray, Accounted
<1>10. StrayBounded'
  BY <1>1, <1>9, NoNewStrays
<1> QED
  BY <1>5, <1>6, <1>7, <1>8, <1>10 DEF BookingInv, BookingFits

\* A new event is on the calendar: nobody named it before.
LEMMA EventMade ==
  ASSUME BookingInv, NEW e \in EventIds, event[e] = "none",
         event' = [event EXCEPT ![e] = "live"]
  PROVE  /\ event' \in [EventIds -> {"none", "live", "deleted"}] /\ event'[e] = "live"
         /\ \A f \in EventIds : f # e => event'[f] = event[f]
         /\ booking.payload # e
         /\ \A b \in InHand : approver[b].event # e
<1>1. event' \in [EventIds -> {"none", "live", "deleted"}] /\ event'[e] = "live"
      /\ \A f \in EventIds : f # e => event'[f] = event[f]
  BY Facts
<1>2. booking.payload # e
  BY Facts, EventIdsFacts DEF RowFits
<1>3. \A b \in InHand : approver[b].event # e
  BY Facts DEF HandFits, InHand
<1> QED
  BY <1>1, <1>2, <1>3

LEMMA BookStep ==
  ASSUME BookingInv, NEW a \in Bookers, NEW e \in EventIds, BooksEvent(a, e)
  PROVE  BookingInv'
<1>1. /\ approver[a].pc = "booking" /\ booking' = booking /\ canceller' = canceller
      /\ event[e] = "none" /\ event' = [event EXCEPT ![e] = "live"] /\ slips' = slips
  BY DEF BooksEvent, NewEvent
<1>2. BookerMoves(a, "booked", e)
  BY Facts, EventIdsFacts, BookerSet DEF BooksEvent
<1>3. InHand' = InHand \cup {a} /\ a \notin InHand
  BY <1>1, <1>2, EventIdsFacts DEF InHand, BookerMoves
<1>4. approver'[a].event = e /\ \A b \in InHand : b # a /\ approver'[b] = approver[b]
  BY <1>2, <1>3 DEF InHand, BookerMoves
<1>5. /\ event' \in [EventIds -> {"none", "live", "deleted"}] /\ event'[e] = "live"
      /\ \A f \in EventIds : f # e => event'[f] = event[f]
      /\ booking.payload # e
      /\ \A b \in InHand : approver[b].event # e
  BY <1>1, EventMade
<1>6. BookingTypeOK'
  BY <1>1, <1>2, <1>5, Facts, BookerTypes
<1>7. RowFits'
  <2>1. booking.gate = "propose" => approver'["auto"].pc = "over"
    BY <1>1, <1>2, Facts DEF RowFits, BookerMoves, Bookers
  <2>2. booking.payload # NoEvent => event'[booking.payload] = event[booking.payload]
    BY <1>5, Facts, EventIdsFacts
  <2> QED
    BY <1>1, <2>1, <2>2, Facts DEF RowFits
<1>8. ASSUME NEW b \in Bookers
      PROVE  HandFits(b)'
  <2>1. CASE b = a
    BY <1>1, <1>3, <1>4, <1>5, <2>1 DEF HandFits
  <2>2. CASE b # a
    BY <1>1, <1>3, <1>4, <1>5, <2>2, Facts DEF HandFits
  <2> QED
    BY <2>1, <2>2
<1>9. \A c \in Cancellers : CancelFits(c)'
  <2>1. booking.payload # NoEvent => event'[booking.payload] = event[booking.payload]
    BY <1>5, Facts, EventIdsFacts
  <2> QED
    BY <1>1, <2>1, Facts DEF CancelFits
<1>10. Stray' \subseteq Stray
  BY <1>1, <1>3, <1>4, <1>5 DEF Stray, Accounted
<1>11. StrayBounded'
  BY <1>1, <1>10, NoNewStrays
<1> QED
  BY <1>6, <1>7, <1>8, <1>9, <1>11 DEF BookingInv, BookingFits

\* The row changes where it names no event, or not at all.
LEMMA RowStep ==
  ASSUME BookingInv, booking' \in BookingRow, booking'.gate = booking.gate,
         booking'.payload = booking.payload,
         booking'.status = booking.status \/ (booking.status = "proposed"
           /\ booking'.status \in {"failed", "rejected", "reversed"})
  PROVE  /\ booking'.status = "approved" <=> booking.status = "approved"
         /\ booking'.status = "proposed" => booking.status = "proposed"
         /\ booking'.status \in {"approved", "executed"} => booking'.status = booking.status
         /\ booking'.status = "reversed" /\ booking'.payload # NoEvent => booking.status = "reversed"
         /\ \A c \in Cancellers : canceller[c].pc # "idle" => booking'.status = booking.status
BY Facts DEF RowFits, CancelFits

LEMMA FailureMarked ==
  ASSUME BookingInv, NEW a,
         booking' = IF a = "auto" THEN MarkedResolved(booking, "failed") ELSE booking
  PROVE  /\ booking' \in BookingRow /\ booking'.gate = booking.gate
         /\ booking'.payload = booking.payload
         /\ booking'.status = booking.status \/ (booking.status = "proposed"
              /\ booking'.status \in {"failed", "rejected", "reversed"})
BY Facts, BookingEffects

\* A booker has no event in hand, after a refusal or an answer that was lost or
\* does not name it.
LEMMA FailStep ==
  ASSUME BookingInv, NEW a \in Bookers,
         BookingFails(a)
           \/ \E e \in EventIds : BookingAnswerLost(a, e) \/ BooksUnnamed(a, e)
  PROVE  BookingInv'
<1>1. /\ approver[a].pc = "booking" /\ canceller' = canceller
      /\ BookerOver(a) \/ BookerIs(a, "booked", NoEvent)
      /\ \/ booking' = IF a = "auto" THEN MarkedResolved(booking, "failed") ELSE booking
         \/ booking' = booking
  BY DEF BookingFails, BookingAnswerLost, BooksUnnamed
<1>2. /\ booking' \in BookingRow /\ booking'.gate = booking.gate
      /\ booking'.payload = booking.payload
      /\ booking'.status = booking.status \/ (booking.status = "proposed"
           /\ booking'.status \in {"failed", "rejected", "reversed"})
  BY <1>1, Facts, FailureMarked
<1>3. /\ booking'.status = "approved" <=> booking.status = "approved"
      /\ booking'.status = "proposed" => booking.status = "proposed"
      /\ booking'.status \in {"approved", "executed"} => booking'.status = booking.status
      /\ booking'.status = "reversed" /\ booking'.payload # NoEvent => booking.status = "reversed"
      /\ \A c \in Cancellers : canceller[c].pc # "idle" => booking'.status = booking.status
  BY <1>2, RowStep
<1>4. PICK pc \in {"booked", "idle", "over"} :
        /\ BookerMoves(a, pc, NoEvent)
        /\ a \notin InHand'
        /\ \A b \in Bookers : b # a => (b \in InHand' <=> b \in InHand)
  <2>1. CASE BookerOver(a)
    BY <2>1, Facts, BookerEnds
  <2>2. CASE BookerIs(a, "booked", NoEvent)
    <3>1. BookerMoves(a, "booked", NoEvent)
      BY <2>2, Facts, EventIdsFacts, BookerSet
    <3> QED
      BY <3>1 DEF BookerMoves, InHand
  <2> QED
    BY <1>1, <2>1, <2>2
<1>5. InHand' = InHand /\ \A b \in InHand : b # a /\ approver'[b] = approver[b]
  <2>1. a \notin InHand
    BY <1>1 DEF InHand
  <2> QED
    BY <1>4, <2>1 DEF InHand, BookerMoves
<1>6. \/ event' = event /\ slips' = slips
      \/ \E e \in EventIds : event[e] = "none" /\ event' = [event EXCEPT ![e] = "live"] /\ Slip
  BY DEF BookingFails, BookingAnswerLost, BooksUnnamed, NewEvent
<1>7. /\ event' \in [EventIds -> {"none", "live", "deleted"}] /\ slips' \in Nat
      /\ booking.payload # NoEvent => event'[booking.payload] = event[booking.payload]
      /\ \A b \in InHand : event'[approver[b].event] = event[approver[b].event]
  <2>1. CASE event' = event /\ slips' = slips
    BY <2>1, Facts
  <2>2. ASSUME NEW e \in EventIds, event[e] = "none", event' = [event EXCEPT ![e] = "live"], Slip
        PROVE  <1>7!1 /\ <1>7!2 /\ <1>7!3
    <3>1. /\ event' \in [EventIds -> {"none", "live", "deleted"}]
          /\ \A f \in EventIds : f # e => event'[f] = event[f]
          /\ booking.payload # e
          /\ \A b \in InHand : approver[b].event # e
      BY <2>2, EventMade
    <3>2. \A b \in InHand : approver[b].event \in EventIds
      BY Facts DEF HandFits, InHand
    <3> QED
      BY <2>2, <3>1, <3>2, Facts, EventIdsFacts, SlipType
  <2> QED
    BY <1>6, <2>1, <2>2
<1>8. BookingTypeOK'
  BY <1>1, <1>2, <1>4, <1>7, BookerTypes
<1>9. RowFits'
  <2>1. booking.gate = "propose" => approver'["auto"].pc = "over"
    BY <1>1, <1>4, Facts DEF RowFits, BookerMoves, Bookers
  <2> QED
    BY <1>2, <1>3, <1>7, <2>1, Facts DEF RowFits
<1>10. \A b \in Bookers : HandFits(b)'
  BY <1>2, <1>5, <1>7, Facts DEF HandFits
<1>11. \A c \in Cancellers : CancelFits(c)'
  BY <1>1, <1>2, <1>3, <1>7, Facts DEF CancelFits
<1>12. \A e \in EventIds : Accounted(e)' <=> Accounted(e)
  BY <1>2, <1>3, <1>5 DEF Accounted
<1>13. StrayBounded'
  <2>1. CASE event' = event /\ slips' = slips
    BY <1>2, <1>12, <2>1, NoNewStrays DEF Stray
  <2>2. ASSUME NEW e \in EventIds, event[e] = "none", event' = [event EXCEPT ![e] = "live"], Slip
        PROVE  StrayBounded'
    <3>1. Stray' \subseteq Stray \cup {e}
      BY <1>12, <2>2, EventMade DEF Stray
    <3> QED
      BY <1>2, <2>2, <3>1, OneNewStray
  <2> QED
    BY <1>6, <2>1, <2>2
<1> QED
  BY <1>8, <1>9, <1>10, <1>11, <1>13 DEF BookingInv, BookingFits

\* A booking whose event is not known is recorded, or not, and over.
LEMMA UnnamedStep ==
  ASSUME BookingInv, NEW a \in Bookers, approver[a].event = NoEvent,
         RecordsApproval(a) \/ (a = "auto" /\ RecordsExecuted)
  PROVE  BookingInv'
<1>1. /\ approver[a].pc = "booked" /\ BookerOver(a)
      /\ event' = event /\ canceller' = canceller /\ slips' = slips
  BY DEF RecordsApproval, RecordsExecuted, LosesTheRace
<1>2. PICK how \in {"approved", "executed"} : booking' = Recorded(booking, NoEvent, how)
  BY DEF RecordsApproval, RecordsExecuted
<1>3. /\ booking' \in BookingRow /\ booking'.gate = booking.gate
      /\ booking'.payload = booking.payload
      /\ booking'.status = IF booking.status = "proposed" THEN how ELSE booking.status
  BY <1>2, Facts, EventIdsFacts, BookingEffects DEF RowFits
<1>4. /\ BookerMoves(a, IF a = "auto" THEN "over" ELSE "idle", NoEvent)
      /\ a \notin InHand'
      /\ \A b \in Bookers : b # a => (b \in InHand' <=> b \in InHand)
  BY <1>1, Facts, BookerEnds
<1>5. InHand' = InHand /\ \A b \in InHand : b # a /\ approver'[b] = approver[b]
  <2>1. a \notin InHand
    BY <1>1 DEF InHand
  <2> QED
    BY <1>4, <2>1 DEF InHand, BookerMoves
<1>6. BookingTypeOK'
  BY <1>1, <1>3, <1>4, Facts, BookerTypes
<1>7. RowFits'
  <2>1. booking.gate = "propose" => approver'["auto"].pc = "over"
    BY <1>1, <1>4, Facts DEF RowFits, BookerMoves, Bookers
  <2> QED
    BY <1>1, <1>3, <2>1, Facts DEF RowFits
<1>8. \A b \in Bookers : HandFits(b)'
  BY <1>1, <1>3, <1>5, Facts DEF HandFits
<1>9. \A c \in Cancellers : CancelFits(c)'
  BY <1>1, <1>3, Facts DEF CancelFits
<1>10. Stray' \subseteq Stray
  <2>1. \A e \in EventIds : booking.status = "proposed" => booking.payload # e
    BY Facts, EventIdsFacts DEF RowFits
  <2> QED
    BY <1>1, <1>3, <1>5, <2>1 DEF Stray, Accounted
<1>11. StrayBounded'
  BY <1>1, <1>3, <1>10, NoNewStrays
<1> QED
  BY <1>6, <1>7, <1>8, <1>9, <1>11 DEF BookingInv, BookingFits

\* An approval records its event, or lost the race and keeps it in hand.
LEMMA RecordStep ==
  ASSUME BookingInv, NEW a \in Bookers, approver[a].event # NoEvent, RecordsApproval(a)
  PROVE  BookingInv'
<1> DEFINE e == approver[a].event
<1>1. /\ approver[a].pc = "booked" /\ a # "auto" /\ a \in InHand
      /\ booking' = Recorded(booking, e, "approved")
      /\ event' = event /\ canceller' = canceller /\ slips' = slips
  BY DEF RecordsApproval, InHand
<1>2. /\ e \in EventIds /\ e \in 0..MaxEvents /\ event[e] = "live" /\ e # booking.payload
      /\ \A b \in InHand : approver[b].event = e => b = a
  BY <1>1, Facts, EventIdsFacts DEF HandFits
<1>3. /\ booking' \in BookingRow /\ booking'.gate = booking.gate
      /\ booking'.payload = IF booking.status = "proposed" THEN e ELSE booking.payload
      /\ booking'.status = IF booking.status = "proposed" THEN "approved" ELSE booking.status
  BY <1>1, <1>2, Facts, BookingEffects
<1>4. event' \in [EventIds -> {"none", "live", "deleted"}] /\ slips' \in Nat
  BY <1>1, Facts
<1>5. CASE booking.status = "proposed"
  <2>1. BookerOver(a)
    BY <1>5 DEF RecordsApproval
  <2>2. /\ BookerMoves(a, IF a = "auto" THEN "over" ELSE "idle", NoEvent)
        /\ a \notin InHand'
        /\ \A b \in Bookers : b # a => (b \in InHand' <=> b \in InHand)
    BY <2>1, Facts, BookerEnds
  <2>3. InHand' = InHand \ {a} /\ \A b \in InHand' : b # a /\ approver'[b] = approver[b]
    BY <1>1, <2>2 DEF InHand, BookerMoves
  <2>4. BookingTypeOK'
    BY <1>1, <1>3, <1>4, <2>2, BookerTypes
  <2>5. RowFits'
    <3>1. booking.gate = "propose" => approver'["auto"].pc = "over"
      BY <1>1, <2>2, Facts DEF RowFits, BookerMoves, Bookers
    <3> QED
      BY <1>1, <1>2, <1>3, <1>5, <3>1, EventIdsFacts DEF RowFits
  <2>6. \A b \in Bookers : HandFits(b)'
    BY <1>1, <1>2, <1>3, <1>5, <2>3, Facts DEF HandFits
  <2>7. \A c \in Cancellers : CancelFits(c)'
    BY <1>1, <1>5, Facts DEF CancelFits
  <2>8. Stray' \subseteq Stray
    BY <1>1, <1>2, <1>3, <1>5, <2>3 DEF Stray, Accounted
  <2>9. StrayBounded'
    BY <1>1, <1>3, <2>8, NoNewStrays
  <2> QED
    BY <2>4, <2>5, <2>6, <2>7, <2>9 DEF BookingInv, BookingFits
<1>6. CASE booking.status # "proposed"
  <2>1. booking'.payload = booking.payload /\ booking'.status = booking.status
    BY <1>3, <1>6
  <2>2. BookerIs(a, "cleaning", e)
    BY <1>6 DEF RecordsApproval, LosesTheRace
  <2>3. BookerMoves(a, "cleaning", e)
    BY <1>2, <2>2, Facts, BookerSet
  <2>4. InHand' = InHand /\ \A b \in InHand : approver'[b].event = approver[b].event
    BY <1>1, <2>3 DEF InHand, BookerMoves
  <2>5. BookingTypeOK'
    BY <1>1, <1>3, <1>4, <2>3, BookerTypes
  <2>6. RowFits'
    <3>1. booking.gate = "propose" => approver'["auto"].pc = "over"
      BY <1>1, <2>3, Facts DEF RowFits, BookerMoves, Bookers
    <3> QED
      BY <1>1, <1>3, <2>1, <3>1, Facts DEF RowFits
  <2>7. \A b \in Bookers : HandFits(b)'
    BY <1>1, <2>1, <2>4, Facts DEF HandFits
  <2>8. \A c \in Cancellers : CancelFits(c)'
    BY <1>1, <2>1, Facts DEF CancelFits
  <2>9. Stray' \subseteq Stray
    BY <1>1, <2>1, <2>4 DEF Stray, Accounted
  <2>10. StrayBounded'
    BY <1>1, <1>3, <2>9, NoNewStrays
  <2> QED
    BY <2>5, <2>6, <2>7, <2>8, <2>10 DEF BookingInv, BookingFits
<1> QED
  BY <1>5, <1>6

\* Only a row made to be booked without asking is recorded as executed.
LEMMA ExecutedStep ==
  ASSUME BookingInv, approver["auto"].event # NoEvent, RecordsExecuted
  PROVE  BookingInv'
<1> DEFINE e == approver["auto"].event
<1>0. "auto" \in Bookers
  BY DEF Bookers
<1>1. /\ approver["auto"].pc = "booked" /\ "auto" \in InHand
      /\ booking' = Recorded(booking, e, "executed") /\ BookerOver("auto")
      /\ event' = event /\ canceller' = canceller /\ slips' = slips
  BY <1>0 DEF RecordsExecuted, InHand
<1>2. /\ e \in EventIds /\ e \in 0..MaxEvents /\ event[e] = "live" /\ e # booking.payload
      /\ \A b \in InHand : approver[b].event = e => b = "auto"
  BY <1>0, <1>1, Facts, EventIdsFacts DEF HandFits
<1>3. /\ booking' \in BookingRow /\ booking'.gate = booking.gate
      /\ booking'.payload = IF booking.status = "proposed" THEN e ELSE booking.payload
      /\ booking'.status = IF booking.status = "proposed" THEN "executed" ELSE booking.status
  BY <1>1, <1>2, Facts, BookingEffects
<1>4. booking.gate # "propose"
  BY <1>1, Facts DEF RowFits
<1>5. /\ BookerMoves("auto", "over", NoEvent)
      /\ "auto" \notin InHand'
      /\ \A b \in Bookers : b # "auto" => (b \in InHand' <=> b \in InHand)
  BY <1>0, <1>1, Facts, BookerEnds
<1>6. InHand' = InHand \ {"auto"} /\ \A b \in InHand' : b # "auto" /\ approver'[b] = approver[b]
  BY <1>1, <1>5 DEF InHand, BookerMoves
<1>7. event' \in [EventIds -> {"none", "live", "deleted"}] /\ slips' \in Nat
  BY <1>1, Facts
<1>8. BookingTypeOK'
  BY <1>0, <1>1, <1>3, <1>5, <1>7, BookerTypes
<1>9. RowFits'
  <2>1. CASE booking.status = "proposed"
    BY <1>1, <1>2, <1>3, <1>4, <2>1, EventIdsFacts DEF RowFits
  <2>2. CASE booking.status # "proposed"
    BY <1>1, <1>3, <1>4, <2>2, Facts DEF RowFits
  <2> QED
    BY <2>1, <2>2
<1>10. \A b \in Bookers : HandFits(b)'
  BY <1>1, <1>2, <1>3, <1>6, Facts DEF HandFits
<1>11. \A c \in Cancellers : CancelFits(c)'
  BY <1>1, <1>3, Facts DEF CancelFits
<1>12. StrayBounded'
  BY <1>3, <1>4 DEF StrayBounded
<1> QED
  BY <1>8, <1>9, <1>10, <1>11, <1>12 DEF BookingInv, BookingFits

\* The loser deletes its own event, or fails to.
LEMMA CleanStep ==
  ASSUME BookingInv, NEW a \in Bookers, CleansUp(a)
  PROVE  BookingInv'
<1> DEFINE e == approver[a].event
<1>1. /\ approver[a].pc = "cleaning" /\ a \in InHand /\ BookerOver(a)
      /\ booking' = booking /\ canceller' = canceller
      /\ \/ event' = [event EXCEPT ![e] = "deleted"] /\ slips' = slips
         \/ event' = event /\ Slip
  BY DEF CleansUp, InHand
<1>2. /\ e \in EventIds /\ e # booking.payload
      /\ \A b \in InHand : approver[b].event = e => b = a
  BY <1>1, Facts DEF HandFits
<1>3. /\ BookerMoves(a, IF a = "auto" THEN "over" ELSE "idle", NoEvent)
      /\ a \notin InHand'
      /\ \A b \in Bookers : b # a => (b \in InHand' <=> b \in InHand)
  BY <1>1, Facts, BookerEnds
<1>4. InHand' = InHand \ {a} /\ \A b \in InHand' : b # a /\ approver'[b] = approver[b]
  BY <1>1, <1>3 DEF InHand, BookerMoves
<1>5. /\ event' \in [EventIds -> {"none", "live", "deleted"}] /\ slips' \in Nat
      /\ \A f \in EventIds : f # e => event'[f] = event[f]
  BY <1>1, Facts, SlipType
<1>6. BookingTypeOK'
  BY <1>1, <1>3, <1>5, Facts, BookerTypes
<1>7. booking.payload # NoEvent => event'[booking.payload] = event[booking.payload]
  BY <1>2, <1>5, Facts, EventIdsFacts
<1>8. RowFits'
  <2>1. booking.gate = "propose" => approver'["auto"].pc = "over"
    BY <1>1, <1>3, Facts DEF RowFits, BookerMoves, Bookers
  <2> QED
    BY <1>1, <1>7, <2>1, Facts DEF RowFits
<1>9. ASSUME NEW b \in Bookers
      PROVE  HandFits(b)'
  <2>1. SUFFICES ASSUME b \in InHand'
                 PROVE  HandFits(b)'
    BY DEF HandFits
  <2>2. b \in InHand /\ approver'[b] = approver[b] /\ approver[b].event # e
    BY <1>2, <1>4, <2>1
  <2>3. approver[b].event \in EventIds /\ event'[approver[b].event] = event[approver[b].event]
    BY <1>5, <2>2, Facts DEF HandFits
  <2> QED
    BY <1>1, <1>4, <2>2, <2>3, Facts DEF HandFits
<1>10. \A c \in Cancellers : CancelFits(c)'
  BY <1>1, <1>7, Facts DEF CancelFits
<1>11. StrayBounded'
  <2>1. CASE event' = [event EXCEPT ![e] = "deleted"] /\ slips' = slips
    <3>1. event'[e] = "deleted"
      BY <1>2, <2>1, Facts
    <3>2. Stray' \subseteq Stray
      BY <1>1, <1>4, <1>5, <3>1 DEF Stray, Accounted
    <3> QED
      BY <1>1, <2>1, <3>2, NoNewStrays
  <2>2. CASE event' = event /\ Slip
    <3>1. Stray' \subseteq Stray \cup {e}
      BY <1>1, <1>4, <2>2 DEF Stray, Accounted
    <3> QED
      BY <1>1, <1>2, <2>2, <3>1, OneNewStray
  <2> QED
    BY <1>1, <2>1, <2>2
<1> QED
  BY <1>6, <1>8, <1>9, <1>10, <1>11 DEF BookingInv, BookingFits

-----------------------------------------------------------------------------
(* A meeting: rejects, cancels, a stop of the process *)

LEMMA ClosingStep ==
  ASSUME BookingInv, RejectsBooking \/ CancelsProposed
  PROVE  BookingInv'
<1>1. /\ approver' = approver /\ canceller' = canceller /\ event' = event /\ slips' = slips
      /\ InHand' = InHand
  BY DEF RejectsBooking, CancelsProposed, InHand
<1>2. /\ booking' \in BookingRow /\ booking'.gate = booking.gate
      /\ booking'.payload = booking.payload
      /\ booking'.status = booking.status \/ (booking.status = "proposed"
           /\ booking'.status \in {"failed", "rejected", "reversed"})
  BY Facts, BookingEffects DEF RejectsBooking, CancelsProposed
<1>3. booking.status = "proposed" /\ booking.payload = NoEvent
  BY Facts DEF RejectsBooking, CancelsProposed, RowFits
<1>4. /\ booking'.status = "approved" <=> booking.status = "approved"
      /\ booking'.status \in {"approved", "executed"} => booking'.status = booking.status
      /\ \A c \in Cancellers : canceller[c].pc # "idle" => booking'.status = booking.status
  BY <1>2, RowStep
<1>5. BookingTypeOK'
  BY <1>1, <1>2, Facts DEF BookingTypeOK
<1>6. RowFits'
  BY <1>1, <1>2, <1>3, <1>4, Facts DEF RowFits
<1>7. \A b \in Bookers : HandFits(b)'
  BY <1>1, <1>2, Facts DEF HandFits
<1>8. \A c \in Cancellers : CancelFits(c)'
  BY <1>1, <1>2, <1>4, Facts DEF CancelFits
<1>9. Stray' \subseteq Stray
  BY <1>1, <1>2, <1>4 DEF Stray, Accounted
<1>10. StrayBounded'
  BY <1>1, <1>2, <1>9, NoNewStrays
<1> QED
  BY <1>5, <1>6, <1>7, <1>8, <1>10 DEF BookingInv, BookingFits

\* One canceller moves.
LEMMA CancellerSet ==
  ASSUME BookingInv, NEW c \in Cancellers, NEW pc \in {"idle", "deleting", "deleted"},
         NEW e \in 0..MaxEvents, canceller' = [canceller EXCEPT ![c] = [pc |-> pc, event |-> e]]
  PROVE  /\ canceller' \in [Cancellers -> [pc : {"idle", "deleting", "deleted"},
                                           event : 0..MaxEvents]]
         /\ canceller'[c].pc = pc /\ canceller'[c].event = e
         /\ \A d \in Cancellers : d # c => canceller'[d] = canceller[d]
<1> DEFINE x == [pc |-> pc, event |-> e]
<1>1. /\ canceller \in [Cancellers -> [pc : {"idle", "deleting", "deleted"}, event : 0..MaxEvents]]
      /\ x \in [pc : {"idle", "deleting", "deleted"}, event : 0..MaxEvents]
      /\ x.pc = pc /\ x.event = e /\ canceller' = [canceller EXCEPT ![c] = x]
  BY Facts DEF BookingTypeOK
<1> HIDE DEF x
<1> QED
  BY <1>1

LEMMA CancelStep ==
  ASSUME BookingInv, NEW c \in Cancellers, CancelBegins(c) \/ CancelFails(c)
  PROVE  BookingInv'
<1>1. /\ booking' = booking /\ approver' = approver /\ event' = event /\ slips' = slips
      /\ InHand' = InHand
  BY DEF CancelBegins, CancelFails, InHand
<1>2. PICK pc \in {"idle", "deleting"}, e \in 0..MaxEvents :
        /\ canceller' = [canceller EXCEPT ![c] = [pc |-> pc, event |-> e]]
        /\ pc # "idle" => /\ e = booking.payload /\ e # NoEvent
                          /\ booking.status \in {"approved", "executed"}
  BY Facts, EventIdsFacts DEF CancelBegins, CancelFails
<1>3. /\ canceller' \in [Cancellers -> [pc : {"idle", "deleting", "deleted"},
                                        event : 0..MaxEvents]]
      /\ canceller'[c].pc = pc /\ canceller'[c].event = e
      /\ \A d \in Cancellers : d # c => canceller'[d] = canceller[d]
  BY <1>2, CancellerSet
<1>4. BookingTypeOK'
  BY <1>1, <1>3, Facts DEF BookingTypeOK
<1>5. RowFits' /\ \A b \in Bookers : HandFits(b)'
  BY <1>1, Facts DEF RowFits, HandFits
<1>6. \A d \in Cancellers : CancelFits(d)'
  BY <1>1, <1>2, <1>3, Facts DEF CancelFits, RowFits
<1>7. Stray' \subseteq Stray
  BY <1>1 DEF Stray, Accounted
<1>8. StrayBounded'
  BY <1>1, <1>7, NoNewStrays
<1> QED
  BY <1>4, <1>5, <1>6, <1>8 DEF BookingInv, BookingFits

LEMMA DeleteStep ==
  ASSUME BookingInv, NEW c \in Cancellers, CancelDeletes(c)
  PROVE  BookingInv'
<1> DEFINE e == booking.payload
<1>1. /\ canceller[c].pc = "deleting" /\ canceller[c].event = e /\ e # NoEvent
      /\ e \in EventIds /\ e \in 0..MaxEvents
      /\ booking.status \in {"approved", "executed", "reversed"}
  BY Facts, EventIdsFacts DEF CancelDeletes, CancelFits
<1>2. /\ booking' = booking /\ approver' = approver /\ slips' = slips /\ InHand' = InHand
      /\ event' = [event EXCEPT ![e] = "deleted"]
      /\ canceller' = [canceller EXCEPT ![c].pc = "deleted"]
  BY <1>1 DEF CancelDeletes, InHand
<1>3. canceller' = [canceller EXCEPT ![c] = [pc |-> "deleted", event |-> e]]
  <2>1. canceller[c] \in [pc : {"idle", "deleting", "deleted"}, event : 0..MaxEvents]
    BY Facts DEF BookingTypeOK
  <2>2. [canceller[c] EXCEPT !.pc = "deleted"] = [pc |-> "deleted", event |-> e]
    BY <1>1, <2>1
  <2> QED
    BY <1>2, <2>2
<1>4. /\ canceller' \in [Cancellers -> [pc : {"idle", "deleting", "deleted"},
                                        event : 0..MaxEvents]]
      /\ canceller'[c].pc = "deleted" /\ canceller'[c].event = e
      /\ \A d \in Cancellers : d # c => canceller'[d] = canceller[d]
  BY <1>1, <1>3, CancellerSet
<1>5. /\ event' \in [EventIds -> {"none", "live", "deleted"}] /\ event'[e] = "deleted"
      /\ \A f \in EventIds : f # e => event'[f] = event[f]
  BY <1>1, <1>2, Facts
<1>6. BookingTypeOK'
  BY <1>2, <1>4, <1>5, Facts DEF BookingTypeOK
<1>7. RowFits'
  BY <1>1, <1>2, <1>5, Facts DEF RowFits
<1>8. \A b \in Bookers : HandFits(b)'
  BY <1>2, <1>5, Facts DEF HandFits
<1>9. \A d \in Cancellers : CancelFits(d)'
  BY <1>1, <1>2, <1>4, <1>5, Facts DEF CancelFits
<1>10. Stray' \subseteq Stray
  BY <1>2, <1>5 DEF Stray, Accounted
<1>11. StrayBounded'
  BY <1>2, <1>10, NoNewStrays
<1> QED
  BY <1>6, <1>7, <1>8, <1>9, <1>11 DEF BookingInv, BookingFits

LEMMA MarkStep ==
  ASSUME BookingInv, NEW c \in Cancellers, CancelMarks(c)
  PROVE  BookingInv'
<1>1. /\ canceller[c].pc = "deleted" /\ booking.payload # NoEvent
      /\ event[booking.payload] = "deleted" /\ booking.payload \in EventIds
      /\ booking.status \in {"approved", "executed", "reversed"}
  BY Facts, EventIdsFacts DEF CancelMarks, CancelFits
<1>2. /\ approver' = approver /\ event' = event /\ slips' = slips /\ InHand' = InHand
      /\ booking' = ReversedCard(booking)
      /\ canceller' = [canceller EXCEPT ![c] = [pc |-> "idle", event |-> NoEvent]]
  BY DEF CancelMarks, InHand
<1>3. /\ booking' \in BookingRow /\ booking'.gate = booking.gate
      /\ booking'.payload = booking.payload /\ booking'.status = "reversed"
  BY <1>1, <1>2, Facts, BookingEffects
<1>4. /\ canceller' \in [Cancellers -> [pc : {"idle", "deleting", "deleted"},
                                        event : 0..MaxEvents]]
      /\ canceller'[c].pc = "idle"
      /\ \A d \in Cancellers : d # c => canceller'[d] = canceller[d]
  BY <1>2, EventIdsFacts, CancellerSet
<1>5. BookingTypeOK'
  BY <1>2, <1>3, <1>4, Facts DEF BookingTypeOK
<1>6. RowFits'
  BY <1>1, <1>2, <1>3, Facts DEF RowFits
<1>7. \A b \in Bookers : HandFits(b)'
  BY <1>2, <1>3, Facts DEF HandFits
<1>8. \A d \in Cancellers : CancelFits(d)'
  BY <1>2, <1>3, <1>4, Facts DEF CancelFits
<1>9. Stray' \subseteq Stray
  BY <1>1, <1>2, <1>3 DEF Stray, Accounted
<1>10. StrayBounded'
  BY <1>2, <1>3, <1>9, NoNewStrays
<1> QED
  BY <1>5, <1>6, <1>7, <1>8, <1>10 DEF BookingInv, BookingFits

\* What was in hand strays, each event for one slip.
LEMMA BookingCrashStep ==
  ASSUME BookingInv, BookingCrash
  PROVE  BookingInv'
<1> DEFINE X == {e \in EventIds : \E a \in InHand : approver[a].event = e}
           n == Cardinality(InHand)
           f == [a \in InHand |-> approver[a].event]
<1>1. /\ booking' = booking /\ event' = event /\ slips' = slips + n
      /\ approver' = [a \in Bookers |->
                        [pc |-> IF a = "auto" THEN "over" ELSE "idle", event |-> NoEvent]]
      /\ canceller' = [c \in Cancellers |-> [pc |-> "idle", event |-> NoEvent]]
  BY DEF BookingCrash
<1>2. IsFiniteSet(InHand) /\ n \in Nat
  <2>1. IsFiniteSet(Bookers)
    BY BookingAssumption, FS_AddElement DEF Bookers
  <2>2. InHand \subseteq Bookers
    BY DEF InHand
  <2>3. IsFiniteSet(InHand)
    BY <2>1, <2>2, FS_Subset
  <2> QED
    BY <2>3, FS_CardinalityType
<1>3. X \in SUBSET EventIds /\ Cardinality(X) <= n
  <2>1. f \in Surjection(InHand, X)
    BY Facts DEF Surjection, HandFits, InHand
  <2> HIDE DEF f, X
  <2>2. Cardinality(X) <= n
    BY <1>2, <2>1, FS_Surjection
  <2> QED
    BY <2>2 DEF X
<1>4. InHand' = {}
  BY <1>1 DEF InHand
<1>5. slips' \in Nat
  BY <1>1, <1>2, Facts
<1>6. BookingTypeOK'
  BY <1>1, <1>5, Facts, EventIdsFacts DEF BookingTypeOK
<1>7. RowFits'
  BY <1>1, Facts DEF RowFits, Bookers
<1>8. \A b \in Bookers : HandFits(b)'
  BY <1>4 DEF HandFits
<1>9. \A c \in Cancellers : CancelFits(c)'
  BY <1>1 DEF CancelFits
<1>10. Stray' \subseteq Stray \cup X
  BY <1>1 DEF Stray, Accounted
<1>11. StrayBounded'
  <2> HIDE DEF X, n
  <2> QED
    BY <1>1, <1>2, <1>3, <1>10, StraysPaid
<1> QED
  BY <1>6, <1>7, <1>8, <1>9, <1>11 DEF BookingInv, BookingFits

-----------------------------------------------------------------------------
(* A meeting: the invariant, and what it gives *)

LEMMA BookingInitInv == BookingInit => BookingInv
<1> SUFFICES ASSUME BookingInit
             PROVE  BookingInv
  OBVIOUS
<1>1. PICK gate \in BookingGates :
        /\ booking = [status |-> "proposed", gate |-> gate, payload |-> NoEvent]
        /\ approver = [a \in Bookers |->
                         [pc |-> IF a = "auto" /\ gate # "auto" THEN "over" ELSE "idle",
                          event |-> NoEvent]]
  BY DEF BookingInit
<1>2. /\ canceller = [c \in Cancellers |-> [pc |-> "idle", event |-> NoEvent]]
      /\ event = [e \in EventIds |-> "none"] /\ slips = 0
  BY DEF BookingInit
<1>3. gate \in {"propose", "auto"}
  BY BookingAssumption
<1>4. booking \in BookingRow
  BY <1>1, <1>3, EventIdsFacts DEF BookingRow, LedgerStatuses
<1>5. BookingTypeOK
  BY <1>1, <1>2, <1>4, EventIdsFacts DEF BookingTypeOK
<1>6. RowFits
  BY <1>1, <1>3 DEF RowFits, Bookers
<1>7. \A a \in Bookers : HandFits(a)
  BY <1>1 DEF HandFits, InHand
<1>8. \A c \in Cancellers : CancelFits(c)
  BY <1>2 DEF CancelFits
<1>9. Stray = {}
  BY <1>2 DEF Stray
<1>10. StrayBounded
  BY <1>2, <1>9, FS_EmptySet DEF StrayBounded
<1> QED
  BY <1>5, <1>6, <1>7, <1>8, <1>10 DEF BookingInv, BookingFits

LEMMA BookingNextInv == BookingInv /\ [BookingNext]_bookingVars => BookingInv'
<1> SUFFICES ASSUME BookingInv, [BookingNext]_bookingVars
             PROVE  BookingInv'
  OBVIOUS
<1>1. ASSUME NEW a \in Bookers, ApproveBegins(a) \/ BookerNext(a)
      PROVE  BookingInv'
  BY <1>1, BeginStep, BookStep, FailStep, UnnamedStep, RecordStep, CleanStep DEF BookerNext
<1>2. CASE RecordsExecuted
  <2>1. "auto" \in Bookers
    BY DEF Bookers
  <2> QED
    BY <1>2, <2>1, UnnamedStep, ExecutedStep
<1>3. CASE RejectsBooking \/ CancelsProposed
  BY <1>3, ClosingStep
<1>4. ASSUME NEW c \in Cancellers, CancelBegins(c) \/ CancelNext(c)
      PROVE  BookingInv'
  BY <1>4, CancelStep, DeleteStep, MarkStep DEF CancelNext
<1>5. CASE BookingCrash
  BY <1>5, BookingCrashStep
<1>6. CASE UNCHANGED bookingVars
  <2>1. /\ booking' = booking /\ approver' = approver /\ canceller' = canceller
        /\ event' = event /\ slips' = slips
    BY <1>6 DEF bookingVars
  <2> QED
    BY <2>1 DEF BookingInv, BookingFits, BookingTypeOK, RowFits, HandFits, CancelFits,
       StrayBounded, Stray, Accounted, InHand
<1> QED
  BY <1>1, <1>2, <1>3, <1>4, <1>5, <1>6 DEF BookingNext

\* The inductive invariant holds throughout: the theorems below read it off
\* (api/routes/decisions.py, orchestrator/calendar_tools.py).
THEOREM BookingInvHolds == BookingSpec => []BookingInv
BY BookingInitInv, BookingNextInv, PTL DEF BookingSpec

\* The types of the row, the requests and the events hold throughout.
THEOREM BookingTypeCorrect == BookingSpec => []BookingTypeOK
<1>1. BookingInv => BookingTypeOK
  BY DEF BookingInv, BookingFits
<1> QED
  BY <1>1, BookingInvHolds, PTL

\* For any number of approvals and cancels at once: the meetings no row and no
\* approval answers for are at most as many as answers were lost or did not name
\* their event, clean-ups failed and events were in hand at a crash; a cancelled
\* card's is off the calendar (approve_decision, cancel_decision, _book).
THEOREM StraysAreSlips == BookingSpec => []CalendarMatchesTheCard
<1>1. BookingInv => CalendarMatchesTheCard
  BY DEF BookingInv, BookingFits, StrayBounded, Stray, RowFits, CalendarMatchesTheCard
<1> QED
  BY <1>1, BookingInvHolds, PTL

-----------------------------------------------------------------------------
(* A card of actions: the inductive invariant *)

Running(t) == turn[t].pc = "running"

CardsShape ==
  /\ CardsTypeOK
  /\ \A t \in Turns : turn[t].pc # "idle" => turn[t].card \in CardIds

\* A turn that carries a card out has claimed it, is alone in that, and knows
\* which of its actions are still to come and which it did.
TurnFits(t) ==
  Running(t) =>
    /\ suggested[turn[t].card].status = "executing"
    /\ \A u \in Turns \ {t} : ~(Running(u) /\ turn[u].card = turn[t].card)
    /\ \A i \in turn[t].left : done[turn[t].card][i] = 0
    /\ \A i \in turn[t].well : done[turn[t].card][i] > 0

\* Nothing happens on a card nobody ever claimed.
CardFits(c) ==
  /\ \A i \in CardActions : done[c][i] <= 1
  /\ suggested[c].status \in {"absent", "proposed", "rejected"} =>
       \A i \in CardActions : done[c][i] = 0
  /\ \A i \in suggested[c].payload : done[c][i] > 0
  /\ suggested[c].status \in {"approved", "executed"} => suggested[c].payload # {}

\* The turn that runs on its own holds the lock, so there is one at most.
LockFits == \A t \in OnItsOwnNow : lock = t

CardsInv ==
  /\ CardsShape
  /\ \A t \in Turns : TurnFits(t)
  /\ \A c \in CardIds : CardFits(c)

-----------------------------------------------------------------------------
(* A card of actions: the statements of the ledger *)

LEMMA CardRowTypes ==
  ASSUME NEW r \in ActionCard
  PROVE  /\ ClaimedCard(r) \in ActionCard
         /\ MarkedResolved(r, "rejected") \in ActionCard
         /\ HandedBack(r, {}) \in ActionCard
         /\ [r EXCEPT !.status = "proposed"] \in ActionCard
         /\ [r EXCEPT !.status = "proposed", !.gate = "auto"] \in ActionCard
         /\ \A how \in {"failed", "executed", "approved"}, well \in SUBSET CardActions :
              [ExecutionFinished(r, how) EXCEPT !.payload = well] \in ActionCard
  BY DEF ActionCard, LedgerStatuses, ClaimedCard, MarkedResolved, HandedBack, ExecutionFinished

LEMMA CardEffects ==
  ASSUME NEW r \in ActionCard
  PROVE  /\ ClaimedCard(r).status = IF r.status = "proposed" THEN "executing" ELSE r.status
         /\ ClaimedCard(r).payload = r.payload
         /\ MarkedResolved(r, "rejected").status = IF r.status = "proposed" THEN "rejected" ELSE r.status
         /\ MarkedResolved(r, "rejected").payload = r.payload
         /\ HandedBack(r, {}).status = r.status
         /\ HandedBack(r, {}).payload = r.payload \/ HandedBack(r, {}).payload = {}
         /\ \A how, well :
              /\ [ExecutionFinished(r, how) EXCEPT !.payload = well].payload = well
              /\ [ExecutionFinished(r, how) EXCEPT !.payload = well].status =
                   IF r.status = "executing" THEN how ELSE r.status
  BY DEF ActionCard, ClaimedCard, MarkedResolved, HandedBack, ExecutionFinished

LEMMA OutcomeType ==
  ASSUME NEW t
  PROVE  CarriedOut(t) \in {"failed", "executed", "approved"}
  BY DEF CarriedOut

-----------------------------------------------------------------------------
(* A card of actions: types *)

LEMMA CardsShapeInit == CardsInit => CardsShape
<1> SUFFICES ASSUME CardsInit PROVE CardsShape
  OBVIOUS
<1>1. [status |-> "absent", gate |-> "propose", payload |-> {}] \in ActionCard
  BY DEF ActionCard
<1>2. NoTurn \in Turn /\ NoTurn.pc = "idle"
  BY DEF NoTurn, Turn, NoSuggestion
<1> QED
  BY <1>1, <1>2 DEF CardsInit, CardsShape, CardsTypeOK

LEMMA CardsShapeStep == CardsShape /\ [CardsNext]_cardVars => CardsShape'
<1> SUFFICES ASSUME CardsShape, [CardsNext]_cardVars PROVE CardsShape'
  OBVIOUS
<1> USE ActionCardsAssumption DEF CardsShape, CardsTypeOK
<1>0. NoTurn \in Turn /\ NoTurn.pc = "idle"
  BY DEF NoTurn, Turn, NoSuggestion
<1>1. CASE UNCHANGED cardVars
  BY <1>1 DEF cardVars
<1>2. ASSUME NEW c \in CardIds, ProposeCard(c) PROVE CardsShape'
  <2> DEFINE r == [suggested[c] EXCEPT !.status = "proposed"]
  <2>1. r \in ActionCard
    BY CardRowTypes
  <2>2. suggested' = [suggested EXCEPT ![c] = r]
    BY <1>2 DEF ProposeCard
  <2> HIDE DEF r
  <2> QED BY <1>2, <2>1, <2>2 DEF ProposeCard
<1>3. ASSUME NEW c \in CardIds, DismissCard(c) PROVE CardsShape'
  BY <1>3, CardRowTypes DEF DismissCard
<1>4. ASSUME NEW t \in Turns, NEW c \in CardIds, ProposeToRun(t, c) PROVE CardsShape'
  <2>1. suggested' \in [CardIds -> ActionCard]
    BY <1>4, CardRowTypes DEF ProposeToRun
  <2> DEFINE w == [NoTurn EXCEPT !.pc = "waiting", !.card = c, !.own = TRUE]
  <2>2. w \in Turn /\ w.card = c
    BY DEF NoTurn, Turn, NoSuggestion
  <2>3. turn' = turn \/ turn' = [turn EXCEPT ![t] = w]
    BY <1>4 DEF ProposeToRun
  <2> HIDE DEF w
  <2> QED BY <1>4, <2>1, <2>2, <2>3 DEF ProposeToRun
<1>5. ASSUME NEW t \in Turns, NEW c \in CardIds, NEW own \in BOOLEAN,
             NEW chosen \in SUBSET CardActions, Runs(t, c, own, chosen)
      PROVE  /\ turn' \in [Turns -> Turn]
             /\ \A u \in Turns : turn'[u].pc # "idle" => turn'[u].card \in CardIds
  <2> DEFINE x == [pc |-> "running", card |-> c, own |-> own, left |-> chosen, well |-> {}]
  <2>1. x \in Turn /\ x.card = c
    BY DEF Turn
  <2>2. turn' = [turn EXCEPT ![t] = x]
    BY <1>5 DEF Runs
  <2> HIDE DEF x
  <2> QED BY <2>1, <2>2
<1>6. ASSUME NEW t \in Turns, NEW c \in CardIds, NEW chosen \in SUBSET CardActions,
             ApproveCard(t, c, chosen)
      PROVE  CardsShape'
  <2>1. suggested' \in [CardIds -> ActionCard]
    BY <1>6, CardRowTypes DEF ApproveCard
  <2> QED BY <1>5, <1>6, <2>1 DEF ApproveCard
<1>7. ASSUME NEW t \in Turns, OwnHeldBack(t) \/ OwnTooLate(t) PROVE CardsShape'
  <2>1. turn[t].card \in CardIds
    BY <1>7 DEF OwnHeldBack, OwnTooLate, TakesLock
  <2>2. suggested' \in [CardIds -> ActionCard]
    <3> DEFINE h == HandedBack(suggested[turn[t].card], {})
    <3>1. h \in ActionCard
      BY <2>1, CardRowTypes
    <3>2. suggested' = suggested \/ suggested' = [suggested EXCEPT ![turn[t].card] = h]
      BY <1>7 DEF OwnHeldBack, OwnTooLate
    <3> HIDE DEF h
    <3> QED BY <3>1, <3>2
  <2> QED BY <1>0, <1>7, <2>2 DEF OwnHeldBack, OwnTooLate, TurnOver
<1>8. ASSUME NEW t \in Turns, OwnRuns(t) PROVE CardsShape'
  <2>1. turn[t].card \in CardIds
    BY <1>8 DEF OwnRuns, TakesLock
  <2>2. suggested' \in [CardIds -> ActionCard]
    BY <1>8, <2>1, CardRowTypes DEF OwnRuns
  <2> QED BY <1>5, <1>8, <2>1, <2>2 DEF OwnRuns
<1>9. ASSUME NEW t \in Turns, NEW i \in CardActions, NEW happened \in BOOLEAN,
             NEW reported \in BOOLEAN, DoAction(t, i, happened, reported)
      PROVE  CardsShape'
  <2> DEFINE c == turn[t].card  n == done[c][i] + 1
             x == [turn[t] EXCEPT !.left = @ \ {i}, !.well = IF reported THEN @ \cup {i} ELSE @]
  <2>1. c \in CardIds
    BY <1>9 DEF DoAction
  <2>2. n \in Nat
    BY <2>1
  <2>3. done' = IF happened THEN [done EXCEPT ![c][i] = n] ELSE done
    BY <1>9 DEF DoAction
  <2>4. x \in Turn /\ x.card = turn[t].card /\ x.pc = turn[t].pc
    BY DEF Turn
  <2>5. turn' = [turn EXCEPT ![t] = x] /\ UNCHANGED <<suggested, lock, today, stops>>
    BY <1>9 DEF DoAction
  <2> HIDE DEF n, x, c
  <2>6. done' \in [CardIds -> [CardActions -> Nat]]
    BY <2>1, <2>2, <2>3
  <2> QED BY <2>4, <2>5, <2>6
<1>10. ASSUME NEW t \in Turns, CardFinishes(t) PROVE CardsShape'
  <2> DEFINE c == turn[t].card
             r == [ExecutionFinished(suggested[c], CarriedOut(t)) EXCEPT !.payload = turn[t].well]
  <2>1. c \in CardIds /\ turn[t].well \in SUBSET CardActions
    BY <1>10 DEF CardFinishes, Turn
  <2>2. r \in ActionCard
    BY <2>1, OutcomeType, CardRowTypes
  <2>3. suggested' = [suggested EXCEPT ![c] = r]
    BY <1>10 DEF CardFinishes
  <2>4. today' \subseteq CardIds /\ lock' \in Turns \cup {"free"} /\ UNCHANGED <<done, stops>>
    BY <1>10, <2>1 DEF CardFinishes
  <2>5. turn' = [turn EXCEPT ![t] = NoTurn]
    BY <1>10 DEF CardFinishes, TurnOver
  <2> HIDE DEF r, c
  <2> QED BY <1>0, <2>1, <2>2, <2>3, <2>4, <2>5
<1>11. CASE NewDay
  BY <1>11 DEF NewDay
<1>12. CASE CardsCrash
  BY <1>0, <1>12 DEF CardsCrash
<1> QED
  BY <1>1, <1>2, <1>3, <1>4, <1>6, <1>7, <1>8, <1>9, <1>10, <1>11, <1>12 DEF CardsNext, TurnNext

\* Types: the cards, the turns, the lock and the counters hold what they may.
THEOREM CardsTypeCorrect == CardsSpec => []CardsTypeOK
<1>1. CardsShape => CardsTypeOK
  BY DEF CardsShape
<1> QED
  BY <1>1, CardsShapeInit, CardsShapeStep, PTL DEF CardsSpec

-----------------------------------------------------------------------------
(* A card of actions: each action once, and what the card says *)

LEMMA CardsInvInit == CardsInit => CardsInv
<1> SUFFICES ASSUME CardsInit PROVE CardsInv
  OBVIOUS
<1>1. CardsShape
  BY CardsShapeInit
<1>2. ASSUME NEW t \in Turns PROVE TurnFits(t)
  BY DEF CardsInit, TurnFits, Running, NoTurn
<1>3. ASSUME NEW c \in CardIds PROVE CardFits(c)
  BY DEF CardsInit, CardFits
<1> QED
  BY <1>1, <1>2, <1>3 DEF CardsInv

\* A step that leaves what happened alone, starts no turn on a card, and
\* changes no card a turn is carrying out.
LEMMA CardStepKeeps ==
  ASSUME CardsInv, CardsShape', UNCHANGED done,
         \A t \in Turns : turn'[t] = turn[t] \/ turn'[t].pc # "running",
         \A c \in CardIds :
           \/ suggested'[c] = suggested[c]
           \/ /\ suggested[c].status \in {"absent", "proposed"}
              /\ suggested'[c].status \in {"proposed", "rejected"}
              /\ suggested'[c].payload \in {suggested[c].payload, {}}
  PROVE  CardsInv'
<1>1. ASSUME NEW t \in Turns PROVE TurnFits(t)'
  <2> SUFFICES ASSUME Running(t)' PROVE TurnFits(t)'
    BY DEF TurnFits
  <2>1. turn'[t] = turn[t] /\ Running(t)
    BY DEF Running
  <2>2. TurnFits(t) /\ turn[t].card \in CardIds
    BY <2>1 DEF CardsInv, CardsShape, Running
  <2>3. suggested'[turn[t].card] = suggested[turn[t].card]
    BY <2>1, <2>2 DEF TurnFits
  <2> QED BY <2>1, <2>2, <2>3 DEF TurnFits, Running
<1>2. ASSUME NEW c \in CardIds PROVE CardFits(c)'
  BY DEF CardFits, CardsInv
<1> QED
  BY <1>1, <1>2 DEF CardsInv

\* A turn claims a card that waits, and starts on it.
LEMMA CardStartKeeps ==
  ASSUME CardsInv, CardsShape', UNCHANGED done,
         NEW t \in Turns, NEW c \in CardIds, NEW own, NEW chosen \in SUBSET CardActions,
         suggested[c].status = "proposed",
         suggested' = [suggested EXCEPT ![c] = ClaimedCard(suggested[c])],
         Runs(t, c, own, chosen)
  PROVE  CardsInv'
<1> DEFINE x == [pc |-> "running", card |-> c, own |-> own, left |-> chosen, well |-> {}]
<1>0. CardsTypeOK
  BY DEF CardsInv, CardsShape
<1>1. turn' = [turn EXCEPT ![t] = x]
  BY DEF Runs
<1>2. x.pc = "running" /\ x.card = c /\ x.left = chosen /\ x.well = {}
  OBVIOUS
<1> HIDE DEF x
<1>3. suggested[c] \in ActionCard /\ turn \in [Turns -> Turn]
  BY <1>0 DEF CardsTypeOK
<1>4. /\ suggested'[c].status = "executing" /\ suggested'[c].payload = suggested[c].payload
      /\ \A d \in CardIds \ {c} : suggested'[d] = suggested[d]
  BY <1>0, <1>3, CardEffects DEF CardsTypeOK
<1>5. \A u \in Turns : Running(u) => turn[u].card # c
  BY DEF CardsInv, TurnFits
<1>6. ASSUME NEW u \in Turns PROVE TurnFits(u)'
  <2>1. CASE u = t
    <3>1. \A i \in chosen : done[c][i] = 0
      BY DEF CardsInv, CardFits
    <3>2. turn'[t] = x /\ \A v \in Turns \ {t} : turn'[v] = turn[v]
      BY <1>1, <1>3
    <3> QED BY <1>2, <1>4, <1>5, <2>1, <3>1, <3>2 DEF TurnFits, Running
  <2>2. CASE u # t /\ Running(u)
    <3>1. turn'[t] = x /\ \A v \in Turns \ {t} : turn'[v] = turn[v]
      BY <1>1, <1>3
    <3>2. TurnFits(u) /\ turn[u].card \in CardIds \ {c}
      BY <1>5, <2>2 DEF CardsInv, CardsShape, Running
    <3> QED BY <1>2, <1>4, <2>2, <3>1, <3>2 DEF TurnFits, Running
  <2>3. CASE u # t /\ ~Running(u)
    BY <1>1, <1>3, <2>3 DEF TurnFits, Running
  <2> QED BY <2>1, <2>2, <2>3
<1>7. ASSUME NEW d \in CardIds PROVE CardFits(d)'
  <2>1. CardFits(d) /\ done' = done
    BY DEF CardsInv
  <2>2. CASE d = c
    BY <1>4, <2>1, <2>2 DEF CardFits
  <2>3. CASE d # c
    BY <1>4, <2>1, <2>3 DEF CardFits
  <2> QED BY <2>2, <2>3
<1> QED
  BY <1>6, <1>7 DEF CardsInv

\* One action: it had not happened, and no other turn is at this card.
LEMMA ActionKeeps ==
  ASSUME CardsInv, CardsShape', NEW t \in Turns, NEW i \in CardActions,
         NEW happened \in BOOLEAN, NEW reported \in BOOLEAN, DoAction(t, i, happened, reported)
  PROVE  CardsInv'
<1> DEFINE c == turn[t].card  n == done[c][i] + 1
           x == [turn[t] EXCEPT !.left = @ \ {i}, !.well = IF reported THEN @ \cup {i} ELSE @]
<1>0. CardsTypeOK
  BY DEF CardsInv, CardsShape
<1>1. Running(t) /\ i \in turn[t].left /\ (reported => happened)
  BY DEF DoAction, Running
<1>2. TurnFits(t) /\ c \in CardIds /\ turn[t] \in Turn
  BY <1>0, <1>1 DEF CardsInv, CardsShape, CardsTypeOK, Running
<1>3. n = 1
  BY <1>1, <1>2 DEF TurnFits
<1>4. done' = IF happened THEN [done EXCEPT ![c][i] = n] ELSE done
  BY DEF DoAction
<1>5. /\ x.pc = "running" /\ x.card = c /\ x.left = turn[t].left \ {i}
      /\ x.well = IF reported THEN turn[t].well \cup {i} ELSE turn[t].well
  BY <1>1, <1>2 DEF Turn, Running
<1>6. turn' = [turn EXCEPT ![t] = x] /\ UNCHANGED suggested
  BY DEF DoAction
<1> HIDE DEF n, x, c
<1>7. /\ turn'[t] = x /\ \A u \in Turns \ {t} : turn'[u] = turn[u]
      /\ \A d \in CardIds \ {c} : done'[d] = done[d]
      /\ \A j \in CardActions \ {i} : done'[c][j] = done[c][j]
      /\ done'[c][i] = IF happened THEN 1 ELSE done[c][i]
  BY <1>0, <1>2, <1>3, <1>4, <1>6 DEF CardsTypeOK
<1>8. done[c][i] = 0
  BY <1>1, <1>2 DEF TurnFits, c
<1>9. ASSUME NEW u \in Turns PROVE TurnFits(u)'
  <2>0. c = turn[t].card
    BY DEF c
  <2>1. CASE u = t
    <3>1. \A j \in x.left : j \in CardActions \ {i} /\ done[c][j] = 0
      BY <1>0, <1>1, <1>2, <1>5, <2>0 DEF TurnFits, Turn
    <3>2. \A j \in x.well : done'[c][j] > 0
      <4>1. \A j \in turn[t].well : j \in CardActions \ {i} /\ done[c][j] > 0
        BY <1>1, <1>2, <1>8, <2>0 DEF TurnFits, Turn
      <4> QED BY <1>1, <1>5, <1>7, <4>1
    <3>3. suggested'[c].status = "executing"
      BY <1>1, <1>2, <1>6, <2>0 DEF TurnFits
    <3>4. \A v \in Turns \ {t} : ~(turn'[v].pc = "running" /\ turn'[v].card = c)
      BY <1>1, <1>2, <1>7, <2>0 DEF TurnFits, Running
    <3> QED BY <1>5, <1>7, <2>1, <3>1, <3>2, <3>3, <3>4 DEF TurnFits, Running
  <2>2. CASE u # t /\ Running(u)
    <3>1. TurnFits(u) /\ turn[u].card \in CardIds \ {c}
      BY <1>1, <1>2, <2>0, <2>2 DEF CardsInv, CardsShape, TurnFits, Running
    <3>2. turn'[u] = turn[u] /\ done'[turn[u].card] = done[turn[u].card]
      BY <1>7, <2>2, <3>1
    <3>3. \A v \in Turns \ {u} : turn'[v].card = turn[v].card /\ (Running(v)' <=> Running(v))
      BY <1>1, <1>5, <1>7, <2>0 DEF Running
    <3> QED BY <1>6, <2>2, <3>1, <3>2, <3>3 DEF TurnFits, Running
  <2>3. CASE u # t /\ ~Running(u)
    BY <1>7, <2>3 DEF TurnFits, Running
  <2> QED BY <2>1, <2>2, <2>3
<1>10. ASSUME NEW d \in CardIds PROVE CardFits(d)'
  <2>1. CardFits(d) /\ suggested' = suggested
    BY <1>6 DEF CardsInv
  <2>2. CASE d = c
    <3>1. suggested[c].status = "executing"
      BY <1>1, <1>2 DEF TurnFits, c
    <3>2. \A j \in CardActions : done'[c][j] = done[c][j] \/ done'[c][j] = 1
      BY <1>7
    <3>3. \A j \in suggested[c].payload : done'[c][j] > 0
      BY <1>7, <2>1, <2>2, <3>2, <1>0 DEF CardFits, CardsTypeOK, ActionCard
    <3> QED BY <2>1, <2>2, <3>1, <3>2, <3>3 DEF CardFits
  <2>3. CASE d # c
    BY <1>7, <2>1, <2>3 DEF CardFits
  <2> QED BY <2>2, <2>3
<1> QED
  BY <1>9, <1>10 DEF CardsInv

\* The end of a turn: the card keeps what was done well.
LEMMA FinishKeeps ==
  ASSUME CardsInv, CardsShape', NEW t \in Turns, CardFinishes(t)
  PROVE  CardsInv'
<1> DEFINE c == turn[t].card
           r == [ExecutionFinished(suggested[c], CarriedOut(t)) EXCEPT !.payload = turn[t].well]
<1>0. CardsTypeOK
  BY DEF CardsInv, CardsShape
<1>1. Running(t) /\ UNCHANGED done
  BY DEF CardFinishes, Running
<1>2. TurnFits(t) /\ c \in CardIds /\ suggested[c] \in ActionCard
  BY <1>0, <1>1 DEF CardsInv, CardsShape, CardsTypeOK, Running
<1>3. r.payload = turn[t].well /\ r.status = CarriedOut(t)
  BY <1>1, <1>2, CardEffects DEF TurnFits
<1>4. suggested' = [suggested EXCEPT ![c] = r]
  BY DEF CardFinishes
<1>5. turn' = [turn EXCEPT ![t] = NoTurn] /\ NoTurn.pc = "idle"
  BY DEF CardFinishes, TurnOver, NoTurn
<1>6. c = turn[t].card
  OBVIOUS
<1> HIDE DEF r, c
<1>7. /\ ~Running(t)' /\ \A u \in Turns \ {t} : turn'[u] = turn[u]
      /\ suggested'[c] = r /\ \A d \in CardIds \ {c} : suggested'[d] = suggested[d]
  BY <1>0, <1>2, <1>4, <1>5 DEF CardsTypeOK, Running
<1>8. ASSUME NEW u \in Turns PROVE TurnFits(u)'
  <2>1. CASE u # t /\ Running(u)
    <3>1. TurnFits(u) /\ turn[u].card \in CardIds \ {c}
      BY <1>1, <1>2, <1>6, <2>1 DEF CardsInv, CardsShape, TurnFits, Running
    <3>2. turn'[u] = turn[u] /\ suggested'[turn[u].card] = suggested[turn[u].card]
      BY <1>7, <2>1, <3>1
    <3>3. \A v \in Turns \ {u} : Running(v)' => turn'[v] = turn[v] /\ Running(v)
      BY <1>7 DEF Running
    <3> QED BY <1>1, <2>1, <3>1, <3>2, <3>3 DEF TurnFits, Running
  <2>2. CASE u = t \/ ~Running(u)
    BY <1>7, <2>2 DEF TurnFits, Running
  <2> QED BY <2>1, <2>2
<1>9. ASSUME NEW d \in CardIds PROVE CardFits(d)'
  <2>1. CardFits(d) /\ done' = done
    BY <1>1 DEF CardsInv
  <2>2. CASE d = c
    <3>1. \A i \in r.payload : done[c][i] > 0
      BY <1>1, <1>2, <1>3, <1>6 DEF TurnFits
    <3>2. r.status \in {"approved", "executed"} => r.payload # {}
      BY <1>3 DEF CarriedOut
    <3>3. r.status \notin {"absent", "proposed", "rejected"}
      BY <1>3, OutcomeType
    <3> QED BY <1>7, <2>1, <2>2, <3>1, <3>2, <3>3 DEF CardFits
  <2>3. CASE d # c
    BY <1>7, <2>1, <2>3 DEF CardFits
  <2> QED BY <2>2, <2>3
<1> QED
  BY <1>8, <1>9 DEF CardsInv

LEMMA CardsInvStep == CardsInv /\ [CardsNext]_cardVars => CardsInv'
<1> SUFFICES ASSUME CardsInv, [CardsNext]_cardVars PROVE CardsInv'
  OBVIOUS
<1>0. CardsShape /\ CardsShape' /\ CardsTypeOK
  BY CardsShapeStep DEF CardsInv, CardsShape
<1>s. suggested \in [CardIds -> ActionCard] /\ turn \in [Turns -> Turn] /\ NoTurn.pc = "idle"
  BY <1>0 DEF CardsTypeOK, NoTurn
<1>1. CASE UNCHANGED cardVars
  BY <1>0, <1>1, CardStepKeeps DEF cardVars
<1>2. ASSUME NEW c \in CardIds, ProposeCard(c) PROVE CardsInv'
  <2> DEFINE r == [suggested[c] EXCEPT !.status = "proposed"]
  <2>1. r.status = "proposed" /\ r.payload = suggested[c].payload
    BY <1>s DEF ActionCard
  <2>2. suggested' = [suggested EXCEPT ![c] = r] /\ suggested[c].status = "absent"
    BY <1>2 DEF ProposeCard
  <2>3. UNCHANGED <<turn, done>>
    BY <1>2 DEF ProposeCard
  <2> HIDE DEF r
  <2> QED BY <1>0, <1>s, <2>1, <2>2, <2>3, CardStepKeeps
<1>3. ASSUME NEW c \in CardIds, DismissCard(c) PROVE CardsInv'
  <2>1. suggested'[c].status = "rejected" /\ suggested'[c].payload = suggested[c].payload
    BY <1>3, <1>s, CardEffects DEF DismissCard
  <2>2. /\ \A d \in CardIds \ {c} : suggested'[d] = suggested[d]
        /\ suggested[c].status = "proposed" /\ UNCHANGED <<turn, done>>
    BY <1>3, <1>s DEF DismissCard
  <2> QED BY <1>0, <2>1, <2>2, CardStepKeeps
<1>4. ASSUME NEW t \in Turns, NEW c \in CardIds, ProposeToRun(t, c) PROVE CardsInv'
  <2> DEFINE w == [NoTurn EXCEPT !.pc = "waiting", !.card = c, !.own = TRUE]
             r == [suggested[c] EXCEPT !.status = "proposed", !.gate = "auto"]
  <2>1. w.pc = "waiting" /\ r.status = "proposed" /\ r.payload = suggested[c].payload
    BY <1>s DEF NoTurn, ActionCard
  <2>2. turn' = turn \/ turn' = [turn EXCEPT ![t] = w]
    BY <1>4 DEF ProposeToRun
  <2>3. \/ suggested' = suggested
        \/ suggested[c].status = "absent" /\ suggested' = [suggested EXCEPT ![c] = r]
    BY <1>4, <1>s DEF ProposeToRun
  <2>4. UNCHANGED done
    BY <1>4 DEF ProposeToRun
  <2> HIDE DEF w, r
  <2>5. \A u \in Turns : turn'[u] = turn[u] \/ turn'[u].pc # "running"
    BY <1>s, <2>1, <2>2
  <2>6. \A d \in CardIds :
          \/ suggested'[d] = suggested[d]
          \/ /\ suggested[d].status \in {"absent", "proposed"}
             /\ suggested'[d].status \in {"proposed", "rejected"}
             /\ suggested'[d].payload \in {suggested[d].payload, {}}
    BY <1>s, <2>1, <2>3
  <2> QED BY <1>0, <2>4, <2>5, <2>6, CardStepKeeps
<1>5. ASSUME NEW t \in Turns, NEW c \in CardIds, NEW chosen \in SUBSET CardActions,
             ApproveCard(t, c, chosen)
      PROVE  CardsInv'
  BY <1>0, <1>5, CardStartKeeps DEF ApproveCard
<1>6. ASSUME NEW t \in Turns, OwnHeldBack(t) PROVE CardsInv'
  <2> DEFINE c == turn[t].card  h == HandedBack(suggested[c], {})
  <2>1. c \in CardIds
    BY <1>0, <1>6 DEF OwnHeldBack, TakesLock, CardsShape
  <2>2. h = suggested[c] \/ (/\ suggested[c].status = "proposed" /\ h.status = "proposed"
                            /\ h.payload = {})
    BY <1>s, <2>1 DEF HandedBack, ActionCard
  <2>3. suggested' = [suggested EXCEPT ![c] = h] /\ turn' = [turn EXCEPT ![t] = NoTurn]
    BY <1>6 DEF OwnHeldBack, TurnOver
  <2>4. UNCHANGED done
    BY <1>6 DEF OwnHeldBack
  <2> HIDE DEF c, h
  <2>5. \A d \in CardIds :
          \/ suggested'[d] = suggested[d]
          \/ /\ suggested[d].status \in {"absent", "proposed"}
             /\ suggested'[d].status \in {"proposed", "rejected"}
             /\ suggested'[d].payload \in {suggested[d].payload, {}}
    BY <1>s, <2>1, <2>2, <2>3
  <2>6. \A u \in Turns : turn'[u] = turn[u] \/ turn'[u].pc # "running"
    BY <1>s, <2>3
  <2> QED BY <1>0, <2>4, <2>5, <2>6, CardStepKeeps
<1>7. ASSUME NEW t \in Turns, OwnTooLate(t) PROVE CardsInv'
  <2>1. \A u \in Turns : turn'[u] = turn[u] \/ turn'[u].pc # "running"
    BY <1>7, <1>s DEF OwnTooLate, TurnOver
  <2> QED BY <1>0, <1>7, <2>1, CardStepKeeps DEF OwnTooLate
<1>8. ASSUME NEW t \in Turns, OwnRuns(t) PROVE CardsInv'
  <2>1. turn[t].card \in CardIds
    BY <1>0, <1>8 DEF OwnRuns, TakesLock, CardsShape
  <2> QED BY <1>0, <1>8, <2>1, CardStartKeeps DEF OwnRuns
<1>9. ASSUME NEW t \in Turns, NEW i \in CardActions, NEW happened \in BOOLEAN,
             NEW reported \in BOOLEAN, DoAction(t, i, happened, reported)
      PROVE  CardsInv'
  BY <1>0, <1>9, ActionKeeps
<1>10. ASSUME NEW t \in Turns, CardFinishes(t) PROVE CardsInv'
  BY <1>0, <1>10, FinishKeeps
<1>11. CASE NewDay
  BY <1>0, <1>11, CardStepKeeps DEF NewDay
<1>12. CASE CardsCrash
  BY <1>0, <1>s, <1>12, CardStepKeeps DEF CardsCrash
<1> QED
  BY <1>1, <1>2, <1>3, <1>4, <1>5, <1>6, <1>7, <1>8, <1>9, <1>10, <1>11, <1>12
     DEF CardsNext, TurnNext

LEMMA CardsInvariant == CardsSpec => []CardsInv
  BY CardsInvInit, CardsInvStep, PTL DEF CardsSpec

\* No action of a card happens twice, whatever taps and turns fall together
\* (the claim of approve and run_on_its_own).
THEOREM HappensOnce == CardsSpec => []ActionHappensOnce
<1>1. CardsInv => ActionHappensOnce
  BY DEF CardsInv, CardFits, ActionHappensOnce
<1> QED
  BY <1>1, CardsInvariant, PTL

\* What a card says was done happened, and a dismissed one did nothing
\* (finish_execution, dismiss).
THEOREM SuggestionRight == CardsSpec => []SuggestionIsRight
<1>1. CardsInv => SuggestionIsRight
  BY DEF CardsInv, CardFits, SuggestionIsRight
<1> QED
  BY <1>1, CardsInvariant, PTL

-----------------------------------------------------------------------------
(* A card of actions: the daily limit *)

LEMMA ActionsAreCounted ==
  ASSUME NEW a \in Nat
  PROVE  CardSize * a \in Nat
  BY ActionCardsAssumption

LEMMA LimitArithmetic ==
  ASSUME NEW a \in Nat, NEW b \in Nat, NEW x \in Nat, NEW y \in Nat, x + y <= a + b
  PROVE  CardSize * x + CardSize * y <= CardSize * a + CardSize * b
<1>1. CardSize \in Nat
  BY ActionCardsAssumption
<1>2. PICK z \in Nat : a + b = x + y + z
  <2>1. (a + b) - (x + y) \in Nat
    OBVIOUS
  <2> QED BY <2>1
<1>3. CardSize * (a + b) = CardSize * (x + y) + CardSize * z
  BY <1>1, <1>2
<1>4. CardSize * z \in Nat
  BY <1>1, <1>2
<1>5. /\ CardSize * (a + b) = CardSize * a + CardSize * b
      /\ CardSize * (x + y) = CardSize * x + CardSize * y
      /\ CardSize * (x + y) \in Nat
  BY <1>1
<1> QED
  BY <1>3, <1>4, <1>5

LEMMA DayCounts ==
  ASSUME CardsTypeOK, LockFits
  PROVE  /\ IsFiniteSet(today) /\ Cardinality(today) \in Nat
         /\ IsFiniteSet(OnItsOwnNow) /\ Cardinality(OnItsOwnNow) \in Nat
         /\ lock = "free" => OnItsOwnNow = {}
         /\ \A t \in OnItsOwnNow : OnItsOwnNow = {t}
<1>1. today \subseteq CardIds /\ IsFiniteSet(CardIds)
  BY ActionCardsAssumption DEF CardsTypeOK
<1>2. IsFiniteSet(today) /\ Cardinality(today) \in Nat
  BY <1>1, FS_Subset, FS_CardinalityType
<1>3. OnItsOwnNow \subseteq {lock} /\ IsFiniteSet({lock})
  BY FS_Singleton DEF LockFits
<1>4. IsFiniteSet(OnItsOwnNow) /\ Cardinality(OnItsOwnNow) \in Nat
  BY <1>3, FS_Subset, FS_CardinalityType
<1>5. lock = "free" => OnItsOwnNow = {}
  BY ActionCardsAssumption DEF LockFits, OnItsOwnNow
<1> QED
  BY <1>2, <1>3, <1>4, <1>5

\* Fewer cards done today, or fewer turns at work, stay within the limit.
LEMMA LessStaysWithin ==
  ASSUME CardsTypeOK, LockFits, LockFits', CardsTypeOK', OwnWithinTheDay,
         Cardinality(today)' + Cardinality(OnItsOwnNow)' <= Cardinality(today) + Cardinality(OnItsOwnNow)
  PROVE  OwnWithinTheDay'
<1> DEFINE a == Cardinality(today)  b == Cardinality(OnItsOwnNow)
<1>1. a \in Nat /\ b \in Nat
  BY DayCounts
<1>2. a' \in Nat /\ b' \in Nat
  <2>1. today' \subseteq CardIds /\ IsFiniteSet(CardIds)
    BY ActionCardsAssumption DEF CardsTypeOK
  <2>2. OnItsOwnNow' \subseteq {lock'} /\ IsFiniteSet({lock'})
    BY FS_Singleton DEF LockFits
  <2>3. IsFiniteSet(today') /\ IsFiniteSet(OnItsOwnNow')
    BY <2>1, <2>2, FS_Subset
  <2> QED BY <2>3, FS_CardinalityType
<1>3. a' + b' <= a + b
  OBVIOUS
<1>4. CardSize * a + CardSize * b <= OnItsOwnPerDay
  BY DEF OwnWithinTheDay, DoneToday
<1> HIDE DEF a, b
<1>5. CardSize * a' + CardSize * b' <= CardSize * a + CardSize * b
  BY <1>1, <1>2, <1>3, LimitArithmetic
<1>6. CardSize * a' + CardSize * b' <= OnItsOwnPerDay
  <2>1. CardSize * a \in Nat /\ CardSize * b \in Nat /\ CardSize * a' \in Nat /\ CardSize * b' \in Nat
    BY <1>1, <1>2, ActionsAreCounted
  <2> QED BY <1>4, <1>5, <2>1, ActionCardsAssumption
<1> QED
  BY <1>6 DEF OwnWithinTheDay, DoneToday, a, b

LEMMA LimitInit == CardsInit => LockFits /\ OwnWithinTheDay
<1> SUFFICES ASSUME CardsInit PROVE LockFits /\ OwnWithinTheDay
  OBVIOUS
<1>1. OnItsOwnNow = {} /\ today = {}
  BY DEF CardsInit, OnItsOwnNow, NoTurn
<1>2. CardSize * 0 = 0
  BY ActionCardsAssumption
<1> QED
  BY <1>1, <1>2, FS_EmptySet, ActionCardsAssumption DEF LockFits, OwnWithinTheDay, DoneToday

LEMMA LimitStep ==
  CardsInv /\ LockFits /\ OwnWithinTheDay /\ [CardsNext]_cardVars => (LockFits /\ OwnWithinTheDay)'
<1> SUFFICES ASSUME CardsInv, LockFits, OwnWithinTheDay, [CardsNext]_cardVars
             PROVE  LockFits' /\ OwnWithinTheDay'
  OBVIOUS
<1>0. CardsTypeOK /\ CardsShape /\ CardsTypeOK'
  BY CardsInvStep DEF CardsInv, CardsShape
<1>t. turn \in [Turns -> Turn] /\ suggested \in [CardIds -> ActionCard] /\ NoTurn.pc = "idle"
  BY <1>0 DEF CardsTypeOK, NoTurn
\* A step that starts no turn on its own and ends none.
<1>1. ASSUME UNCHANGED <<lock, today>>, OnItsOwnNow' \subseteq OnItsOwnNow
      PROVE  LockFits' /\ OwnWithinTheDay'
  <2>1. LockFits'
    BY <1>1 DEF LockFits
  <2>2. Cardinality(OnItsOwnNow') <= Cardinality(OnItsOwnNow)
    BY <1>0, <1>1, DayCounts, FS_Subset
  <2>3. Cardinality(OnItsOwnNow') \in Nat
    BY <1>0, <1>1, DayCounts, FS_Subset, FS_CardinalityType
  <2>4. Cardinality(today)' + Cardinality(OnItsOwnNow)' <= Cardinality(today) + Cardinality(OnItsOwnNow)
    BY <1>0, <1>1, <2>2, <2>3, DayCounts
  <2> QED BY <1>0, <2>1, <2>4, LessStaysWithin
<1>2. ASSUME UNCHANGED <<lock, today>>,
             \A t \in Turns : turn'[t] = turn[t] \/ turn'[t].pc # "running" \/ ~turn'[t].own
      PROVE  LockFits' /\ OwnWithinTheDay'
  BY <1>1, <1>2 DEF OnItsOwnNow
<1>3. CASE UNCHANGED cardVars
  BY <1>2, <1>3 DEF cardVars
<1>4. ASSUME NEW c \in CardIds, ProposeCard(c) \/ DismissCard(c) PROVE LockFits' /\ OwnWithinTheDay'
  BY <1>2, <1>4 DEF ProposeCard, DismissCard
<1>5. ASSUME NEW t \in Turns, NEW c \in CardIds, ProposeToRun(t, c)
      PROVE  LockFits' /\ OwnWithinTheDay'
  <2> DEFINE w == [NoTurn EXCEPT !.pc = "waiting", !.card = c, !.own = TRUE]
  <2>1. w.pc = "waiting"
    BY DEF NoTurn
  <2>2. turn' = turn \/ turn' = [turn EXCEPT ![t] = w]
    BY <1>5 DEF ProposeToRun
  <2> HIDE DEF w
  <2>3. \A u \in Turns : turn'[u] = turn[u] \/ turn'[u].pc # "running" \/ ~turn'[u].own
    BY <1>t, <2>1, <2>2
  <2> QED BY <1>2, <1>5, <2>3 DEF ProposeToRun
<1>6. ASSUME NEW t \in Turns, NEW c \in CardIds, NEW chosen \in SUBSET CardActions,
             ApproveCard(t, c, chosen)
      PROVE  LockFits' /\ OwnWithinTheDay'
  <2>1. \A u \in Turns : turn'[u] = turn[u] \/ ~turn'[u].own
    BY <1>6, <1>t DEF ApproveCard, Runs
  <2> QED BY <1>2, <1>6, <2>1 DEF ApproveCard
<1>7. ASSUME NEW t \in Turns, OwnHeldBack(t) \/ OwnTooLate(t) PROVE LockFits' /\ OwnWithinTheDay'
  <2>1. \A u \in Turns : turn'[u] = turn[u] \/ turn'[u].pc # "running"
    BY <1>7, <1>t DEF OwnHeldBack, OwnTooLate, TurnOver
  <2> QED BY <1>2, <1>7, <2>1 DEF OwnHeldBack, OwnTooLate
<1>8. ASSUME NEW t \in Turns, OwnRuns(t) PROVE LockFits' /\ OwnWithinTheDay'
  <2> DEFINE x == [pc |-> "running", card |-> turn[t].card, own |-> TRUE, left |-> CardActions,
                   well |-> {}]
  <2>1. x.pc = "running" /\ x.own
    OBVIOUS
  <2>2. turn' = [turn EXCEPT ![t] = x]
    BY <1>8 DEF OwnRuns, Runs
  <2> HIDE DEF x
  <2>3. OnItsOwnNow = {} /\ lock' = t /\ UNCHANGED today
    BY <1>0, <1>8, DayCounts DEF OwnRuns, TakesLock
  <2>4. OnItsOwnNow' = {t}
    <3>1. turn'[t] = x /\ \A u \in Turns \ {t} : turn'[u] = turn[u]
      BY <1>t, <2>2
    <3> QED BY <2>1, <2>3, <3>1 DEF OnItsOwnNow
  <2>5. LockFits'
    BY <2>3, <2>4 DEF LockFits
  <2>6. Cardinality(OnItsOwnNow)' = 1
    BY <2>4, FS_Singleton
  <2>7. DoneToday + CardSize <= OnItsOwnPerDay
    BY <1>8 DEF OwnRuns, WithinLimit
  <2>8. DoneToday' = DoneToday /\ CardSize * 1 = CardSize
    BY <2>3, ActionCardsAssumption DEF DoneToday
  <2> QED BY <2>5, <2>6, <2>7, <2>8 DEF OwnWithinTheDay
<1>9. ASSUME NEW t \in Turns, NEW i \in CardActions, NEW happened \in BOOLEAN,
             NEW reported \in BOOLEAN, DoAction(t, i, happened, reported)
      PROVE  LockFits' /\ OwnWithinTheDay'
  <2> DEFINE x == [turn[t] EXCEPT !.left = @ \ {i}, !.well = IF reported THEN @ \cup {i} ELSE @]
  <2>1. x.pc = turn[t].pc /\ x.own = turn[t].own
    BY <1>t DEF Turn
  <2>2. turn' = [turn EXCEPT ![t] = x] /\ UNCHANGED <<lock, today>>
    BY <1>9 DEF DoAction
  <2> HIDE DEF x
  <2>3. OnItsOwnNow' = OnItsOwnNow
    BY <1>t, <2>1, <2>2 DEF OnItsOwnNow
  <2> QED BY <1>1, <2>2, <2>3
<1>10. ASSUME NEW t \in Turns, CardFinishes(t) PROVE LockFits' /\ OwnWithinTheDay'
  <2> DEFINE c == turn[t].card
             r == [ExecutionFinished(suggested[c], CarriedOut(t)) EXCEPT !.payload = turn[t].well]
  <2>1. c \in CardIds /\ suggested[c].status = "executing"
    BY <1>0, <1>10 DEF CardFinishes, CardsInv, CardsShape, TurnFits, Running
  <2>2. r.status = CarriedOut(t)
    BY <1>t, <2>1, CardEffects
  <2>3. /\ suggested'[c].status = CarriedOut(t)
        /\ today' = IF suggested'[c].status = "executed" THEN today \cup {c} ELSE today
        /\ lock' = IF turn[t].own THEN "free" ELSE lock
        /\ turn' = [turn EXCEPT ![t] = NoTurn]
    <3>1. suggested' = [suggested EXCEPT ![c] = r]
      BY <1>10 DEF CardFinishes
    <3> HIDE DEF r
    <3>2. suggested'[c] = r
      BY <1>t, <2>1, <3>1
    <3> QED BY <1>10, <2>2, <3>2 DEF CardFinishes, TurnOver
  <2>4. OnItsOwnNow' = OnItsOwnNow \ {t}
    BY <1>t, <2>3 DEF OnItsOwnNow
  <2>5. CASE turn[t].own
    <3>1. t \in OnItsOwnNow
      BY <1>10, <2>5 DEF OnItsOwnNow, CardFinishes
    <3>2. OnItsOwnNow = {t} /\ OnItsOwnNow' = {}
      BY <1>0, <2>4, <3>1, DayCounts
    <3>3. Cardinality(OnItsOwnNow) = 1 /\ Cardinality(OnItsOwnNow)' = 0
      BY <3>2, FS_Singleton, FS_EmptySet
    <3>4. Cardinality(today)' <= Cardinality(today) + 1 /\ Cardinality(today)' \in Nat
      <4>1. /\ Cardinality(today \cup {c}) \in {Cardinality(today), Cardinality(today) + 1}
            /\ Cardinality(today) \in Nat
        BY <1>0, DayCounts, FS_AddElement
      <4> QED BY <2>3, <4>1
    <3>5. LockFits'
      BY <3>2 DEF LockFits
    <3> QED BY <1>0, <3>3, <3>4, <3>5, DayCounts, LessStaysWithin
  <2>6. CASE ~turn[t].own
    <3>1. CarriedOut(t) # "executed"
      BY <2>6 DEF CarriedOut
    <3>2. UNCHANGED <<lock, today>>
      BY <2>3, <2>6, <3>1
    <3> QED BY <1>1, <2>4, <3>2
  <2> QED BY <2>5, <2>6
<1>11. CASE NewDay
  <2>1. LockFits' /\ OnItsOwnNow' = OnItsOwnNow /\ Cardinality(today)' = 0
    BY <1>11, FS_EmptySet DEF NewDay, LockFits, OnItsOwnNow
  <2>2. Cardinality(today)' + Cardinality(OnItsOwnNow)' <= Cardinality(today) + Cardinality(OnItsOwnNow)
    BY <1>0, <2>1, DayCounts
  <2> QED BY <1>0, <2>1, <2>2, LessStaysWithin
<1>12. CASE CardsCrash
  <2>1. OnItsOwnNow' = {} /\ today' = today
    BY <1>t, <1>12 DEF CardsCrash, OnItsOwnNow
  <2>2. LockFits' /\ Cardinality(OnItsOwnNow)' = 0
    BY <2>1, FS_EmptySet DEF LockFits
  <2>3. Cardinality(today)' + Cardinality(OnItsOwnNow)' <= Cardinality(today) + Cardinality(OnItsOwnNow)
    BY <1>0, <2>1, <2>2, DayCounts
  <2> QED BY <1>0, <2>2, <2>3, LessStaysWithin
<1> QED
  BY <1>3, <1>4, <1>5, <1>6, <1>7, <1>8, <1>9, <1>10, <1>11, <1>12 DEF CardsNext, TurnNext

\* What runs on its own stays within ON_ITS_OWN_PER_DAY, however many turns
\* are at it (_ON_ITS_OWN_LOCK, run_on_its_own).
THEOREM WithinTheDay == CardsSpec => []OwnWithinTheDay
<1>1. CardsInit => CardsInv /\ LockFits /\ OwnWithinTheDay
  BY CardsInvInit, LimitInit
<1>2. CardsInv /\ LockFits /\ OwnWithinTheDay /\ [CardsNext]_cardVars
      => (CardsInv /\ LockFits /\ OwnWithinTheDay)'
  BY CardsInvStep, LimitStep
<1> QED
  BY <1>1, <1>2, PTL DEF CardsSpec

-----------------------------------------------------------------------------
(* A card of actions: the refinement of CardPromise *)

Standings == [c \in CardIds |-> CardStanding(c)]

AtWork == {c \in CardIds : CarriedOutNow(c)}

LEMMA StandingMoves ==
  ASSUME NEW c \in CardIds,
         \A d \in CardIds : d # c => suggested'[d].status = suggested[d].status
  PROVE  /\ Standings' = [Standings EXCEPT ![c] = CardStanding(c)']
         /\ suggested'[c].status = suggested[c].status => Standings' = Standings
         /\ Standings[c] = CardStanding(c)
BY DEF Standings, CardStanding

\* Turns that do not run a card now did not begin to.
LEMMA TurnsEnd ==
  ASSUME \A t \in Turns : turn'[t] = turn[t] \/ turn'[t].pc # "running"
  PROVE  AtWork' \subseteq AtWork
BY DEF AtWork, CarriedOutNow

\* Work that goes on or is lost, on cards that stay where they are.
LEMMA WorkStops ==
  ASSUME \A c \in CardIds : suggested'[c].status = suggested[c].status, UNCHANGED done,
         AtWork' \subseteq AtWork
  PROVE  ActionPromise!PromiseNext
<1>1. Standings' = Standings
  BY DEF Standings, CardStanding
<1>2. ActionPromise!Stop
  BY <1>1 DEF ActionPromise!Stop, Standings, AtWork
<1> QED
  BY <1>2 DEF ActionPromise!PromiseNext

\* A card nobody is at is offered, or dismissed.
LEMMA CardOffered ==
  ASSUME NEW c \in CardIds,
         \A d \in CardIds : d # c => suggested'[d].status = suggested[d].status,
         suggested[c].status = "absent", suggested'[c].status = "proposed",
         AtWork' = AtWork, UNCHANGED done
  PROVE  ActionPromise!PromiseNext
<1>1. Standings[c] = "unmade" /\ Standings' = [Standings EXCEPT ![c] = "offered"]
  BY StandingMoves DEF CardStanding
<1>2. ActionPromise!Offer(c)
  BY <1>1 DEF ActionPromise!Offer, ActionPromise!Stands, Standings, AtWork
<1> QED
  BY <1>2 DEF ActionPromise!PromiseNext

LEMMA CardClosed ==
  ASSUME NEW c \in CardIds,
         \A d \in CardIds : d # c => suggested'[d].status = suggested[d].status,
         suggested[c].status \in {"proposed", "executing"},
         suggested'[c].status \in {"rejected", "failed", "executed", "approved"},
         AtWork' \in {AtWork, AtWork \ {c}}, UNCHANGED done
  PROVE  ActionPromise!PromiseNext
<1>1. Standings[c] \in {"offered", "taken"} /\ Standings' = [Standings EXCEPT ![c] = "over"]
  BY StandingMoves DEF CardStanding
<1>2. ActionPromise!Close(c)
  BY <1>1
     DEF ActionPromise!Close, ActionPromise!Stands, ActionPromise!MayStop, Standings, AtWork
<1> QED
  BY <1>2 DEF ActionPromise!PromiseNext

\* A turn takes a card on offer and is at it from then on.
LEMMA CardTaken ==
  ASSUME CardsTypeOK, NEW t \in Turns, NEW c \in CardIds, NEW own, NEW chosen,
         turn[t].pc # "running", suggested[c].status = "proposed",
         suggested' = [suggested EXCEPT ![c] = ClaimedCard(suggested[c])],
         Runs(t, c, own, chosen), UNCHANGED done
  PROVE  ActionPromise!PromiseNext
<1> DEFINE x == [pc |-> "running", card |-> c, own |-> own, left |-> chosen, well |-> {}]
<1>0. suggested \in [CardIds -> ActionCard] /\ turn \in [Turns -> Turn]
  BY DEF CardsTypeOK
<1>1. x.pc = "running" /\ x.card = c /\ turn' = [turn EXCEPT ![t] = x]
  BY DEF Runs
<1> HIDE DEF x
<1>2. AtWork' = AtWork \cup {c}
  <2>1. turn'[t] = x /\ \A u \in Turns : u # t => turn'[u] = turn[u]
    BY <1>0, <1>1
  <2> QED
    BY <1>1, <2>1 DEF AtWork, CarriedOutNow
<1>3. Standings[c] = "offered" /\ Standings' = [Standings EXCEPT ![c] = "taken"]
  <2>1. suggested'[c].status = "executing" /\ \A d \in CardIds : d # c => suggested'[d] = suggested[d]
    BY <1>0, CardEffects
  <2> QED
    BY <2>1, StandingMoves DEF CardStanding
<1>4. ActionPromise!Take(c)
  BY <1>2, <1>3 DEF ActionPromise!Take, ActionPromise!Stands, Standings, AtWork
<1> QED
  BY <1>4 DEF ActionPromise!PromiseNext

LEMMA ActionPerformed ==
  ASSUME CardsInv, NEW t \in Turns, NEW i \in CardActions, NEW happened \in BOOLEAN,
         NEW reported \in BOOLEAN, DoAction(t, i, happened, reported)
  PROVE  ActionPromise!PromiseNext
<1> DEFINE c == turn[t].card
           x == [turn[t] EXCEPT !.left = @ \ {i}, !.well = IF reported THEN @ \cup {i} ELSE @]
<1>0. turn \in [Turns -> Turn]
  BY DEF CardsInv, CardsShape, CardsTypeOK
<1>1. Running(t) /\ c \in CardIds /\ done[c][i] = 0
  BY DEF DoAction, CardsInv, CardsShape, TurnFits, Running
<1>2. x.pc = turn[t].pc /\ x.card = turn[t].card
  BY <1>0 DEF Turn
<1>3. turn' = [turn EXCEPT ![t] = x] /\ suggested' = suggested
  BY DEF DoAction
<1>4. done' = IF happened THEN [done EXCEPT ![c][i] = @ + 1] ELSE done
  BY DEF DoAction
<1> HIDE DEF x
<1>5. AtWork' = AtWork /\ c \in AtWork
  <2>1. \A u \in Turns : turn'[u].pc = turn[u].pc /\ turn'[u].card = turn[u].card
    BY <1>0, <1>2, <1>3
  <2>2. c \in AtWork
    BY <1>1 DEF AtWork, CarriedOutNow, Running
  <2> QED
    BY <2>1, <2>2 DEF AtWork, CarriedOutNow
<1>6. CASE ~happened
  BY <1>3, <1>4, <1>5, <1>6, WorkStops
<1>7. CASE happened
  <2>1. done' = [done EXCEPT ![c][i] = 1]
    BY <1>1, <1>4, <1>7
  <2>2. Standings' = Standings
    BY <1>3 DEF Standings, CardStanding
  <2> HIDE DEF c
  <2>3. ActionPromise!Perform(c, i)
    BY <1>1, <1>5, <2>1, <2>2
       DEF ActionPromise!Perform, ActionPromise!MayStop, Standings, AtWork
  <2> QED
    BY <1>1, <2>3 DEF ActionPromise!PromiseNext
<1> QED
  BY <1>6, <1>7

LEMMA CardCarriedOut ==
  ASSUME CardsInv, NEW t \in Turns, CardFinishes(t)
  PROVE  ActionPromise!PromiseNext
<1> DEFINE c == turn[t].card
           r == [ExecutionFinished(suggested[c], CarriedOut(t)) EXCEPT !.payload = turn[t].well]
<1>0. turn \in [Turns -> Turn] /\ suggested \in [CardIds -> ActionCard]
  BY DEF CardsInv, CardsShape, CardsTypeOK
<1>1. /\ Running(t) /\ c \in CardIds /\ suggested[c].status = "executing"
      /\ \A u \in Turns \ {t} : ~(Running(u) /\ turn[u].card = c)
  BY DEF CardFinishes, CardsInv, CardsShape, TurnFits, Running
<1>2. r.status \in {"failed", "executed", "approved"}
  BY <1>0, <1>1, CardEffects, OutcomeType
<1>3. suggested' = [suggested EXCEPT ![c] = r] /\ UNCHANGED done
  BY DEF CardFinishes
<1>4. turn' = [turn EXCEPT ![t] = NoTurn] /\ NoTurn.pc = "idle"
  BY DEF CardFinishes, TurnOver, NoTurn
<1> HIDE DEF c, r
<1>5. AtWork' = AtWork \ {c}
  <2>1. turn'[t].pc = "idle" /\ \A u \in Turns : u # t => turn'[u] = turn[u]
    BY <1>0, <1>4
  <2>2. c = turn[t].card
    BY DEF c
  <2> QED
    BY <1>1, <2>1, <2>2 DEF AtWork, CarriedOutNow, Running
<1>6. suggested'[c] = r /\ \A d \in CardIds : d # c => suggested'[d] = suggested[d]
  BY <1>0, <1>1, <1>3
<1> QED
  BY <1>1, <1>2, <1>3, <1>5, <1>6, CardClosed

LEMMA CardsPromiseStep ==
  ASSUME CardsInv, [CardsNext]_cardVars
  PROVE  ActionPromise!PromiseNext
<1>0. /\ CardsTypeOK /\ CardsShape /\ suggested \in [CardIds -> ActionCard]
      /\ turn \in [Turns -> Turn] /\ NoTurn.pc = "idle"
  BY DEF CardsInv, CardsShape, CardsTypeOK, NoTurn
<1>1. CASE UNCHANGED cardVars \/ NewDay
  <2>1. UNCHANGED <<suggested, turn, done>>
    BY <1>1 DEF cardVars, NewDay
  <2> QED
    BY <2>1, WorkStops DEF AtWork, CarriedOutNow
<1>2. ASSUME NEW c \in CardIds, ProposeCard(c) PROVE ActionPromise!PromiseNext
  <2> DEFINE r == [suggested[c] EXCEPT !.status = "proposed"]
  <2>1. r.status = "proposed"
    BY <1>0 DEF ActionCard
  <2>2. suggested[c].status = "absent" /\ suggested' = [suggested EXCEPT ![c] = r]
        /\ UNCHANGED <<turn, done>>
    BY <1>2 DEF ProposeCard
  <2> HIDE DEF r
  <2>3. suggested'[c] = r /\ \A d \in CardIds : d # c => suggested'[d] = suggested[d]
    BY <1>0, <2>2
  <2>4. AtWork' = AtWork
    BY <2>2 DEF AtWork, CarriedOutNow
  <2> QED
    BY <2>1, <2>2, <2>3, <2>4, CardOffered
<1>3. ASSUME NEW c \in CardIds, DismissCard(c) PROVE ActionPromise!PromiseNext
  <2>1. suggested'[c].status = "rejected" /\ suggested[c].status = "proposed"
    BY <1>0, <1>3, CardEffects DEF DismissCard
  <2>2. UNCHANGED <<turn, done>> /\ \A d \in CardIds : d # c => suggested'[d] = suggested[d]
    BY <1>0, <1>3 DEF DismissCard
  <2>3. AtWork' = AtWork
    BY <2>2 DEF AtWork, CarriedOutNow
  <2> QED
    BY <2>1, <2>2, <2>3, CardClosed
<1>4. ASSUME NEW t \in Turns, NEW c \in CardIds, ProposeToRun(t, c)
      PROVE  ActionPromise!PromiseNext
  <2> DEFINE w == [NoTurn EXCEPT !.pc = "waiting", !.card = c, !.own = TRUE]
             r == [suggested[c] EXCEPT !.status = "proposed", !.gate = "auto"]
  <2>1. w.pc = "waiting" /\ r.status = "proposed"
    BY <1>0 DEF NoTurn, ActionCard
  <2>2. turn[t].pc = "idle" /\ (turn' = turn \/ turn' = [turn EXCEPT ![t] = w]) /\ UNCHANGED done
    BY <1>4 DEF ProposeToRun
  <2>3. \/ suggested' = suggested
        \/ suggested[c].status = "absent" /\ suggested' = [suggested EXCEPT ![c] = r]
    BY <1>0, <1>4 DEF ProposeToRun
  <2> HIDE DEF w, r
  <2>4. \A u \in Turns : \/ turn'[u] = turn[u]
                         \/ turn[u].pc # "running" /\ turn'[u].pc # "running"
    BY <1>0, <2>1, <2>2
  <2>5. AtWork' = AtWork
    BY <2>4 DEF AtWork, CarriedOutNow
  <2>6. CASE suggested' = suggested
    BY <2>2, <2>5, <2>6, WorkStops
  <2>7. CASE suggested[c].status = "absent" /\ suggested' = [suggested EXCEPT ![c] = r]
    <3>1. suggested'[c] = r /\ \A d \in CardIds : d # c => suggested'[d] = suggested[d]
      BY <1>0, <2>7
    <3> QED
      BY <2>1, <2>2, <2>5, <2>7, <3>1, CardOffered
  <2> QED
    BY <2>3, <2>6, <2>7
<1>5. ASSUME NEW t \in Turns, NEW c \in CardIds, NEW chosen \in SUBSET CardActions,
             ApproveCard(t, c, chosen)
      PROVE  ActionPromise!PromiseNext
  BY <1>0, <1>5, CardTaken DEF ApproveCard
<1>6. ASSUME NEW t \in Turns, OwnHeldBack(t) \/ OwnTooLate(t) PROVE ActionPromise!PromiseNext
  <2> DEFINE c == turn[t].card  h == HandedBack(suggested[c], {})
  <2>1. c \in CardIds
    BY <1>0, <1>6 DEF OwnHeldBack, OwnTooLate, TakesLock, CardsShape
  <2>2. h.status = suggested[c].status
    BY <1>0, <2>1, CardEffects
  <2>3. /\ suggested' = suggested \/ suggested' = [suggested EXCEPT ![c] = h]
        /\ turn' = [turn EXCEPT ![t] = NoTurn] /\ UNCHANGED done
    BY <1>6 DEF OwnHeldBack, OwnTooLate, TurnOver
  <2> HIDE DEF c, h
  <2>4. \A d \in CardIds : suggested'[d].status = suggested[d].status
    BY <1>0, <2>1, <2>2, <2>3
  <2>5. AtWork' \subseteq AtWork
    BY <1>0, <2>3, TurnsEnd
  <2> QED
    BY <2>3, <2>4, <2>5, WorkStops
<1>7. ASSUME NEW t \in Turns, OwnRuns(t) PROVE ActionPromise!PromiseNext
  <2>1. turn[t].card \in CardIds /\ turn[t].pc # "running"
    BY <1>0, <1>7 DEF OwnRuns, TakesLock, CardsShape
  <2> QED
    BY <1>0, <1>7, <2>1, CardTaken DEF OwnRuns
<1>8. ASSUME NEW t \in Turns, NEW i \in CardActions, NEW happened \in BOOLEAN,
             NEW reported \in BOOLEAN, DoAction(t, i, happened, reported)
      PROVE  ActionPromise!PromiseNext
  BY <1>8, ActionPerformed
<1>9. ASSUME NEW t \in Turns, CardFinishes(t) PROVE ActionPromise!PromiseNext
  BY <1>9, CardCarriedOut
<1>10. CASE CardsCrash
  <2>1. AtWork' \subseteq AtWork
    BY <1>0, <1>10, TurnsEnd DEF CardsCrash
  <2> QED
    BY <1>10, <2>1, WorkStops DEF CardsCrash
<1> QED
  BY <1>1, <1>2, <1>3, <1>4, <1>5, <1>6, <1>7, <1>8, <1>9, <1>10 DEF CardsNext, TurnNext

\* An action is done only on a card taken for it, and once; no card is offered
\* again once one of its actions was done, whatever the turn was told of it; a
\* card that is over stays over. For any cards, turns and crashes
\* (action_cards.py, claim_for_execution, finish_execution).
THEOREM ActionsPromised == CardsSpec => ActionsKeepPromise
<1>1. CardsInit => ActionPromise!PromiseInit
  <2> SUFFICES ASSUME CardsInit PROVE ActionPromise!PromiseInit
    OBVIOUS
  <2>1. \A c \in CardIds : CardStanding(c) = "unmade"
    BY DEF CardsInit, CardStanding
  <2>2. \A c \in CardIds : ~CarriedOutNow(c)
    BY DEF CardsInit, CarriedOutNow, NoTurn
  <2> QED
    BY <2>1, <2>2 DEF CardsInit, ActionPromise!PromiseInit
<1>2. CardsInv /\ [CardsNext]_cardVars => ActionPromise!PromiseNext
  BY CardsPromiseStep
<1> QED
  BY <1>1, <1>2, CardsInvariant, PTL DEF CardsSpec, ActionsKeepPromise, ActionPromise!PromiseSpec

=============================================================================
