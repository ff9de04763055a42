------------------------------- MODULE Bookings -------------------------------
(***************************************************************************)
(* One meeting_scheduling card and its calendar events: approvals in the   *)
(* web app and in chat (api/routes/decisions.py, _book), rejects, cancels  *)
(* there and by the Executive's tool, and a booking made without asking    *)
(* (orchestrator/calendar_tools.py). An approval books first and records   *)
(* it after, by compare-and-set: the one that loses deletes its own event. *)
(* Each call to the calendar is an await. The calendar is external.        *)
(***************************************************************************)
EXTENDS DecisionLedger, Naturals, FiniteSets

CONSTANTS
  Approvers,    \* approve requests that may run at once
  Cancellers,   \* cancel requests that may run at once
  MaxEvents,    \* bound on events ever made
  BookingGates, \* how the card may be made
  MaxSlips      \* bound on lost answers or ids, failed clean-ups, interrupted events

ASSUME BookingAssumption ==
  /\ MaxEvents \in Nat /\ MaxSlips \in Nat
  /\ BookingGates \subseteq {"propose", "auto"}
  /\ IsFiniteSet(Approvers) /\ "auto" \notin Approvers

VARIABLES
  booking,   \* the row; its payload is external_event_id
  approver,  \* each approve request, and the tool's turn that books at once
  canceller, \* each cancel request
  event,     \* the events made for this card
  slips      \* lost answers or ids, failed clean-ups and interrupted events so far

bookingVars == <<booking, approver, canceller, event, slips>>

EventIds == 1..MaxEvents
NoEvent == 0

Bookers == Approvers \cup {"auto"}

BookingInit ==
  /\ \E gate \in BookingGates :
       /\ booking = [status |-> "proposed", gate |-> gate, payload |-> NoEvent]
       /\ approver = [a \in Bookers |->
                         [pc |-> IF a = "auto" /\ gate # "auto" THEN "over" ELSE "idle",
                          event |-> NoEvent]]
  /\ canceller = [c \in Cancellers |-> [pc |-> "idle", event |-> NoEvent]]
  /\ event = [e \in EventIds |-> "none"]
  /\ slips = 0

Slip == slips < MaxSlips /\ slips' = slips + 1

NewEvent(e) == event[e] = "none" /\ \A f \in 1..(e - 1) : event[f] # "none"

BookerIs(a, pc, e) == approver' = [approver EXCEPT ![a] = [pc |-> pc, event |-> e]]

BookerOver(a) == BookerIs(a, IF a = "auto" THEN "over" ELSE "idle", NoEvent)
-----------------------------------------------------------------------------
\* approve_decision and resolve_in_chat: the row was proposed when it was
\* read; then the conflict check and the event are awaited. The tool made
\* the row itself and books at once.
ApproveBegins(a) ==
  /\ approver[a].pc = "idle"
  /\ a # "auto" => booking.status = "proposed"
  /\ BookerIs(a, "booking", NoEvent)
  /\ UNCHANGED <<booking, canceller, event, slips>>

BooksEvent(a, e) ==
  /\ approver[a].pc = "booking" /\ NewEvent(e)
  /\ event' = [event EXCEPT ![e] = "live"]
  /\ BookerIs(a, "booked", e)
  /\ UNCHANGED <<booking, canceller, slips>>

\* The calendar's answer does not say which event it made: the booking went
\* well all the same, and is recorded without one.
BooksUnnamed(a, e) ==
  /\ approver[a].pc = "booking" /\ NewEvent(e) /\ Slip
  /\ event' = [event EXCEPT ![e] = "live"]
  /\ BookerIs(a, "booked", NoEvent)
  /\ UNCHANGED <<booking, canceller>>

\* The calendar refuses. The tool's row is marked failed then.
BookingFails(a) ==
  /\ approver[a].pc = "booking"
  /\ booking' = IF a = "auto" THEN MarkedResolved(booking, "failed") ELSE booking
  /\ BookerOver(a)
  /\ UNCHANGED <<canceller, event, slips>>

\* An error is reported, and the event is there.
BookingAnswerLost(a, e) ==
  /\ approver[a].pc = "booking" /\ NewEvent(e) /\ Slip
  /\ event' = [event EXCEPT ![e] = "live"]
  /\ booking' = IF a = "auto" THEN MarkedResolved(booking, "failed") ELSE booking
  /\ BookerOver(a)
  /\ UNCHANGED canceller

RecordsAsBooked(row, e, how) ==  \* mutant
  IF row.status = "proposed" THEN [row EXCEPT !.status = "booked", !.payload = e] ELSE row

\* mark_resolved and mark_executed write the event with the status.
Recorded(row, e, how) ==
  IF row.status = "proposed" THEN [MarkedResolved(row, how) EXCEPT !.payload = e] ELSE row

KeepsItsEvent(a) == BookerOver(a)  \* mutant

\* A concurrent approve won: clean up the event just made, if it is known.
LosesTheRace(a) ==
  IF approver[a].event = NoEvent THEN BookerOver(a)
  ELSE BookerIs(a, "cleaning", approver[a].event)

RecordsApproval(a) ==
  /\ approver[a].pc = "booked" /\ a # "auto"
  /\ booking' = Recorded(booking, approver[a].event, "approved")
  /\ IF booking.status = "proposed" THEN BookerOver(a) ELSE LosesTheRace(a)
  /\ UNCHANGED <<canceller, event, slips>>

\* What mark_executed returns is not looked at.
RecordsExecuted ==
  /\ approver["auto"].pc = "booked"
  /\ booking' = Recorded(booking, approver["auto"].event, "executed")
  /\ BookerOver("auto")
  /\ UNCHANGED <<canceller, event, slips>>

CleansUp(a) ==
  /\ approver[a].pc = "cleaning"
  /\ \/ event' = [event EXCEPT ![approver[a].event] = "deleted"] /\ UNCHANGED slips
     \/ Slip /\ UNCHANGED event
  /\ BookerOver(a)
  /\ UNCHANGED <<booking, canceller>>
-----------------------------------------------------------------------------
RejectsBooking ==
  /\ booking.status = "proposed"
  /\ booking' = MarkedResolved(booking, "rejected")
  /\ UNCHANGED <<approver, canceller, event, slips>>

\* cancel_decision and handle_cancel_calendar_event. A proposed row has no
\* event: it is reversed at once. The tool cancels an executed one too. One
\* booked without an event's id is not cancelled: the meeting would stay.
CancelsProposed ==
  /\ booking.status = "proposed"
  /\ booking' = ReversedCard(booking)
  /\ UNCHANGED <<approver, canceller, event, slips>>

CancelBegins(c) ==
  /\ canceller[c].pc = "idle" /\ booking.status \in {"approved", "executed"}
  /\ booking.payload # NoEvent
  /\ canceller' = [canceller EXCEPT ![c] = [pc |-> "deleting", event |-> booking.payload]]
  /\ UNCHANGED <<booking, approver, event, slips>>

CancelDeletes(c) ==
  /\ canceller[c].pc = "deleting" /\ event[canceller[c].event] = "live"
  /\ event' = [event EXCEPT ![canceller[c].event] = "deleted"]
  /\ canceller' = [canceller EXCEPT ![c].pc = "deleted"]
  /\ UNCHANGED <<booking, approver, slips>>

CancelMarks(c) ==
  /\ canceller[c].pc = "deleted"
  /\ booking' = ReversedCard(booking)
  /\ canceller' = [canceller EXCEPT ![c] = [pc |-> "idle", event |-> NoEvent]]
  /\ UNCHANGED <<approver, event, slips>>

\* The calendar refuses, or another cancel already deleted it.
CancelFails(c) ==
  /\ canceller[c].pc = "deleting"
  /\ canceller' = [canceller EXCEPT ![c] = [pc |-> "idle", event |-> NoEvent]]
  /\ UNCHANGED <<booking, approver, event, slips>>

InHand ==
  {a \in Bookers : \/ approver[a].pc = "cleaning"
                   \/ approver[a].pc = "booked" /\ approver[a].event # NoEvent}

\* The process stops; it slips once for each event it had in hand.
BookingCrash ==
  /\ \/ \E a \in Bookers : approver[a].pc \notin {"idle", "over"}
     \/ \E c \in Cancellers : canceller[c].pc # "idle"
  /\ slips + Cardinality(InHand) <= MaxSlips
  /\ slips' = slips + Cardinality(InHand)
  /\ approver' = [a \in Bookers |->
                    [pc |-> IF a = "auto" THEN "over" ELSE "idle", event |-> NoEvent]]
  /\ canceller' = [c \in Cancellers |-> [pc |-> "idle", event |-> NoEvent]]
  /\ UNCHANGED <<booking, event>>
-----------------------------------------------------------------------------
BookerNext(a) ==
  \/ \E e \in EventIds : BooksEvent(a, e) \/ BooksUnnamed(a, e) \/ BookingAnswerLost(a, e)
  \/ BookingFails(a) \/ RecordsApproval(a) \/ CleansUp(a)

CancelNext(c) == CancelDeletes(c) \/ CancelMarks(c) \/ CancelFails(c)

BookingNext ==
  \/ \E a \in Bookers : ApproveBegins(a) \/ BookerNext(a)
  \/ RecordsExecuted
  \/ RejectsBooking \/ CancelsProposed
  \/ \E c \in Cancellers : CancelBegins(c) \/ CancelNext(c)
  \/ BookingCrash

BookingSpec == BookingInit /\ [][BookingNext]_bookingVars
-----------------------------------------------------------------------------
BookingRow ==
  [status : LedgerStatuses, gate : {"propose", "auto"}, payload : 0..MaxEvents]

BookingTypeOK ==
  /\ booking \in BookingRow
  /\ approver \in [Bookers -> [pc : {"idle", "booking", "booked", "cleaning", "over"},
                               event : 0..MaxEvents]]
  /\ canceller \in [Cancellers -> [pc : {"idle", "deleting", "deleted"}, event : 0..MaxEvents]]
  /\ event \in [EventIds -> {"none", "live", "deleted"}]
  /\ slips \in Nat

\* An event on the calendar is the booked card's own, or in the hands of the
\* approval that made it.
Accounted(e) ==
  \/ booking.status = "approved" /\ booking.payload = e
  \/ \E a \in InHand : approver[a].event = e

\* Two people approve at once, one rejects or cancels meanwhile: on a card
\* that waits for a person no meeting stays on the calendar that no row names,
\* but for one per lost answer, answer without the event's id, failed clean-up
\* or event a crash interrupted; and the meeting of a cancelled card is off the calendar.
CalendarMatchesTheCard ==
  /\ booking.gate = "propose" =>
       Cardinality({e \in EventIds : event[e] = "live" /\ ~Accounted(e)}) <= slips
  /\ booking.status = "reversed" /\ booking.payload # NoEvent =>
       event[booking.payload] = "deleted"

=============================================================================
