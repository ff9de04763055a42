------------------------------ MODULE MCOffice ------------------------------
(***************************************************************************)
(* The components that share no state with each other but the process they *)
(* run in, in one instance for TLC: `part` says which of them a behaviour  *)
(* is about. The others stay as they begin.                                *)
(***************************************************************************)
EXTENDS MCGatedActions, HeldMessages, ReplySend, Bookings, ActionCards, Cadences,
        ClientSlots

CONSTANTS
  Parts,
  Holdable, \* parts other than the gate in which something may hold the runner
  p, q, k1, k2, b1, b2, n1, n2,
  MaxUpsets \* bound on further drafts and changes of the reply card together

VARIABLE part

officeVars ==
  <<part, gateVars, heldVars, replyVars, bookingVars, cardVars, cadenceVars, slotsVars>>

ReplyUpsets ==
  LET made == {d \in DraftIds : mail[d].where # "none"}
      changed == {d \in DraftIds : mail[d].version > 1}
  IN  Cardinality(made \ {1}) + Cardinality(changed) + card.payload.words

\* A second brief goes out beside the first while all messages are the owner's.
SecondBrief ==
  \/ Cardinality({b \in Briefs : brief[b] # NoBrief}) <= 1
  \/ \A m \in HeldIds : held[m].person = Owner

AnyOf(S) == CHOOSE e \in S : TRUE

OfficeInit ==
  /\ part \in Parts
  /\ GateInit /\ HeldInit /\ ReplyInit /\ BookingInit /\ CardsInit /\ CadenceInit
  /\ SlotsInit
  /\ part # "reply" => card.gate = AnyOf(CardGates) /\ card.payload = FirstPayload(AnyOf(InMailbox))
  /\ part # "booking" => booking.gate = AnyOf(BookingGates)

OfficeNext ==
  /\ UNCHANGED part
  /\ \/ /\ part = "gate" /\ GateNext
        /\ UNCHANGED <<heldVars, replyVars, bookingVars, cardVars, cadenceVars, slotsVars>>
     \/ /\ part = "held" /\ HeldNext /\ SecondBrief'
        /\ UNCHANGED <<gateVars, replyVars, bookingVars, cardVars, cadenceVars, slotsVars>>
     \/ /\ part = "reply" /\ ReplyNext /\ ReplyUpsets' <= MaxUpsets
        /\ UNCHANGED <<gateVars, heldVars, bookingVars, cardVars, cadenceVars, slotsVars>>
     \/ /\ part = "booking" /\ BookingNext
        /\ UNCHANGED <<gateVars, heldVars, replyVars, cardVars, cadenceVars, slotsVars>>
     \/ /\ part = "cards" /\ CardsNext
        /\ UNCHANGED <<gateVars, heldVars, replyVars, bookingVars, cadenceVars, slotsVars>>
     \/ /\ part = "cadence" /\ CadenceNext
        /\ UNCHANGED <<gateVars, heldVars, replyVars, bookingVars, cardVars, slotsVars>>
     \/ /\ part = "slots" /\ SlotsNext
        /\ UNCHANGED <<gateVars, heldVars, replyVars, bookingVars, cardVars, cadenceVars>>
     \/ /\ part \in Holdable /\ SetHolding
        /\ UNCHANGED <<heldVars, replyVars, bookingVars, cardVars, cadenceVars, slotsVars>>

OfficeSpec == OfficeInit /\ [][OfficeNext]_officeVars

\* As they begin, the other parts can take no step that has to be fair, but
\* for the watcher's and the clock of the check-ins.
FairOfficeSpec ==
  /\ OfficeSpec
  /\ GateFairness /\ HeldFairness /\ RequestsRunOn
  /\ WF_replyVars(part = "reply" /\ ~holding /\ ScanNext)
  /\ WF_replyVars(part = "reply" /\ ~holding /\ TapBegins("own"))
  /\ WF_cadenceVars(part = "cadence" /\ \E i \in Slots : CheckInComesDue(i))
  /\ ChecksRunOn

\* Each part keeps its state within its types.
OfficeTypeOK ==
  /\ GateTypeOK /\ HeldTypeOK /\ ReplyTypeOK
  /\ BookingTypeOK /\ CardsTypeOK /\ CadenceTypeOK /\ SlotsTypeOK

=============================================================================
