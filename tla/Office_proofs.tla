----------------------------- MODULE Office_proofs -----------------------------
(***************************************************************************)
(* What is proved of each component by itself holds where they run side by *)
(* side in one process, for any set of parts and any values of the         *)
(* constants: no component changes what another one keeps.                 *)
(***************************************************************************)
EXTENDS MCOffice, GatedActions_proofs, HeldMessages_proofs, ReplySend_proofs,
        LedgerCards_proofs, Cadences_proofs, ClientSlots_proofs

-----------------------------------------------------------------------------
(* The office is all of its parts at once *)

LEMMA PartsStart ==
  OfficeInit => /\ GateInit /\ HeldInit /\ ReplyInit /\ BookingInit
                /\ CardsInit /\ CadenceInit /\ SlotsInit
BY DEF OfficeInit

\* A step of the office is one of a single part; to the others it is a stutter.
LEMMA PartsMove ==
  [OfficeNext]_officeVars =>
    /\ [GateNext]_gateVars /\ [HeldNext]_heldVars /\ [ReplyNext]_replyVars
    /\ [BookingNext]_bookingVars /\ [CardsNext]_cardVars
    /\ [CadenceNext]_cadenceVars /\ [SlotsNext]_slotsVars
<1>1. SetHolding => GateNext
  BY DEF GateNext
<1> QED
  BY <1>1 DEF OfficeNext, officeVars

\* A behaviour of the office is one of each of its parts: the composition of
\* the components implements every one of them (scheduler/runner.py,
\* delegation/reply_send.py, delegation/action_cards.py, api/routes/decisions.py,
\* the tables they write and the process they run in).
THEOREM OfficeParts ==
  OfficeSpec => /\ GateSpec /\ HeldSpec /\ ReplySpec /\ BookingSpec
                /\ CardsSpec /\ CadenceSpec /\ SlotsSpec
BY PartsStart, PartsMove, PTL
   DEF OfficeSpec, GateSpec, HeldSpec, ReplySpec, BookingSpec, CardsSpec, CadenceSpec,
       SlotsSpec

-----------------------------------------------------------------------------
(* What each part keeps, the office keeps *)

\* Every row, turn, draft, event and file of every part stays within its type.
THEOREM OfficeTypeCorrect == OfficeSpec => []OfficeTypeOK
<1>1. /\ GateTypeOK /\ HeldTypeOK /\ ReplyTypeOK /\ BookingTypeOK
      /\ CardsTypeOK /\ CadenceTypeOK /\ SlotsTypeOK
      => OfficeTypeOK
  BY DEF OfficeTypeOK
<1> QED
  BY <1>1, OfficeParts, GateTypeCorrect, HeldTypeCorrect, ReplyTypeCorrect,
     BookingTypeCorrect, CardsTypeCorrect, CadenceTypeCorrect, SlotsTypeCorrect, PTL

\* All that the parts keep, at once: a row somebody works on is running and is
\* not retried without end, and what leaves was approved; a held message, a
\* reply under its card, a suggested action and a meeting happen no more often
\* than they may, and the rows say which; a check-in that is on is on the
\* calendar, and no client is lost (scheduler/runner.py,
\* departments/authority.py, people/held_messages.py, delegation/reply_send.py,
\* delegation/action_cards.py, api/routes/decisions.py, departments/cadence.py,
\* clients/slots.py).
THEOREM OfficeIsRight ==
  OfficeSpec => [](/\ WorkedRowsAreRunning /\ RetriesBounded /\ NothingUnapprovedGoesOut
                   /\ SentAgainOnlyAfterAMishap /\ HeldRowsAreRight
                   /\ ClaimIsExclusive /\ OneMessagePerCard /\ ReplyCardIsRight
                   /\ SentAsChecked /\ NoDraftLeftBehind
                   /\ CalendarMatchesTheCard
                   /\ ActionHappensOnce /\ OwnWithinTheDay /\ SuggestionIsRight
                   /\ OnTheCalendar /\ ClientsAreKept)
BY OfficeParts, WorkedRunning, RetriesAreBounded, NothingUnapproved,
   SentOnceButForMishaps, HeldRowsRight, OneClaimant, OneReplyGoes,
   CardSaysWhatBecameOfIt, CheckedIsSent, DraftsAreKnown, StraysAreSlips, HappensOnce,
   WithinTheDay, SuggestionRight, StaysOnTheCalendar, KeepsClients, PTL

\* What the steps of a part keep to, the steps of the office do, whatever else
\* goes on: a row that is over stays over; a card is offered, claimed, carried
\* out and given back as CardPromise says (memory/decision_ledger.py); the
\* rotation gives back the client it found active (clients/rotation.py); without
\* database errors an approval carries its action out once (api/routes/alerts.py);
\* and where departments only escalate, or nobody approves what they propose, no
\* held action is let go of without its card (departments/authority.py).
THEOREM OfficeKeepsPromises ==
  OfficeSpec =>
    /\ SettledStays /\ ActionsKeepPromise /\ ReplyKeepsPromise /\ RotationGivesBack
    /\ ~DbFaults => []CarriedOutOnce
    /\ "propose" \notin Levels /\ ~(DbFaults /\ "unrouted" \in Levels) => HeldWorkHasACard
<1>1. OfficeSpec => /\ SettledStays /\ ActionsKeepPromise /\ ReplyKeepsPromise
                    /\ RotationGivesBack
  BY OfficeParts, SettledStay, ActionsPromised, ReplyPromised, GivesBack, PTL
<1>2. "propose" \notin Levels /\ ~(DbFaults /\ "unrouted" \in Levels) =>
        (OfficeSpec => HeldWorkHasACard)
  BY OfficeParts, HeldOnACard, PTL
<1>3. ~DbFaults => (OfficeSpec => []CarriedOutOnce)
  BY OfficeParts, CarriedOnce, PTL
<1> QED
  BY <1>1, <1>2, <1>3, PTL

=============================================================================
