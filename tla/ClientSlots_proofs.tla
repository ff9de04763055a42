-------------------------- MODULE ClientSlots_proofs --------------------------
(***************************************************************************)
(* Proofs about ClientSlots, for any number of clients and of failures.    *)
(***************************************************************************)
EXTENDS ClientSlots, TLAPS

-----------------------------------------------------------------------------
(* The inductive invariant *)

\* The rotation holds the lock only in the steps that activate, and gives back
\* nobody but the client it started from. A person activates no client under a
\* demo; the rotation does, when it recovers.
OpFits ==
  /\ op.kind = "none" => op = NoOp
  /\ op.kind = "activate" => op.client \in Clients /\ slot[op.client] # "absent"
  /\ op.by = "rotation" =>
       /\ op.kind = "activate" /\ rotation.pc \in {"switching", "restoring", "forcing"}
       /\ rotation.pc # "switching" => op.client = rotation.original
  /\ op.kind = "activate" /\ rotation.pc # "forcing" => ~fixture
  /\ op.kind = "activate" /\ op.by = "person" => ~fixture

\* Whoever is active, live or waited for by the rotation has a slot; a demo
\* loaded between two steps of the rotation leaves no client live.
Present ==
  /\ active # Nobody => slot[active] # "absent"
  /\ live.of # Nobody => slot[live.of] # "absent"
  /\ MarkerSet => rotation.original \in Clients /\ slot[rotation.original] # "absent"
  /\ fixture /\ rotation.pc \in {"switching", "working", "restoring"} => live.of = Nobody

AllHeld == \A c \in Clients : slot[c] # "absent" => HoldsNewest(c)

\* What the code relies on between two steps, while nothing has gone wrong
\* that it does not protect from: the sentinel names the live company, but
\* within an operation and while the rotation recovers, and then nothing is
\* lost by discarding the live one.
Sound ==
  /\ \A c \in Clients : slot[c] # "foreign" /\ (slot[c] # "absent" => Kept(c))
  /\ live.of # Nobody => live.newest
  /\ op = NoOp /\ ~Recovering => live.of = active
  /\ op.kind = "activate" => live.of = op.client
  /\ op.kind = "reset" => live.of = Nobody
  /\ op.kind \in {"load", "unload"} => active = Nobody
  /\ op.kind \in {"load", "unload"} \/ Recovering => AllHeld

LiveStates == [of : Clients \cup {Nobody}, newest : BOOLEAN]

Rotations ==
  [pc : {"off", "switching", "working", "restoring", "forcing", "telling"},
   todo : SUBSET Clients, original : Clients \cup {Nobody}]

SlotsShape == SlotsTypeOK /\ OpFits /\ Present

SlotsInv == SlotsShape /\ (~mishap => Sound)

-----------------------------------------------------------------------------
(* Saves and restores *)

\* A save writes the active client's slot and no other.
LEMMA SaveEffects ==
  ASSUME SlotsTypeOK, NEW c \in Clients
  PROVE  /\ Saved(c) \in [Clients -> SlotStates]
         /\ \A d \in Clients : d # c => Saved(c)[d] = slot[d]
         /\ Saved(c)[c] = IF live.of # c THEN "foreign" ELSE IF live.newest THEN "newest" ELSE "old"
         /\ \A s \in HalfSaved(c) :
              /\ s \in [Clients -> SlotStates]
              /\ \A d \in Clients : d # c => s[d] = slot[d]
              /\ s[c] = "foreign" \/ s[c] = "seed" \/ s[c] = slot[c]
              /\ live.of = c => s[c] # "foreign" \/ s[c] = slot[c]
<1>1. slot \in [Clients -> SlotStates]
  BY DEF SlotsTypeOK
<1>2. \A v : [slot EXCEPT ![c] = v][c] = v
             /\ \A d \in Clients : d # c => [slot EXCEPT ![c] = v][d] = slot[d]
  BY <1>1
<1>3. \A v \in SlotStates : [slot EXCEPT ![c] = v] \in [Clients -> SlotStates]
  BY <1>1
<1>4. slot[c] \in SlotStates /\ {"foreign", "newest", "old", "seed"} \subseteq SlotStates
  BY <1>1 DEF SlotStates
<1>5. /\ Saved(c) \in [Clients -> SlotStates]
      /\ \A d \in Clients : d # c => Saved(c)[d] = slot[d]
      /\ Saved(c)[c] = IF live.of # c THEN "foreign" ELSE IF live.newest THEN "newest" ELSE "old"
  BY <1>2, <1>3, <1>4 DEF Saved
<1>6. ASSUME NEW s \in HalfSaved(c)
      PROVE  /\ s \in [Clients -> SlotStates]
             /\ \A d \in Clients : d # c => s[d] = slot[d]
             /\ s[c] = "foreign" \/ s[c] = "seed" \/ s[c] = slot[c]
             /\ live.of = c => s[c] # "foreign" \/ s[c] = slot[c]
  <2>1. PICK v \in IF live.of = c THEN {slot[c], "seed"} ELSE {"foreign"} :
          s = [slot EXCEPT ![c] = v]
    BY <1>6 DEF HalfSaved
  <2>2. v \in SlotStates
    BY <1>4, <2>1
  <2> QED
    BY <1>2, <1>3, <2>1, <2>2
<1> QED
  BY <1>5, <1>6

\* What an activation saves first leaves every slot where it was, but for the
\* active client's.
LEMMA SavedBackEffects ==
  ASSUME SlotsTypeOK
  PROVE  /\ SavedBack \in [Clients -> SlotStates]
         /\ \A d \in Clients : d # active => SavedBack[d] = slot[d]
         /\ active # Nobody =>
              SavedBack[active] = IF live.of # active THEN "foreign"
                                  ELSE IF live.newest THEN "newest" ELSE "old"
  BY SaveEffects, SlotsAssumption DEF SavedBack, SlotsTypeOK

LEMMA RestoreEffects ==
  ASSUME SlotsTypeOK, NEW c \in Clients
  PROVE  /\ Restored(c) \in LiveStates
         /\ Restored(c).of = IF slot[c] = "foreign" THEN Nobody ELSE c
         /\ Restored(c).newest = HoldsNewest(c)
  BY DEF Restored, SlotsTypeOK, HoldsNewest, LiveStates

LEMMA UnownedFits ==
  Unowned \in LiveStates /\ Unowned.of = Nobody /\ ~Unowned.newest
  BY DEF Unowned, LiveStates

\* The steps of a rotation change where it is and whom it still has to do.
LEMMA RotationEffects ==
  ASSUME SlotsTypeOK
  PROVE  /\ NoRotation \in Rotations /\ NoRotation.pc = "off"
         /\ Told \in Rotations /\ Told.pc = "telling"
         /\ AfterFailure \in Rotations /\ AfterFailure.original = rotation.original
         /\ AfterFailure.pc = IF rotation.pc = "switching" THEN "forcing" ELSE "telling"
         /\ \A c : /\ Without(c) \in Rotations
                   /\ Without(c).original = rotation.original
                   /\ Without(c).pc = rotation.pc
         /\ \A c : LET done == [Without(c) EXCEPT !.pc = "working"]
                   IN  /\ done \in Rotations
                       /\ done.original = rotation.original /\ done.pc = "working"
<1>1. rotation \in Rotations
  BY DEF SlotsTypeOK, Rotations
<1>2. NoRotation \in Rotations /\ NoRotation.pc = "off"
  BY DEF NoRotation, Rotations
<1>3. Told \in Rotations /\ Told.pc = "telling"
  BY <1>1 DEF Told, Rotations
<1>4. /\ AfterFailure \in Rotations /\ AfterFailure.original = rotation.original
      /\ AfterFailure.pc = IF rotation.pc = "switching" THEN "forcing" ELSE "telling"
  BY <1>1 DEF AfterFailure, Told, Rotations
<1>5. \A c : /\ Without(c) \in Rotations
             /\ Without(c).original = rotation.original
             /\ Without(c).pc = rotation.pc
  BY <1>1 DEF Without, Rotations
<1>6. \A c : LET done == [Without(c) EXCEPT !.pc = "working"]
             IN  /\ done \in Rotations
                 /\ done.original = rotation.original /\ done.pc = "working"
  BY <1>5 DEF Rotations
<1> QED
  BY <1>2, <1>3, <1>4, <1>5, <1>6

\* Whom the rotation turns to is a client.
LEMMA TargetsAreClients ==
  ASSUME SlotsShape, rotation.pc \in {"switching", "restoring"}, NEW c \in Targets
  PROVE  c \in Clients
  BY DEF SlotsShape, SlotsTypeOK, Present, MarkerSet, Targets

-----------------------------------------------------------------------------
(* Types, the operation in progress and the slots that exist *)

\* What an activation does, or leaves half done, whoever asks for it.
LEMMA ActivatesShape ==
  ASSUME SlotsShape, NEW c \in Clients, NEW by \in {"person", "rotation"},
         Activates(c, by)
  PROVE  /\ slot' \in [Clients -> SlotStates] /\ live' \in LiveStates
         /\ op' = Doing("activate", c, by)
         /\ \A d \in Clients : slot'[d] # "absent" <=> slot[d] # "absent"
         /\ slot[c] # "absent" /\ live'.of \in {c, Nobody} /\ backup' \in BOOLEAN
  BY SavedBackEffects, RestoreEffects, SlotsAssumption
  DEF Activates, MayActivate, SlotsShape, SlotsTypeOK, Present, SlotStates

LEMMA FailsShape ==
  ASSUME SlotsShape, NEW c \in Clients, SaveBackFails(c) \/ RestoreFails(c)
  PROVE  /\ slot' \in [Clients -> SlotStates]
         /\ \A d \in Clients : slot'[d] # "absent" <=> slot[d] # "absent"
         /\ live' \in {live, Unowned} /\ backup' \in BOOLEAN /\ faults' \in Nat
         /\ UNCHANGED <<active, fixture, op, worked>>
<1>1. CASE SaveBackFails(c)
  <2>1. active \in Clients
    BY <1>1 DEF SaveBackFails, SlotsShape, SlotsTypeOK
  <2> QED
    BY <1>1, <2>1, SaveEffects, SlotsAssumption
    DEF SaveBackFails, Fails, SlotsShape, SlotsTypeOK, Present, SlotStates
<1>2. CASE RestoreFails(c)
  BY <1>2, SavedBackEffects, SlotsAssumption
  DEF RestoreFails, MayActivate, Fails, SlotsShape, SlotsTypeOK, Present, SlotStates
<1> QED
  BY <1>1, <1>2

\* A demo's load or unload, or a save, that fails or not.
LEMMA SwapBeginsShape ==
  ASSUME SlotsShape, NEW kind \in {"load", "unload"}, SwapBegins(kind)
  PROVE  /\ slot' \in [Clients -> SlotStates]
         /\ \A d \in Clients : slot'[d] # "absent" <=> slot[d] # "absent"
         /\ op' = Doing(kind, Nobody, "person") /\ active' \in {active, Nobody}
         /\ backup' \in BOOLEAN /\ faults' \in Nat /\ mishap' \in BOOLEAN
         /\ UNCHANGED <<live, fixture, rotation, worked>>
<1>1. ASSUME slot' = SavedBack
      PROVE  /\ slot' \in [Clients -> SlotStates]
             /\ \A d \in Clients : slot'[d] # "absent" <=> slot[d] # "absent"
  BY <1>1, SavedBackEffects, SlotsAssumption DEF SlotsShape, SlotsTypeOK, Present, SlotStates
<1>2. ASSUME active # Nobody, slot' \in HalfSaved(active)
      PROVE  /\ slot' \in [Clients -> SlotStates]
             /\ \A d \in Clients : slot'[d] # "absent" <=> slot[d] # "absent"
  <2>1. active \in Clients
    BY <1>2 DEF SlotsShape, SlotsTypeOK
  <2> QED
    BY <1>2, <2>1, SaveEffects DEF SlotsShape, SlotsTypeOK, Present, SlotStates
<1>3. /\ slot' \in [Clients -> SlotStates]
      /\ \A d \in Clients : slot'[d] # "absent" <=> slot[d] # "absent"
  BY <1>1, <1>2 DEF SwapBegins
<1>4. faults' \in Nat
  <2>1. faults' = faults \/ Fails
    BY DEF SwapBegins
  <2> QED
    BY <2>1 DEF Fails, SlotsShape, SlotsTypeOK
<1>5. backup' \in BOOLEAN /\ mishap' \in BOOLEAN
  BY DEF SwapBegins, Unprotected, SlotsShape, SlotsTypeOK
<1> QED
  BY <1>3, <1>4, <1>5 DEF SwapBegins

LEMMA SlotsTypeStep == SlotsShape /\ [SlotsNext]_slotsVars => SlotsTypeOK'
<1> SUFFICES ASSUME SlotsShape, [SlotsNext]_slotsVars PROVE SlotsTypeOK'
  OBVIOUS
<1>a. SlotsTypeOK
  BY DEF SlotsShape
<1>b. SlotsTypeOK <=>
        /\ slot \in [Clients -> SlotStates] /\ live \in LiveStates
        /\ active \in Clients \cup {Nobody}
        /\ fixture \in BOOLEAN /\ backup \in BOOLEAN /\ mishap \in BOOLEAN
        /\ op \in [kind : {"none", "activate", "load", "unload", "reset"},
                   client : Clients \cup {Nobody}, by : {"person", "rotation"}]
        /\ rotation \in Rotations /\ worked \subseteq Clients /\ faults \in Nat
  BY DEF SlotsTypeOK, LiveStates, Rotations
<1> USE <1>a, SlotsAssumption DEF SlotsTypeOK
<1>1. ASSUME NEW c \in Clients, CreatesCurrent(c) \/ CreatesBlank(c) \/ DeletesClient(c)
      PROVE  SlotsTypeOK'
  <2>1. mishap' \in BOOLEAN
    BY <1>1 DEF CreatesCurrent, CreatesBlank, DeletesClient, Unprotected
  <2>2. [of |-> c, newest |-> TRUE] \in LiveStates /\ live \in LiveStates
    BY DEF LiveStates
  <2>3. live' \in LiveStates
    BY <1>1, <2>2, UnownedFits DEF CreatesCurrent, CreatesBlank, DeletesClient
  <2>4. slot' \in [Clients -> SlotStates]
    BY <1>1 DEF CreatesCurrent, CreatesBlank, DeletesClient, SlotStates
  <2> QED
    BY <1>1, <2>1, <2>3, <2>4 DEF CreatesCurrent, CreatesBlank, DeletesClient, LiveStates
<1>2. ASSUME NEW c \in Clients, LiveWork(c)
      PROVE  SlotsTypeOK'
  BY <1>2 DEF LiveWork, Unprotected, SlotStates
<1>3. ASSUME NEW c \in Clients, PersonActivates(c)
      PROVE  SlotsTypeOK'
  <2>1. CASE Activates(c, "person")
    BY <1>3, <2>1, ActivatesShape DEF Activates, Doing, PersonActivates, Unprotected, LiveStates
  <2>2. CASE SaveBackFails(c) \/ RestoreFails(c)
    <3>1. mishap' \in BOOLEAN /\ UNCHANGED rotation
      BY <1>3 DEF PersonActivates, Unprotected
    <3> QED
      BY <2>2, <3>1, FailsShape, UnownedFits DEF LiveStates
  <2> QED
    BY <1>3, <2>1, <2>2 DEF PersonActivates
<1>4. CASE SavesClient
  <2>1. active \in Clients /\ mishap' \in BOOLEAN /\ faults' \in Nat
    BY <1>4 DEF SavesClient, Unprotected, Fails
  <2> QED
    BY <1>4, <2>1, SaveEffects DEF SavesClient
<1>5. CASE Snapshots
  BY <1>5 DEF Snapshots
<1>6. ASSUME NEW kind \in {"load", "unload"}, SwapBegins(kind)
      PROVE  SlotsTypeOK'
  BY <1>6, SwapBeginsShape DEF Doing
<1>7. CASE ResetBegins
  BY <1>7 DEF ResetBegins, Doing, SlotStates, Unowned
<1>8. CASE OpEnds
  <2>1. rotation' \in Rotations
    BY <1>8, RotationEffects DEF OpEnds, ActivationEnds, SwapEnds, ResetEnds, Rotations
  <2>2. CASE ActivationEnds
    BY <2>1, <2>2 DEF ActivationEnds, NoOp, Rotations
  <2>3. CASE SwapEnds
    BY <2>1, <2>3, UnownedFits DEF SwapEnds, NoOp, LiveStates, Rotations
  <2>4. CASE ResetEnds
    BY <2>1, <2>4 DEF ResetEnds, NoOp, Rotations
  <2> QED
    BY <1>8, <2>2, <2>3, <2>4 DEF OpEnds
<1>9. CASE ActivationFails
  <2>1. rotation' \in Rotations
    BY <1>9, RotationEffects DEF ActivationFails, Rotations
  <2>2. mishap' \in BOOLEAN
    BY <1>9 DEF ActivationFails, Unprotected
  <2> QED
    BY <1>9, <2>1, <2>2 DEF ActivationFails, Fails, NoOp, Rotations
<1>10. CASE SwapFails
  BY <1>10 DEF SwapFails, Fails, NoOp, Unprotected
<1>11. CASE RotationSwitches
  <2> PICK c \in Targets :
        \/ /\ Activates(c, "rotation")
           /\ rotation' = Without(c) /\ UNCHANGED mishap
        \/ /\ SaveBackFails(c) \/ RestoreFails(c)
           /\ rotation' = AfterFailure
           /\ Unprotected(rotation.pc = "restoring" \/ slot' # SavedBack)
    BY <1>11 DEF RotationSwitches
  <2>1. c \in Clients /\ rotation' \in Rotations
    BY <1>11, TargetsAreClients, RotationEffects DEF RotationSwitches
  <2>4. mishap' \in BOOLEAN
    BY DEF Unprotected
  <2>2. CASE Activates(c, "rotation")
    BY <2>1, <2>2, <2>4, ActivatesShape DEF Activates, Doing, LiveStates, Rotations
  <2>3. CASE SaveBackFails(c) \/ RestoreFails(c)
    BY <2>1, <2>3, <2>4, FailsShape, UnownedFits DEF LiveStates, Rotations
  <2> QED
    BY <2>2, <2>3
<1>12. CASE RotationPasses
  <2> PICK c \in Targets : rotation' = IF fixture THEN AfterFailure
                                      ELSE IF rotation.pc = "restoring" THEN Told
                                      ELSE [Without(c) EXCEPT !.pc = "working"]
    BY <1>12 DEF RotationPasses
  <2>1. rotation' \in Rotations
    BY RotationEffects
  <2> QED
    BY <1>12, <2>1 DEF RotationPasses, Rotations
<1>13. CASE RotationForces
  BY <1>13, RestoreEffects
  DEF RotationForces, Recovering, SlotsShape, Present, MarkerSet, Doing, LiveStates
<1>14. CASE RotationStarts \/ RotationMovesOn \/ RotationEnds
  <2>1. rotation' \in Rotations
    BY <1>14, RotationEffects
    DEF RotationStarts, RotationMovesOn, RotationEnds, Rotations
  <2> QED
    BY <1>14, <2>1 DEF RotationStarts, RotationMovesOn, RotationEnds, Rotations
<1>15. CASE RotationGivesUp
  BY <1>15, RotationEffects, UnownedFits
  DEF RotationGivesUp, Fails, Unprotected, LiveStates, Rotations
<1>16. CASE SlotsCrash
  BY <1>16, RotationEffects DEF SlotsCrash, NoOp, Unprotected, Rotations
<1>17. CASE UNCHANGED slotsVars
  BY <1>17 DEF slotsVars
<1> QED
  BY <1>1, <1>2, <1>3, <1>4, <1>5, <1>6, <1>7, <1>8, <1>9, <1>10, <1>11, <1>12, <1>13,
     <1>14, <1>15, <1>16, <1>17
  DEF SlotsNext, RotationSteps

\* Who holds the lock, and which slots are there.
LEMMA SlotsFitStep == SlotsShape /\ [SlotsNext]_slotsVars => OpFits' /\ Present'
<1> SUFFICES ASSUME SlotsShape, [SlotsNext]_slotsVars PROVE OpFits' /\ Present'
  OBVIOUS
<1>a. SlotsTypeOK /\ OpFits /\ Present
  BY DEF SlotsShape
<1> USE <1>a, SlotsAssumption DEF SlotsTypeOK, OpFits, Present, MarkerSet
<1>1. ASSUME NEW c \in Clients, CreatesCurrent(c) \/ CreatesBlank(c)
      PROVE  OpFits' /\ Present'
  BY <1>1 DEF CreatesCurrent, CreatesBlank, NoOp
<1>2. ASSUME NEW c \in Clients, DeletesClient(c)
      PROVE  OpFits' /\ Present'
  BY <1>2 DEF DeletesClient, NoOp, Unowned
<1>3. ASSUME NEW c \in Clients, LiveWork(c)
      PROVE  OpFits' /\ Present'
  BY <1>3 DEF LiveWork
<1>4. ASSUME NEW c \in Clients, PersonActivates(c)
      PROVE  OpFits' /\ Present'
  <2>1. CASE Activates(c, "person")
    BY <1>4, <2>1, ActivatesShape DEF PersonActivates, Activates, MayActivate, Doing
  <2>2. CASE SaveBackFails(c) \/ RestoreFails(c)
    <3>1. UNCHANGED rotation
      BY <1>4 DEF PersonActivates
    <3> QED
      BY <2>2, <3>1, FailsShape, UnownedFits
  <2> QED
    BY <1>4, <2>1, <2>2 DEF PersonActivates
<1>5. CASE SavesClient
  <2>1. active \in Clients
    BY <1>5 DEF SavesClient
  <2>2. \A d \in Clients : slot'[d] # "absent" <=> slot[d] # "absent"
    BY <1>5, <2>1, SaveEffects DEF SavesClient
  <2> QED
    BY <1>5, <2>2 DEF SavesClient
<1>6. CASE Snapshots
  BY <1>6 DEF Snapshots
<1>7. ASSUME NEW kind \in {"load", "unload"}, SwapBegins(kind)
      PROVE  OpFits' /\ Present'
  BY <1>7, SwapBeginsShape DEF Doing
<1>8. CASE ResetBegins
  BY <1>8 DEF ResetBegins, Doing, Unowned
<1>9. CASE ActivationEnds
  BY <1>9, RotationEffects DEF ActivationEnds, NoOp
<1>10. CASE SwapEnds \/ ResetEnds
  BY <1>10, UnownedFits DEF SwapEnds, ResetEnds, NoOp
<1>11. CASE ActivationFails \/ SwapFails
  <2>1. op' = NoOp /\ UNCHANGED <<slot, live, active, fixture>>
    BY <1>11 DEF ActivationFails, SwapFails
  <2>2. rotation' = rotation \/ (rotation' = AfterFailure /\ op.by = "rotation")
    BY <1>11 DEF ActivationFails, SwapFails
  <2> QED
    BY <2>1, <2>2, RotationEffects DEF NoOp
<1>12. CASE RotationSwitches
  <2> PICK c \in Targets :
        \/ Activates(c, "rotation") /\ rotation' = Without(c)
        \/ (SaveBackFails(c) \/ RestoreFails(c)) /\ rotation' = AfterFailure
    BY <1>12 DEF RotationSwitches
  <2>1. c \in Clients /\ (rotation.pc = "restoring" => c = rotation.original)
    BY <1>12, TargetsAreClients DEF RotationSwitches, Targets
  <2>2. CASE Activates(c, "rotation") /\ rotation' = Without(c)
    <3>1. /\ UNCHANGED <<active, fixture>> /\ ~fixture
          /\ rotation'.pc = rotation.pc /\ rotation'.original = rotation.original
          /\ rotation.pc \in {"switching", "restoring"}
      BY <1>12, <2>2, RotationEffects DEF RotationSwitches, Activates, MayActivate
    <3>2. OpFits'
      BY <2>1, <2>2, <3>1, ActivatesShape DEF Doing
    <3> QED
      BY <2>1, <2>2, <3>1, <3>2, ActivatesShape
  <2>3. CASE (SaveBackFails(c) \/ RestoreFails(c)) /\ rotation' = AfterFailure
    <3>1. op = NoOp
      BY <2>3 DEF SaveBackFails, RestoreFails, MayActivate
    <3> QED
      BY <1>12, <2>1, <2>3, <3>1, FailsShape, RotationEffects, UnownedFits DEF NoOp,
         RotationSwitches
  <2> QED
    BY <2>2, <2>3
<1>13. CASE RotationPasses
  <2> PICK c \in Targets : rotation' = IF fixture THEN AfterFailure
                                      ELSE IF rotation.pc = "restoring" THEN Told
                                      ELSE [Without(c) EXCEPT !.pc = "working"]
    BY <1>13 DEF RotationPasses
  <2> QED
    BY <1>13, RotationEffects DEF RotationPasses, NoOp
<1>14. CASE RotationForces
  BY <1>14, RestoreEffects DEF RotationForces, Recovering, Doing
<1>15. CASE RotationStarts
  BY <1>15 DEF RotationStarts
<1>16. CASE RotationMovesOn \/ RotationEnds
  BY <1>16, RotationEffects DEF RotationMovesOn, RotationEnds
<1>17. CASE RotationGivesUp
  BY <1>17, RotationEffects, UnownedFits DEF RotationGivesUp, NoOp
<1>18. CASE SlotsCrash
  BY <1>18, RotationEffects DEF SlotsCrash, NoOp
<1>19. CASE UNCHANGED slotsVars
  BY <1>19 DEF slotsVars
<1> QED
  BY <1>1, <1>2, <1>3, <1>4, <1>5, <1>6, <1>7, <1>8, <1>9, <1>10, <1>11, <1>12, <1>13,
     <1>14, <1>15, <1>16, <1>17, <1>18, <1>19
  DEF SlotsNext, OpEnds, RotationSteps

-----------------------------------------------------------------------------
(* No company is lost *)

\* Slots like these need no live database.
HeldBy(s) == \A c \in Clients : s[c] \in {"absent", "newest"} \/ (s[c] = "seed" /\ c \notin worked)

\* Nothing live is needed once nobody is active, or the active client is saved.
LEMMA SavedIsHeld ==
  ASSUME SlotsShape, Sound, op = NoOp, ~SavesWhileRecovering
  PROVE  HeldBy(SavedBack) /\ (active = Nobody => HeldBy(slot))
<1> USE SlotsAssumption DEF SlotsShape, SlotsTypeOK, Sound, Kept, HoldsNewest, HeldBy, AllHeld
<1>1. CASE Recovering
  <2>1. active = Nobody /\ AllHeld
    BY <1>1 DEF SavesWhileRecovering
  <2> QED
    BY <2>1, SavedBackEffects DEF SlotStates
<1>2. CASE ~Recovering
  <2>1. live.of = active
    BY <1>2
  <2>2. \A c \in Clients : c # active =>
          slot[c] \in {"absent", "newest"} \/ (slot[c] = "seed" /\ c \notin worked)
    BY <2>1
  <2>3. active # Nobody => SavedBack[active] = "newest"
    BY <2>1, SavedBackEffects
  <2> QED
    BY <2>2, <2>3, SavedBackEffects
<1> QED
  BY <1>1, <1>2

\* A client that is restored from such a slot is live with its newest state.
LEMMA RestoredIsNewest ==
  ASSUME SlotsShape, Sound, NEW c \in Clients, slot[c] # "absent",
         live.of # c \/ Recovering
  PROVE  Restored(c).of = c /\ Restored(c).newest
  BY RestoreEffects DEF SlotsShape, Sound, AllHeld, Kept

LEMMA MishapStays == SlotsShape /\ [SlotsNext]_slotsVars /\ ~mishap' => ~mishap
  BY DEF SlotsShape, SlotsTypeOK, SlotsNext, slotsVars, Unprotected, CreatesCurrent,
     CreatesBlank, DeletesClient, LiveWork, PersonActivates, SavesClient, Snapshots,
     SwapBegins, ResetBegins, OpEnds, ActivationEnds, SwapEnds, ResetEnds, ActivationFails,
     SwapFails, RotationStarts, RotationSteps, RotationSwitches, RotationPasses,
     RotationForces, RotationMovesOn, RotationEnds, RotationGivesUp, SlotsCrash

LEMMA HeldIsSound ==
  ASSUME SlotsShape', HeldBy(slot)'
  PROVE  AllHeld' /\ \A c \in Clients : slot'[c] # "foreign" /\ (slot'[c] # "absent" => Kept(c)')
  BY DEF HeldBy, AllHeld, Kept, HoldsNewest

\* An activation, with the save before it.
LEMMA ActivatesSound ==
  ASSUME SlotsShape, SlotsShape', Sound, NEW c \in Clients, NEW by \in {"person", "rotation"},
         Activates(c, by), ~SavesWhileRecovering
  PROVE  Sound'
<1>1. op = NoOp /\ c # active /\ slot[c] # "absent" /\ slot' = SavedBack
      /\ live' = Restored(c) /\ op' = Doing("activate", c, by) /\ worked' = worked
  BY DEF Activates, MayActivate
<1>2. HeldBy(slot)'
  BY <1>1, SavedIsHeld DEF HeldBy
<1>3. live'.of = c /\ live'.newest
  BY <1>1, RestoredIsNewest DEF Sound
<1> QED
  BY <1>1, <1>2, <1>3, HeldIsSound DEF Sound, Doing, NoOp

\* One that fails leaves nothing to lose, if what it saved is the active client.
LEMMA FailsSound ==
  ASSUME SlotsShape, SlotsShape', Sound, NEW c \in Clients, SaveBackFails(c) \/ RestoreFails(c),
         ~SavesWhileRecovering, slot' = SavedBack, ~Recovering \/ live' = live
  PROVE  /\ AllHeld'
         /\ \A d \in Clients : slot'[d] # "foreign" /\ (slot'[d] # "absent" => Kept(d)')
         /\ op' = NoOp /\ (live'.of # Nobody => live'.newest)
<1>1. op = NoOp /\ op' = NoOp /\ worked' = worked /\ live' \in {live, Unowned}
  BY FailsShape DEF SaveBackFails, RestoreFails, MayActivate
<1>2. HeldBy(slot)'
  BY <1>1, SavedIsHeld DEF HeldBy
<1> QED
  BY <1>1, <1>2, HeldIsSound, UnownedFits DEF Sound

\* A save of the active client may fail as it likes: the client is live.
LEMMA SaveSound ==
  ASSUME SlotsShape, Sound, op = NoOp, ~Recovering, active \in Clients,
         slot' = Saved(active) \/ slot' \in HalfSaved(active),
         UNCHANGED <<live, active, op, rotation, worked>>
  PROVE  Sound'
<1>1. live = [of |-> active, newest |-> TRUE]
  BY SlotsAssumption DEF SlotsShape, SlotsTypeOK, Sound
<1>2. \A d \in Clients : IF d = active THEN slot'[d] # "foreign" ELSE slot'[d] = slot[d]
  BY <1>1, SaveEffects DEF SlotsShape, Sound
<1> QED
  BY <1>1, <1>2 DEF Sound, Kept, HoldsNewest, Recovering, NoOp

LEMMA SoundStep ==
  ASSUME SlotsShape, SlotsShape', Sound, ~mishap', [SlotsNext]_slotsVars
  PROVE  Sound'
<1>a. SlotsTypeOK /\ OpFits /\ Present /\ SlotsTypeOK'
  BY DEF SlotsShape
<1> USE <1>a, SlotsAssumption DEF SlotsTypeOK
<1>1. ASSUME NEW c \in Clients, CreatesCurrent(c)
      PROVE  Sound'
  <2>1. live.of = Nobody /\ ~Recovering /\ op = NoOp
    BY <1>1 DEF CreatesCurrent, Unprotected, Sound
  <2>2. /\ slot' = [slot EXCEPT ![c] = "newest"] /\ live' = [of |-> c, newest |-> TRUE]
        /\ active' = c /\ worked' = worked \cup {c} /\ UNCHANGED <<op, rotation>>
    BY <1>1, <2>1 DEF CreatesCurrent
  <2> QED
    BY <2>1, <2>2 DEF Sound, Kept, HoldsNewest, Recovering, NoOp
<1>2. ASSUME NEW c \in Clients, CreatesBlank(c)
      PROVE  Sound'
  BY <1>2 DEF CreatesBlank, Sound, Kept, HoldsNewest, Recovering, NoOp, AllHeld
<1>3. ASSUME NEW c \in Clients, DeletesClient(c)
      PROVE  Sound'
  <2>1. op = NoOp /\ ~Recovering /\ live.of = active /\ live.of # c
    BY <1>3 DEF DeletesClient, MarkerSet, Recovering, Sound
  <2> QED
    BY <1>3, <2>1 DEF DeletesClient, Sound, Kept, HoldsNewest, Recovering, NoOp
<1>4. ASSUME NEW c \in Clients, LiveWork(c)
      PROVE  Sound'
  <2>1. ~Recovering /\ op.kind \notin {"load", "unload"} /\ live.of = c /\ live.newest
    BY <1>4 DEF LiveWork, Unprotected, Sound
  <2>2. live = [of |-> c, newest |-> TRUE]
    BY <2>1
  <2>3. /\ \A d \in Clients : IF d = c THEN slot'[d] # "foreign" ELSE slot'[d] = slot[d]
        /\ worked' = worked \cup {c} /\ UNCHANGED <<live, active, op, rotation>>
    BY <1>4 DEF LiveWork, Sound
  <2>4. \A d \in Clients : slot'[d] # "foreign" /\ (slot'[d] # "absent" => Kept(d)')
    <3> SUFFICES ASSUME NEW d \in Clients
                 PROVE  slot'[d] # "foreign" /\ (slot'[d] # "absent" => Kept(d)')
      OBVIOUS
    <3>1. CASE d = c
      BY <2>2, <2>3, <3>1 DEF Kept
    <3>2. CASE d # c
      BY <2>1, <2>3, <3>2 DEF Sound, Kept, HoldsNewest
    <3> QED
      BY <3>1, <3>2
  <2> QED
    BY <2>1, <2>3, <2>4 DEF Sound, Recovering
<1>5. ASSUME NEW c \in Clients, PersonActivates(c)
      PROVE  Sound'
  <2>1. ~SavesWhileRecovering /\ rotation' = rotation
    BY <1>5 DEF PersonActivates, Unprotected
  <2>2. CASE Activates(c, "person")
    BY <2>1, <2>2, ActivatesSound
  <2>3. CASE SaveBackFails(c)
    <3>1. /\ op = NoOp /\ active \in Clients /\ slot' \in HalfSaved(active)
          /\ UNCHANGED <<live, active, op, worked>> /\ ~Recovering
      BY <2>1, <2>3 DEF SaveBackFails, MayActivate, SavesWhileRecovering
    <3> QED
      BY <2>1, <3>1, SaveSound
  <2>4. CASE RestoreFails(c) /\ Unprotected(SavesWhileRecovering \/ live' # live)
    <3>1. live' = live /\ slot' = SavedBack /\ op = NoOp
      BY <2>4 DEF RestoreFails, MayActivate, Unprotected
    <3> QED
      BY <2>1, <2>4, <3>1, FailsSound, FailsShape DEF Sound, Recovering, NoOp
  <2> QED
    BY <1>5, <2>2, <2>3, <2>4 DEF PersonActivates
<1>6. CASE SavesClient
  <2>1. ~Recovering /\ op = NoOp /\ active \in Clients
    BY <1>6 DEF SavesClient, Unprotected, SavesWhileRecovering
  <2> QED
    BY <1>6, <2>1, SaveSound DEF SavesClient
<1>7. CASE Snapshots
  BY <1>7 DEF Snapshots, Sound, Kept, HoldsNewest, Recovering, AllHeld
<1>8. ASSUME NEW kind \in {"load", "unload"}, SwapBegins(kind)
      PROVE  Sound'
  <2>1. /\ op = NoOp /\ slot' = SavedBack /\ active' = Nobody /\ ~SavesWhileRecovering
        /\ op' = Doing(kind, Nobody, "person") /\ UNCHANGED <<live, rotation, worked>>
    BY <1>8 DEF SwapBegins, Unprotected
  <2>2. HeldBy(slot)'
    BY <2>1, SavedIsHeld DEF HeldBy
  <2> QED
    BY <2>1, <2>2, HeldIsSound DEF Sound, Doing, NoOp
<1>9. CASE ResetBegins
  <2>1. HeldBy(slot)'
    BY <1>9 DEF ResetBegins, HeldBy, Sound, Kept, HoldsNewest, SlotStates
  <2> QED
    BY <1>9, <2>1, HeldIsSound, UnownedFits DEF ResetBegins, Sound, Doing, NoOp
<1>10. CASE ActivationEnds
  BY <1>10, RotationEffects
  DEF ActivationEnds, Sound, Kept, HoldsNewest, Recovering, NoOp, AllHeld, OpFits
<1>11. CASE SwapEnds
  <2>1. AllHeld /\ active = Nobody
    BY <1>11 DEF SwapEnds, Sound
  <2> QED
    BY <1>11, <2>1, UnownedFits
    DEF SwapEnds, Sound, Kept, HoldsNewest, Recovering, NoOp, AllHeld
<1>12. CASE ResetEnds
  BY <1>12 DEF ResetEnds, Sound, Kept, HoldsNewest, Recovering, NoOp, AllHeld
<1>13. CASE ActivationFails
  <2>1. /\ op.kind = "activate" /\ op.by = "rotation" /\ rotation.pc = "switching"
        /\ slot[op.client] = "newest" /\ rotation' = AfterFailure /\ op' = NoOp
        /\ UNCHANGED <<slot, live, active, worked>>
    BY <1>13 DEF ActivationFails, Unprotected
  <2>2. AllHeld
    BY <2>1 DEF AllHeld, Sound, Kept, HoldsNewest
  <2> QED
    BY <2>1, <2>2, RotationEffects DEF Sound, Kept, HoldsNewest, Recovering, NoOp, AllHeld
<1>14. CASE SwapFails
  BY <1>14 DEF SwapFails, Unprotected
<1>15. CASE RotationSwitches
  <2> PICK c \in Targets :
        \/ Activates(c, "rotation")
        \/ /\ SaveBackFails(c) \/ RestoreFails(c)
           /\ rotation' = AfterFailure
           /\ Unprotected(rotation.pc = "restoring" \/ slot' # SavedBack)
    BY <1>15 DEF RotationSwitches
  <2>1. c \in Clients /\ ~Recovering
    BY <1>15, TargetsAreClients DEF RotationSwitches, Recovering
  <2>2. CASE Activates(c, "rotation")
    BY <2>1, <2>2, ActivatesSound DEF SavesWhileRecovering
  <2>3. CASE /\ SaveBackFails(c) \/ RestoreFails(c)
             /\ rotation' = AfterFailure
             /\ Unprotected(rotation.pc = "restoring" \/ slot' # SavedBack)
    <3>1. slot' = SavedBack /\ rotation.pc = "switching"
      BY <1>15, <2>3 DEF Unprotected, RotationSwitches
    <3> QED
      BY <2>1, <2>3, <3>1, FailsSound, RotationEffects
      DEF Sound, SavesWhileRecovering, Recovering, NoOp
  <2> QED
    BY <2>2, <2>3
<1>16. CASE RotationPasses
  <2> PICK c \in Targets : rotation' = IF fixture THEN AfterFailure
                                      ELSE IF rotation.pc = "restoring" THEN Told
                                      ELSE [Without(c) EXCEPT !.pc = "working"]
    BY <1>16 DEF RotationPasses
  <2>1. ~Recovering /\ UNCHANGED <<slot, live, active, op, worked>> /\ op = NoOp
    BY <1>16 DEF RotationPasses, Recovering
  <2>2. CASE fixture
    <3>1. live.of = Nobody
      BY <1>16, <2>2 DEF RotationPasses, Present
    <3>2. AllHeld
      BY <3>1 DEF Sound, Kept, AllHeld
    <3> QED
      BY <2>1, <3>2 DEF Sound, Kept, HoldsNewest, NoOp, AllHeld
  <2>3. CASE ~fixture
    BY <2>1, <2>3, RotationEffects DEF Sound, Kept, HoldsNewest, NoOp, AllHeld, Recovering
  <2> QED
    BY <2>2, <2>3
<1>17. CASE RotationForces
  <2>1. rotation.original \in Clients /\ slot[rotation.original] # "absent"
    BY <1>17 DEF RotationForces, Recovering, Present, MarkerSet
  <2>2. Restored(rotation.original).of = rotation.original /\ Restored(rotation.original).newest
    BY <1>17, <2>1, RestoredIsNewest DEF RotationForces
  <2> QED
    BY <1>17, <2>1, <2>2
    DEF RotationForces, Sound, Kept, HoldsNewest, Doing, NoOp, AllHeld, Recovering
<1>18. CASE RotationStarts \/ RotationMovesOn \/ RotationEnds
  <2>1. ~Recovering /\ ~Recovering' /\ UNCHANGED <<slot, live, active, op, worked>>
    BY <1>18, RotationEffects DEF RotationStarts, RotationMovesOn, RotationEnds, Recovering
  <2> QED
    BY <2>1 DEF Sound, Kept, HoldsNewest, AllHeld
<1>19. CASE RotationGivesUp
  BY <1>19 DEF RotationGivesUp, Unprotected
<1>20. CASE SlotsCrash
  BY <1>20, RotationEffects
  DEF SlotsCrash, Unprotected, Sound, Kept, HoldsNewest, AllHeld, Recovering, NoOp
<1>21. CASE UNCHANGED slotsVars
  BY <1>21 DEF slotsVars, Sound, Kept, HoldsNewest, AllHeld, Recovering
<1> QED
  BY <1>1, <1>2, <1>3, <1>4, <1>5, <1>6, <1>7, <1>8, <1>9, <1>10, <1>11, <1>12, <1>13,
     <1>14, <1>15, <1>16, <1>17, <1>18, <1>19, <1>20, <1>21
  DEF SlotsNext, OpEnds, RotationSteps

-----------------------------------------------------------------------------
(* The theorems *)

LEMMA SlotsInvHolds == SlotsSpec => []SlotsInv
<1>1. SlotsInit => SlotsInv
  <2> SUFFICES ASSUME SlotsInit PROVE SlotsInv
    OBVIOUS
  <2>1. SlotsTypeOK
    BY SlotsAssumption DEF SlotsInit, SlotsTypeOK, SlotStates, Unowned, NoOp, NoRotation
  <2>2. OpFits /\ Present
    BY DEF SlotsInit, OpFits, Present, MarkerSet, Unowned, NoOp, NoRotation
  <2>3. Sound
    BY SlotsAssumption DEF SlotsInit, Sound, Recovering, Unowned, NoOp, NoRotation
  <2> QED
    BY <2>1, <2>2, <2>3 DEF SlotsInv, SlotsShape
<1>2. SlotsInv /\ [SlotsNext]_slotsVars => SlotsInv'
  <2> SUFFICES ASSUME SlotsInv, [SlotsNext]_slotsVars PROVE SlotsInv'
    OBVIOUS
  <2>1. SlotsShape'
    BY SlotsTypeStep, SlotsFitStep DEF SlotsInv, SlotsShape
  <2>2. ASSUME ~mishap' PROVE Sound'
    <3>1. Sound
      BY <2>2, MishapStays DEF SlotsInv
    <3> QED
      BY <2>1, <2>2, <3>1, SoundStep DEF SlotsInv
  <2> QED
    BY <2>1, <2>2 DEF SlotsInv
<1> QED
  BY <1>1, <1>2, PTL DEF SlotsSpec

\* Slots, sentinels, the operation under way and the rotation keep their types,
\* for any number of clients.
THEOREM SlotsTypeCorrect == SlotsSpec => []SlotsTypeOK
<1>1. SlotsInv => SlotsTypeOK
  BY DEF SlotsInv, SlotsShape
<1> QED
  BY <1>1, SlotsInvHolds, PTL

\* Whatever people, demos, resets, failed saves and the nightly rotation do in
\* between each other: the newest state of every client is live or in its slot,
\* and no slot holds another company (_save_slot_state, _restore_slot_state).
THEOREM KeepsClients == SlotsSpec => []ClientsAreKept
<1>1. SlotsInv => ClientsAreKept
  BY DEF SlotsInv, Sound, ClientsAreKept
<1> QED
  BY <1>1, SlotsInvHolds, PTL

\* A rotation that ends gives back the client it started from, sentinel and
\* live company, unless a demo is loaded (run_client_rotation, _force_restore).
THEOREM GivesBack == SlotsSpec => RotationGivesBack
<1> DEFINE Step ==
      MarkerSet /\ rotation'.pc = "telling" /\ ~mishap' /\ ~fixture'
        => /\ active' = rotation.original
           /\ op' = NoOp => live'.of = rotation.original
<1>1. SlotsInv /\ [SlotsNext]_slotsVars => Step
  <2> SUFFICES ASSUME SlotsInv, [SlotsNext]_slotsVars, MarkerSet, rotation'.pc = "telling",
                      ~mishap', ~fixture'
               PROVE  active' = rotation.original /\ (op' = NoOp => live'.of = rotation.original)
    OBVIOUS
  <2>1. SlotsShape /\ Sound /\ rotation.pc # "telling" /\ rotation' # rotation
    BY MishapStays DEF SlotsInv, MarkerSet
  <2>2. CASE ActivationEnds
    BY <2>1, <2>2 DEF ActivationEnds, Sound, SlotsShape, OpFits, SlotsTypeOK
  <2>3. CASE ActivationFails
    BY <2>1, <2>3, RotationEffects DEF ActivationFails, Unprotected, SlotsShape, SlotsTypeOK
  <2>4. CASE RotationSwitches
    <3> PICK c \in Targets :
          \/ rotation' = Without(c)
          \/ rotation' = AfterFailure /\ Unprotected(rotation.pc = "restoring" \/ slot' # SavedBack)
      BY <2>4 DEF RotationSwitches
    <3>1. rotation.pc = "switching" \/ rotation' = Without(c)
      BY <2>4 DEF RotationSwitches, Unprotected
    <3> QED
      BY <2>1, <2>4, <3>1, RotationEffects DEF RotationSwitches, SlotsShape
  <2>5. CASE RotationPasses
    <3> PICK c \in Targets :
          /\ fixture \/ active = c
          /\ rotation' = IF fixture THEN AfterFailure
                         ELSE IF rotation.pc = "restoring" THEN Told
                         ELSE [Without(c) EXCEPT !.pc = "working"]
      BY <2>5 DEF RotationPasses
    <3>1. ~fixture /\ op = NoOp /\ UNCHANGED <<active, live>> /\ ~Recovering
      BY <2>5 DEF RotationPasses, Recovering
    <3>2. rotation.pc = "restoring" /\ active = rotation.original
      BY <2>1, <2>5, <3>1, RotationEffects DEF RotationPasses, Targets, SlotsShape
    <3> QED
      BY <2>1, <3>1, <3>2 DEF Sound
  <2>6. CASE RotationMovesOn
    <3>1. active = rotation.original /\ UNCHANGED <<active, live, op>> /\ ~Recovering
      BY <2>1, <2>6 DEF RotationMovesOn, Recovering, SlotsShape, SlotsTypeOK
    <3> QED
      BY <2>1, <3>1 DEF Sound
  <2>7. CASE RotationStarts \/ RotationForces \/ RotationGivesUp
    <3>1. CASE RotationStarts
      BY <3>1 DEF RotationStarts, MarkerSet
    <3>2. CASE RotationForces
      BY <2>1, <3>2 DEF RotationForces
    <3>3. CASE RotationGivesUp
      BY <3>3 DEF RotationGivesUp, Unprotected
    <3> QED
      BY <2>7, <3>1, <3>2, <3>3
  <2>8. CASE RotationEnds \/ SlotsCrash
    BY <2>8 DEF RotationEnds, SlotsCrash, NoRotation
  <2> QED
    BY <2>1, <2>2, <2>3, <2>4, <2>5, <2>6, <2>7, <2>8
    DEF SlotsNext, slotsVars, RotationSteps, OpEnds, CreatesCurrent, CreatesBlank,
        DeletesClient, LiveWork, PersonActivates, SavesClient, Snapshots, SwapBegins,
        ResetBegins, SwapEnds, ResetEnds, SwapFails
<1> QED
  BY <1>1, SlotsInvHolds, PTL DEF SlotsSpec, RotationGivesBack

=============================================================================
