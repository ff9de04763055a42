------------------------ MODULE HeldMessages_proofs ------------------------
(***************************************************************************)
(* Proofs about HeldMessages, for any number of rows, people, briefs and   *)
(* mishaps, with or without database errors.                               *)
(***************************************************************************)
EXTENDS HeldMessages, Integers, FiniteSetTheorems, TLAPS

-----------------------------------------------------------------------------
(* The inductive invariant *)

HeldSenders == {"pass"} \cup Briefs

IsSending(w, m) ==
  IF w = "pass" THEN pass.pc = "sending" /\ m \in pass.ids
  ELSE brief[w].pc = "sending" /\ m \in brief[w].ids

InFlight(m) == {w \in HeldSenders : IsSending(w, m)}

\* How often a message arrived, or may be about to.
Load(m) == delivered[m] + Cardinality(InFlight(m))

\* Open, and its claim free or about to lapse.
MayBeTaken(m) == IsOpen(m) /\ held[m].claim \in {"none", "left", "stale"}

\* What the table and the senders say of each other.
RowAndSenders(m) ==
  /\ held[m].claim # "none" => IsOpen(m)
  /\ held[m].claim = "pass" => m \in pass.ids
  /\ m \in pass.ids => m \notin pass.todo
  /\ held[m].status = "none" =>
       /\ m \notin pass.ids \cup pass.todo
       /\ \A b \in Briefs : m \notin brief[b].ids
       /\ delivered[m] = 0
  /\ pass.pc \in {"idle", "listed"} => m \notin pass.ids
  /\ pass.pc = "sent" /\ m \in pass.ids => delivered[m] > 0
  /\ \A b \in Briefs : brief[b].pc = "sent" /\ m \in brief[b].ids => delivered[m] > 0
  /\ held[m].status = "sent" => delivered[m] > 0

HeldShape == HeldTypeOK /\ \A m \in HeldIds : RowAndSenders(m)

\* A row somebody may still claim has one arrival to spare, and two while the
\* pass runs late and has not reached it: it will take it with a claim that
\* has lapsed already.
LoadBounded(m) ==
  /\ Load(m) <= 1 + mishaps
  /\ MayBeTaken(m) \/ held[m].status = "dropped" => Load(m) <= mishaps
  /\ pass.late /\ m \in pass.todo =>
       Load(m) <= mishaps /\ (MayBeTaken(m) => Load(m) + 1 <= mishaps)

LoadsBounded == \A m \in HeldIds : LoadBounded(m)

-----------------------------------------------------------------------------
(* Types *)

Claims == {"none", "left", "stale", "pass"} \cup Briefs

LEMMA YoungestAge == 0 \in 0..2
  OBVIOUS

LEMMA HeldRowTypes ==
  ASSUME NEW r \in HeldRow
  PROVE  /\ \A c \in Claims : [r EXCEPT !.claim = c] \in HeldRow
         /\ [r EXCEPT !.when = "due"] \in HeldRow
         /\ [r EXCEPT !.claim = "none", !.when = "later"] \in HeldRow
         /\ \A how \in {"sent", "dropped", "capped"} :
              [r EXCEPT !.status = how, !.when = "digest", !.age = 0, !.claim = "none"] \in HeldRow
<1>1. \A c \in Claims : [r EXCEPT !.claim = c] \in HeldRow
  BY DEF HeldRow, Claims
<1>2. [r EXCEPT !.when = "due"] \in HeldRow
  BY DEF HeldRow
<1>3. [r EXCEPT !.claim = "none", !.when = "later"] \in HeldRow
  BY DEF HeldRow
<1>4. \A how \in {"sent", "dropped", "capped"}, a \in 0..2 :
        [r EXCEPT !.status = how, !.when = "digest", !.age = a, !.claim = "none"] \in HeldRow
  BY DEF HeldRow
<1> QED
  BY <1>1, <1>2, <1>3, <1>4, YoungestAge

LEMMA TableTypes ==
  ASSUME held \in [HeldIds -> HeldRow], NEW ids
  PROVE  /\ \A how \in {"sent", "dropped", "capped"} : Closed(ids, how) \in [HeldIds -> HeldRow]
         /\ \A m \in HeldIds, how \in {"sent", "dropped", "capped"} : Gone(m, how) \in HeldRow
         /\ Postponed(ids) \in [HeldIds -> HeldRow]
         /\ Unclaimed(ids) \in [HeldIds -> HeldRow]
         /\ ReleaseDigestNow(ids) \in [HeldIds -> HeldRow]
         /\ \A w : Abandoned(ids, w) \in [HeldIds -> HeldRow]
<1>1. \A m \in HeldIds, how \in {"sent", "dropped", "capped"} : Gone(m, how) \in HeldRow
  BY HeldRowTypes DEF Gone
<1>2. \A how \in {"sent", "dropped", "capped"} : Closed(ids, how) \in [HeldIds -> HeldRow]
  BY <1>1 DEF Closed
<1>3. Postponed(ids) \in [HeldIds -> HeldRow]
  BY HeldRowTypes DEF Postponed
<1>4. Unclaimed(ids) \in [HeldIds -> HeldRow]
  BY HeldRowTypes DEF Unclaimed, Claims
<1>5. ReleaseDigestNow(ids) \in [HeldIds -> HeldRow]
  BY HeldRowTypes DEF ReleaseDigestNow
<1>6. \A w : Abandoned(ids, w) \in [HeldIds -> HeldRow]
  BY HeldRowTypes DEF Abandoned, Claims
<1> QED
  BY <1>1, <1>2, <1>3, <1>4, <1>5, <1>6

LEMMA ArriveType ==
  ASSUME delivered \in [HeldIds -> Nat], NEW ids, Arrive(ids)
  PROVE  delivered' \in [HeldIds -> Nat]
  BY DEF Arrive

LEMMA MishapType ==
  ASSUME mishaps \in Nat, Mishap
  PROVE  mishaps' \in Nat
  BY DEF Mishap

LEMMA HeldTypeInit == HeldInit => HeldTypeOK
  BY HeldAssumption DEF HeldInit, HeldTypeOK, HeldRow, NoPass, Pass, NoBrief, Brief

LEMMA HeldTypeStep == HeldTypeOK /\ [HeldNext]_heldVars => HeldTypeOK'
<1> SUFFICES ASSUME HeldTypeOK, [HeldNext]_heldVars PROVE HeldTypeOK'
  OBVIOUS
<1> USE HeldAssumption DEF HeldTypeOK
<1>1. CASE UNCHANGED heldVars
  BY <1>1 DEF heldVars
<1>2. ASSUME NEW p \in People, NEW when \in {"digest", "later"}, Hold(p, when) PROVE HeldTypeOK'
  <2>1. [status |-> "open", person |-> p, when |-> when, age |-> 0, claim |-> "none"] \in HeldRow
    BY DEF HeldRow
  <2>2. \A n \in HeldIds : Gone(n, "capped") \in HeldRow
    BY TableTypes
  <2>3. held' \in [HeldIds -> HeldRow]
    BY <1>2, <2>1, <2>2 DEF Hold
  <2> QED BY <1>2, <2>3 DEF Hold
<1>3. ASSUME NEW p \in People, ChangesDelivery(p) \/ ReleaseQuietNow(p) PROVE HeldTypeOK'
  BY ZenonT(40), <1>3, TableTypes, HeldRowTypes DEF ChangesDelivery, ReleaseQuietNow
<1>4. ASSUME NEW m \in HeldIds, ComesDue(m) \/ Lapses(m) PROVE HeldTypeOK'
  BY <1>4 DEF ComesDue, Lapses, HeldRow
<1>5. ASSUME NEW m \in HeldIds, GrowsOld(m) PROVE HeldTypeOK'
  <2> DEFINE a == held[m].age + 1
  <2>1. a \in 0..2
    BY <1>5 DEF GrowsOld, HeldRow
  <2>2. held' = [held EXCEPT ![m].age = a]
    BY <1>5 DEF GrowsOld
  <2>3. UNCHANGED <<pass, brief, mishaps, delivered>>
    BY <1>5 DEF GrowsOld
  <2> HIDE DEF a
  <2> QED BY <2>1, <2>2, <2>3 DEF HeldRow
<1>6. CASE PassBegins
  BY <1>6 DEF PassBegins, NoPass, Pass
<1> PassedOver \in Pass /\ NoPass \in Pass /\ PassMovesOn \in Pass
  BY DEF PassedOver, NoPass, PassMovesOn, Pass
<1>7. CASE PassSkips \/ PassDies \/ PassEnds
  BY <1>7 DEF PassSkips, PassDies, PassEnds, NextPerson
<1>8. CASE PassDrops
  BY <1>8, TableTypes DEF PassDrops, NextPerson
<1>9. CASE PassPostpones
  BY <1>9, TableTypes, HeldRowTypes DEF PassPostpones, NextPerson
<1>10. CASE PassSends
  <2>1. held' \in [HeldIds -> HeldRow]
    BY <1>10, TableTypes, HeldRowTypes DEF PassSends, Claims
  <2>2. pass' \in Pass
    BY <1>10 DEF PassSends, Pass, Got, Listed
  <2> QED BY <1>10, <2>1, <2>2 DEF PassSends, NextPerson
<1>11. CASE PassDelivers
  BY <1>11, ArriveType DEF PassDelivers, Pass
<1>12. CASE PassFails
  <2>1. held' \in [HeldIds -> HeldRow]
    BY <1>12, TableTypes DEF PassFails
  <2>2. mishaps' \in Nat /\ delivered' \in [HeldIds -> Nat]
    BY <1>12, ArriveType, MishapType DEF PassFails
  <2> QED BY <1>12, <2>1, <2>2 DEF PassFails
<1>13. CASE PassMarks \/ PassMarkFails
  <2>1. held' \in [HeldIds -> HeldRow]
    BY <1>13, TableTypes DEF PassMarks, PassMarkFails
  <2>2. mishaps' \in Nat
    BY <1>13, MishapType DEF PassMarks, PassMarkFails
  <2> QED BY <1>13, <2>1, <2>2 DEF PassMarks, PassMarkFails
<1>14. CASE PassRunsLate
  <2>1. held' \in [HeldIds -> HeldRow]
    BY <1>14, HeldRowTypes DEF PassRunsLate, Claims
  <2>2. pass' \in Pass
    BY <1>14 DEF PassRunsLate, Pass
  <2> QED BY <1>14, <2>1, <2>2, MishapType DEF PassRunsLate
<1>15. ASSUME NEW b \in Briefs, BriefBegins(b) \/ BriefEnds(b) PROVE HeldTypeOK'
  <2>1. held' \in [HeldIds -> HeldRow]
    BY <1>15, TableTypes DEF BriefBegins, BriefEnds
  <2>2. NoBrief \in Brief /\ [NoBrief EXCEPT !.pc = "fanning", !.todo = Principals] \in Brief
    BY DEF NoBrief, Brief
  <2>3. brief' \in [Briefs -> Brief]
    BY <1>15, <2>2 DEF BriefBegins, BriefEnds
  <2> QED BY <1>15, <2>1, <2>3 DEF BriefBegins, BriefEnds
<1>16. ASSUME NEW b \in Briefs, NEW p \in Principals, BriefSkips(b, p) PROVE HeldTypeOK'
  BY <1>16 DEF BriefSkips, Brief
<1>17. ASSUME NEW b \in Briefs, NEW p \in Principals, BriefSends(b, p) PROVE HeldTypeOK'
  <2>1. held' \in [HeldIds -> HeldRow]
    BY <1>17, HeldRowTypes DEF BriefSends, Claims
  <2>2. pass' \in Pass
    BY <1>17 DEF BriefSends, Pass
  <2>3. [pc |-> "sending", todo |-> brief[b].todo \ {p}, ids |-> ForBrief(p)] \in Brief
    BY DEF Brief, ForBrief, OpenOf
  <2>4. brief' \in [Briefs -> Brief]
    BY <1>17, <2>3 DEF BriefSends
  <2> QED BY <1>17, <2>1, <2>2, <2>4 DEF BriefSends
<1>18. ASSUME NEW b \in Briefs PROVE OnToTheNext(b) \in [Briefs -> Brief]
  BY DEF OnToTheNext, Brief
<1>19. ASSUME NEW b \in Briefs, BriefDelivers(b) PROVE HeldTypeOK'
  BY <1>19, ArriveType DEF BriefDelivers, Brief
<1>20. ASSUME NEW b \in Briefs, BriefFails(b) PROVE HeldTypeOK'
  <2>1. held' \in [HeldIds -> HeldRow]
    BY <1>20, TableTypes DEF BriefFails
  <2>2. mishaps' \in Nat /\ delivered' \in [HeldIds -> Nat]
    BY <1>20, ArriveType, MishapType DEF BriefFails
  <2> QED BY <1>18, <1>20, <2>1, <2>2 DEF BriefFails
<1>21. ASSUME NEW b \in Briefs, BriefMarks(b) \/ BriefMarkFails(b) PROVE HeldTypeOK'
  <2>1. held' \in [HeldIds -> HeldRow]
    BY <1>21, TableTypes DEF BriefMarks, BriefMarkFails
  <2>2. mishaps' \in Nat
    BY <1>21, MishapType DEF BriefMarks, BriefMarkFails
  <2> QED BY <1>18, <1>21, <2>1, <2>2 DEF BriefMarks, BriefMarkFails
<1>22. ASSUME NEW b \in Briefs, BriefRunsLate(b) PROVE HeldTypeOK'
  BY <1>22, MishapType, HeldRowTypes DEF BriefRunsLate, Claims
<1>23. CASE HeldCrash
  <2>1. held' \in [HeldIds -> HeldRow]
    BY <1>23, HeldRowTypes DEF HeldCrash, Claims
  <2>2. NoBrief \in Brief
    BY DEF NoBrief, Brief
  <2> QED BY <1>23, <2>1, <2>2, MishapType DEF HeldCrash
<1> QED
  BY <1>1, <1>2, <1>3, <1>4, <1>5, <1>6, <1>7, <1>8, <1>9, <1>10, <1>11, <1>12, <1>13,
     <1>14, <1>15, <1>16, <1>17, <1>19, <1>20, <1>21, <1>22, <1>23
     DEF HeldNext, HeldClock, PassNext, BriefNext

\* Types: the table, the pass, the briefs and the counters hold what they may.
THEOREM HeldTypeCorrect == HeldSpec => []HeldTypeOK
  BY HeldTypeInit, HeldTypeStep, PTL DEF HeldSpec

-----------------------------------------------------------------------------
(* The table and its senders *)

LEMMA ArriveGrows ==
  ASSUME delivered \in [HeldIds -> Nat], NEW ids, Arrive(ids), NEW m \in HeldIds
  PROVE  /\ delivered'[m] = IF m \in ids THEN delivered[m] + 1 ELSE delivered[m]
         /\ delivered[m] > 0 => delivered'[m] > 0
         /\ m \in ids => delivered'[m] > 0
  BY DEF Arrive

\* What each statement does to the two columns the invariants speak of.
LEMMA HeldEffects ==
  ASSUME held \in [HeldIds -> HeldRow], NEW m \in HeldIds
  PROVE  /\ \A how : Gone(m, how).status = how /\ Gone(m, how).claim = "none"
         /\ \A ids, how :
              /\ Closed(ids, how)[m].status = IF m \in ids /\ IsOpen(m) THEN how ELSE held[m].status
              /\ Closed(ids, how)[m].claim = IF m \in ids /\ IsOpen(m) THEN "none" ELSE held[m].claim
         /\ \A ids :
              /\ Postponed(ids)[m].status = held[m].status
              /\ Postponed(ids)[m].claim = IF m \in ids /\ IsOpen(m) THEN "none" ELSE held[m].claim
         /\ \A ids :
              /\ Unclaimed(ids)[m].status = held[m].status
              /\ Unclaimed(ids)[m].claim = IF m \in ids /\ IsOpen(m) THEN "none" ELSE held[m].claim
         /\ \A ids, w :
              /\ Abandoned(ids, w)[m].status = held[m].status
              /\ Abandoned(ids, w)[m].claim = IF m \in ids /\ held[m].claim = w THEN "left" ELSE held[m].claim
         /\ \A people :
              /\ ReleaseDigestNow(people)[m].status = held[m].status
              /\ ReleaseDigestNow(people)[m].claim = held[m].claim
         /\ \A c : [held[m] EXCEPT !.claim = c].status = held[m].status /\ [held[m] EXCEPT !.claim = c].claim = c
         /\ [held[m] EXCEPT !.when = "due"].status = held[m].status
         /\ [held[m] EXCEPT !.when = "due"].claim = held[m].claim
         /\ [held[m] EXCEPT !.claim = "none", !.when = "later"].status = held[m].status
         /\ [held[m] EXCEPT !.claim = "none", !.when = "later"].claim = "none"
<1> USE DEF HeldRow
<1>1. \A how : Gone(m, how).status = how /\ Gone(m, how).claim = "none"
  BY DEF Gone
<1>2. ASSUME NEW ids, NEW how
      PROVE  /\ Closed(ids, how)[m].status = IF m \in ids /\ IsOpen(m) THEN how ELSE held[m].status
             /\ Closed(ids, how)[m].claim = IF m \in ids /\ IsOpen(m) THEN "none" ELSE held[m].claim
  BY DEF Closed, Gone
<1>3. ASSUME NEW ids
      PROVE  /\ Postponed(ids)[m].status = held[m].status
             /\ Postponed(ids)[m].claim = IF m \in ids /\ IsOpen(m) THEN "none" ELSE held[m].claim
  BY DEF Postponed
<1>4. ASSUME NEW ids
      PROVE  /\ Unclaimed(ids)[m].status = held[m].status
             /\ Unclaimed(ids)[m].claim = IF m \in ids /\ IsOpen(m) THEN "none" ELSE held[m].claim
  BY DEF Unclaimed
<1>5. ASSUME NEW ids, NEW w
      PROVE  /\ Abandoned(ids, w)[m].status = held[m].status
             /\ Abandoned(ids, w)[m].claim = IF m \in ids /\ held[m].claim = w THEN "left" ELSE held[m].claim
  BY DEF Abandoned
<1>6. ASSUME NEW people
      PROVE  /\ ReleaseDigestNow(people)[m].status = held[m].status
             /\ ReleaseDigestNow(people)[m].claim = held[m].claim
  BY DEF ReleaseDigestNow
<1>7. /\ \A c : [held[m] EXCEPT !.claim = c].status = held[m].status /\ [held[m] EXCEPT !.claim = c].claim = c
      /\ [held[m] EXCEPT !.when = "due"].status = held[m].status
      /\ [held[m] EXCEPT !.when = "due"].claim = held[m].claim
      /\ [held[m] EXCEPT !.claim = "none", !.when = "later"].status = held[m].status
      /\ [held[m] EXCEPT !.claim = "none", !.when = "later"].claim = "none"
  OBVIOUS
<1> QED
  BY <1>1, <1>2, <1>3, <1>4, <1>5, <1>6, <1>7

LEMMA PassEffects ==
  ASSUME pass \in Pass
  PROVE  /\ PassedOver.pc = pass.pc /\ PassedOver.ids = pass.ids /\ PassedOver.late = pass.late
         /\ PassedOver.todo = pass.todo \ Listed
         /\ PassMovesOn.pc = "listed" /\ PassMovesOn.ids = {} /\ PassMovesOn.late = pass.late
         /\ PassMovesOn.todo = pass.todo
         /\ NoPass.pc = "idle" /\ NoPass.ids = {} /\ NoPass.todo = {} /\ ~NoPass.late
  BY DEF PassedOver, PassMovesOn, NoPass, Pass

LEMMA HeldShapeInit == HeldInit => HeldShape
<1> SUFFICES ASSUME HeldInit PROVE HeldShape
  OBVIOUS
<1>1. HeldTypeOK
  BY HeldTypeInit
<1>2. ASSUME NEW m \in HeldIds PROVE RowAndSenders(m)
  BY DEF HeldInit, RowAndSenders, NoPass, NoBrief, IsOpen
<1> QED
  BY <1>1, <1>2 DEF HeldShape

LEMMA HeldShapeStep == HeldShape /\ [HeldNext]_heldVars => HeldShape'
<1> SUFFICES ASSUME HeldShape, [HeldNext]_heldVars PROVE HeldShape'
  OBVIOUS
<1>0. HeldTypeOK /\ HeldTypeOK'
  BY HeldTypeStep DEF HeldShape
<1> SUFFICES ASSUME NEW m \in HeldIds PROVE RowAndSenders(m)'
  BY <1>0 DEF HeldShape
<1> RowAndSenders(m)
  BY DEF HeldShape
<1> held[m] \in HeldRow /\ held'[m] \in HeldRow
  BY <1>0 DEF HeldTypeOK
<1> delivered \in [HeldIds -> Nat] /\ brief \in [Briefs -> Brief] /\ pass \in Pass
  BY <1>0 DEF HeldTypeOK
<1>s. held \in [HeldIds -> HeldRow]
  BY <1>0 DEF HeldTypeOK
<1> USE HeldAssumption DEF RowAndSenders, IsOpen
<1>1. CASE UNCHANGED heldVars
  BY <1>1 DEF heldVars
<1>2. ASSUME NEW p \in People, NEW when \in {"digest", "later"}, Hold(p, when) PROVE RowAndSenders(m)'
  <2>1. PICK n \in HeldIds :
          /\ held[n].status = "none"
          /\ held' = [k \in HeldIds |->
                        IF k = n
                        THEN [status |-> "open", person |-> p, when |-> when, age |-> 0,
                              claim |-> "none"]
                        ELSE IF k \in BeyondCap(p) THEN Gone(k, "capped")
                        ELSE held[k]]
    BY <1>2 DEF Hold
  <2>2. UNCHANGED <<pass, brief, mishaps, delivered>>
    BY <1>2 DEF Hold
  <2>3. CASE m = n
    BY <2>1, <2>2, <2>3
  <2>4. CASE m # n /\ m \in BeyondCap(p)
    <3>1. held'[m].status = "capped" /\ held'[m].claim = "none" /\ IsOpen(m)
      BY <1>s, <2>1, <2>4, HeldEffects DEF BeyondCap, OpenOf
    <3> QED BY <2>2, <3>1
  <2>5. CASE m # n /\ m \notin BeyondCap(p)
    <3>1. held'[m] = held[m]
      BY <2>1, <2>5
    <3> QED BY <2>2, <3>1
  <2> QED BY <2>3, <2>4, <2>5
<1>3. ASSUME NEW p \in People, ChangesDelivery(p) \/ ReleaseQuietNow(p) PROVE RowAndSenders(m)'
  <2>1. held'[m].status = held[m].status /\ held'[m].claim = held[m].claim
    <3>1. CASE ChangesDelivery(p)
      BY <1>s, <3>1, HeldEffects DEF ChangesDelivery
    <3>2. CASE ReleaseQuietNow(p)
      <4>1. held'[m] = held[m] \/ held'[m] = [held[m] EXCEPT !.when = "due"]
        BY <3>2 DEF ReleaseQuietNow
      <4> QED BY <4>1 DEF HeldRow
    <3> QED BY <1>3, <3>1, <3>2
  <2> QED BY <1>3, <2>1 DEF ChangesDelivery, ReleaseQuietNow
<1>4. ASSUME NEW n \in HeldIds, ComesDue(n) \/ GrowsOld(n) \/ Lapses(n) PROVE RowAndSenders(m)'
  <2>1. CASE ComesDue(n)
    BY <1>s, <2>1 DEF ComesDue, HeldRow
  <2>2. CASE GrowsOld(n)
    <3> DEFINE a == held[n].age + 1
    <3>1. held' = [held EXCEPT ![n].age = a] /\ UNCHANGED <<pass, brief, mishaps, delivered>>
      BY <2>2 DEF GrowsOld
    <3> HIDE DEF a
    <3> QED BY <1>s, <3>1 DEF HeldRow
  <2>3. CASE Lapses(n)
    BY <1>s, <2>3 DEF Lapses, HeldRow
  <2> QED BY <1>4, <2>1, <2>2, <2>3
<1>5. CASE PassBegins
  BY <1>5, <1>s, HeldEffects, PassEffects DEF PassBegins, NoPass, IsDue
<1>6. CASE PassSkips \/ PassDies \/ PassEnds
  BY <1>6, <1>s, HeldEffects, PassEffects DEF PassSkips, PassDies, PassEnds, NextPerson
<1>7. CASE PassDrops
  BY <1>7, <1>s, HeldEffects, PassEffects DEF PassDrops, NextPerson
<1>8. CASE PassPostpones
  <2>1. \/ held'[m].status = "dropped" /\ held'[m].claim = "none" /\ IsOpen(m)
        \/ held'[m].status = held[m].status /\ held'[m].claim = "none"
        \/ held'[m] = held[m]
    <3>1. \/ m \in Got /\ held'[m] = Gone(m, "dropped")
          \/ held'[m] = [held[m] EXCEPT !.claim = "none", !.when = "later"]
          \/ held'[m] = held[m]
      BY <1>8 DEF PassPostpones
    <3>2. m \in Got => IsOpen(m)
      BY DEF Got, PassCanTake
    <3> QED BY <3>1, <3>2 DEF Gone, HeldRow
  <2> QED BY <1>8, <2>1, PassEffects DEF PassPostpones, NextPerson
<1>9. CASE PassSends
  BY <1>9, <1>s, HeldEffects, PassEffects DEF PassSends, NextPerson, Got, PassCanTake
<1>10. CASE PassDelivers
  BY <1>10, <1>s, HeldEffects, PassEffects, ArriveGrows DEF PassDelivers
<1>11. CASE PassFails
  BY <1>11, <1>s, HeldEffects, PassEffects, ArriveGrows DEF PassFails
<1>12. CASE PassMarks \/ PassMarkFails
  BY <1>12, <1>s, HeldEffects, PassEffects DEF PassMarks, PassMarkFails
<1>13. CASE PassRunsLate
  BY <1>13, <1>s, HeldEffects, PassEffects DEF PassRunsLate
<1>14. ASSUME NEW b \in Briefs, BriefBegins(b) \/ BriefEnds(b) PROVE RowAndSenders(m)'
  <2>1. held'[m].status = held[m].status /\ held'[m].claim = held[m].claim
    BY <1>14, <1>s, HeldEffects DEF BriefBegins, BriefEnds
  <2>2. \A c \in Briefs : brief'[c] = brief[c] \/ (brief'[c].pc # "sent" /\ brief'[c].ids = {})
    <3>1. NoBrief.pc = "idle" /\ NoBrief.ids = {}
      BY DEF NoBrief
    <3>2. [NoBrief EXCEPT !.pc = "fanning", !.todo = Principals].pc = "fanning"
      BY DEF NoBrief
    <3>3. [NoBrief EXCEPT !.pc = "fanning", !.todo = Principals].ids = {}
      BY DEF NoBrief
    <3> QED BY <1>14, <3>1, <3>2, <3>3 DEF BriefBegins, BriefEnds
  <2> QED BY <1>14, <2>1, <2>2 DEF BriefBegins, BriefEnds
<1>15. ASSUME NEW b \in Briefs, NEW p \in Principals, BriefSkips(b, p) PROVE RowAndSenders(m)'
  BY <1>15, <1>s, HeldEffects, PassEffects DEF BriefSkips
<1>16. ASSUME NEW b \in Briefs, NEW p \in Principals, BriefSends(b, p) PROVE RowAndSenders(m)'
  BY <1>16, <1>s, HeldEffects, PassEffects DEF BriefSends, ForBrief, OpenOf
<1>17. ASSUME NEW b \in Briefs, BriefDelivers(b) PROVE RowAndSenders(m)'
  BY <1>17, <1>s, HeldEffects, PassEffects, ArriveGrows DEF BriefDelivers
<1>18. ASSUME NEW b \in Briefs, BriefFails(b) PROVE RowAndSenders(m)'
  BY <1>18, <1>s, HeldEffects, PassEffects, ArriveGrows DEF BriefFails, OnToTheNext
<1>19. ASSUME NEW b \in Briefs, BriefMarks(b) \/ BriefMarkFails(b) PROVE RowAndSenders(m)'
  BY <1>19, <1>s, HeldEffects, PassEffects DEF BriefMarks, BriefMarkFails, OnToTheNext
<1>20. ASSUME NEW b \in Briefs, BriefRunsLate(b) PROVE RowAndSenders(m)'
  BY <1>20, <1>s, HeldEffects, PassEffects DEF BriefRunsLate
<1>21. CASE HeldCrash
  BY <1>21, <1>s, HeldEffects, PassEffects DEF HeldCrash, NoPass, NoBrief
<1> QED
  BY <1>1, <1>2, <1>3, <1>4, <1>5, <1>6, <1>7, <1>8, <1>9, <1>10, <1>11, <1>12, <1>13,
     <1>14, <1>15, <1>16, <1>17, <1>18, <1>19, <1>20, <1>21
     DEF HeldNext, HeldClock, PassNext, BriefNext

-----------------------------------------------------------------------------
(* How often a message arrives *)

LEMMA FlightFinite ==
  ASSUME NEW m
  PROVE  IsFiniteSet(InFlight(m)) /\ Cardinality(InFlight(m)) \in Nat
<1>1. IsFiniteSet({"pass"}) /\ IsFiniteSet(Briefs)
  BY HeldAssumption, FS_Singleton
<1>2. IsFiniteSet(HeldSenders)
  BY <1>1, FS_Union DEF HeldSenders
<1>3. InFlight(m) \subseteq HeldSenders
  BY DEF InFlight
<1> QED
  BY <1>2, <1>3, FS_Subset, FS_CardinalityType

LEMMA LoadIsNat ==
  ASSUME HeldTypeOK, NEW m \in HeldIds
  PROVE  Load(m) \in Nat /\ delivered[m] \in Nat /\ delivered[m] <= Load(m)
  BY FlightFinite DEF HeldTypeOK, Load

\* No send of m starts or ends.
LEMMA LoadSame ==
  ASSUME NEW m, delivered'[m] = delivered[m],
         \A w \in HeldSenders : IsSending(w, m)' <=> IsSending(w, m)
  PROVE  Load(m)' = Load(m)
<1>1. InFlight(m)' = InFlight(m)
  BY DEF InFlight, HeldSenders
<1> QED
  BY <1>1 DEF Load

\* w starts to send m.
LEMMA LoadTaken ==
  ASSUME NEW m \in HeldIds, HeldTypeOK, delivered'[m] = delivered[m],
         NEW w \in HeldSenders, ~IsSending(w, m), IsSending(w, m)',
         \A v \in HeldSenders \ {w} : IsSending(v, m)' <=> IsSending(v, m)
  PROVE  Load(m)' = Load(m) + 1
<1>1. InFlight(m)' = InFlight(m) \cup {w}
  BY DEF InFlight, HeldSenders
<1>2. w \notin InFlight(m)
  BY DEF InFlight
<1>3. Cardinality(InFlight(m) \cup {w}) = Cardinality(InFlight(m)) + 1
  BY <1>2, FlightFinite, FS_AddElement
<1>4. Cardinality(InFlight(m))' = Cardinality(InFlight(m)) + 1
  BY <1>1, <1>3
<1> QED
  BY <1>4, FlightFinite DEF Load, HeldTypeOK

\* w's send of m ends, delivered or not.
LEMMA LoadLands ==
  ASSUME NEW m \in HeldIds, HeldTypeOK, HeldTypeOK',
         NEW w \in HeldSenders, IsSending(w, m), ~IsSending(w, m)',
         \A v \in HeldSenders \ {w} : IsSending(v, m)' <=> IsSending(v, m)
  PROVE  Load(m)' = Load(m) - 1 + (delivered'[m] - delivered[m])
<1>1. InFlight(m)' = InFlight(m) \ {w}
  BY DEF InFlight, HeldSenders
<1>2. w \in InFlight(m)
  BY DEF InFlight
<1>3. Cardinality(InFlight(m) \ {w}) = Cardinality(InFlight(m)) - 1
  BY <1>2, FlightFinite, FS_RemoveElement
<1>4. Cardinality(InFlight(m))' = Cardinality(InFlight(m)) - 1
  BY <1>1, <1>3
<1>5. delivered[m] \in Nat /\ delivered'[m] \in Nat
  BY DEF HeldTypeOK
<1> QED
  BY <1>4, <1>5, FlightFinite DEF Load

\* A step that starts and ends no send of m; but for a mishap, it does not
\* make the row claimable, nor drop one that was not.
QuietStep(m) ==
  /\ Load(m)' = Load(m)
  /\ mishaps' \in {mishaps, mishaps + 1}
  /\ pass'.late /\ m \in pass'.todo => m \in pass.todo
  /\ mishaps' = mishaps =>
       /\ MayBeTaken(m)' => MayBeTaken(m)
       /\ held'[m].status = "dropped" => held[m].status = "dropped" \/ MayBeTaken(m)
       /\ pass'.late => pass.late \/ m \notin pass'.todo
  /\ mishaps' # mishaps /\ pass'.late /\ m \in pass'.todo =>
       pass.late \/ (MayBeTaken(m)' => MayBeTaken(m))

LEMMA HeldQuietKeeps ==
  ASSUME NEW m \in HeldIds, HeldTypeOK, LoadBounded(m), QuietStep(m)
  PROVE  LoadBounded(m)'
<1> DEFINE L == Load(m)
<1>1. L \in Nat /\ mishaps \in Nat
  BY LoadIsNat DEF HeldTypeOK
<1> HIDE DEF L
<1>2. Load(m)' = L /\ Load(m) = L
  BY DEF L, QuietStep
<1>3. /\ L <= 1 + mishaps
      /\ MayBeTaken(m) \/ held[m].status = "dropped" => L <= mishaps
      /\ pass.late /\ m \in pass.todo => L <= mishaps /\ (MayBeTaken(m) => L + 1 <= mishaps)
  BY <1>2 DEF LoadBounded
<1> SUFFICES /\ L <= 1 + mishaps'
             /\ MayBeTaken(m)' \/ held'[m].status = "dropped" => L <= mishaps'
             /\ pass'.late /\ m \in pass'.todo =>
                  L <= mishaps' /\ (MayBeTaken(m)' => L + 1 <= mishaps')
  BY <1>2 DEF LoadBounded
<1>4. CASE mishaps' = mishaps
  BY <1>1, <1>3, <1>4 DEF QuietStep
<1>5. CASE mishaps' = mishaps + 1
  BY <1>1, <1>3, <1>5 DEF QuietStep
<1> QED
  BY <1>4, <1>5 DEF QuietStep

LEMMA LoadInit == HeldInit => LoadsBounded
<1> SUFFICES ASSUME HeldInit, NEW m \in HeldIds PROVE LoadBounded(m)
  BY DEF LoadsBounded
<1>1. InFlight(m) = {}
  BY DEF HeldInit, InFlight, IsSending, HeldSenders, NoPass, NoBrief
<1>2. Load(m) = 0 /\ mishaps = 0
  BY <1>1, FS_EmptySet DEF Load, HeldInit
<1>3. held[m].status = "none" /\ pass.todo = {}
  BY DEF HeldInit, NoPass
<1> QED
  BY <1>2, <1>3 DEF LoadBounded, MayBeTaken, IsOpen

\* The steps that only change the table, and begin or end a pass or a fan-out.
LEMMA TableStepsAreQuiet ==
  ASSUME HeldShape, HeldShape', LoadsBounded, NEW m \in HeldIds,
         \/ UNCHANGED heldVars
         \/ \E p \in People : ChangesDelivery(p) \/ ReleaseQuietNow(p)
         \/ \E n \in HeldIds : ComesDue(n) \/ GrowsOld(n) \/ Lapses(n)
         \/ PassBegins \/ PassSkips \/ PassDrops \/ PassPostpones \/ PassDies \/ PassEnds
         \/ \E b \in Briefs : BriefBegins(b) \/ BriefEnds(b)
         \/ \E b \in Briefs, p \in Principals : BriefSkips(b, p)
  PROVE  QuietStep(m)
<1>0. HeldTypeOK /\ HeldTypeOK'
  BY DEF HeldShape
<1>s. held \in [HeldIds -> HeldRow] /\ held[m] \in HeldRow /\ held'[m] \in HeldRow
  BY <1>0 DEF HeldTypeOK
<1>t. pass \in Pass /\ brief \in [Briefs -> Brief]
  BY <1>0 DEF HeldTypeOK
<1>1. UNCHANGED <<mishaps, delivered>>
  BY DEF heldVars, ChangesDelivery, ReleaseQuietNow, ComesDue, GrowsOld, Lapses, PassBegins,
     PassSkips, PassDrops, PassPostpones, PassDies, PassEnds, NextPerson, BriefBegins,
     BriefEnds, BriefSkips
<1>2. \A w \in HeldSenders : IsSending(w, m)' <=> IsSending(w, m)
  <2>1. pass' = pass \/ (pass.pc \in {"idle", "listed"} /\ pass'.pc \in {"idle", "listed"})
    BY <1>t, PassEffects DEF heldVars, ChangesDelivery, ReleaseQuietNow, ComesDue, GrowsOld,
       Lapses, PassBegins, PassSkips, PassDrops, PassPostpones, PassDies, PassEnds, NextPerson,
       BriefBegins, BriefEnds, BriefSkips, NoPass
  <2>2. \A b \in Briefs : \/ brief'[b] = brief[b]
                          \/ brief[b].pc # "sending" /\ brief'[b].pc # "sending"
    <3>1. NoBrief.pc = "idle" /\ [NoBrief EXCEPT !.pc = "fanning", !.todo = Principals].pc = "fanning"
      BY DEF NoBrief
    <3>2. ASSUME NEW b \in Briefs, BriefBegins(b) \/ BriefEnds(b)
          PROVE  brief[b].pc # "sending" /\ brief'[b].pc # "sending"
                 /\ \A c \in Briefs \ {b} : brief'[c] = brief[c]
      BY <1>t, <3>1, <3>2 DEF BriefBegins, BriefEnds
    <3>3. ASSUME NEW b \in Briefs, NEW p \in Principals, BriefSkips(b, p)
          PROVE  brief[b].pc # "sending" /\ brief'[b].pc # "sending"
                 /\ \A c \in Briefs \ {b} : brief'[c] = brief[c]
      BY <1>t, <3>3 DEF BriefSkips, Brief
    <3>4. \/ UNCHANGED brief
          \/ \E b \in Briefs : BriefBegins(b) \/ BriefEnds(b)
          \/ \E b \in Briefs, p \in Principals : BriefSkips(b, p)
      BY DEF heldVars, ChangesDelivery, ReleaseQuietNow, ComesDue, GrowsOld,
         Lapses, PassBegins, PassSkips, PassDrops, PassPostpones, PassDies, PassEnds, NextPerson
    <3> QED BY <3>2, <3>3, <3>4
  <2> QED BY <2>1, <2>2, HeldAssumption DEF IsSending, HeldSenders
<1>3. Load(m)' = Load(m)
  BY <1>1, <1>2, LoadSame
<1>4. pass'.late /\ m \in pass'.todo => pass.late /\ m \in pass.todo
  BY <1>t, PassEffects DEF heldVars, ChangesDelivery, ReleaseQuietNow, ComesDue, GrowsOld,
     Lapses, PassBegins, PassSkips, PassDrops, PassPostpones, PassDies, PassEnds, NextPerson,
     BriefBegins, BriefEnds, BriefSkips, NoPass
<1>5. \/ held'[m].status = held[m].status /\ held'[m].claim = held[m].claim
      \/ MayBeTaken(m)
  <2> DEFINE Same == held'[m].status = held[m].status /\ held'[m].claim = held[m].claim
  <2>1. ASSUME NEW p \in People, ChangesDelivery(p) PROVE Same
    BY <1>s, <2>1, HeldEffects DEF ChangesDelivery
  <2>2. ASSUME NEW p \in People, ReleaseQuietNow(p) PROVE Same
    <3>1. held'[m] = held[m] \/ held'[m] = [held[m] EXCEPT !.when = "due"]
      BY <2>2 DEF ReleaseQuietNow
    <3> QED BY <1>s, <3>1 DEF HeldRow
  <2>3. ASSUME NEW n \in HeldIds, ComesDue(n) \/ Lapses(n) PROVE Same \/ MayBeTaken(m)
    BY <1>s, <2>3 DEF ComesDue, Lapses, MayBeTaken, HeldRow
  <2>4. ASSUME NEW n \in HeldIds, GrowsOld(n) PROVE Same
    <3> DEFINE a == held[n].age + 1
    <3>1. held' = [held EXCEPT ![n].age = a]
      BY <2>4 DEF GrowsOld
    <3> HIDE DEF a
    <3> QED BY <1>s, <3>1 DEF HeldRow
  <2>5. m \in Got => MayBeTaken(m)
    BY DEF Got, PassCanTake, MayBeTaken
  <2>6. CASE PassDrops \/ PassPostpones
    <3>1. held'[m] = held[m] \/ m \in Got
      BY <2>6 DEF PassDrops, PassPostpones, Closed
    <3> QED BY <2>5, <3>1
  <2>7. ASSUME NEW b \in Briefs, BriefEnds(b) PROVE Same
    BY <1>s, <2>7, HeldEffects DEF BriefEnds
  <2>8. CASE \/ UNCHANGED heldVars
             \/ PassBegins \/ PassSkips \/ PassDies \/ PassEnds
             \/ \E b \in Briefs : BriefBegins(b)
             \/ \E b \in Briefs, p \in Principals : BriefSkips(b, p)
    BY <2>8 DEF heldVars, PassBegins, PassSkips, PassDies, PassEnds, BriefBegins, BriefSkips
  <2> QED BY <2>1, <2>2, <2>3, <2>4, <2>6, <2>7, <2>8
<1> QED
  BY <1>1, <1>3, <1>4, <1>5, <1>0 DEF QuietStep, MayBeTaken, IsOpen, HeldTypeOK

\* A message in a send that somebody starts or ends: the others stand still.
LEMMA PassAlone ==
  ASSUME NEW m, brief' = brief
  PROVE  \A v \in HeldSenders \ {"pass"} : IsSending(v, m)' <=> IsSending(v, m)
  BY DEF IsSending

LEMMA BriefAlone ==
  ASSUME brief \in [Briefs -> Brief], NEW m, NEW b \in Briefs, NEW x,
         brief' = [brief EXCEPT ![b] = x], pass'.pc = pass.pc, pass'.ids = pass.ids
  PROVE  \A v \in HeldSenders \ {b} : IsSending(v, m)' <=> IsSending(v, m)
  BY HeldAssumption DEF IsSending, HeldSenders

\* hold: the new row has no sender, and what the cap drops is not counted.
LEMMA HoldKeepsLoads ==
  ASSUME HeldShape, HeldShape', LoadsBounded, NEW m \in HeldIds, NEW p, NEW when, Hold(p, when)
  PROVE  LoadBounded(m)'
<1>0. HeldTypeOK /\ HeldTypeOK' /\ LoadBounded(m) /\ RowAndSenders(m)
  BY DEF HeldShape, LoadsBounded
<1>s. held \in [HeldIds -> HeldRow] /\ mishaps \in Nat
  BY <1>0 DEF HeldTypeOK
<1>1. UNCHANGED <<pass, brief, mishaps, delivered>>
  BY DEF Hold
<1>2. Load(m)' = Load(m)
  BY <1>1, LoadSame DEF IsSending
<1>3. PICK n \in HeldIds :
        /\ held[n].status = "none"
        /\ held' = [k \in HeldIds |->
                      IF k = n
                      THEN [status |-> "open", person |-> p, when |-> when, age |-> 0,
                            claim |-> "none"]
                      ELSE IF k \in BeyondCap(p) THEN Gone(k, "capped")
                      ELSE held[k]]
  BY DEF Hold
<1>4. CASE m = n
  <2>1. InFlight(m) = {}
    BY <1>0, <1>3, <1>4 DEF InFlight, IsSending, HeldSenders, RowAndSenders
  <2>2. Load(m) = 0
    BY <1>0, <1>3, <1>4, <2>1, FS_EmptySet DEF Load, RowAndSenders
  <2>3. m \notin pass.todo
    BY <1>0, <1>3, <1>4 DEF RowAndSenders
  <2> QED BY <1>s, <1>1, <1>2, <2>2, <2>3 DEF LoadBounded
<1>5. CASE m # n
  <2>1. held'[m] = held[m] \/ (held'[m].status = "capped")
    BY <1>s, <1>3, <1>5, HeldEffects
  <2>2. QuietStep(m)
    BY <1>0, <1>1, <1>2, <2>1 DEF QuietStep, MayBeTaken, IsOpen
  <2> QED BY <1>0, <2>2, HeldQuietKeeps
<1> QED
  BY <1>4, <1>5

\* Marking ends a send that has arrived; a mark that is lost, like a send that
\* outlasts its claim, is a mishap.
LEMMA MarksKeepLoads ==
  ASSUME HeldShape, HeldShape', LoadsBounded, NEW m \in HeldIds,
         \/ PassMarks \/ PassMarkFails \/ PassRunsLate
         \/ \E b \in Briefs : BriefMarks(b) \/ BriefMarkFails(b) \/ BriefRunsLate(b)
  PROVE  LoadBounded(m)'
<1>0. HeldTypeOK /\ HeldTypeOK' /\ LoadBounded(m) /\ RowAndSenders(m)
  BY DEF HeldShape, LoadsBounded
<1>s. /\ held \in [HeldIds -> HeldRow] /\ held[m] \in HeldRow /\ mishaps \in Nat
      /\ pass \in Pass /\ brief \in [Briefs -> Brief]
  BY <1>0 DEF HeldTypeOK
<1>1. UNCHANGED delivered
  BY DEF PassMarks, PassMarkFails, PassRunsLate, BriefMarks, BriefMarkFails, BriefRunsLate
<1>2. \A w \in HeldSenders : IsSending(w, m)' <=> IsSending(w, m)
  <2>1. CASE PassMarks \/ PassMarkFails \/ PassRunsLate
    BY <1>s, <2>1, PassEffects
       DEF PassMarks, PassMarkFails, PassRunsLate, IsSending, HeldSenders, Pass
  <2>2. ASSUME NEW b \in Briefs, BriefMarks(b) \/ BriefMarkFails(b)
        PROVE  \A w \in HeldSenders : IsSending(w, m)' <=> IsSending(w, m)
    BY <1>s, <2>2, HeldAssumption
       DEF BriefMarks, BriefMarkFails, OnToTheNext, IsSending, HeldSenders, Brief
  <2>3. ASSUME NEW b \in Briefs, BriefRunsLate(b)
        PROVE  \A w \in HeldSenders : IsSending(w, m)' <=> IsSending(w, m)
    BY <2>3 DEF BriefRunsLate, IsSending
  <2> QED BY <2>1, <2>2, <2>3
<1>3. Load(m)' = Load(m)
  BY <1>1, <1>2, LoadSame
<1>4. QuietStep(m)
  <2>1. CASE PassMarks \/ \E b \in Briefs : BriefMarks(b)
    <3>1. /\ \/ held'[m].status = held[m].status /\ held'[m].claim = held[m].claim
             \/ held'[m].status = "sent"
          /\ mishaps' = mishaps
          /\ pass'.late = pass.late /\ pass'.todo = pass.todo
      BY <1>s, <2>1, HeldEffects, PassEffects DEF PassMarks, BriefMarks
    <3> QED BY <1>s, <1>3, <3>1 DEF QuietStep, MayBeTaken, IsOpen
  <2>2. CASE PassMarkFails \/ \E b \in Briefs : BriefMarkFails(b)
    <3>1. mishaps' = mishaps + 1 /\ pass'.late = pass.late /\ pass'.todo = pass.todo
      BY <1>s, <2>2, PassEffects DEF PassMarkFails, BriefMarkFails, Mishap
    <3> QED BY <1>s, <1>3, <3>1 DEF QuietStep
  <2>3. ASSUME NEW b \in Briefs, BriefRunsLate(b) PROVE QuietStep(m)
    <3>1. mishaps' = mishaps + 1 /\ pass' = pass
      BY <1>s, <2>3 DEF BriefRunsLate, Mishap
    <3> QED BY <1>s, <1>3, <3>1 DEF QuietStep
  <2>4. CASE PassRunsLate
    <3>1. mishaps' = mishaps + 1 /\ pass'.todo = pass.todo
      BY <1>s, <2>4 DEF PassRunsLate, Mishap, Pass
    <3>2. m \in pass.todo => held'[m] = held[m]
      BY <1>0, <1>s, <2>4 DEF PassRunsLate, RowAndSenders
    <3> QED BY <1>s, <1>3, <3>1, <3>2 DEF QuietStep, MayBeTaken, IsOpen
  <2> QED BY <2>1, <2>2, <2>3, <2>4
<1> QED
  BY <1>0, <1>4, HeldQuietKeeps

\* Sends begin: the row had an arrival to spare, and two if its claim is
\* lapsed from birth.
LEMMA SendsKeepLoads ==
  ASSUME HeldShape, HeldShape', LoadsBounded, NEW m \in HeldIds,
         PassSends \/ \E b \in Briefs, p \in Principals : BriefSends(b, p)
  PROVE  LoadBounded(m)'
<1>0. HeldTypeOK /\ HeldTypeOK' /\ LoadBounded(m) /\ RowAndSenders(m)
  BY DEF HeldShape, LoadsBounded
<1>s. /\ held \in [HeldIds -> HeldRow] /\ held[m] \in HeldRow /\ mishaps \in Nat
      /\ pass \in Pass /\ brief \in [Briefs -> Brief]
  BY <1>0 DEF HeldTypeOK
<1>1. UNCHANGED <<mishaps, delivered>>
  BY DEF PassSends, NextPerson, BriefSends
<1>n. Load(m) \in Nat
  BY <1>0, LoadIsNat
<1>2. CASE PassSends
  <2>1. /\ pass.pc = "listed" /\ brief' = brief
        /\ pass'.pc = "sending" /\ pass'.ids = Got \ pass.old
        /\ pass'.late = pass.late /\ pass'.todo = pass.todo \ Listed
    <3>1. PassedOver \in Pass
      BY <1>s DEF PassedOver, Pass
    <3> QED BY <1>2, <1>s, <3>1, PassEffects DEF PassSends, NextPerson, Pass
  <2>2. m \in Got => MayBeTaken(m) /\ m \in Listed /\ m \in pass.todo
    BY DEF Got, PassCanTake, MayBeTaken, Listed
  <2>3. CASE m \in Got \ pass.old
    <3>1. ~IsSending("pass", m) /\ IsSending("pass", m)'
      BY <2>1, <2>3 DEF IsSending
    <3>2. Load(m)' = Load(m) + 1
      BY <1>0, <1>1, <2>1, <3>1, PassAlone, LoadTaken DEF HeldSenders
    <3>3. held'[m].status = "open" /\ held'[m].claim = IF pass.late THEN "stale" ELSE "pass"
      BY <1>2, <1>s, <2>2, <2>3 DEF PassSends, HeldRow, MayBeTaken, IsOpen
    <3>4. Load(m) <= mishaps /\ (pass.late => Load(m) + 1 <= mishaps)
      BY <1>0, <2>2, <2>3 DEF LoadBounded
    <3>5. m \notin pass'.todo
      BY <2>1, <2>2, <2>3
    <3>6. ~pass.late => ~MayBeTaken(m)'
      BY <3>3 DEF MayBeTaken
    <3> QED BY <1>s, <1>n, <1>1, <3>2, <3>3, <3>4, <3>5, <3>6 DEF LoadBounded
  <2>4. CASE m \notin Got \ pass.old
    <3>1. Load(m)' = Load(m)
      BY <1>1, <2>1, <2>4, LoadSame DEF IsSending
    <3>2. held'[m] = held[m] \/ MayBeTaken(m)
      BY <1>2, <2>2, <2>4 DEF PassSends
    <3>3. QuietStep(m)
      BY <1>1, <2>1, <3>1, <3>2 DEF QuietStep, MayBeTaken, IsOpen
    <3> QED BY <1>0, <3>3, HeldQuietKeeps
  <2> QED BY <2>3, <2>4
<1>3. ASSUME NEW b \in Briefs, NEW p \in Principals, BriefSends(b, p) PROVE LoadBounded(m)'
  <2> DEFINE x == [pc |-> "sending", todo |-> brief[b].todo \ {p}, ids |-> ForBrief(p)]
  <2>1. /\ brief' = [brief EXCEPT ![b] = x] /\ brief[b].pc = "fanning"
        /\ pass'.pc = pass.pc /\ pass'.ids = pass.ids
        /\ pass'.late = pass.late /\ pass'.todo = pass.todo
    BY <1>3, <1>s DEF BriefSends, Pass
  <2>2. m \in ForBrief(p) => IsOpen(m) /\ MayBeTaken(m)
    BY DEF ForBrief, OpenOf, BriefCanTake, MayBeTaken
  <2>3. brief'[b].pc = "sending" /\ brief'[b].ids = ForBrief(p)
    BY <1>s, <2>1
  <2> HIDE DEF x
  <2>4. \A v \in HeldSenders \ {b} : IsSending(v, m)' <=> IsSending(v, m)
    BY <1>s, <2>1, BriefAlone
  <2>5. CASE m \in ForBrief(p)
    <3>1. ~IsSending(b, m) /\ IsSending(b, m)'
      BY <2>1, <2>3, <2>5, HeldAssumption DEF IsSending
    <3>2. Load(m)' = Load(m) + 1
      BY <1>0, <1>1, <2>4, <3>1, LoadTaken DEF HeldSenders
    <3>3. held'[m].status = "open" /\ held'[m].claim = b
      BY <1>3, <1>s, <2>2, <2>5 DEF BriefSends, HeldRow, IsOpen
    <3>4. Load(m) <= mishaps /\ (pass.late /\ m \in pass.todo => Load(m) + 1 <= mishaps)
      BY <1>0, <2>2, <2>5 DEF LoadBounded
    <3>5. ~MayBeTaken(m)'
      BY <3>3, HeldAssumption DEF MayBeTaken
    <3> QED BY <1>s, <1>n, <1>1, <2>1, <3>2, <3>3, <3>4, <3>5 DEF LoadBounded
  <2>6. CASE m \notin ForBrief(p)
    <3>1. ~IsSending(b, m) /\ ~IsSending(b, m)'
      BY <2>1, <2>3, <2>6, HeldAssumption DEF IsSending
    <3>2. Load(m)' = Load(m)
      BY <1>1, <2>4, <3>1, LoadSame
    <3>3. held'[m] = held[m]
      BY <1>3, <2>6 DEF BriefSends
    <3>4. QuietStep(m)
      BY <1>1, <2>1, <3>2, <3>3 DEF QuietStep, MayBeTaken, IsOpen
    <3> QED BY <1>0, <3>4, HeldQuietKeeps
  <2> QED BY <2>5, <2>6
<1> QED
  BY <1>2, <1>3

\* A message arrives: one more delivered, one less in flight.
LEMMA DeliveriesKeepLoads ==
  ASSUME HeldShape, HeldShape', LoadsBounded, NEW m \in HeldIds,
         PassDelivers \/ \E b \in Briefs : BriefDelivers(b)
  PROVE  LoadBounded(m)'
<1>0. HeldTypeOK /\ HeldTypeOK' /\ LoadBounded(m)
  BY DEF HeldShape, LoadsBounded
<1>s. /\ mishaps \in Nat /\ pass \in Pass /\ brief \in [Briefs -> Brief]
      /\ delivered \in [HeldIds -> Nat]
  BY <1>0 DEF HeldTypeOK
<1>n. Load(m) \in Nat /\ delivered[m] \in Nat
  BY <1>0, LoadIsNat
<1>1. held' = held /\ mishaps' = mishaps /\ pass'.late = pass.late /\ pass'.todo = pass.todo
  BY <1>s DEF PassDelivers, BriefDelivers, Pass
<1>2. Load(m)' = Load(m)
  <2>1. CASE PassDelivers
    <3>1. /\ pass.pc = "sending" /\ pass'.pc = "sent" /\ brief' = brief
          /\ delivered'[m] = IF m \in pass.ids THEN delivered[m] + 1 ELSE delivered[m]
      BY <1>s, <2>1, ArriveGrows DEF PassDelivers, Pass
    <3>2. ~IsSending("pass", m)' /\ (IsSending("pass", m) <=> m \in pass.ids)
      BY <3>1 DEF IsSending
    <3>3. CASE m \in pass.ids
      BY <1>0, <1>n, <3>1, <3>2, <3>3, PassAlone, LoadLands DEF HeldSenders
    <3>4. CASE m \notin pass.ids
      BY <3>1, <3>2, <3>4, PassAlone, LoadSame
    <3> QED BY <3>3, <3>4
  <2>2. ASSUME NEW b \in Briefs, BriefDelivers(b) PROVE Load(m)' = Load(m)
    <3>1. /\ brief[b].pc = "sending" /\ brief'[b].pc = "sent" /\ pass' = pass
          /\ delivered'[m] = IF m \in brief[b].ids THEN delivered[m] + 1 ELSE delivered[m]
      BY <1>s, <2>2, ArriveGrows DEF BriefDelivers, Brief
    <3>2. ~IsSending(b, m)' /\ (IsSending(b, m) <=> m \in brief[b].ids)
      BY <3>1, HeldAssumption DEF IsSending
    <3>3. \A v \in HeldSenders \ {b} : IsSending(v, m)' <=> IsSending(v, m)
      <4> DEFINE x == [brief[b] EXCEPT !.pc = "sent"]
      <4>1. brief' = [brief EXCEPT ![b] = x] /\ pass' = pass
        BY <2>2 DEF BriefDelivers
      <4> HIDE DEF x
      <4> QED BY <1>s, <4>1, BriefAlone
    <3>4. CASE m \in brief[b].ids
      <4>1. b \in HeldSenders
        BY DEF HeldSenders
      <4>2. Load(m)' = Load(m) - 1 + (delivered'[m] - delivered[m])
        BY <1>0, <3>2, <3>3, <3>4, <4>1, LoadLands
      <4> QED BY <1>n, <3>1, <3>4, <4>2
    <3>5. CASE m \notin brief[b].ids
      BY <3>1, <3>2, <3>3, <3>5, LoadSame
    <3> QED BY <3>4, <3>5
  <2> QED BY <2>1, <2>2
<1>3. QuietStep(m)
  BY <1>s, <1>1, <1>2 DEF QuietStep, MayBeTaken, IsOpen
<1> QED
  BY <1>0, <1>3, HeldQuietKeeps

\* A send that ends unmarked: either it did not arrive, and there is one less
\* in flight, or it did, and that is a mishap.
LEMMA FailuresKeepLoads ==
  ASSUME HeldShape, HeldShape', LoadsBounded, NEW m \in HeldIds,
         NEW w \in HeldSenders, NEW ids,
         IsSending(w, m) <=> m \in ids, ~IsSending(w, m)',
         \A v \in HeldSenders \ {w} : IsSending(v, m)' <=> IsSending(v, m),
         pass'.late = pass.late, pass'.todo = pass.todo,
         \/ held' = Postponed(ids) \/ held' = Unclaimed(ids)
         \/ \E u : held' = Abandoned(ids, u),
         \/ UNCHANGED <<mishaps, delivered>>
         \/ Mishap /\ Arrive(ids)
  PROVE  LoadBounded(m)'
<1>0. HeldTypeOK /\ HeldTypeOK' /\ LoadBounded(m) /\ RowAndSenders(m)
  BY DEF HeldShape, LoadsBounded
<1>s. /\ held \in [HeldIds -> HeldRow] /\ mishaps \in Nat /\ delivered \in [HeldIds -> Nat]
  BY <1>0 DEF HeldTypeOK
<1>n. Load(m) \in Nat /\ delivered[m] \in Nat
  BY <1>0, LoadIsNat
<1>1. held'[m].status = held[m].status /\ (held'[m].claim = held[m].claim \/ m \in ids)
  BY <1>s, HeldEffects
<1>2. CASE m \in ids
  <2>1. Load(m)' = Load(m) - 1 + (delivered'[m] - delivered[m])
    BY <1>0, <1>2, LoadLands
  <2>2. CASE UNCHANGED <<mishaps, delivered>>
    <3>1. Load(m)' + 1 = Load(m)
      BY <1>n, <2>1, <2>2
    <3>2. Load(m)' \in Int
      BY <1>n, <2>1, <2>2
    <3>3. Load(m)' <= mishaps
      BY <1>0, <1>n, <1>s, <3>1, <3>2 DEF LoadBounded
    <3>4. pass.late /\ m \in pass.todo => Load(m)' + 1 <= mishaps
      BY <1>0, <3>1 DEF LoadBounded
    <3> QED BY <1>s, <2>2, <3>2, <3>3, <3>4 DEF LoadBounded
  <2>3. CASE Mishap /\ Arrive(ids)
    <3>1. delivered'[m] = delivered[m] + 1
      BY <1>2, <1>s, <2>3, ArriveGrows
    <3>2. Load(m)' = Load(m) /\ mishaps' = mishaps + 1
      BY <1>n, <2>1, <2>3, <3>1 DEF Mishap
    <3>3. Load(m) <= 1 + mishaps /\ (pass.late /\ m \in pass.todo => Load(m) <= mishaps)
      BY <1>0 DEF LoadBounded
    <3> QED BY <1>n, <1>s, <3>2, <3>3 DEF LoadBounded
  <2> QED BY <2>2, <2>3
<1>3. CASE m \notin ids
  <2>1. delivered'[m] = delivered[m]
    BY <1>3, <1>s, ArriveGrows
  <2>2. Load(m)' = Load(m)
    BY <1>3, <2>1, LoadSame
  <2>3. mishaps' \in {mishaps, mishaps + 1}
    BY DEF Mishap
  <2>4. QuietStep(m)
    BY <1>s, <1>1, <1>3, <2>2, <2>3 DEF QuietStep, MayBeTaken, IsOpen
  <2> QED BY <1>0, <2>4, HeldQuietKeeps
<1> QED
  BY <1>2, <1>3

\* A crash ends every send: what was in flight may have arrived or not, and is
\* counted as not arrived; the crash pays for what its claims leave.
LEMMA CrashKeepsLoads ==
  ASSUME HeldShape, HeldShape', LoadsBounded, NEW m \in HeldIds, HeldCrash
  PROVE  LoadBounded(m)'
<1>0. HeldTypeOK /\ HeldTypeOK' /\ LoadBounded(m)
  BY DEF HeldShape, LoadsBounded
<1>1. mishaps \in Nat /\ mishaps' = mishaps + 1 /\ delivered' = delivered
  BY <1>0 DEF HeldCrash, Mishap, HeldTypeOK
<1>2. InFlight(m)' = {}
  BY HeldAssumption DEF HeldCrash, InFlight, IsSending, HeldSenders, NoPass, NoBrief
<1>3. Cardinality(InFlight(m))' = 0
  BY <1>2, FS_EmptySet
<1>4. Load(m)' = delivered[m]
  BY <1>0, <1>1, <1>3, LoadIsNat DEF Load
<1>5. ~pass'.late
  BY DEF HeldCrash, NoPass
<1>6. delivered[m] \in Nat /\ delivered[m] <= 1 + mishaps
  BY <1>0, <1>1, LoadIsNat DEF LoadBounded
<1> QED
  BY <1>1, <1>4, <1>5, <1>6 DEF LoadBounded

LEMMA LoadStep == HeldShape /\ HeldShape' /\ LoadsBounded /\ [HeldNext]_heldVars => LoadsBounded'
<1> SUFFICES ASSUME HeldShape, HeldShape', LoadsBounded, [HeldNext]_heldVars, NEW m \in HeldIds
             PROVE  LoadBounded(m)'
  BY DEF LoadsBounded
<1>0. HeldTypeOK /\ HeldTypeOK' /\ LoadBounded(m) /\ RowAndSenders(m)
  BY DEF HeldShape, LoadsBounded
<1>t. pass \in Pass /\ brief \in [Briefs -> Brief]
  BY <1>0 DEF HeldTypeOK
<1>1. ASSUME NEW p \in People, NEW when \in {"digest", "later"}, Hold(p, when) PROVE LoadBounded(m)'
  BY <1>1, HoldKeepsLoads
<1>2. CASE \/ UNCHANGED heldVars
           \/ \E p \in People : ChangesDelivery(p) \/ ReleaseQuietNow(p)
           \/ \E n \in HeldIds : ComesDue(n) \/ GrowsOld(n) \/ Lapses(n)
           \/ PassBegins \/ PassSkips \/ PassDrops \/ PassPostpones \/ PassDies \/ PassEnds
           \/ \E b \in Briefs : BriefBegins(b) \/ BriefEnds(b)
           \/ \E b \in Briefs, p \in Principals : BriefSkips(b, p)
  BY <1>0, <1>2, TableStepsAreQuiet, HeldQuietKeeps
<1>3. CASE PassSends \/ \E b \in Briefs, p \in Principals : BriefSends(b, p)
  BY <1>3, SendsKeepLoads
<1>4. CASE PassDelivers \/ \E b \in Briefs : BriefDelivers(b)
  BY <1>4, DeliveriesKeepLoads
<1>5. CASE \/ PassMarks \/ PassMarkFails \/ PassRunsLate
           \/ \E b \in Briefs : BriefMarks(b) \/ BriefMarkFails(b) \/ BriefRunsLate(b)
  BY <1>5, MarksKeepLoads
<1>6. CASE PassFails
  <2>1. /\ pass.pc = "sending" /\ pass'.pc = "listed" /\ brief' = brief
        /\ pass'.late = pass.late /\ pass'.todo = pass.todo
    BY <1>t, <1>6, PassEffects DEF PassFails
  <2>2. (IsSending("pass", m) <=> m \in pass.ids) /\ ~IsSending("pass", m)'
    BY <2>1 DEF IsSending
  <2>3. "pass" \in HeldSenders /\ \A v \in HeldSenders \ {"pass"} : IsSending(v, m)' <=> IsSending(v, m)
    BY <2>1, PassAlone DEF HeldSenders
  <2>4. /\ held' = Postponed(pass.ids) \/ \E u : held' = Abandoned(pass.ids, u)
        /\ UNCHANGED <<mishaps, delivered>> \/ (Mishap /\ Arrive(pass.ids))
    BY <1>6 DEF PassFails
  <2> QED BY <2>1, <2>2, <2>3, <2>4, FailuresKeepLoads
<1>7. ASSUME NEW b \in Briefs, BriefFails(b) PROVE LoadBounded(m)'
  <2> DEFINE x == [pc |-> "fanning", todo |-> brief[b].todo, ids |-> {}]
  <2>1. brief[b].pc = "sending" /\ brief' = [brief EXCEPT ![b] = x] /\ pass' = pass
    BY <1>7 DEF BriefFails, OnToTheNext
  <2>2. brief'[b].pc = "fanning"
    BY <1>t, <2>1
  <2> HIDE DEF x
  <2>3. (IsSending(b, m) <=> m \in brief[b].ids) /\ ~IsSending(b, m)'
    BY <2>1, <2>2, HeldAssumption DEF IsSending
  <2>4. b \in HeldSenders /\ \A v \in HeldSenders \ {b} : IsSending(v, m)' <=> IsSending(v, m)
    BY <1>t, <2>1, BriefAlone DEF HeldSenders
  <2>5. /\ held' = Unclaimed(brief[b].ids) \/ \E u : held' = Abandoned(brief[b].ids, u)
        /\ UNCHANGED <<mishaps, delivered>> \/ (Mishap /\ Arrive(brief[b].ids))
    BY <1>7 DEF BriefFails
  <2> QED BY <2>1, <2>3, <2>4, <2>5, FailuresKeepLoads
<1>8. CASE HeldCrash
  BY <1>8, CrashKeepsLoads
<1> QED
  BY <1>1, <1>2, <1>3, <1>4, <1>5, <1>6, <1>7, <1>8
     DEF HeldNext, HeldClock, PassNext, BriefNext

-----------------------------------------------------------------------------
LEMMA HeldInvariant == HeldSpec => [](HeldShape /\ LoadsBounded)
<1>1. HeldInit => HeldShape /\ LoadsBounded
  BY HeldShapeInit, LoadInit
<1>2. HeldShape /\ LoadsBounded /\ [HeldNext]_heldVars => (HeldShape /\ LoadsBounded)'
  BY HeldShapeStep, LoadStep
<1> QED
  BY <1>1, <1>2, PTL DEF HeldSpec

\* "A row is sent once" (people/held_messages.py): a message arrives at most once
\* more than there were crashes, slow sends, lost answers and lost marks.
THEOREM SentOnceButForMishaps == HeldSpec => []SentAgainOnlyAfterAMishap
<1>1. HeldShape /\ LoadsBounded => SentAgainOnlyAfterAMishap
  <2> SUFFICES ASSUME HeldShape, LoadsBounded, NEW m \in HeldIds
               PROVE  delivered[m] <= 1 + mishaps
    BY DEF SentAgainOnlyAfterAMishap
  <2>1. delivered[m] <= Load(m) /\ Load(m) <= 1 + mishaps
    BY LoadIsNat DEF HeldShape, LoadsBounded, LoadBounded
  <2> QED BY <2>1, LoadIsNat DEF HeldShape, HeldTypeOK
<1> QED
  BY <1>1, HeldInvariant, PTL

\* A row marked sent has arrived, and one dropped had not, unless its sending
\* met with a mishap (mark_sent_after_delivery, _drop).
THEOREM HeldRowsRight == HeldSpec => []HeldRowsAreRight
<1>1. HeldShape /\ LoadsBounded => HeldRowsAreRight
  <2> SUFFICES ASSUME HeldShape, LoadsBounded, NEW m \in HeldIds
               PROVE  /\ held[m].status = "sent" => delivered[m] > 0
                      /\ held[m].status = "dropped" => delivered[m] <= mishaps
    BY DEF HeldRowsAreRight
  <2>1. held[m].status = "sent" => delivered[m] > 0
    BY DEF HeldShape, RowAndSenders
  <2>2. delivered[m] <= Load(m) /\ (held[m].status = "dropped" => Load(m) <= mishaps)
    BY LoadIsNat DEF HeldShape, LoadsBounded, LoadBounded
  <2> QED BY <2>1, <2>2, LoadIsNat DEF HeldShape, HeldTypeOK
<1> QED
  BY <1>1, HeldInvariant, PTL

=============================================================================
