---------------------------- MODULE HeldMessages ----------------------------
(***************************************************************************)
(* The direct messages that a person's notification settings hold back     *)
(* (people/held_messages.py), and the two senders that compete for them:   *)
(* the release pass of the scheduler's tick, one at a time, and the        *)
(* morning and end-of-day briefs, which carry the digest rows of each      *)
(* principal. A sender claims a row by compare-and-set, sends, and marks   *)
(* the row sent; a claim older than CLAIM_TTL counts as free.              *)
(* Clock times are what the statements compare: whether release_at has     *)
(* passed, how old a row is, whether a claim has lapsed.                   *)
(***************************************************************************)
EXTENDS Runner, Naturals, FiniteSets

CONSTANTS
  MaxId,       \* rows ever held
  People,
  Principals,  \* who gets the briefs
  Owner,       \* find_principal_person: the first of them
  Briefs,      \* brief tasks that may run at once
  MaxHeld,     \* MAX_HELD_PER_PERSON
  MaxMishaps,  \* bound on crashes, sends longer than CLAIM_TTL, lost answers
  HeldFaults   \* may a write of this table fail?

ASSUME HeldAssumption ==
  /\ MaxId \in Nat /\ MaxHeld \in Nat \ {0} /\ MaxMishaps \in Nat
  /\ Owner \in Principals /\ Principals \subseteq People
  /\ HeldFaults \in BOOLEAN
  /\ IsFiniteSet(Briefs)
  /\ \A b \in Briefs : b \notin {"none", "left", "stale", "pass"}

VARIABLES
  held,       \* the table
  pass,       \* the release pass (_task)
  brief,      \* the fan-out of each brief task
  mishaps,    \* crashes, slow sends, lost answers and lost marks so far
  delivered   \* how often each message arrived

heldVars == <<held, pass, brief, mishaps, delivered>>

HeldIds == 1..MaxId

\* when: "digest" is no release_at, "later" one to come, "due" one that has
\* passed. age: 1 is past DIGEST_FALLBACK_AFTER, 2 past GIVE_UP_AFTER.
\* claim: who stamped claimed_at; "left" by a sender that is gone, "stale"
\* older than CLAIM_TTL. "capped" and "dropped" are both dropped_at.
HeldRow ==
  [status : {"none", "open", "sent", "dropped", "capped"}, person : People,
   when : {"digest", "later", "due"}, age : 0..2,
   claim : {"none", "left", "stale", "pass"} \cup Briefs]

\* todo: the listed rows not reached yet; lapsed and old: those of them whose
\* claim was stale, and whose age past giving up, at the pass's start (its
\* now); ids: what is being sent.
Pass ==
  [pc : {"idle", "listed", "sending", "sent"}, todo : SUBSET HeldIds,
   ids : SUBSET HeldIds, lapsed : SUBSET HeldIds, old : SUBSET HeldIds, late : BOOLEAN]

NoPass == [pc |-> "idle", todo |-> {}, ids |-> {}, lapsed |-> {}, old |-> {}, late |-> FALSE]

Brief ==
  [pc : {"idle", "fanning", "sending", "sent"}, todo : SUBSET Principals, ids : SUBSET HeldIds]

NoBrief == [pc |-> "idle", todo |-> {}, ids |-> {}]

HeldInit ==
  /\ held = [m \in HeldIds |-> [status |-> "none", person |-> Owner, when |-> "digest",
                                age |-> 0, claim |-> "none"]]
  /\ pass = NoPass
  /\ brief = [b \in Briefs |-> NoBrief]
  /\ mishaps = 0
  /\ delivered = [m \in HeldIds |-> 0]

IsOpen(m) == held[m].status = "open"

OpenOf(p) == {m \in HeldIds : IsOpen(m) /\ held[m].person = p}

\* Nothing reads the rest of a closed row.
Gone(m, how) ==
  [held[m] EXCEPT !.status = how, !.when = "digest", !.age = 0, !.claim = "none"]

\* The statements: each changes the open rows of a set.
Closed(ids, how) ==
  [m \in HeldIds |-> IF m \in ids /\ IsOpen(m) THEN Gone(m, how) ELSE held[m]]

\* _postpone and _backoff
Postponed(ids) ==
  [m \in HeldIds |-> IF m \in ids /\ IsOpen(m)
                     THEN [held[m] EXCEPT !.claim = "none", !.when = "later"] ELSE held[m]]

UnclaimedAsSent(ids) == Closed(ids, "sent")  \* mutant

Unclaimed(ids) ==
  [m \in HeldIds |-> IF m \in ids /\ IsOpen(m) THEN [held[m] EXCEPT !.claim = "none"] ELSE held[m]]

\* A write that failed leaves the claims of its sender behind.
Abandoned(ids, who) ==
  [m \in HeldIds |-> IF m \in ids /\ held[m].claim = who
                     THEN [held[m] EXCEPT !.claim = "left"] ELSE held[m]]

Mishap == mishaps < MaxMishaps /\ mishaps' = mishaps + 1

Arrive(ids) ==
  delivered' = [m \in HeldIds |-> IF m \in ids THEN delivered[m] + 1 ELSE delivered[m]]
-----------------------------------------------------------------------------
\* hold: a new row, and the oldest beyond the cap are dropped, claimed or not.
BeyondCap(p) ==
  {m \in OpenOf(p) : Cardinality({n \in OpenOf(p) : n > m}) + 1 >= MaxHeld}

Hold(p, when) ==
  /\ \E m \in HeldIds :
       /\ held[m].status = "none"
       /\ \A n \in 1..(m - 1) : held[n].status # "none"
       /\ held' = [n \in HeldIds |->
                     IF n = m
                     THEN [status |-> "open", person |-> p, when |-> when, age |-> 0,
                           claim |-> "none"]
                     ELSE IF n \in BeyondCap(p) THEN Gone(n, "capped")
                     ELSE held[n]]
  /\ UNCHANGED <<pass, brief, mishaps, delivered>>

\* The clock. Rows grow old in the order they were held.
ComesDue(m) ==
  /\ IsOpen(m) /\ held[m].when = "later"
  /\ held' = [held EXCEPT ![m].when = "due"]
  /\ UNCHANGED <<pass, brief, mishaps, delivered>>

GrowsOld(m) ==
  /\ IsOpen(m) /\ held[m].age < 2
  /\ \A n \in 1..(m - 1) : IsOpen(n) => held[n].age > held[m].age
  /\ held' = [held EXCEPT ![m].age = @ + 1]
  /\ UNCHANGED <<pass, brief, mishaps, delivered>>

Lapses(m) ==
  /\ IsOpen(m) /\ held[m].claim = "left"
  /\ held' = [held EXCEPT ![m].claim = "stale"]
  /\ UNCHANGED <<pass, brief, mishaps, delivered>>

\* update_notifications: back to "As they happen", or other quiet hours.
ReleaseDigestNow(people) ==
  [m \in HeldIds |-> IF IsOpen(m) /\ held[m].person \in people /\ held[m].when = "digest"
                     THEN [held[m] EXCEPT !.when = "due"] ELSE held[m]]

ChangesDelivery(p) ==
  /\ held' = ReleaseDigestNow({p})
  /\ UNCHANGED <<pass, brief, mishaps, delivered>>

ReleaseQuietNow(p) ==
  /\ held' = [m \in HeldIds |-> IF m \in OpenOf(p) /\ held[m].when = "later"
                                THEN [held[m] EXCEPT !.when = "due"] ELSE held[m]]
  /\ UNCHANGED <<pass, brief, mishaps, delivered>>
-----------------------------------------------------------------------------
\* release_due. A pass reads what is due once; `now` stays its start.
IsDue(m) == IsOpen(m) /\ (held[m].when = "due" \/ (held[m].when = "digest" /\ held[m].age > 0))

PassBegins ==
  LET due == {m \in HeldIds : IsDue(m)} IN
  /\ ~holding /\ pass.pc = "idle" /\ due # {}
  /\ pass' = [NoPass EXCEPT !.pc = "listed", !.todo = due,
                !.lapsed = {m \in due : held[m].claim = "stale"},
                !.old = {m \in due : held[m].age = 2}]
  /\ UNCHANGED <<held, brief, mishaps, delivered>>

TakesAnything(m) == IsOpen(m)  \* mutant

TakesUnclaimedOnly(m) == IsOpen(m) /\ held[m].claim = "none"  \* mutant

\* claim: a row nobody holds. The pass judges the age of a claim as of its
\* start.
PassCanTake(m) ==
  IsOpen(m) /\ (held[m].claim = "none" \/ (held[m].claim = "stale" /\ m \in pass.lapsed))

BriefCanTake(m) == IsOpen(m) /\ held[m].claim \in {"none", "stale"}

Listed == {m \in pass.todo : \E n \in pass.todo :
             /\ held[n].person = held[m].person
             /\ \A k \in pass.todo : n <= k}

\* What the pass keeps of its start, for those left to reach.
PassedOver ==
  [pass EXCEPT !.todo = @ \ Listed, !.lapsed = @ \ Listed, !.old = @ \ Listed]

Got == {m \in Listed : PassCanTake(m)}

NextPerson ==
  /\ pass.pc = "listed" /\ pass.todo # {}
  /\ UNCHANGED <<brief, mishaps, delivered>>

\* One person's turn up to its send: nothing taken; the person is gone; too
\* old; quiet hours or leave; or the send starts.
PassSkips ==
  /\ NextPerson /\ Got = {}
  /\ pass' = PassedOver
  /\ UNCHANGED held

PassDrops ==
  /\ NextPerson /\ Got # {}
  /\ pass' = PassedOver
  /\ \/ held' = Closed(Got, "dropped")  \* no longer on the People list
     \/ Got \subseteq pass.old /\ held' = Closed(Got, "dropped")

\* _drop of the too old and _postpone, or _backoff, of the others.
PassPostpones ==
  /\ NextPerson /\ Got \ pass.old # {}
  /\ pass' = PassedOver
  /\ held' = [m \in HeldIds |->
                IF m \in Got \cap pass.old THEN Gone(m, "dropped")
                ELSE IF m \in Got THEN [held[m] EXCEPT !.claim = "none", !.when = "later"]
                ELSE held[m]]

PassSends ==
  /\ NextPerson /\ Got \ pass.old # {}
  /\ pass' = [PassedOver EXCEPT !.pc = "sending", !.ids = Got \ pass.old]
  /\ held' = [m \in HeldIds |->
                IF m \in Got \cap pass.old THEN Gone(m, "dropped")
                ELSE IF m \in Got
                THEN [held[m] EXCEPT !.claim = IF pass.late THEN "stale" ELSE "pass"]
                ELSE held[m]]

\* claim stands before the try: a locked database ends the pass.
PassDies ==
  /\ HeldFaults /\ NextPerson
  /\ pass' = NoPass
  /\ UNCHANGED held

PassDelivers ==
  /\ pass.pc = "sending"
  /\ pass' = [pass EXCEPT !.pc = "sent"]
  /\ Arrive(pass.ids)
  /\ UNCHANGED <<held, brief, mishaps>>

PassMovesOn == [pass EXCEPT !.pc = "listed", !.ids = {}]

\* The send failed, or raised though it arrived: _backoff, which may fail too.
PassFails ==
  /\ pass.pc = "sending"
  /\ pass' = PassMovesOn
  /\ \/ held' = Postponed(pass.ids)
     \/ HeldFaults /\ held' = Abandoned(pass.ids, "pass")
  /\ \/ UNCHANGED <<mishaps, delivered>>
     \/ Mishap /\ Arrive(pass.ids)
  /\ UNCHANGED brief

PassMarks ==
  /\ pass.pc = "sent"
  /\ pass' = PassMovesOn
  /\ held' = Closed(pass.ids, "sent")
  /\ UNCHANGED <<brief, mishaps, delivered>>

\* mark_sent_after_delivery gives up after three tries.
PassMarkFails ==
  /\ HeldFaults /\ pass.pc = "sent" /\ Mishap
  /\ pass' = PassMovesOn
  /\ held' = Abandoned(pass.ids, "pass")
  /\ UNCHANGED <<brief, delivered>>

PassEnds ==
  /\ pass.pc = "listed" /\ pass.todo = {}
  /\ pass' = NoPass
  /\ UNCHANGED <<held, brief, mishaps, delivered>>

\* The sends of a pass outlast CLAIM_TTL: what it claims from now on is
\* stamped with its start and lapsed from birth.
PassRunsLate ==
  /\ pass.pc = "sending" /\ ~pass.late /\ Mishap
  /\ pass' = [pass EXCEPT !.late = TRUE]
  /\ held' = [m \in HeldIds |-> IF held[m].claim = "pass"
                                THEN [held[m] EXCEPT !.claim = "stale"] ELSE held[m]]
  /\ UNCHANGED <<brief, delivered>>
-----------------------------------------------------------------------------
\* deliver_to_each_principal, for a morning or end-of-day brief.
\* From its read of what is due, and from the end of each send, a pass runs to
\* its next send in one stretch of the event loop.
PassAwaits == pass.pc # "listed"

BriefBegins(b) ==
  /\ PassAwaits /\ brief[b].pc = "idle"
  /\ brief' = [brief EXCEPT ![b] = [NoBrief EXCEPT !.pc = "fanning", !.todo = Principals]]
  /\ UNCHANGED <<held, pass, mishaps, delivered>>

ForBrief(p) == {m \in OpenOf(p) : held[m].when = "digest" /\ BriefCanTake(m)}

\* One recipient: _with_held_messages claims theirs. Without any, or off the
\* roster since, or unreadable, nothing of this table rides along.
BriefSkips(b, p) ==
  /\ PassAwaits /\ brief[b].pc = "fanning" /\ p \in brief[b].todo
  /\ brief' = [brief EXCEPT ![b].todo = @ \ {p}]
  /\ UNCHANGED <<held, pass, mishaps, delivered>>

BriefSends(b, p) ==
  /\ PassAwaits /\ brief[b].pc = "fanning" /\ p \in brief[b].todo /\ ForBrief(p) # {}
  /\ brief' = [brief EXCEPT ![b] = [pc |-> "sending", todo |-> brief[b].todo \ {p},
                                    ids |-> ForBrief(p)]]
  /\ held' = [m \in HeldIds |-> IF m \in ForBrief(p) THEN [held[m] EXCEPT !.claim = b] ELSE held[m]]
  /\ pass' = [pass EXCEPT !.lapsed = @ \ ForBrief(p)]
  /\ UNCHANGED <<mishaps, delivered>>

BriefDelivers(b) ==
  /\ brief[b].pc = "sending"
  /\ brief' = [brief EXCEPT ![b].pc = "sent"]
  /\ Arrive(brief[b].ids)
  /\ UNCHANGED <<held, pass, mishaps>>

OnToTheNext(b) == [brief EXCEPT ![b] = [pc |-> "fanning", todo |-> brief[b].todo, ids |-> {}]]

\* _unclaim_held, whoever holds the claim by now.
BriefFails(b) ==
  /\ PassAwaits /\ brief[b].pc = "sending"
  /\ brief' = OnToTheNext(b)
  /\ \/ held' = Unclaimed(brief[b].ids)
     \/ HeldFaults /\ held' = Abandoned(brief[b].ids, b)
  /\ \/ UNCHANGED <<mishaps, delivered>>
     \/ Mishap /\ Arrive(brief[b].ids)
  /\ UNCHANGED pass

BriefMarks(b) ==
  /\ PassAwaits /\ brief[b].pc = "sent"
  /\ brief' = OnToTheNext(b)
  /\ held' = Closed(brief[b].ids, "sent")
  /\ UNCHANGED <<pass, mishaps, delivered>>

BriefMarkFails(b) ==
  /\ HeldFaults /\ PassAwaits /\ brief[b].pc = "sent" /\ Mishap
  /\ brief' = OnToTheNext(b)
  /\ held' = Abandoned(brief[b].ids, b)
  /\ UNCHANGED <<pass, delivered>>

\* _release_others_digests: everyone's but the owner's, other principals'
\* included. It may fail.
BriefEnds(b) ==
  /\ PassAwaits /\ brief[b].pc = "fanning" /\ brief[b].todo = {}
  /\ brief' = [brief EXCEPT ![b] = NoBrief]
  /\ \/ held' = ReleaseDigestNow(People \ {Owner})
     \/ HeldFaults /\ UNCHANGED held
  /\ UNCHANGED <<pass, mishaps, delivered>>

BriefRunsLate(b) ==
  /\ brief[b].pc = "sending" /\ Mishap
  /\ \E m \in HeldIds : held[m].claim = b
  /\ held' = [m \in HeldIds |-> IF held[m].claim = b
                                THEN [held[m] EXCEPT !.claim = "stale"] ELSE held[m]]
  /\ UNCHANGED <<pass, brief, delivered>>

\* The process stops: the senders are gone, their claims are not.
HeldCrash ==
  /\ pass # NoPass \/ \E b \in Briefs : brief[b] # NoBrief
  /\ Mishap
  /\ pass' = NoPass
  /\ brief' = [b \in Briefs |-> NoBrief]
  /\ held' = [m \in HeldIds |-> IF held[m].claim \in {"pass"} \cup Briefs
                                THEN [held[m] EXCEPT !.claim = "left"] ELSE held[m]]
  /\ UNCHANGED delivered
-----------------------------------------------------------------------------
HeldClock == \E m \in HeldIds : ComesDue(m) \/ GrowsOld(m) \/ Lapses(m)

PassNext ==
  \/ PassSkips \/ PassDrops \/ PassPostpones \/ PassSends \/ PassDies
  \/ PassDelivers \/ PassFails \/ PassMarks \/ PassMarkFails \/ PassEnds

BriefNext(b) ==
  \/ \E p \in Principals : BriefSkips(b, p) \/ BriefSends(b, p)
  \/ BriefDelivers(b) \/ BriefFails(b) \/ BriefMarks(b) \/ BriefMarkFails(b) \/ BriefEnds(b)

HeldNext ==
  \/ \E p \in People, when \in {"digest", "later"} : Hold(p, when)
  \/ \E p \in People : ChangesDelivery(p) \/ ReleaseQuietNow(p)
  \/ HeldClock
  \/ PassBegins \/ PassNext \/ PassRunsLate
  \/ \E b \in Briefs : BriefBegins(b) \/ BriefNext(b) \/ BriefRunsLate(b)
  \/ HeldCrash

HeldSpec == HeldInit /\ [][HeldNext]_heldVars

\* Time passes, a tick that nothing holds starts a pass every minute, and the loop runs every
\* task on; each send ends. The briefs go out twice a day and hold a row for
\* one send, so passes also start while they do not hold it.
HeldFairness ==
  /\ \A m \in HeldIds :
       WF_heldVars(ComesDue(m)) /\ WF_heldVars(GrowsOld(m)) /\ WF_heldVars(Lapses(m))
  /\ SF_heldVars(PassBegins /\ \E m \in HeldIds : BriefCanTake(m))
  /\ WF_heldVars(PassNext)
  /\ \A b \in Briefs : SF_heldVars(BriefNext(b))

FairHeldSpec == HeldSpec /\ HeldFairness
-----------------------------------------------------------------------------
HeldTypeOK ==
  /\ held \in [HeldIds -> HeldRow]
  /\ pass \in Pass
  /\ brief \in [Briefs -> Brief]
  /\ mishaps \in Nat
  /\ delivered \in [HeldIds -> Nat]

\* "A row is sent once": however passes, briefs, settings and the cap fall
\* together, a message arrives a second time only after a crash, a send that
\* outlasted its claim, a lost answer or an unwritable mark, and no more often
\* than there were of those.
SentAgainOnlyAfterAMishap == \A m \in HeldIds : delivered[m] <= 1 + mishaps

\* What the table says of a message is right, whatever its sender: no row is
\* marked sent before it arrived; one given up, because its person is gone or
\* it was too old, had not arrived, unless its sending had a mishap.
HeldRowsAreRight ==
  \A m \in HeldIds : /\ held[m].status = "sent" => delivered[m] > 0
                     /\ held[m].status = "dropped" => delivered[m] <= mishaps

\* Once nothing holds the scheduler for good, every held message is sent or
\* dropped in the end: no claim strands it, no postponement or failing send
\* keeps it for ever.
HeldMessagesEnd == <>[]~holding => \A m \in HeldIds : (IsOpen(m) ~> ~IsOpen(m))

=============================================================================
