----------------------------- MODULE ClientSlots -----------------------------
(***************************************************************************)
(* The company that is live and the saved companies beside it: switching   *)
(* between client slots (clients/slots.py), loading and unloading demos    *)
(* and the factory reset (cli/fixture_loader.py), and the nightly rotation *)
(* through all clients (clients/rotation.py). One lock, _FIXTURE_OP_LOCK,  *)
(* serialises what a person asks for and what the rotation does; each      *)
(* operation awaits the search index once while it holds it. The rotation  *)
(* lets go of the lock between its steps.                                  *)
(*                                                                         *)
(* `mishap` records that something happened which the code does not        *)
(* protect the companies from, so that the properties speak of the rest:   *)
(*   - a person's activation, or the rotation's last one, failed after the *)
(*     live database was replaced; a load, unload or reset failed;         *)
(*   - the save of a demo's load or of the rotation's switch failed;       *)
(*   - somebody saved or switched before the rotation, whose activation    *)
(*     had failed, got the lock to recover;                                *)
(*   - work was done for a client already parked for a demo, or restored   *)
(*     by an activation that then failed;                                  *)
(*   - the process stopped within an operation or before that recovery.    *)
(***************************************************************************)
EXTENDS Naturals

CONSTANTS
  Clients,   \* names of client slots
  Nobody,    \* no client: the user's own company, a demo, or a mixture
  MaxFaults  \* bound on operations that fail half-way

ASSUME SlotsAssumption ==
  /\ Nobody \notin Clients
  /\ MaxFaults \in Nat

VARIABLES
  slot,     \* what each client's directory holds
  live,     \* whose company is in the live database, and whether it is its newest state
  active,   \* the .active_client sentinel
  fixture,  \* the .fixture_active sentinel
  backup,   \* _user_backup holds a snapshot
  op,       \* the operation that holds the lock across its await
  rotation, \* run_client_rotation, and the delivery of its digest
  worked,   \* clients that have a state beyond their seed
  faults,   \* operations that failed half-way so far
  mishap    \* a failure or an interleaving the code does not protect from has happened

slotsVars == <<slot, live, active, fixture, backup, op, rotation, worked, faults, mishap>>

\* "seed" is a slot without state.db: blank, generated, or cut off in a save.
SlotStates == {"absent", "seed", "newest", "old", "foreign"}

NoOp == [kind |-> "none", client |-> Nobody, by |-> "person"]
Doing(kind, c, by) == [kind |-> kind, client |-> c, by |-> by]

NoRotation == [pc |-> "off", todo |-> {}, original |-> Nobody]

Unowned == [of |-> Nobody, newest |-> FALSE]

SlotsInit ==
  /\ slot = [c \in Clients |-> "absent"]
  /\ live = Unowned /\ active = Nobody
  /\ fixture = FALSE /\ backup = FALSE
  /\ op = NoOp /\ rotation = NoRotation
  /\ worked = {} /\ faults = 0 /\ mishap = FALSE

HoldsNewest(c) == slot[c] = "newest" \/ (slot[c] = "seed" /\ c \notin worked)

\* _save_slot_state.
Saved(c) ==
  [slot EXCEPT ![c] = IF live.of # c THEN "foreign" ELSE IF live.newest THEN "newest" ELSE "old"]

\* It fails before or after it has removed the old state.db.
HalfSaved(c) ==
  {[slot EXCEPT ![c] = v] : v \in IF live.of = c THEN {slot[c], "seed"} ELSE {"foreign"}}

\* _restore_slot_state, up to its await.
Restored(c) ==
  [of |-> IF slot[c] = "foreign" THEN Nobody ELSE c, newest |-> HoldsNewest(c)]

Fails == faults < MaxFaults /\ faults' = faults + 1

\* If P, something the code does not protect from happens; see above.
Unprotected(P) == mishap' = (mishap \/ P)

Recovering == rotation.pc = "forcing"

\* The rotation removes its marker, and its digest is delivered.
Told == [rotation EXCEPT !.pc = "telling"]

MarkerSet == rotation.pc \notin {"off", "telling"}

\* A client's sentinel may name another company than the live one while the
\* rotation waits to recover; what saves then saves the wrong one.
SavesWhileRecovering == Recovering /\ active # Nobody
-----------------------------------------------------------------------------
\* create_client_slot from the live company; no other client is active.
CreatesCurrent(c) ==
  /\ op = NoOp /\ ~fixture /\ slot[c] = "absent" /\ active = Nobody
  /\ slot' = [slot EXCEPT ![c] = IF live.of = Nobody THEN "newest" ELSE "foreign"]
  /\ live' = IF live.of = Nobody THEN [of |-> c, newest |-> TRUE] ELSE live
  /\ worked' = worked \cup {c}
  /\ active' = c /\ backup' = TRUE
  /\ Unprotected(Recovering)
  /\ UNCHANGED <<fixture, op, rotation, faults>>

\* A blank or generated one, or one whose first save failed.
CreatesBlank(c) ==
  /\ op = NoOp /\ ~fixture /\ slot[c] = "absent"
  /\ slot' = [slot EXCEPT ![c] = "seed"]
  /\ worked' = worked \ {c}
  /\ UNCHANGED <<live, active, fixture, backup, op, rotation, faults, mishap>>

\* save_active_client.
SavesClient ==
  /\ op = NoOp /\ ~fixture /\ active # Nobody
  /\ \/ slot' = Saved(active) /\ UNCHANGED faults
     \/ slot' \in HalfSaved(active) /\ Fails
  /\ Unprotected(SavesWhileRecovering)
  /\ UNCHANGED <<live, active, fixture, backup, op, rotation, worked>>

DeletesClient(c) ==
  /\ op = NoOp /\ ~MarkerSet /\ slot[c] # "absent" /\ active # c
  /\ slot' = [slot EXCEPT ![c] = "absent"]
  /\ live' = IF live.of = c THEN Unowned ELSE live
  /\ worked' = worked \ {c}
  /\ UNCHANGED <<active, fixture, backup, op, rotation, faults, mishap>>

\* snapshot_user_state: refused while a demo is loaded.
Snapshots ==
  /\ op = NoOp /\ ~fixture /\ backup' = TRUE
  /\ UNCHANGED <<slot, live, active, fixture, op, rotation, worked, faults, mishap>>

\* What chat, mail and the scheduler do for the company that is live. Done
\* while a demo comes in or the rotation recovers it is lost.
LiveWork(c) ==
  /\ live.of = c /\ (slot[c] = "newest" \/ c \notin worked)
  /\ slot' = IF slot[c] = "newest" /\ live.newest THEN [slot EXCEPT ![c] = "old"] ELSE slot
  /\ worked' = worked \cup {c}
  /\ Unprotected(op.kind \in {"load", "unload"} \/ Recovering)
  /\ UNCHANGED <<live, active, fixture, backup, op, rotation, faults>>
-----------------------------------------------------------------------------
\* activate_client_slot: save the active client back, or take the snapshot of
\* the user's own company; then restore.
MayActivate(c) ==
  /\ op = NoOp /\ ~fixture /\ slot[c] # "absent" /\ active # c

NothingSaved == slot  \* mutant

SavedBack == IF active = Nobody THEN slot ELSE Saved(active)

Activates(c, by) ==
  /\ MayActivate(c)
  /\ slot' = SavedBack
  /\ live' = Restored(c)
  /\ op' = Doing("activate", c, by)
  /\ backup' = (backup \/ active = Nobody)
  /\ UNCHANGED <<active, fixture, worked, faults>>

SaveBackFails(c) ==
  /\ MayActivate(c) /\ active # Nobody /\ Fails
  /\ slot' \in HalfSaved(active)
  /\ UNCHANGED <<live, active, fixture, backup, op, worked>>

\* It raises before or after the live database was replaced.
RestoreFails(c) ==
  /\ MayActivate(c) /\ Fails
  /\ slot' = SavedBack
  /\ backup' = (backup \/ active = Nobody)
  /\ live' \in {live, Unowned}
  /\ UNCHANGED <<active, fixture, op, worked>>

PersonActivates(c) ==
  /\ UNCHANGED rotation
  /\ \/ Activates(c, "person") /\ Unprotected(SavesWhileRecovering)
     \/ SaveBackFails(c) /\ Unprotected(SavesWhileRecovering)
     \/ RestoreFails(c) /\ Unprotected(SavesWhileRecovering \/ live' # live)

ActivationEnds ==
  /\ op.kind = "activate"
  /\ active' = op.client /\ op' = NoOp
  /\ rotation' = IF op.by = "person" THEN rotation
                 ELSE IF rotation.pc = "switching" THEN [rotation EXCEPT !.pc = "working"]
                 ELSE Told
  /\ UNCHANGED <<slot, live, fixture, backup, worked, faults, mishap>>

StaysThere == Told  \* mutant

\* The finally of run_client_rotation, after a failed activation.
AfterFailure ==
  IF rotation.pc = "switching" THEN [rotation EXCEPT !.pc = "forcing"] ELSE Told

\* The search index fails: the company is live, the sentinel was not written.
ActivationFails ==
  /\ op.kind = "activate" /\ Fails
  /\ op' = NoOp
  /\ IF op.by = "person" THEN UNCHANGED rotation /\ Unprotected(TRUE)
     ELSE /\ rotation' = AfterFailure
          /\ Unprotected(rotation.pc # "switching" \/ slot[op.client] # "newest")
  /\ UNCHANGED <<slot, live, active, fixture, backup, worked>>
-----------------------------------------------------------------------------
\* run_client_rotation asks for no lock before its first activation.
RotationStarts ==
  /\ rotation.pc = "off" /\ ~fixture /\ active # Nobody
  /\ \E S \in SUBSET {c \in Clients \ {active} : slot[c] \notin {"absent", "seed"}} :
       /\ S # {}
       /\ rotation' = [pc |-> "switching", todo |-> S, original |-> active]
  /\ UNCHANGED <<slot, live, active, fixture, backup, op, worked, faults, mishap>>

\* The next target, or the original in the end.
Targets == IF rotation.pc = "restoring" THEN {rotation.original} ELSE rotation.todo

Without(c) == [rotation EXCEPT !.todo = @ \ {c}]

RotationSwitches ==
  /\ rotation.pc \in {"switching", "restoring"}
  /\ \E c \in Targets :
       \/ /\ Activates(c, "rotation")
          /\ rotation' = Without(c) /\ UNCHANGED mishap
       \/ /\ SaveBackFails(c) \/ RestoreFails(c)
          /\ rotation' = AfterFailure
          /\ Unprotected(rotation.pc = "restoring" \/ slot' # SavedBack)

\* Already active, or refused because a demo was loaded meanwhile.
RotationPasses ==
  /\ rotation.pc \in {"switching", "restoring"} /\ op = NoOp
  /\ \E c \in Targets :
       /\ fixture \/ active = c
       /\ rotation' = IF fixture THEN AfterFailure
                      ELSE IF rotation.pc = "restoring" THEN Told
                      ELSE [Without(c) EXCEPT !.pc = "working"]
  /\ UNCHANGED <<slot, live, active, fixture, backup, op, worked, faults, mishap>>

\* _run_quiet_work_for_live_client is over; its failure changes nothing here.
RotationMovesOn ==
  /\ rotation.pc = "working"
  /\ rotation' = IF rotation.todo # {} THEN [rotation EXCEPT !.pc = "switching"]
                 ELSE IF active = rotation.original THEN Told
                 ELSE [rotation EXCEPT !.pc = "restoring"]
  /\ UNCHANGED <<slot, live, active, fixture, backup, op, worked, faults, mishap>>

\* The digest is out, and the row of the rotation done.
RotationEnds ==
  /\ rotation.pc = "telling" /\ rotation' = NoRotation
  /\ UNCHANGED <<slot, live, active, fixture, backup, op, worked, faults, mishap>>

\* _force_restore: no save, and no look at the demo's sentinel.
RotationForces ==
  /\ Recovering /\ op = NoOp
  /\ live' = Restored(rotation.original)
  /\ op' = Doing("activate", rotation.original, "rotation")
  /\ UNCHANGED <<slot, active, fixture, backup, rotation, worked, faults, mishap>>

RotationGivesUp ==
  /\ Recovering /\ op = NoOp /\ Fails
  /\ live' \in {live, Unowned}
  /\ rotation' = Told /\ Unprotected(TRUE)
  /\ UNCHANGED <<slot, active, fixture, backup, op, worked>>
-----------------------------------------------------------------------------
\* _load_from_dir and unload_fixture: park the active client, and await the
\* search index with the parked client's database still live. A failed save
\* is logged and the demo comes in all the same.
SwapBegins(kind) ==
  /\ op = NoOp /\ (kind = "unload" => backup)
  /\ op' = Doing(kind, Nobody, "person")
  /\ backup' = (backup \/ ~fixture)
  /\ \/ /\ slot' = SavedBack /\ active' = Nobody /\ UNCHANGED faults
        /\ Unprotected(SavesWhileRecovering)
     \/ /\ active # Nobody /\ slot' \in HalfSaved(active) /\ Fails
        /\ UNCHANGED active /\ Unprotected(TRUE)
  /\ UNCHANGED <<live, fixture, rotation, worked>>

SwapEnds ==
  /\ op.kind \in {"load", "unload"}
  /\ live' = Unowned /\ fixture' = (op.kind = "load") /\ op' = NoOp
  /\ UNCHANGED <<slot, active, backup, rotation, worked, faults, mishap>>

\* reset_all_state: the live company is wiped on purpose; its slot stays.
ResetBegins ==
  /\ op = NoOp
  /\ op' = Doing("reset", Nobody, "person")
  /\ live' = Unowned
  /\ slot' = [c \in Clients |-> IF c = live.of /\ slot[c] = "old" THEN "newest" ELSE slot[c]]
  /\ worked' = worked \ {c \in Clients : c = live.of /\ slot[c] = "seed"}
  /\ UNCHANGED <<active, fixture, backup, rotation, faults, mishap>>

ResetEnds ==
  /\ op.kind = "reset"
  /\ active' = Nobody /\ fixture' = FALSE /\ backup' = FALSE /\ op' = NoOp
  /\ UNCHANGED <<slot, live, rotation, worked, faults, mishap>>

SwapFails ==
  /\ op.kind \in {"load", "unload", "reset"} /\ Fails
  /\ op' = NoOp /\ Unprotected(TRUE)
  /\ UNCHANGED <<slot, live, active, fixture, backup, rotation, worked>>

\* The process stops; a new one clears a stale marker.
SlotsCrash ==
  /\ op # NoOp \/ rotation.pc # "off"
  /\ op' = NoOp /\ rotation' = NoRotation
  /\ Unprotected(op # NoOp \/ Recovering)
  /\ UNCHANGED <<slot, live, active, fixture, backup, worked, faults>>
-----------------------------------------------------------------------------
OpEnds == ActivationEnds \/ SwapEnds \/ ResetEnds

RotationSteps == RotationSwitches \/ RotationPasses \/ RotationForces

SlotsNext ==
  \/ \E c \in Clients :
       \/ CreatesCurrent(c) \/ CreatesBlank(c) \/ DeletesClient(c)
       \/ LiveWork(c) \/ PersonActivates(c)
  \/ SavesClient \/ Snapshots
  \/ \E kind \in {"load", "unload"} : SwapBegins(kind)
  \/ ResetBegins \/ OpEnds \/ ActivationFails \/ SwapFails
  \/ RotationStarts \/ RotationSteps \/ RotationMovesOn \/ RotationEnds \/ RotationGivesUp
  \/ SlotsCrash

SlotsSpec == SlotsInit /\ [][SlotsNext]_slotsVars
-----------------------------------------------------------------------------
SlotsTypeOK ==
  /\ slot \in [Clients -> SlotStates]
  /\ live \in [of : Clients \cup {Nobody}, newest : BOOLEAN]
  /\ active \in Clients \cup {Nobody}
  /\ fixture \in BOOLEAN /\ backup \in BOOLEAN /\ mishap \in BOOLEAN
  /\ op \in [kind : {"none", "activate", "load", "unload", "reset"},
             client : Clients \cup {Nobody}, by : {"person", "rotation"}]
  /\ rotation \in [pc : {"off", "switching", "working", "restoring", "forcing", "telling"},
                   todo : SUBSET Clients, original : Clients \cup {Nobody}]
  /\ worked \subseteq Clients
  /\ faults \in Nat

Kept(c) == HoldsNewest(c) \/ live = [of |-> c, newest |-> TRUE]

\* However switches, demos, resets, saves that fail and a rotation whose
\* activation fails fall together: every client's newest state is live or in
\* its slot, and no slot holds another company.
ClientsAreKept ==
  ~mishap => \A c \in Clients :
    /\ slot[c] # "foreign"
    /\ slot[c] # "absent" => Kept(c)

\* When the digest goes out the client is back that was active before, unless
\* a demo was loaded meanwhile or the restore failed.
RotationGivesBack ==
  [][MarkerSet /\ rotation'.pc = "telling" /\ ~mishap' /\ ~fixture'
       => /\ active' = rotation.original
          /\ op' = NoOp => live'.of = rotation.original]_slotsVars

\* "A fixture and a client slot are never active simultaneously"
\* (clients/slots.py:28).
NeverBothActive == ~(fixture /\ active # Nobody)

=============================================================================
