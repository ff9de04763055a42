---------------------------- MODULE RunLifecycle ----------------------------
(***************************************************************************)
(* What the workflow engine promises about a run, without claims, polls or *)
(* processes: it asks, it is answered once, it goes on from that answer,   *)
(* and once it is over it never works, asks or is answered again.          *)
(* workflows/persistence.py documents the statuses this abstracts.         *)
(***************************************************************************)
CONSTANTS Runs, Answers, NoAnswer

VARIABLES
  phase,   \* where each run is in its life
  verdict  \* the answer accepted for the run's last question

lifeVars == <<phase, verdict>>

LifePhases == {"new", "working", "asking", "answered", "over", "gone"}

LifeTypeOK ==
  /\ phase \in [Runs -> LifePhases]
  /\ verdict \in [Runs -> Answers \union {NoAnswer}]

LifeInit ==
  /\ phase = [r \in Runs |-> "new"]
  /\ verdict = [r \in Runs |-> NoAnswer]

Move(r, from, to) ==
  /\ phase[r] \in from
  /\ phase' = [phase EXCEPT ![r] = to]

Begin(r) == Move(r, {"new"}, "working") /\ UNCHANGED verdict

\* Asking a question discards the answer to the one before it.
Ask(r) ==
  /\ Move(r, {"working"}, "asking")
  /\ verdict' = [verdict EXCEPT ![r] = NoAnswer]

Answer(r) ==
  /\ Move(r, {"asking"}, "answered")
  /\ \E a \in Answers : verdict' = [verdict EXCEPT ![r] = a]

\* The work after the gate starts from an accepted answer ...
Proceed(r) ==
  /\ Move(r, {"answered"}, "working")
  /\ UNCHANGED verdict

\* ... and starts again from the same answer when its worker is lost.
Redo(r) ==
  /\ verdict[r] \in Answers
  /\ Move(r, {"working"}, "answered")
  /\ UNCHANGED verdict

Close(r) == Move(r, {"working", "asking", "answered"}, "over") /\ UNCHANGED verdict

Remove(r) ==
  /\ Move(r, LifePhases \ {"new", "gone"}, "gone")
  /\ verdict' = [verdict EXCEPT ![r] = NoAnswer]

LifeNext ==
  \E r \in Runs : \/ Begin(r) \/ Ask(r) \/ Answer(r) \/ Proceed(r)
                  \/ Redo(r) \/ Close(r) \/ Remove(r)

LifeSpec == LifeInit /\ [][LifeNext]_lifeVars

=============================================================================
