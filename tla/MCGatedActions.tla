--------------------------- MODULE MCGatedActions ---------------------------
(* Instances of GatedActions for TLC. *)
EXTENDS GatedActions, TLC

CONSTANTS a1, a2, a3, x, y, s

ThreeIds == {a1, a2, a3}
TwoIds == {a1, a2}
OneContent == {x}
TwoContents == {x, y}
OneSubject == {s}
\* Two texts that begin alike.
SameSubject == [c \in Contents |-> s]

IdSymmetry == Permutations(Ids)

=============================================================================
