--------------------------- MODULE MCDelegation ---------------------------
(* Delegation trees for TLC.                                               *)
EXTENDS Delegation, TLC

CONSTANTS boss, left, right, third, leaf

\* boss delegates to left and right, and right to leaf when there is a leaf.
MCSuper == [c \in Delegated |-> IF c = leaf THEN right ELSE boss]

Streams == Permutations(Clients)

=============================================================================
