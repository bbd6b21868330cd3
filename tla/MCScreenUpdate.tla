--------------------------- MODULE MCScreenUpdate ---------------------------
(* Small instances of ScreenUpdate: two clients, so that one can take over   *)
(* from the other, or three monitors that compete for the one frame.         *)
EXTENDS ScreenUpdate, TLC

CONSTANTS c1, c2

OneClient  == {c1}
TwoClients == {c1, c2}
Symmetry   == Permutations(TwoClients)
=============================================================================
