------------------------------- MODULE MCInput -------------------------------
(* A corner and a place that only the larger screen has. *)
EXTENDS Input

MCPlaces == {<<0, 0>>, <<5, 2>>}
MCSizes  == {<<4, 4>>, <<8, 8>>}
MCDeltas == {-3, 12}
=============================================================================
