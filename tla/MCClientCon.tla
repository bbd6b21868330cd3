----------------------------- MODULE MCClientCon -----------------------------
(* A small instance of ClientCon: one client object is taken, one is being   *)
(* replaced, and one is free for the client that arrives meanwhile.          *)
EXTENDS ClientCon

CONSTANTS c1, c2, c3

MCCons == {c1, c2, c3}
=============================================================================
