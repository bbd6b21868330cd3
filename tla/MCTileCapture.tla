--------------------------- MODULE MCTileCapture ---------------------------
(***************************************************************************)
(* A screen of three pixels with tiles of two: one monitor of two tiles,   *)
(* one of which is cut, or a monitor of one tile beside one of a single    *)
(* pixel, or two monitors of a pixel with one between them.  Two tiles     *)
(* are too many for one frame, or not.                                     *)
(***************************************************************************)
EXTENDS TileCapture

OneMonitor  == <<[left |-> 0, right |-> 2]>>
TwoMonitors == <<[left |-> 0, right |-> 1], [left |-> 2, right |-> 2]>>

Apart       == <<[left |-> 0, right |-> 0], [left |-> 2, right |-> 2]>>

MCLayouts == {OneMonitor, TwoMonitors, Apart}
=============================================================================
