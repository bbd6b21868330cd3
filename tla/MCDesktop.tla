------------------------------ MODULE MCDesktop ------------------------------
(* Layouts for the check of Desktop.                                        *)
EXTENDS Desktop, TLC

Screen(left, top, width, height, primary) ==
  [left |-> left, top |-> top, right |-> left + width - 1, bottom |-> top + height - 1,
   primary |-> primary]

MCLayouts ==
  {[size |-> <<1024, 768>>, monitors |-> <<>>],
   [size |-> <<800, 600>>, monitors |-> <<Screen(0, 0, 800, 600, FALSE)>>],
   [size |-> <<2048, 800>>,
    monitors |-> <<Screen(0, 0, 1024, 768, TRUE), Screen(-1024, -32, 1024, 768, FALSE)>>],
   [size |-> <<2400, 600>>,
    monitors |-> <<Screen(0, 0, 800, 600, FALSE), Screen(800, 0, 800, 600, TRUE),
                   Screen(1600, 0, 800, 600, FALSE)>>]}

\* Pixels of four bytes, said to be four, and of two.
MCDepths     == {[Bpp |-> 4, format |-> 4], [Bpp |-> 2, format |-> 0]}
MCStartSizes == {<<1024, 768>>, <<800, 600>>}
MCSymmetry   == Permutations(Pixmaps)
MCMasks      == {{"screen", "crtc"}, {"crtc", "output"}}

\* A bound: nothing of a client matters to the script but the layout, so where a
\* script sets the outputs there is one client, of one kind, and the screen gets its
\* pixmaps.
OneClientWithScripts ==
  driver = "grid" => accepted <= 1 /\ ~torn /\ con.code = "plain" /\ con.depth.Bpp # 2
=============================================================================
