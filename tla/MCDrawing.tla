------------------------------ MODULE MCDrawing ------------------------------
(* A screen of 5 by 4 pixels, with a window that is partly covered, the root, *)
(* the screen's pixmap, a window that is not viewable and a pixmap in memory. *)
EXTENDS Drawing

MCWidth == 5
MCHeight == 4

Window == [type |-> "window", x |-> 1, y |-> 1, viewable |-> TRUE, onScreen |-> TRUE,
           clipList |-> Box(1, 1, 4, 3), borderClip |-> Box(1, 1, 5, 4)]
Root == [Window EXCEPT !.x = 0, !.y = 0, !.clipList = Screen, !.borderClip = Screen]
ScreenPixmap == [Root EXCEPT !.type = "pixmap"]

MCDrawables ==
  {Window, Root, ScreenPixmap,
   [Window EXCEPT !.viewable = FALSE],
   [ScreenPixmap EXCEPT !.onScreen = FALSE]}

Font == [ascent |-> 1, descent |-> 0,
         max |-> [ascent |-> 2, descent |-> 1, lsb |-> 0, rsb |-> 2, width |-> 1],
         min |-> [ascent |-> 0, descent |-> 0, lsb |-> -1, rsb |-> 0, width |-> 1]]

Plain == [clipped |-> FALSE, clip |-> {}, inferiors |-> FALSE, lineWidth |-> 0, font |-> Font]

MCContexts ==
  {Plain,
   [Plain EXCEPT !.inferiors = TRUE, !.lineWidth = 2],
   [Plain EXCEPT !.clipped = TRUE, !.clip = Box(0, 0, 2, 3), !.lineWidth = 3]}

\* The third reaches beyond the numbers that a box can hold.
MCRects ==
  {[x |-> 0, y |-> 0, w |-> 2, h |-> 1], [x |-> 2, y |-> 1, w |-> 1, h |-> 2],
   [x |-> 2, y |-> 1, w |-> 32767, h |-> 1]}

MCMoves == {<<-1, 1>>, <<1, 1>>, <<0, -2>>}

MCPaths == {<< <<0, 0>>, <<2, 1>>, <<1, 2>> >>, << <<3, 0>>, <<1, 0>> >>}

MCBases == {0, 8}

Picture == [format |-> "YV12", w |-> 8, h |-> 2, dw |-> 8, dh |-> 2,
            src |-> [x |-> 0, y |-> 0, w |-> 8, h |-> 2]]

\* The second is scaled up and unaligned, the third has an odd width; of the
\* fourth too much is shown, and the fifth is shown too large for an int.
MCPictures ==
  {Picture,
   [Picture EXCEPT !.format = "I420", !.w = 12, !.src.w = 5, !.src.x = 1, !.dw = 13, !.dh = 3],
   [Picture EXCEPT !.format = "YUY2", !.w = 3, !.h = 3, !.src.w = 3, !.src.h = 3,
                   !.dw = 1, !.dh = 1],
   [Picture EXCEPT !.src.w = 9, !.dw = 9],
   [Picture EXCEPT !.dw = 32767, !.dh = 32767]}
=============================================================================
