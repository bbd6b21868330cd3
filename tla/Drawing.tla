------------------------------- MODULE Drawing -------------------------------
(***************************************************************************)
(* How drawing on the server is noticed (module/rdpGC.c, the wrappers of   *)
(* the drawing operations in module/rdpCopyArea.c and its companions,      *)
(* module/rdpDraw.c, the screen set-up of xrdpdev/xrdpdev.c).              *)
(*                                                                         *)
(* Every graphics context, and the Render functions of the screen, are     *)
(* wrapped: a wrapper works out which region an operation may change, has  *)
(* the operation done by the layer below, and adds the region to the dirty *)
(* region of the clients.  A moment after the start a damage object is     *)
(* registered as well and reports the same once more.  While the screen    *)
(* sleeps nothing is reported, and some operations are dropped.            *)
(*                                                                         *)
(* Regions are sets of pixels of the screen; a wrapper makes them from     *)
(* boxes, whose corners are 16-bit numbers.  What an operation really      *)
(* changes is the business of the X server: the operators whose names end  *)
(* in Ink are the X protocol's, generous where a shape is round or wide.   *)
(* One client stands for the list of them: a region goes to all.           *)
(***************************************************************************)
EXTENDS Video, Sequences

CONSTANTS
  Width, Height,  \* dev->width, dev->height
  Drawables,      \* [type, x, y, viewable, onScreen, clipList, borderClip]
  Contexts,       \* the state of a graphics context that drawing depends on:
                  \* [clipped, clip, inferiors, lineWidth, font]
  Rects,          \* rectangles [x, y, w, h] that operations are given
  Paths,          \* sequences of points that they are given
  Moves,          \* how far a window moves, <<dx, dy>>
  MaxDraws        \* a bound: operations between two captures

VARIABLES
  gc,        \* a graphics context: funcs and ops are "rdp" or a table of the
             \* layer below, saved is priv->ops, valid: DIX need not validate it
  damage,    \* dev->damage is registered
  glamor,    \* dev->glamor
  client,    \* a client is connected
  asleep,    \* dev->screen_sleep_active
  dirty,     \* clientCon->dirtyRegion, the part on the screen
  stale,     \* history: pixels that changed since the last capture
  gap,       \* history: an operation since the last capture is known to report
             \* less than it changes
  draws      \* history: operations since the last capture

vars == <<video, gc, damage, glamor, client, asleep, dirty, stale, gap, draws>>

Box(x1, y1, x2, y2) == (x1..(x2 - 1)) \X (y1..(y2 - 1))

Screen == Box(0, 0, Width, Height)

Short(n) == ((n + 32768) % 65536) - 32768

\* BoxRec: the corners x1, y1, x2, y2 of a box, cut to 16 bits.
Stored(b) == [i \in 1..4 |-> Short(b[i])]

Fits(boxes) == \A b \in boxes : \A i \in 1..4 : Short(b[i]) = b[i]

\* The pixels of the screen in a box, and in boxes as they are.
Pixels(b) == Screen \cap Box(b[1], b[2], b[3], b[4])

Ink(boxes) == UNION {Pixels(b) : b \in boxes}

\* The region that is made from boxes.
Region(boxes) == UNION {Pixels(Stored(b)) : b \in boxes}

Lower == {"fb", "mi"}  \* the tables of operations of the layer below

ASSUME DrawingAssumption ==
  /\ Width \in Nat /\ Width <= 32767 /\ Height \in Nat /\ Height <= 32767
  /\ MaxDraws \in Nat
  /\ \A d \in Drawables :
       /\ d.type \in {"window", "pixmap"}
       /\ d.x \in Int /\ d.y \in Int
  /\ \A g \in Contexts :
       /\ g.lineWidth \in Nat
       /\ g.font.ascent \in Int /\ g.font.descent \in Int
       /\ g.font.max.ascent \in Int /\ g.font.max.descent \in Int
       /\ g.font.max.rsb \in Int /\ g.font.min.lsb \in Int
       /\ g.font.max.width \in Int /\ g.font.min.width \in Int
       /\ g.font.min.width <= g.font.max.width
  /\ Rects \subseteq [x : Int, y : Int, w : Nat, h : Nat]
  /\ \A r \in Rects : -32768 <= r.x /\ r.x <= 32767 /\ -32768 <= r.y /\ r.y <= 32767
  /\ Paths \subseteq Seq(Int \X Int) /\ Moves \subseteq Int \X Int

TypeOK ==
  /\ VideoTypeOK
  /\ gc \in [exists : BOOLEAN, funcs : {"rdp", "fb"}, ops : {"rdp"} \cup Lower,
             saved : {"none"} \cup Lower, valid : BOOLEAN]
  /\ damage \in BOOLEAN
  /\ glamor \in BOOLEAN
  /\ client \in BOOLEAN
  /\ asleep \in BOOLEAN
  /\ dirty \subseteq Screen
  /\ stale \subseteq Screen
  /\ gap \in BOOLEAN
  /\ draws \in 0..MaxDraws

\* rdpScreenInit wraps the functions of the screen.
Init ==
  /\ VideoInit
  /\ gc = [exists |-> FALSE, funcs |-> "fb", ops |-> "fb", saved |-> "none", valid |-> FALSE]
  /\ damage = FALSE
  /\ glamor \in BOOLEAN
  /\ client = FALSE
  /\ asleep = FALSE
  /\ dirty = {}
  /\ stale = {}
  /\ gap = FALSE
  /\ draws = 0

-----------------------------------------------------------------------------
(* Wrapping a graphics context (module/rdpGC.c, module/rdpDraw.h). *)

\* GC_FUNC_PROLOGUE
FuncPrologue(g) ==
  [g EXCEPT !.funcs = "fb", !.ops = IF g.saved = "none" THEN @ ELSE g.saved]

\* GC_FUNC_EPILOGUE
FuncEpilogue(g) ==
  IF g.saved = "none" THEN [g EXCEPT !.funcs = "rdp"]
  ELSE [g EXCEPT !.funcs = "rdp", !.saved = g.ops, !.ops = "rdp"]

\* Mutant: the operations are saved after they have been replaced.
OpWrappedLate(g) == {[g EXCEPT !.saved = "rdp"]}

\* GC_OP_PROLOGUE and GC_OP_EPILOGUE around an operation of the layer below,
\* which may choose another table; what it calls in turn is not wrapped.
OpWrapped(g) == {[g EXCEPT !.saved = t] : t \in Lower}

\* rdpCreateGC
CreateGC ==
  /\ ~gc.exists
  /\ gc' = [gc EXCEPT !.exists = TRUE, !.funcs = "rdp"]

\* rdpValidateGC: the layer below chooses its operations, which are saved.
ValidateGC ==
  /\ gc.exists
  /\ \E t \in Lower :
       gc' = FuncEpilogue([FuncPrologue(gc) EXCEPT !.ops = t, !.saved = t, !.valid = TRUE])

\* rdpChangeGC, rdpCopyGC (of the destination), rdpChangeClip, rdpDestroyClip
\* and rdpCopyClip; the context is validated before it is used again.
ChangeGC ==
  /\ gc.exists
  /\ gc' = FuncEpilogue([FuncPrologue(gc) EXCEPT !.valid = FALSE])

\* rdpDestroyGC
DestroyGC ==
  /\ gc.exists
  /\ gc' = [exists |-> FALSE, funcs |-> "fb", ops |-> "fb", saved |-> "none", valid |-> FALSE]

ContextStep ==
  /\ CreateGC \/ ValidateGC \/ ChangeGC \/ DestroyGC
  /\ UNCHANGED <<video, damage, glamor, client, asleep, dirty, stale, gap, draws>>

-----------------------------------------------------------------------------
(* Where an operation may draw. *)

Shift(R, dx, dy) == {<<p[1] + dx, p[2] + dy>> : p \in R}

\* The smallest box around some points, if there are any.
Around(R) ==
  LET xs == {p[1] : p \in R}
      ys == {p[2] : p \in R}
  IN IF R = {} THEN {} ELSE {<<Min(xs), Min(ys), Max(xs) + 1, Max(ys) + 1>>}

\* The part of a window that a context draws on.
WindowClip(d, g) == IF g.inferiors THEN d.borderClip ELSE d.clipList

ClientClip(d, g) == Shift(g.clip, d.x, d.y)

\* Mutant: the clip of the context is taken relative to the screen.
ClipUnshifted(d, g) ==
  CASE d.type = "pixmap" /\ ~g.clipped -> [draw |-> "all"]
    [] d.type = "pixmap" /\ g.clipped -> [draw |-> "clip", in |-> d.clipList \cap g.clip]
    [] d.type = "window" /\ (~d.viewable \/ WindowClip(d, g) = {}) -> [draw |-> "nothing"]
    [] OTHER -> [draw |-> "clip",
                 in |-> WindowClip(d, g) \cap (IF ~g.clipped THEN Screen ELSE g.clip)]

\* rdpDrawGetClip
DrawGetClip(d, g) ==
  LET within == IF d.type = "pixmap" THEN d.clipList ELSE WindowClip(d, g)
      clip   == IF ~g.clipped THEN within ELSE within \cap ClientClip(d, g)
      whole  == IF d.type = "pixmap" THEN d.clipList ELSE Screen
  IN CASE d.type = "pixmap" /\ ~g.clipped -> [draw |-> "all"]
       [] d.type = "window" /\ (~d.viewable \/ within = {}) -> [draw |-> "nothing"]
       [] OTHER -> IF whole \subseteq clip THEN [draw |-> "all"]
                   ELSE [draw |-> "clip", in |-> clip]

\* The common part of the wrappers: the region within the clip.
Reported(R, d, g) ==
  LET clip == DrawGetClip(d, g)
  IN CASE clip.draw = "nothing" -> {}
       [] clip.draw = "all"     -> R
       [] clip.draw = "clip"    -> R \cap clip.in

\* External: the pixels of the screen that the operation changes.
Painted(I, d, g) ==
  IF d.onScreen /\ (d.type = "pixmap" \/ d.viewable)
  THEN I \cap (IF d.type = "pixmap" THEN d.clipList ELSE WindowClip(d, g))
         \cap (IF ~g.clipped THEN Screen ELSE ClientClip(d, g)) \cap Screen
  ELSE {}

\* XRDP_DRAWABLE_IS_VISIBLE
Visible(d) == d.onScreen /\ (d.type = "window" => d.viewable)

\* rdpClientConAddAllReg and rdpClientConAddAllBox
AddAllReg(R, d) ==
  dirty' = IF client /\ ~asleep /\ Visible(d) THEN dirty \cup (R \cap Screen) ELSE dirty

\* xorgxrdpDamageReport, after the operation and about the same pixels.
Damaged(painted) == IF damage THEN painted ELSE {}

\* An operation paints some pixels; the wrapper and the damage report some.
\* known: the wrapper of such an operation is known to report too little, which
\* only counts before the damage does.  ~fits: a corner of its boxes was cut.
Paint(known, fits, d, painted, reported) ==
  /\ draws < MaxDraws
  /\ draws' = draws + 1
  /\ gap' = (gap \/ ~fits \/ (known /\ ~damage))
  /\ AddAllReg(reported \cup Damaged(painted), d)
  /\ stale' = IF client THEN stale \cup painted ELSE stale
  /\ UNCHANGED <<damage, glamor, client, asleep>>

Wrapped == gc.ops = "rdp"

\* An operation through a context: the boxes of the wrapper, and the ink I.
Draw(known, d, g, boxes, I) ==
  /\ gc.valid
  /\ Paint(known, Fits(boxes), d, Painted(I, d, g),
           IF Wrapped THEN Reported(Region(boxes), d, g) ELSE {})
  /\ gc' \in IF Wrapped THEN OpWrapped(gc) ELSE {gc}
  /\ UNCHANGED video

\* rdpScreenSleepBlockDraws: the operation is not even done.
Drop ==
  /\ asleep
  /\ draws < MaxDraws
  /\ draws' = draws + 1
  /\ UNCHANGED <<gc, damage, glamor, client, asleep, dirty, stale, gap>>

\* An operation whose wrapper drops it while the screen sleeps.
DrawAwake(d, g, boxes, I) ==
  \/ Wrapped /\ gc.valid /\ Drop /\ UNCHANGED video
  \/ (~asleep \/ ~Wrapped) /\ Draw(FALSE, d, g, boxes, I)

-----------------------------------------------------------------------------
(* The shapes. *)

\* A rectangle that an operation is given, on the screen.
RectOf(r, d) == <<r.x + d.x, r.y + d.y, r.x + d.x + r.w, r.y + d.y + r.h>>

RectsOf(rs, d) == {RectOf(r, d) : r \in rs}

\* rdpRegionFromRects and rdpRegionTranslate: cut at the edges of the 16-bit plane.
Clamp(n) == Min({32767, Max({-32768, n})})

ClampedBox(r, d) ==
  <<Clamp(r.x + d.x), Clamp(r.y + d.y),
    Clamp(Clamp(r.x + r.w) + d.x), Clamp(Clamp(r.y + r.h) + d.y)>>

\* A rectangle loses something when it is cut before it is moved.
InPlane(r) == r.x + r.w <= 32767 /\ r.y + r.h <= 32767

\* The points of a path relative to each other, CoordModePrevious.
Relative(path) ==
  LET at[i \in 1..Len(path)] ==
        IF i = 1 THEN path[1] ELSE <<at[i - 1][1] + path[i][1], at[i - 1][2] + path[i][2]>>
  IN [i \in 1..Len(path) |-> at[i]]

\* The points of a path, on the screen.
PointsOf(path, d) == [i \in 1..Len(path) |-> <<path[i][1] + d.x, path[i][2] + d.y>>]

\* External: the points that the X server makes of a path.
PointsInk(path, mode, d) ==
  PointsOf(IF mode = "previous" THEN Relative(path) ELSE path, d)

\* External: the pixels next to the line between two points.
LineInk(a, b) ==
  LET dx == b[1] - a[1]
      dy == b[2] - a[2]
      Abs(n) == IF n < 0 THEN -n ELSE n
  IN {p \in Ink(Around({a, b})) :
        2 * Abs((p[1] - a[1]) * dy - (p[2] - a[2]) * dx) <= Max({Abs(dx), Abs(dy)})}

\* External: lines.  How far wide ones reach with their joins and caps is left
\* open.
LinesInk(segments, wide) ==
  IF wide THEN Screen ELSE UNION {LineInk(s[1], s[2]) : s \in segments}

\* External: the outline of a rectangle, its corners mitered.
OutlineInk(r, d, lineWidth) ==
  LET before == lineWidth \div 2
      after  == IF lineWidth = 0 THEN 1 ELSE 1 + (lineWidth - 1) \div 2
      x1 == r.x + d.x
      y1 == r.y + d.y
      x2 == x1 + r.w
      y2 == y1 + r.h
  IN Ink({<<x1 - before, y1 - before, x2 + after, y1 + after>>,
          <<x1 - before, y2 - before, x2 + after, y2 + after>>,
          <<x1 - before, y1 - before, x1 + after, y2 + after>>,
          <<x2 - before, y1 - before, x2 + after, y2 + after>>})

-----------------------------------------------------------------------------
(* Copies and images. *)

\* rdpCopyArea
CopyArea(d, g) ==
  \E r \in Rects : DrawAwake(d, g, {RectOf(r, d)}, Ink({RectOf(r, d)}))

\* rdpCopyPlane: the lower edge of the region is reckoned from its left edge.
CopyPlane(d, g) ==
  \E r \in Rects :
    LET x1 == r.x + d.x
    IN Draw(TRUE, d, g, {<<x1, r.y + d.y, x1 + r.w, x1 + r.h>>}, Ink({RectOf(r, d)}))

\* rdpPutImage, of an image that is not the 4 by 4 pixels by which the
\* acceleration assistant registers (see the module Desktop).
PutImage(d, g) ==
  \E r \in Rects : DrawAwake(d, g, {RectOf(r, d)}, Ink({RectOf(r, d)}))

\* rdpCopyWindow: a window has moved; many: more than 16 rectangles.
CopyWindow(d) ==
  \E r \in Rects, move \in Moves, many \in BOOLEAN :
    LET old    == Pixels(RectOf(r, d))
        moved  == Shift(old, move[1], move[2])
        extent == IF d.borderClip = {} THEN {} ELSE Around(moved)
    IN /\ d.type = "window"
       /\ Paint(FALSE, many => Fits(extent), d,
                IF Visible(d) THEN moved \cap d.borderClip \cap Screen ELSE {},
                IF many THEN Region(extent) ELSE moved \cap d.borderClip)
       /\ UNCHANGED <<video, gc>>

-----------------------------------------------------------------------------
(* Points, lines and areas. *)

\* The box of one point.
Dot(p) == <<p[1], p[2], p[1] + 1, p[2] + 1>>

Dots(pts) == {Dot(pts[i]) : i \in 1..Len(pts)}

\* rdpPolyPoint: each point a box, whatever the mode.
PolyPoint(d, g) ==
  \E path \in Paths, mode \in {"origin", "previous"} :
    Draw(mode = "previous", d, g, Dots(PointsOf(path, d)), Ink(Dots(PointsInk(path, mode, d))))

Segments(pts) == {<<pts[i], pts[i + 1]>> : i \in 1..(Len(pts) - 1)}

\* A box around each line, whatever its width.
LineBoxes(segments) == UNION {Around({s[1], s[2]}) : s \in segments}

\* rdpPolylines: whatever the mode, too.
Polylines(d, g) ==
  \E path \in Paths, mode \in {"origin", "previous"} :
    LET wide == g.lineWidth >= 1
    IN Draw(wide \/ mode = "previous", d, g, LineBoxes(Segments(PointsOf(path, d))),
            LinesInk(Segments(PointsInk(path, mode, d)), wide))

\* rdpPolySegment: the same; here the segments of a path.
PolySegment(d, g) ==
  \E path \in Paths :
    LET segments == Segments(PointsOf(path, d))
        wide     == g.lineWidth > 1
    IN Draw(wide, d, g, LineBoxes(segments), LinesInk(segments, wide))

\* How far the line of a rectangle reaches down and to the right.
PolyRectangleDown(lw) == 1 + (lw - 1) \div 2

\* rdpPolyRectangle: a box for each of the four edges.
EdgeBoxes(r, d, lineWidth) ==
  LET lw   == Max({1, lineWidth})
      up   == lw \div 2
      down == PolyRectangleDown(lw)
      x1   == r.x + d.x
      y1   == r.y + d.y
      x2   == x1 + r.w
      y2   == y1 + r.h
  IN {<<x1 - up, y1 - up, x2 + down, y1 + down>>,
      <<x1 - up, y1 - up, x1 + down, y2 + down>>,
      <<x2 - up, y1 - up, x2 + down, y2 + down>>,
      <<x1 - up, y2 - up, x2 + down, y2 + down>>}

PolyRectangle(d, g) ==
  \E rs \in SUBSET Rects :
    Draw(FALSE, d, g, UNION {EdgeBoxes(r, d, g.lineWidth) : r \in rs},
         UNION {OutlineInk(r, d, g.lineWidth) : r \in rs})

\* The box of an arc: half a line more on each side.
ArcBox(r, d, g) ==
  LET lw    == IF g.lineWidth = 0 THEN 1 ELSE g.lineWidth
      extra == lw \div 2
      x1    == r.x - extra + d.x
      y1    == r.y - extra + d.y
  IN <<x1, y1, x1 + r.w + lw, y1 + r.h + lw>>

\* rdpPolyArc: thin arcs, which reach the right and lower edge of the rectangle,
\* or wide ones that are joined and capped.
PolyArc(d, g) ==
  \E rs \in SUBSET Rects :
    LET wide == g.lineWidth >= 1
    IN Draw(wide, d, g, {ArcBox(r, d, g) : r \in rs},
            IF wide THEN Screen
            ELSE Ink(RectsOf({[r EXCEPT !.w = @ + 1, !.h = @ + 1] : r \in rs}, d)))

\* rdpPolyFillArc
PolyFillArc(d, g) ==
  \E rs \in SUBSET Rects :
    Draw(FALSE, d, g, {ArcBox(r, d, g) : r \in rs}, Ink(RectsOf(rs, d)))

\* rdpFillPolygon: one box around all points, whatever the mode.
FillPolygon(d, g) ==
  \E path \in Paths, mode \in {"origin", "previous"} :
    Draw(mode = "previous", d, g, Around(Range(PointsOf(path, d))),
         Ink(Around(Range(PointsInk(path, mode, d)))))

\* rdpPolyFillRect
PolyFillRect(d, g) ==
  \E rs \in SUBSET Rects :
    Draw(\E r \in rs : ~InPlane(r), d, g,
         {ClampedBox(r, d) : r \in rs}, Ink(RectsOf(rs, d)))

-----------------------------------------------------------------------------
(* Text.  A font: [ascent, descent, max, min]; max and min are the bounds of *)
(* its characters, [ascent, descent, lsb, rsb, width].                       *)

MaxCharWidth(font) == Max({font.max.rsb, font.max.width})

\* GetTextBoundingBox of n characters.
TextBox(font, x, y, n) ==
  LET ascent  == Max({font.ascent, font.max.ascent})
      descent == Max({font.descent, font.max.descent})
  IN <<x + Min({0, font.min.lsb}), y - ascent, x + MaxCharWidth(font) * n, y + descent>>

\* External: n characters, each as big as the font allows, and the background of
\* an image text.  How far a font that writes to the left reaches is left open.
TextInk(font, x, y, n, background) ==
  IF font.min.width < 0 THEN Screen
  ELSE Ink({<<x + font.min.lsb, y - font.max.ascent,
              x + (n - 1) * font.max.width + font.max.rsb, y + font.max.descent>>} \cup
           IF background
           THEN {<<x, y - font.ascent, x + n * font.max.width, y + font.descent>>}
           ELSE {})

Text(d, g, background) ==
  \E r \in Rects, n \in {1, 2} :
    LET x == r.x + d.x
        y == r.y + d.y
    IN Draw(g.font.min.width < 0, d, g, {TextBox(g.font, x, y, n)},
            TextInk(g.font, x, y, n, background))

\* rdpPolyText8
PolyText8(d, g) == Text(d, g, FALSE)

\* rdpPolyText16
PolyText16(d, g) == Text(d, g, FALSE)

\* rdpImageText8
ImageText8(d, g) == Text(d, g, TRUE)

\* rdpImageText16
ImageText16(d, g) == Text(d, g, TRUE)

\* rdpImageGlyphBlt
ImageGlyphBlt(d, g) == Text(d, g, TRUE)

\* rdpPolyGlyphBlt
PolyGlyphBlt(d, g) == Text(d, g, FALSE)

-----------------------------------------------------------------------------
(* Render.  A picture draws within its composite clip. *)

PictureClip(d, g) ==
  (IF ~g.clipped THEN Screen \cup d.clipList ELSE ClientClip(d, g))
    \cap (IF d.type = "pixmap" THEN d.clipList ELSE WindowClip(d, g))

\* A Render function of the screen: no context, and no rdpDrawGetClip.
Render(known, d, g, boxes, I) ==
  /\ Paint(known, Fits(boxes), d, Painted(I, d, g), Region(boxes) \cap PictureClip(d, g))
  /\ UNCHANGED <<video, gc>>

\* rdpComposite
Composite(d, g) ==
  \E r \in Rects :
    \/ Drop /\ UNCHANGED video
    \/ ~asleep /\ Render(FALSE, d, g, {RectOf(r, d)}, Ink({RectOf(r, d)}))

\* rdpTrapezoids: the bounds of the shapes.
Trapezoids(d, g) ==
  \E path \in Paths :
    LET bounds == Around(Range(PointsOf(path, d)))
    IN Render(FALSE, d, g, bounds, Ink(bounds))

\* rdpTriangles
Triangles(d, g) ==
  \E path \in Paths :
    LET bounds == Around(Range(PointsOf(path, d)))
    IN Render(FALSE, d, g, bounds, Ink(bounds))

\* rdpCompositeRects
CompositeRects(d, g) ==
  \E rs \in SUBSET Rects :
    Render(\E r \in rs : ~InPlane(r), d, g,
           {ClampedBox(r, d) : r \in rs}, Ink(RectsOf(rs, d)))

\* rdpGlyphs reports nothing: the layer below composites each glyph, or draws
\* it itself and leaves the report to the damage.
Glyphs(d, g) ==
  \E r \in Rects, composited \in BOOLEAN :
    \/ Drop /\ UNCHANGED video
    \/ /\ ~asleep
       /\ Render(~composited, d, g, IF composited THEN {RectOf(r, d)} ELSE {},
                 Ink({RectOf(r, d)}))

-----------------------------------------------------------------------------
(* Video.  The picture is painted through a scratch context, which is wrapped *)
(* like any other.                                                            *)

ScratchClip(d) == [clipped |-> FALSE, clip |-> {}, inferiors |-> FALSE]

VideoPlace(r, p, d) == {RectOf([r EXCEPT !.w = p.dw, !.h = p.dh], d)}

\* xrdpVidPutImage
XvPutImage(d) ==
  \E p \in Pictures, r \in Rects :
    LET place == VideoPlace(r, p, d)
        g     == ScratchClip(d)
    IN /\ d.type = "window"
       /\ ~glamor
       /\ ConvertPicture(p)
       /\ \/ Drop
          \/ /\ ~asleep
             /\ Paint(FALSE, Fits(place), d, Painted(Ink(place), d, g),
                      Reported(Region(place), d, g))
             /\ UNCHANGED gc

XvNoBuffer ==
  /\ ~glamor
  /\ \E p \in Pictures : NoBuffer(p)
  /\ UNCHANGED <<gc, damage, glamor, client, asleep, dirty, stale, gap, draws>>

\* rdpDeferredXvCleanup
XvTimeout ==
  /\ XvCleanup
  /\ UNCHANGED <<gc, damage, glamor, client, asleep, dirty, stale, gap, draws>>

\* xrdpXvPutImageWrap: glamor paints, and the whole box is reported.
XvPutImageGlamor(d) ==
  \E p \in Pictures, r \in Rects :
    LET place == VideoPlace(r, p, d)
    IN /\ d.type = "window"
       /\ glamor
       /\ Paint(FALSE, Fits(place), d, Painted(Ink(place), d, ScratchClip(d)), Region(place))
       /\ UNCHANGED <<video, gc>>

-----------------------------------------------------------------------------
(* Clients, sleep and damage, as far as drawing can tell (the module          *)
(* ScreenUpdate has the whole story).                                         *)

\* rdpDeferredDamage, 10 ms after the start; DamageCreate may fail.
RegisterDamage ==
  /\ ~damage
  /\ damage' = TRUE
  /\ UNCHANGED <<video, gc, glamor, client, asleep, dirty, stale, gap, draws>>

\* The picture is captured and sent (rdpCapRect).
Capture ==
  /\ client /\ ~asleep
  /\ dirty' = {}
  /\ stale' = {}
  /\ gap' = FALSE
  /\ draws' = 0
  /\ xvReach' = 0
  /\ xvPicture' = NoPicture
  /\ UNCHANGED <<xvSimd, xvTimer, xvBytes, xvData, xvBase>>
  /\ UNCHANGED <<gc, damage, glamor, client, asleep>>

\* rdpClientConProcessMsgClientInfo of the first client: it wants everything.
Connect ==
  /\ ~client
  /\ client' = TRUE
  /\ dirty' = Screen
  /\ stale' = Screen
  /\ UNCHANGED <<video, gc, damage, glamor, asleep, gap, draws>>

\* rdpClientConDisconnect of the last client: the sleep ends.
Disconnect ==
  /\ client
  /\ client' = FALSE
  /\ asleep' = FALSE
  /\ dirty' = {}
  /\ stale' = {}
  /\ gap' = FALSE
  /\ draws' = 0
  /\ UNCHANGED <<video, gc, damage, glamor>>

\* rdpScreenSleepEnter
EnterSleep ==
  /\ client /\ ~asleep
  /\ asleep' = TRUE
  /\ UNCHANGED <<video, gc, damage, glamor, client, dirty, stale, gap, draws>>

\* rdpScreenSleepQueueFullRefresh
QueueFullRefresh == dirty' = Screen

\* rdpScreenSleepWake: everything is sent.  Before that the screen is resized
\* forth and back, which makes applications draw their windows again
\* (rdpScreenSleepRefreshFramebuffer); not a screen of one column or row, and
\* nobody looks whether glamor found the memory.
UserWake ==
  /\ asleep
  /\ asleep' = FALSE
  /\ \/ Width > 1 /\ Height > 1 /\ stale' = Screen
     \/ (Width <= 1 \/ Height <= 1 \/ glamor) /\ UNCHANGED stale
  /\ QueueFullRefresh
  /\ UNCHANGED <<video, gc, damage, glamor, client, gap, draws>>

\* rdpScreenSleepRefreshCallback: everything is sent, nothing is redrawn.
RefreshTimeout ==
  /\ asleep
  /\ asleep' = FALSE
  /\ QueueFullRefresh
  /\ UNCHANGED <<video, gc, damage, glamor, client, stale, gap, draws>>

-----------------------------------------------------------------------------
Next ==
  \/ ContextStep
  \/ RegisterDamage \/ Capture \/ Connect \/ Disconnect
  \/ EnterSleep \/ UserWake \/ RefreshTimeout
  \/ XvNoBuffer \/ XvTimeout
  \/ \E d \in Drawables : CopyWindow(d) \/ XvPutImage(d) \/ XvPutImageGlamor(d)
  \/ \E d \in Drawables, g \in Contexts :
       \/ CopyArea(d, g) \/ CopyPlane(d, g) \/ PutImage(d, g)
       \/ PolyPoint(d, g) \/ Polylines(d, g) \/ PolySegment(d, g)
       \/ PolyRectangle(d, g) \/ PolyArc(d, g) \/ PolyFillArc(d, g)
       \/ FillPolygon(d, g) \/ PolyFillRect(d, g)
       \/ PolyText8(d, g) \/ PolyText16(d, g) \/ ImageText8(d, g)
       \/ ImageText16(d, g) \/ ImageGlyphBlt(d, g) \/ PolyGlyphBlt(d, g)
       \/ Composite(d, g) \/ Trapezoids(d, g) \/ Triangles(d, g)
       \/ CompositeRects(d, g) \/ Glyphs(d, g)

Spec == Init /\ [][Next]_vars

-----------------------------------------------------------------------------
(* Properties *)

\* While a client looks, every pixel that changed since its last picture is in
\* its dirty region, whatever the clips, the context's history, sleep and
\* damage: as far as the boxes fit 16 bits, and unless the damage was not yet
\* registered when an operation was done whose wrapper reports too little.  These
\* are CopyPlane, points relative to each other, wide lines and arcs, rectangles
\* that leave the 16-bit plane, fonts that write to the left, and glyphs that the
\* layer below draws itself.
EveryChangeIsReported == (client /\ ~asleep /\ ~gap) => stale \subseteq dirty
=============================================================================
