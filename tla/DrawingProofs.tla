----------------------------- MODULE DrawingProofs -----------------------------
(***************************************************************************)
(* Proofs about Drawing and Video, for a screen of any size and every      *)
(* drawable, context, shape and picture: each wrapper reports what its     *)
(* operation changes, apart from the gaps that the model names, and the    *)
(* conversions of a picture that is Regular stay inside the scratch        *)
(* buffer.                                                                 *)
(***************************************************************************)
EXTENDS Drawing, FiniteSetTheorems, TLAPS

-----------------------------------------------------------------------------
(* Numbers *)

\* The largest of two numbers.
LEMMA MaxOfTwo ==
  ASSUME NEW a \in Int, NEW b \in Int
  PROVE  Max({a, b}) = IF a >= b THEN a ELSE b
<1>1. \E x \in {a, b} : \A y \in {a, b} : x >= y
  OBVIOUS
<1>2. Max({a, b}) \in {a, b} /\ \A y \in {a, b} : Max({a, b}) >= y
  BY <1>1 DEF Max
<1> QED
  BY <1>2

\* The smallest of two numbers.
LEMMA MinOfTwo ==
  ASSUME NEW a \in Int, NEW b \in Int
  PROVE  Min({a, b}) = IF a <= b THEN a ELSE b
<1>1. \E x \in {a, b} : \A y \in {a, b} : x <= y
  OBVIOUS
<1>2. Min({a, b}) \in {a, b} /\ \A y \in {a, b} : Min({a, b}) <= y
  BY <1>1 DEF Min
<1> QED
  BY <1>2

\* What a quotient is, without its operator.
LEMMA Quotient ==
  ASSUME NEW a \in Nat, NEW n \in Nat \ {0}
  PROVE  /\ a \div n \in Nat
         /\ (a \div n) * n <= a
         /\ a < (a \div n) * n + n
BY Z3

\* Rounding up adds less than one unit.
LEMMA RoundUpFacts ==
  ASSUME NEW n \in Nat, NEW k \in Nat \ {0}
  PROVE  RoundUp(n, k) \in Nat /\ n <= RoundUp(n, k) /\ RoundUp(n, k) < n + k
<1> DEFINE a == n + k - 1
<1>1. a \in Nat
  OBVIOUS
<1>2. /\ a \div k \in Nat
      /\ (a \div k) * k <= a
      /\ a < (a \div k) * k + k
  BY <1>1, Quotient
<1> QED
  BY <1>2 DEF RoundUp

-----------------------------------------------------------------------------
(* The scratch buffer of the video overlay *)

\* What is known of a picture, and of the alignment of the buffer.
LEMMA PictureFacts ==
  /\ \A p \in Pictures :
       /\ p.w \in Nat \ {0} /\ p.h \in Nat \ {0}
       /\ p.dw \in Nat \ {0} /\ p.dh \in Nat \ {0}
  /\ Bases \subseteq 0..15
BY SMT, VideoAssumption

\* A step of the scaling stays below the length that it scales, and reaches it
\* at most one step later (stretch_RGB32_RGB32).
LEMMA SteppedBound ==
  ASSUME NEW len \in Nat \ {0}, NEW n \in Nat \ {0}
  PROVE  /\ Stepped(n - 1, len, n) \in 0..(len - 1)
         /\ Stepped(n, len, n) \in 0..len
<1> DEFINE q == (len * 65536) \div n
<1>0. len * 65536 \in Nat
  OBVIOUS
<1>1. q \in Nat /\ q * n <= len * 65536
  BY <1>0, Quotient
<1> HIDE DEF q
<1>2. n * q \in Nat /\ (n - 1) * q \in Nat /\ (n - 1) * q = n * q - q /\ n * q = q * n
  BY <1>1
<1> DEFINE t == (n * q) \div 65536
           u == ((n - 1) * q) \div 65536
<1>3. Stepped(n - 1, len, n) = u /\ Stepped(n, len, n) = t
  BY DEF Stepped, q
<1>4. t \in Nat /\ t * 65536 <= n * q
  BY <1>2, Quotient
<1>5. u \in Nat /\ u * 65536 <= (n - 1) * q
  BY <1>2, Quotient
<1> HIDE DEF t, u
<1>6. t <= len
  <2>1. n * q <= len * 65536
    BY <1>1, <1>2
  <2>2. t * 65536 <= len * 65536
    BY <1>2, <1>4, <2>1
  <2> QED
    BY <1>4, <2>2
<1>7. u <= len - 1
  <2>1. CASE q = 0
    BY <1>2, <1>5, <2>1
  <2>2. CASE q # 0
    <3>1. (n - 1) * q < len * 65536
      BY <1>1, <1>2, <2>2
    <3>2. u * 65536 < len * 65536
      BY <1>2, <1>5, <3>1
    <3> QED
      BY <1>5, <3>2
  <2> QED
    BY <2>1, <2>2
<1> QED
  BY <1>3, <1>4, <1>5, <1>6, <1>7

\* One pixel is fetched ahead, and still the picture is not left by more than
\* that.
LEMMA StretchStays ==
  ASSUME NEW p \in Pictures, Regular(p), Stretched(p)
  PROVE  StretchReads(p) \in 0..(p.w * p.h)
<1>0. /\ p.w \in Nat \ {0} /\ p.h \in Nat \ {0} /\ p.dw \in Nat \ {0} /\ p.dh \in Nat \ {0}
      /\ p.src.x \in Nat /\ p.src.y \in Nat /\ p.src.w \in Nat \ {0} /\ p.src.h \in Nat \ {0}
      /\ p.src.x + p.src.w <= p.w /\ p.src.y + p.src.h <= p.h
  BY SMT, VideoAssumption DEF Regular
<1> USE <1>0
<1> DEFINE y == Stepped(p.dh - 1, p.src.h, p.dh)
           x == Stepped(p.dw, p.src.w, p.dw)
<1>1. y \in 0..(p.src.h - 1) /\ x \in 0..p.src.w
  BY SteppedBound
<1> HIDE DEF x, y
<1>2. p.src.y + y \in 0..(p.h - 1) /\ p.src.x + x \in 0..p.w
  BY <1>1
<1>3. ASSUME NEW r \in 0..(p.h - 1), NEW c \in 0..p.w
      PROVE  r * p.w + c \in 0..(p.w * p.h)
  <2>1. r * p.w \in Nat /\ (p.h - 1) * p.w = p.w * p.h - p.w
    OBVIOUS
  <2>2. r * p.w <= (p.h - 1) * p.w
    OBVIOUS
  <2> QED
    BY <2>1, <2>2
<1>4. (p.src.y + y) * p.w + (p.src.x + x) \in 0..(p.w * p.h)
  BY <1>2, <1>3
<1>5. StretchReads(p) = (p.src.y + y) * p.w + p.src.x + x
  BY DEF StretchReads, x, y
<1>6. (p.src.y + y) * p.w + p.src.x + x = (p.src.y + y) * p.w + (p.src.x + x)
  <2> DEFINE m == (p.src.y + y) * p.w
  <2>1. m \in Int /\ x \in Int /\ p.src.x \in Int
    BY <1>1, <1>2
  <2> HIDE DEF m
  <2>2. m + p.src.x + x = m + (p.src.x + x)
    BY <2>1
  <2> QED
    BY <2>2 DEF m
<1> QED
  BY <1>4, <1>5, <1>6

\* Where an aligned part of the buffer begins.
LEMMA AlignedFacts ==
  ASSUME NEW base \in 0..15, NEW n \in Nat
  PROVE  Aligned(base, n) \in n..(n + 15)
<1> DEFINE r == RoundUp(base + n, 16)
<1>1. base + n \in Nat /\ 16 \in Nat \ {0}
  OBVIOUS
<1>2. r \in Nat /\ base + n <= r /\ r < base + n + 16
  BY <1>1, RoundUpFacts
<1>3. Aligned(base, n) = r - base
  BY DEF Aligned
<1> HIDE DEF r
<1> QED
  BY <1>2, <1>3

\* The largest of three numbers is no larger than a bound of them all.
LEMMA MaxBelow ==
  ASSUME NEW a \in Int, NEW b \in Int, NEW c \in Int,
         NEW n \in Int, a <= n, b <= n, c <= n
  PROVE  Max({a, b, c}) \in Int /\ Max({a, b, c}) <= n /\ a <= Max({a, b, c})
<1> DEFINE S == {a, b, c}
<1>1. \E x \in S : \A y \in S : x >= y
  OBVIOUS
<1>2. Max(S) \in S /\ \A y \in S : Max(S) >= y
  BY <1>1 DEF Max
<1> QED
  BY <1>2

\* The SSE2 conversions write no more than seven pixels beyond the picture.
LEMMA Sse2Facts ==
  ASSUME NEW p \in Pictures
  PROVE  PlanarSse2(p) \in 0..(p.w * p.h) /\ PackedSse2(p) \in 0..(p.w * p.h + 7)
<1>0. p.w \in Nat \ {0} /\ p.h \in Nat \ {0}
  BY PictureFacts
<1> DEFINE wh == p.w * p.h
           rows == p.h \div 2
           eights == p.w \div 8
<1>1. wh \in Nat \ {0}
  BY <1>0
<1>2. rows \in Nat /\ rows * 2 <= p.h /\ eights \in Nat /\ eights * 8 <= p.w
  BY <1>0, Quotient
<1>3. PlanarSse2(p) \in 0..wh
  <2>1. PlanarSse2(p) = rows * (8 * eights + p.w)
    BY DEF PlanarSse2
  <2> HIDE DEF rows, eights
  <2>2. 8 * eights + p.w \in 0..(2 * p.w)
    BY <1>0, <1>2
  <2>3. rows * (8 * eights + p.w) \in 0..(rows * (2 * p.w))
    <3> DEFINE k == 8 * eights + p.w
    <3>1. k \in Nat /\ k <= 2 * p.w
      BY <2>2
    <3> HIDE DEF k
    <3>2. rows * k \in Nat /\ rows * k <= rows * (2 * p.w)
      BY <1>0, <1>2, <3>1
    <3>3. rows * (2 * p.w) \in Int
      BY <1>0, <1>2
    <3> QED
      BY <3>2, <3>3 DEF k
  <2>4. rows * (2 * p.w) = (rows * 2) * p.w /\ (rows * 2) * p.w <= p.h * p.w /\ p.h * p.w = wh
    BY <1>0, <1>2
  <2> DEFINE most == rows * (2 * p.w)
  <2>5. most <= wh /\ most \in Int
    <3> DEFINE even == (rows * 2) * p.w
               all  == p.h * p.w
    <3>1. most = even /\ even <= all /\ all = wh
      BY <2>4
    <3>2. even \in Int
      BY <1>0, <1>2
    <3> HIDE DEF even, all, most, wh
    <3> QED
      BY <1>1, <3>1, <3>2
  <2>6. PlanarSse2(p) \in 0..most
    BY <2>1, <2>3
  <2> HIDE DEF wh, most
  <2> QED
    BY <1>1, <2>5, <2>6
<1>4. PackedSse2(p) \in 0..(wh + 7)
  <2> DEFINE q == wh \div 8
  <2>1. q \in Nat /\ q * 8 <= wh
    BY <1>1, Quotient
  <2>2. PackedSse2(p) = 8 * Max({1, q})
    BY DEF PackedSse2
  <2> HIDE DEF q, wh
  <2>3. Max({1, q}) = IF 1 >= q THEN 1 ELSE q
    BY <2>1, MaxOfTwo
  <2> QED
    BY <1>1, <2>1, <2>2, <2>3
<1> QED
  BY <1>3, <1>4

\* An int keeps the size of a picture that is Regular.
LEMMA NeededFacts ==
  ASSUME NEW p \in Pictures
  PROVE  /\ Needed(p) \in Int
         /\ Regular(p) => Needed(p) = 4 * (p.w * p.h) + 4 * (p.dw * p.dh) + 64
<1> DEFINE wh == p.w * p.h
           dwh == p.dw * p.dh
<1>1. wh \in Nat /\ dwh \in Nat
  BY PictureFacts
<1>2. Needed(p) = 4 * (((wh + dwh + 16 + 536870912) % 1073741824) - 536870912)
  BY SMT DEF Needed, IntPixels
<1>3. Regular(p) => wh + dwh + 16 < 536870912
  BY SMT DEF Regular
<1> HIDE DEF wh, dwh
<1>4. Needed(p) \in Int
  BY SMT, <1>1, <1>2
<1>5. wh + dwh + 16 < 536870912 => Needed(p) = 4 * wh + 4 * dwh + 64
  BY SMT, <1>1, <1>2
<1> QED
  BY SMT, <1>3, <1>4, <1>5 DEF wh, dwh

\* Converting and scaling touch no more of the buffer than the bytes that are
\* reckoned for it (xrdpVidPutImage).
LEMMA ReachNeeded ==
  ASSUME NEW p \in Pictures, Regular(p), NEW base \in 0..15
  PROVE  Reach(base, p) \in Nat /\ Reach(base, p) <= Needed(p)
<1>0. p.w \in Nat \ {0} /\ p.h \in Nat \ {0} /\ p.dw \in Nat \ {0} /\ p.dh \in Nat \ {0}
  BY PictureFacts
<1> DEFINE wh == p.w * p.h
           dwh == p.dw * p.dh
<1>1. wh \in Nat /\ dwh \in Nat \ {0} /\ p.w * p.h * 4 = 4 * wh
  BY <1>0
<1>2. Needed(p) = 4 * wh + 4 * dwh + 64
  BY NeededFacts
<1>3. Converted(base) \in 0..15
  <2>1. Aligned(base, 0) \in 0..(0 + 15)
    BY AlignedFacts
  <2> QED
    BY <2>1 DEF Converted
<1>4. ConvertedPixels(p) \in 0..(wh + 7)
  <2>1. ConvertedC(p) \in 0..(wh + 1)
    <3>1. CASE Planar(p)
      BY <1>1, <3>1 DEF ConvertedC
    <3>2. CASE ~Planar(p)
      <4>1. RoundUp(p.w, 2) \in p.w..(p.w + 1)
        <5>1. 2 \in Nat \ {0} /\ p.w \in Nat
          BY <1>0
        <5>2. /\ RoundUp(p.w, 2) \in Nat
              /\ p.w <= RoundUp(p.w, 2) /\ RoundUp(p.w, 2) < p.w + 2
          BY <5>1, RoundUpFacts
        <5> QED
          BY <5>1, <5>2
      <4>2. (p.h - 1) * p.w = wh - p.w /\ (p.h - 1) * p.w \in Nat
        BY <1>0
      <4> QED
        BY <1>0, <1>1, <3>2, <4>1, <4>2 DEF ConvertedC
    <3> QED
      BY <3>1, <3>2
  <2>2. PlanarSse2(p) \in 0..wh /\ PackedSse2(p) \in 0..(wh + 7)
    BY Sse2Facts
  <2> HIDE DEF wh
  <2> QED
    BY <1>1, <2>1, <2>2 DEF ConvertedPixels
<1>5. Stretched(p) => StretchReads(p) \in 0..wh
  BY StretchStays
<1>6. Scaled(base, p) \in (Converted(base) + 4 * wh)..(Converted(base) + 4 * wh + 15)
  <2> DEFINE n == Converted(base) + 4 * wh
  <2>1. n \in Nat /\ Scaled(base, p) = Aligned(base, n)
    BY <1>1, <1>3 DEF Scaled
  <2> HIDE DEF n
  <2>2. Aligned(base, n) \in n..(n + 15)
    BY <2>1, AlignedFacts
  <2> QED
    BY <2>1, <2>2 DEF n
<1> DEFINE n == 4 * wh + 4 * dwh + 64
           a == Converted(base) + 4 * ConvertedPixels(p)
           b == Converted(base) + 4 * (StretchReads(p) + 1)
           c == Scaled(base, p) + 4 * p.dw * p.dh
           e == Converted(base) + 4 * p.w * p.h
           S == {a} \cup (IF Stretched(p) THEN {b, c} ELSE {e})
<1>7. 4 * p.dw * p.dh = 4 * dwh /\ 4 * p.w * p.h = 4 * wh
  BY <1>0
<1> HIDE DEF wh, dwh
<1>8. /\ n \in Nat
      /\ a \in Nat /\ a <= n
      /\ Stretched(p) => b \in Nat /\ b <= n
      /\ c \in Nat /\ c <= n
      /\ e \in Nat /\ e <= n
  BY <1>1, <1>3, <1>4, <1>5, <1>6, <1>7
<1>9. Reach(base, p) = Max(S)
  BY DEF Reach
<1>10. Needed(p) = n
  BY <1>2
<1> HIDE DEF a, b, c, e, n
<1>11. CASE Stretched(p)
  <2>1. S = {a, b, c}
    BY <1>11
  <2>2. a \in Int /\ b \in Int /\ c \in Int /\ n \in Int /\ a <= n /\ b <= n /\ c <= n
    BY <1>8, <1>11
  <2> HIDE DEF S
  <2>3. Max({a, b, c}) \in Int /\ Max({a, b, c}) <= n /\ a <= Max({a, b, c})
    BY <2>2, MaxBelow
  <2> QED
    BY <1>8, <1>9, <1>10, <2>1, <2>3
<1>12. CASE ~Stretched(p)
  <2>1. S = {a, e, e}
    BY <1>12
  <2>2. a \in Int /\ e \in Int /\ n \in Int /\ a <= n /\ e <= n
    BY <1>8
  <2> HIDE DEF S
  <2>3. Max({a, e, e}) \in Int /\ Max({a, e, e}) <= n /\ a <= Max({a, e, e})
    BY <2>2, MaxBelow
  <2> QED
    BY <1>8, <1>9, <1>10, <2>1, <2>3
<1> QED
  BY <1>11, <1>12

\* The buffer that there is has the size that is remembered, and holds what the
\* last picture touches if that is Regular.
VideoInv ==
  /\ VideoTypeOK
  /\ xvBytes = xvData
  /\ VideoStaysInside

\* The picture is forgotten when it has been captured.
VideoCaptured ==
  /\ xvReach' = 0
  /\ xvPicture' = NoPicture
  /\ UNCHANGED <<xvSimd, xvTimer, xvBytes, xvData, xvBase>>

\* What any step does to the video overlay.
LEMMA VideoSteps ==
  ASSUME [Next]_vars
  PROVE  \/ UNCHANGED video
         \/ \E p \in Pictures : ConvertPicture(p) \/ NoBuffer(p)
         \/ XvCleanup
         \/ VideoCaptured
<1>1. CASE UNCHANGED vars
  BY <1>1 DEF vars
<1>2. CASE ContextStep
  BY <1>2 DEF ContextStep
<1>3. CASE RegisterDamage \/ Connect \/ Disconnect \/ EnterSleep \/ UserWake \/ RefreshTimeout
  BY <1>3 DEF RegisterDamage, Connect, Disconnect, EnterSleep, UserWake, RefreshTimeout
<1>4. CASE Capture
  BY <1>4 DEF Capture, VideoCaptured
<1>5. CASE XvNoBuffer \/ XvTimeout
  BY <1>5 DEF XvNoBuffer, XvTimeout
<1>6. ASSUME NEW d \in Drawables, CopyWindow(d) \/ XvPutImage(d) \/ XvPutImageGlamor(d)
      PROVE  UNCHANGED video \/ \E p \in Pictures : ConvertPicture(p)
  BY <1>6 DEF CopyWindow, XvPutImage, XvPutImageGlamor
<1>7. ASSUME NEW d \in Drawables, NEW g \in Contexts,
             \/ CopyArea(d, g) \/ CopyPlane(d, g) \/ PutImage(d, g)
             \/ PolyPoint(d, g) \/ Polylines(d, g) \/ PolySegment(d, g)
             \/ PolyRectangle(d, g) \/ PolyArc(d, g) \/ PolyFillArc(d, g)
             \/ FillPolygon(d, g) \/ PolyFillRect(d, g)
      PROVE  UNCHANGED video
  BY <1>7 DEF CopyArea, CopyPlane, PutImage, PolyPoint, Polylines, PolySegment, PolyRectangle,
              PolyArc, PolyFillArc, FillPolygon, PolyFillRect, DrawAwake, Draw
<1>8. ASSUME NEW d \in Drawables, NEW g \in Contexts,
             \/ PolyText8(d, g) \/ PolyText16(d, g) \/ ImageText8(d, g)
             \/ ImageText16(d, g) \/ ImageGlyphBlt(d, g) \/ PolyGlyphBlt(d, g)
             \/ Composite(d, g) \/ Trapezoids(d, g) \/ Triangles(d, g)
             \/ CompositeRects(d, g) \/ Glyphs(d, g)
      PROVE  UNCHANGED video
  BY <1>8 DEF PolyText8, PolyText16, ImageText8, ImageText16, ImageGlyphBlt, PolyGlyphBlt, Text,
              Draw, Composite, Trapezoids, Triangles, CompositeRects, Glyphs, Render
<1> QED
  BY <1>1, <1>2, <1>3, <1>4, <1>5, <1>6, <1>7, <1>8 DEF Next

\* Every step keeps the buffer as big as what is done in it.
LEMMA VideoKept == VideoInv /\ [Next]_vars => VideoInv'
<1> SUFFICES ASSUME VideoInv, [Next]_vars PROVE VideoInv'
  OBVIOUS
<1> USE PictureFacts DEF VideoInv, VideoTypeOK
<1>1. CASE UNCHANGED video
  BY SMT, <1>1 DEF video, VideoStaysInside, Regular
<1>2. ASSUME NEW p \in Pictures, ConvertPicture(p) PROVE VideoInv'
  <2>1. xvBase' \in Bases \cup {0} /\ xvBase' \in 0..15
    <3>1. xvBase' \in Bases \cup {0}
      BY <1>2 DEF ConvertPicture
    <3> QED
      BY <3>1
  <2>2. Reach(xvBase', p) \in Nat
    <3>1. CASE Regular(p)
      BY <2>1, <3>1, ReachNeeded
    <3>2. CASE ~Regular(p)
      BY SMT, <3>2 DEF Reach, Beyond
    <3> QED
      BY <3>1, <3>2
  <2>3. xvBytes' \in Nat /\ xvBytes' = xvData' /\ Needed(p) <= xvBytes'
    BY <1>2, NeededFacts DEF ConvertPicture, Enough
  <2>4. xvReach' = Reach(xvBase', p) /\ xvPicture' = p /\ xvTimer' = TRUE /\ xvSimd' = xvSimd
    BY <1>2 DEF ConvertPicture
  <2>5. Regular(xvPicture)' => Regular(p)
    BY SMT, <2>4 DEF Regular
  <2>6. Regular(p) => xvReach' <= xvData'
    <3> SUFFICES ASSUME Regular(p) PROVE xvReach' <= xvData'
      OBVIOUS
    <3>1. Reach(xvBase', p) <= Needed(p)
      BY <2>1, ReachNeeded
    <3>2. Needed(p) \in Int
      BY NeededFacts
    <3> QED
      BY <2>2, <2>3, <2>4, <3>1, <3>2
  <2>7. VideoStaysInside'
    BY <2>5, <2>6 DEF VideoStaysInside
  <2>8. xvTimer' \in BOOLEAN /\ xvPicture' \in Pictures \cup {NoPicture} /\ xvSimd' \in BOOLEAN
    BY <2>4
  <2> QED
    BY <2>1, <2>2, <2>3, <2>4, <2>7, <2>8
<1>3. ASSUME xvTimer' \in BOOLEAN, xvSimd' = xvSimd, xvBytes' = 0, xvData' = 0, xvBase' = 0,
             xvReach' = 0, xvPicture' = xvPicture
      PROVE  VideoInv'
  BY <1>3 DEF VideoStaysInside
<1>4. ASSUME NEW p \in Pictures, NoBuffer(p) PROVE VideoInv'
  BY <1>3, <1>4 DEF NoBuffer
<1>5. CASE XvCleanup
  BY <1>3, <1>5 DEF XvCleanup
<1>6. CASE VideoCaptured
  BY <1>6 DEF VideoCaptured, VideoStaysInside
<1> QED
  BY <1>1, <1>2, <1>4, <1>5, <1>6, VideoSteps

\* VideoInv holds in every state.
LEMMA VideoInvariant == Spec => []VideoInv
<1>1. Init => VideoInv
  <2> SUFFICES ASSUME Init PROVE VideoInv
    OBVIOUS
  <2>1. xvTimer \in BOOLEAN /\ xvSimd \in BOOLEAN
    BY DEF Init, VideoInit
  <2>2. xvBytes = 0 /\ xvData = 0 /\ xvBase = 0 /\ xvReach = 0 /\ xvPicture = NoPicture
    BY DEF Init, VideoInit
  <2> QED
    BY <2>1, <2>2 DEF VideoInv, VideoTypeOK, VideoStaysInside
<1> QED
  BY <1>1, VideoKept, PTL DEF Spec

\* Converting and scaling stay inside memory that is allocated, for pictures of
\* every format that are Regular, by the C and the SSE2 conversions, however the
\* buffer is aligned and whatever pictures came before (xrdpVidPutImage,
\* stretch_RGB32_RGB32).
THEOREM VideoAlwaysInside == Spec => []VideoStaysInside
<1>1. VideoInv => VideoStaysInside
  BY DEF VideoInv
<1> QED
  BY <1>1, VideoInvariant, PTL

\* The planes of a picture whose sides suit them lie where they are read.
LEMMA PlanesAgree ==
  ASSUME NEW p \in Pictures, Planar(p), p.w % 8 = 0, p.h % 2 = 0,
         NEW plane \in {0, 1}, NEW i \in 0..(p.w - 1), NEW j \in 0..(p.h - 1)
  PROVE  ColourAt(p, plane, i, j)
           = ColourPlane(p, plane) + (j \div 2) * ColourPitch(p) + i \div 2
<1> USE PictureFacts
<1>1. PICK k \in Nat : p.w = 8 * k
  <2>1. p.w = 8 * (p.w \div 8) /\ p.w \div 8 \in Nat
    BY Z3
  <2> QED
    BY <2>1
<1>2. PICK m \in Nat : p.h = 2 * m
  <2>1. p.h = 2 * (p.h \div 2) /\ p.h \div 2 \in Nat
    BY Z3
  <2> QED
    BY <2>1
<1>3. Rounded(p.format, p.w, p.h).w = 8 * k /\ Rounded(p.format, p.w, p.h).h = 2 * m
  <2>1. RoundUp(8 * k, 4) = 8 * k /\ RoundUp(2 * m, 2) = 2 * m
    BY DEF RoundUp
  <2> QED
    BY <1>1, <1>2, <2>1 DEF Rounded, Planar
<1>4. ColourPitch(p) = 4 * k
  <2>1. (8 * k) \div 2 = 4 * k /\ RoundUp(4 * k, 4) = 4 * k
    BY DEF RoundUp
  <2> QED
    BY <1>3, <2>1 DEF ColourPitch
<1> DEFINE km == k * m
<1>5. ColourPlane(p, plane) = p.w * p.h + plane * (4 * km)
  <2>1. (2 * m) \div 2 = m
    OBVIOUS
  <2>2. ColourPlane(p, plane) = (8 * k) * (2 * m) + plane * (4 * k) * m
    BY <1>3, <1>4, <2>1 DEF ColourPlane
  <2>3. plane * (4 * k) * m = plane * (4 * km)
    OBVIOUS
  <2> QED
    BY <1>1, <1>2, <2>2, <2>3
<1>6. (p.w * p.h) \div 4 = 4 * km
  <2>1. p.w * p.h = 16 * km /\ km \in Nat
    BY <1>1, <1>2
  <2> HIDE DEF km
  <2>2. (16 * km) \div 4 = 4 * km
    BY <2>1
  <2> QED
    BY <2>1, <2>2
<1>7. p.w \div 2 = 4 * k
  BY <1>1
<1> DEFINE a == (j \div 2) * (4 * k)
           b == i \div 2
           c == p.w * p.h
           e == plane * (4 * km)
<1>8. ColourAt(p, plane, i, j) = a + b + c + e
  BY <1>6, <1>7 DEF ColourAt
<1>9. ColourPlane(p, plane) + (j \div 2) * ColourPitch(p) + i \div 2 = c + e + a + b
  BY <1>4, <1>5
<1>10. a \in Int /\ b \in Int /\ c \in Int /\ e \in Int
  <2>1. km \in Nat /\ j \div 2 \in Int /\ 4 * k \in Int
    BY Z3
  <2> QED
    BY <2>1
<1> HIDE DEF a, b, c, e, km
<1> QED
  BY <1>8, <1>9, <1>10

\* The colours of a pixel are read from where the application was told to put
\* them, for every picture whose width is a multiple of 8 and whose height is even
\* (xrdpVidQueryImageAttributes, YV12_to_RGB32, I420_to_RGB32 and their SSE2
\* companions).
THEOREM ColourAlwaysFromItsPlane == Spec => []ColourFromItsPlane
<1>1. VideoInv => ColourFromItsPlane
  BY PlanesAgree DEF VideoInv, VideoTypeOK, ColourFromItsPlane
<1> QED
  BY <1>1, VideoInvariant, PTL

-----------------------------------------------------------------------------
(* What a step does *)

\* A context that may be drawn with is wrapped.
ContextOK ==
  /\ gc \in [exists : BOOLEAN, funcs : {"rdp", "fb"}, ops : {"rdp"} \cup Lower,
             saved : {"none"} \cup Lower, valid : BOOLEAN]
  /\ gc.valid => gc.ops = "rdp"

\* An operation that reports all it paints, or is known not to, or has boxes whose
\* corners were cut.
Reports ==
  \E d \in Drawables, known \in BOOLEAN, fits \in BOOLEAN, painted \in SUBSET Screen :
    \E reported :
      /\ Paint(known, fits, d, painted, reported)
      /\ painted # {} => Visible(d)
      /\ known \/ ~fits \/ painted \subseteq reported
      /\ gc' \in {gc} \cup OpWrapped(gc)

\* Boxes whose corners fit 16 bits are stored as they are.
LEMMA FittingIsExact ==
  ASSUME NEW boxes, Fits(boxes)
  PROVE  Region(boxes) = Ink(boxes)
<1>1. ASSUME NEW b \in boxes PROVE Pixels(Stored(b)) = Pixels(b)
  <2>1. \A i \in 1..4 : Short(b[i]) = b[i]
    BY DEF Fits
  <2>2. /\ Stored(b)[1] = b[1] /\ Stored(b)[2] = b[2]
        /\ Stored(b)[3] = b[3] /\ Stored(b)[4] = b[4]
    <3>1. \A i \in 1..4 : Stored(b)[i] = b[i]
      BY <2>1 DEF Stored
    <3> QED
      BY <3>1
  <2> QED
    BY <2>2 DEF Pixels
<1>2. {Pixels(Stored(b)) : b \in boxes} = {Pixels(b) : b \in boxes}
  BY <1>1
<1> QED
  BY <1>2 DEF Region, Ink

\* What is known of a drawable.
LEMMA DrawableFacts ==
  \A d \in Drawables : d.type \in {"window", "pixmap"} /\ d.x \in Int /\ d.y \in Int
BY SMT, DrawingAssumption

\* An operation paints on the screen only, where something can be seen.
LEMMA PaintedFacts ==
  ASSUME NEW I, NEW d \in Drawables, NEW g
  PROVE  Painted(I, d, g) \in SUBSET Screen /\ (Painted(I, d, g) # {} => Visible(d))
<1>1. CASE d.onScreen /\ (d.type = "pixmap" \/ d.viewable)
  BY <1>1 DEF Painted, Visible
<1>2. CASE ~(d.onScreen /\ (d.type = "pixmap" \/ d.viewable))
  BY <1>2 DEF Painted
<1> QED
  BY <1>1, <1>2

\* What is painted of a shape is within the clip by which it is reported, so that
\* the whole shape may be reported when the clip is the whole
\* (rdpDrawGetClip and its callers).
LEMMA ReportedCovers ==
  ASSUME NEW I, NEW R, I \subseteq R, NEW d \in Drawables, NEW g
  PROVE  Painted(I, d, g) \subseteq Reported(R, d, g)
<1> USE DrawableFacts
<1>1. CASE d.type = "pixmap" /\ ~g.clipped
  <2>1. DrawGetClip(d, g) = [draw |-> "all"]
    BY <1>1 DEF DrawGetClip
  <2> QED
    BY <2>1 DEF Reported, Painted
<1>2. CASE d.type = "window" /\ (~d.viewable \/ WindowClip(d, g) = {})
  BY <1>2 DEF Painted
<1>3. CASE /\ ~(d.type = "pixmap" /\ ~g.clipped)
           /\ ~(d.type = "window" /\ (~d.viewable \/ WindowClip(d, g) = {}))
  <2> DEFINE within == IF d.type = "pixmap" THEN d.clipList ELSE WindowClip(d, g)
             clip   == IF ~g.clipped THEN within ELSE within \cap ClientClip(d, g)
  <2>1. d.type = "window" => within = WindowClip(d, g)
    OBVIOUS
  <2>2. DrawGetClip(d, g) \in {[draw |-> "all"], [draw |-> "clip", in |-> clip]}
    BY <1>3, <2>1 DEF DrawGetClip
  <2>3. Painted(I, d, g) \subseteq R \cap clip
    BY DEF Painted
  <2> HIDE DEF clip
  <2> QED
    BY <2>2, <2>3 DEF Reported
<1> QED
  BY <1>1, <1>2, <1>3

\* Every wrapper whose boxes cover what the operation inks, or is known not to.
LEMMA DrawReports ==
  ASSUME ContextOK, NEW d \in Drawables, NEW g, NEW known \in BOOLEAN, NEW boxes, NEW I,
         Draw(known, d, g, boxes, I), known \/ I \subseteq Ink(boxes)
  PROVE  Reports
<1> DEFINE fits == Fits(boxes)
           painted == Painted(I, d, g)
           reported == Reported(Region(boxes), d, g)
<1>1. Wrapped
  BY DEF ContextOK, Draw, Wrapped
<1>2. Paint(known, fits, d, painted, reported) /\ gc' \in OpWrapped(gc)
  BY <1>1 DEF Draw
<1>3. painted \in SUBSET Screen /\ (painted # {} => Visible(d))
  BY PaintedFacts
<1>4. known \/ ~fits \/ painted \subseteq reported
  BY FittingIsExact, ReportedCovers
<1>5. fits \in BOOLEAN
  BY DEF Fits
<1> HIDE DEF fits, painted, reported
<1> QED
  BY <1>2, <1>3, <1>4, <1>5 DEF Reports

\* The same when the operation may be dropped.
LEMMA DrawAwakeReports ==
  ASSUME ContextOK, NEW d \in Drawables, NEW g, NEW boxes,
         DrawAwake(d, g, boxes, Ink(boxes))
  PROVE  Reports \/ Drop
<1>1. CASE Draw(FALSE, d, g, boxes, Ink(boxes))
  BY <1>1, DrawReports
<1> QED
  BY <1>1 DEF DrawAwake

\* Render operations report within the composite clip.
LEMMA RenderReports ==
  ASSUME NEW d \in Drawables, NEW g, NEW known \in BOOLEAN, NEW boxes, NEW I,
         Render(known, d, g, boxes, I), known \/ I \subseteq Ink(boxes)
  PROVE  Reports
<1> DEFINE fits == Fits(boxes)
           painted == Painted(I, d, g)
           reported == Region(boxes) \cap PictureClip(d, g)
<1>1. painted \in SUBSET Screen /\ (painted # {} => Visible(d))
  BY PaintedFacts
<1>2. I \subseteq Region(boxes) => painted \subseteq reported
  BY DEF Painted, PictureClip
<1>3. known \/ ~fits \/ painted \subseteq reported
  BY <1>2, FittingIsExact
<1>4. Paint(known, fits, d, painted, reported) /\ gc' = gc
  BY DEF Render
<1>5. fits \in BOOLEAN
  BY DEF Fits
<1> HIDE DEF fits, painted, reported
<1> QED
  BY <1>1, <1>3, <1>4, <1>5 DEF Reports

-----------------------------------------------------------------------------
(* Shapes *)

\* The pixels of the screen that are in a box.
LEMMA InPixels ==
  ASSUME NEW x1 \in Int, NEW y1 \in Int, NEW x2 \in Int, NEW y2 \in Int, NEW p
  PROVE  p \in Pixels(<<x1, y1, x2, y2>>) <=>
           /\ p \in Screen
           /\ x1 <= p[1] /\ p[1] < x2
           /\ y1 <= p[2] /\ p[2] < y2
<1>1. Pixels(<<x1, y1, x2, y2>>) = Screen \cap Box(x1, y1, x2, y2)
  BY DEF Pixels
<1>2. Width \in Int /\ Height \in Int
  BY SMT, DrawingAssumption
<1> QED
  BY <1>1, <1>2 DEF Screen, Box

\* The pixels of the screen are places with coordinates that a box can hold.
LEMMA OnScreen ==
  ASSUME NEW p \in Screen
  PROVE  /\ p \in Int \X Int
         /\ 0 <= p[1] /\ p[1] < Width /\ Width <= 32767
         /\ 0 <= p[2] /\ p[2] < Height /\ Height <= 32767
BY SMT, DrawingAssumption DEF Screen, Box

\* A box that lies in another holds no pixel more.
LEMMA BoxesNested ==
  ASSUME NEW x1 \in Int, NEW y1 \in Int, NEW x2 \in Int, NEW y2 \in Int,
         NEW a1 \in Int, NEW b1 \in Int, NEW a2 \in Int, NEW b2 \in Int,
         a1 <= x1, b1 <= y1, x2 <= a2, y2 <= b2
  PROVE  Pixels(<<x1, y1, x2, y2>>) \subseteq Pixels(<<a1, b1, a2, b2>>)
<1> SUFFICES ASSUME NEW p \in Pixels(<<x1, y1, x2, y2>>)
             PROVE  p \in Pixels(<<a1, b1, a2, b2>>)
  OBVIOUS
<1>1. p \in Screen /\ x1 <= p[1] /\ p[1] < x2 /\ y1 <= p[2] /\ p[2] < y2
  BY InPixels
<1>2. p \in Int \X Int
  BY <1>1, OnScreen
<1>3. a1 <= p[1] /\ p[1] < a2 /\ b1 <= p[2] /\ p[2] < b2
  BY <1>1, <1>2
<1> QED
  BY <1>1, <1>3, InPixels

\* Thin lines are within the boxes around them.
LEMMA LinesCovered ==
  ASSUME NEW segments
  PROVE  LinesInk(segments, FALSE) \subseteq Ink(LineBoxes(segments))
<1> SUFFICES ASSUME NEW s \in segments, NEW p \in LineInk(s[1], s[2])
             PROVE  p \in Ink(LineBoxes(segments))
  BY DEF LinesInk
<1>1. p \in Ink(Around({s[1], s[2]}))
  BY DEF LineInk
<1>2. Around({s[1], s[2]}) \subseteq LineBoxes(segments)
  BY DEF LineBoxes
<1> QED
  BY <1>1, <1>2 DEF Ink

\* A rectangle, on the screen.
LEMMA RectFacts ==
  ASSUME NEW r \in Rects, NEW d \in Drawables
  PROVE  r.x + d.x \in Int /\ r.y + d.y \in Int /\ r.w \in Nat /\ r.h \in Nat
BY SMT, DrawingAssumption

\* The outline of a rectangle stays in the boxes of its four edges
\* (rdpPolyRectangle).
LEMMA RectangleCovered ==
  ASSUME NEW r \in Rects, NEW d \in Drawables, NEW lineWidth \in Nat
  PROVE  OutlineInk(r, d, lineWidth) = Ink(EdgeBoxes(r, d, lineWidth))
<1> DEFINE before == lineWidth \div 2
           after  == IF lineWidth = 0 THEN 1 ELSE 1 + (lineWidth - 1) \div 2
           lw     == Max({1, lineWidth})
           up     == lw \div 2
           down   == PolyRectangleDown(lw)
<1>1. lw = IF lineWidth = 0 THEN 1 ELSE lineWidth
  BY MaxOfTwo
<1>2. up = before /\ down = after
  <2>1. CASE lineWidth = 0
    <3>1. 1 \div 2 = 0 /\ 0 \div 2 = 0
      OBVIOUS
    <3> QED
      BY <1>1, <2>1, <3>1 DEF PolyRectangleDown
  <2>2. CASE lineWidth # 0
    BY <1>1, <2>2 DEF PolyRectangleDown
  <2> QED
    BY <2>1, <2>2
<1> HIDE DEF before, after, lw, up, down
<1> DEFINE x1 == r.x + d.x
           y1 == r.y + d.y
           x2 == x1 + r.w
           y2 == y1 + r.h
<1>3. EdgeBoxes(r, d, lineWidth) =
        {<<x1 - up, y1 - up, x2 + down, y1 + down>>,
         <<x1 - up, y1 - up, x1 + down, y2 + down>>,
         <<x2 - up, y1 - up, x2 + down, y2 + down>>,
         <<x1 - up, y2 - up, x2 + down, y2 + down>>}
  BY DEF EdgeBoxes, lw, up, down
<1>4. OutlineInk(r, d, lineWidth) =
        Ink({<<x1 - before, y1 - before, x2 + after, y1 + after>>,
             <<x1 - before, y2 - before, x2 + after, y2 + after>>,
             <<x1 - before, y1 - before, x1 + after, y2 + after>>,
             <<x2 - before, y1 - before, x2 + after, y2 + after>>})
  BY DEF OutlineInk, before, after
<1>5. EdgeBoxes(r, d, lineWidth) =
        {<<x1 - before, y1 - before, x2 + after, y1 + after>>,
         <<x1 - before, y2 - before, x2 + after, y2 + after>>,
         <<x1 - before, y1 - before, x1 + after, y2 + after>>,
         <<x2 - before, y1 - before, x2 + after, y2 + after>>}
  <2> HIDE DEF x1, y1, x2, y2
  <2> QED
    BY <1>2, <1>3
<1> QED
  BY <1>4, <1>5

\* A thin arc stays in its box, and so does the inside of every arc (rdpPolyArc,
\* rdpPolyFillArc).
LEMMA ArcCovered ==
  ASSUME NEW r \in Rects, NEW d \in Drawables, NEW g \in Contexts
  PROVE  /\ g.lineWidth = 0 =>
              Pixels(RectOf([r EXCEPT !.w = @ + 1, !.h = @ + 1], d)) \subseteq Pixels(ArcBox(r, d, g))
         /\ Pixels(RectOf(r, d)) \subseteq Pixels(ArcBox(r, d, g))
<1> DEFINE lw    == IF g.lineWidth = 0 THEN 1 ELSE g.lineWidth
           extra == lw \div 2
           x     == r.x - extra + d.x
           y     == r.y - extra + d.y
<1>1. g.lineWidth \in Nat /\ lw \in Nat \ {0}
  BY SMT, DrawingAssumption
<1>2. extra \in Nat /\ extra <= lw /\ (g.lineWidth = 0 => lw = 1 /\ extra = 0)
  <2>1. extra \in Nat /\ extra * 2 <= lw
    BY <1>1, Quotient
  <2>2. 1 \div 2 = 0
    OBVIOUS
  <2> HIDE DEF extra
  <2>3. extra <= lw
    BY <1>1, <2>1
  <2> QED
    BY <2>1, <2>2, <2>3 DEF extra
<1>3. /\ r.x \in Int /\ d.x \in Int /\ r.y \in Int /\ d.y \in Int
      /\ r.w \in Nat /\ r.h \in Nat
  BY SMT, DrawingAssumption
<1>4. ArcBox(r, d, g) = <<x, y, x + r.w + lw, y + r.h + lw>>
  BY DEF ArcBox
<1>5. RectOf(r, d) = <<r.x + d.x, r.y + d.y, r.x + d.x + r.w, r.y + d.y + r.h>>
  BY DEF RectOf
<1>6. RectOf([r EXCEPT !.w = @ + 1, !.h = @ + 1], d)
        = <<r.x + d.x, r.y + d.y, r.x + d.x + (r.w + 1), r.y + d.y + (r.h + 1)>>
  <2>1. r \in [x : Int, y : Int, w : Nat, h : Nat]
    BY SMT, DrawingAssumption
  <2> QED
    BY <2>1 DEF RectOf
<1> HIDE DEF lw, extra
<1>7. x = r.x + d.x - extra /\ y = r.y + d.y - extra /\ x \in Int /\ y \in Int
  BY <1>2, <1>3
<1> HIDE DEF x, y
<1> DEFINE x1 == r.x + d.x
           y1 == r.y + d.y
           a2 == x + r.w + lw
           b2 == y + r.h + lw
<1>8. /\ x1 \in Int /\ y1 \in Int /\ a2 \in Int /\ b2 \in Int
      /\ x <= x1 /\ y <= y1 /\ x1 + r.w <= a2 /\ y1 + r.h <= b2
      /\ x1 + r.w \in Int /\ y1 + r.h \in Int
      /\ g.lineWidth = 0 => x1 + (r.w + 1) <= a2 /\ y1 + (r.h + 1) <= b2
      /\ x1 + (r.w + 1) \in Int /\ y1 + (r.h + 1) \in Int
  BY <1>1, <1>2, <1>3, <1>7
<1> HIDE DEF x1, y1, a2, b2
<1>9. Pixels(RectOf(r, d)) \subseteq Pixels(ArcBox(r, d, g))
  <2> DEFINE x2 == x1 + r.w
             y2 == y1 + r.h
  <2>1. RectOf(r, d) = <<x1, y1, x2, y2>> /\ ArcBox(r, d, g) = <<x, y, a2, b2>>
    BY <1>4, <1>5 DEF x1, y1, a2, b2
  <2>2. /\ x1 \in Int /\ y1 \in Int /\ x2 \in Int /\ y2 \in Int
        /\ x \in Int /\ y \in Int /\ a2 \in Int /\ b2 \in Int
        /\ x <= x1 /\ y <= y1 /\ x2 <= a2 /\ y2 <= b2
    BY <1>7, <1>8
  <2> HIDE DEF x2, y2
  <2>3. Pixels(<<x1, y1, x2, y2>>) \subseteq Pixels(<<x, y, a2, b2>>)
    BY SMTT(40), <2>2, BoxesNested
  <2> QED
    BY <2>1, <2>3
<1>10. ASSUME g.lineWidth = 0
       PROVE  Pixels(RectOf([r EXCEPT !.w = @ + 1, !.h = @ + 1], d)) \subseteq Pixels(ArcBox(r, d, g))
  <2> DEFINE x2 == x1 + (r.w + 1)
             y2 == y1 + (r.h + 1)
             grown == RectOf([r EXCEPT !.w = @ + 1, !.h = @ + 1], d)
  <2>1. grown = <<x1, y1, x2, y2>> /\ ArcBox(r, d, g) = <<x, y, a2, b2>>
    BY <1>4, <1>6 DEF x1, y1, a2, b2
  <2>2. /\ x1 \in Int /\ y1 \in Int /\ x2 \in Int /\ y2 \in Int
        /\ x \in Int /\ y \in Int /\ a2 \in Int /\ b2 \in Int
        /\ x <= x1 /\ y <= y1 /\ x2 <= a2 /\ y2 <= b2
    BY <1>7, <1>8, <1>10
  <2> HIDE DEF x2, y2, grown
  <2>3. Pixels(<<x1, y1, x2, y2>>) \subseteq Pixels(<<x, y, a2, b2>>)
    BY SMTT(40), <2>2, BoxesNested
  <2> QED
    BY <2>1, <2>3 DEF grown
<1> QED
  BY <1>9, <1>10

\* A number cut to 16 bits, as far as the screen can tell.
LEMMA ClampFacts ==
  ASSUME NEW n \in Int
  PROVE  /\ Clamp(n) = IF n > 32767 THEN 32767 ELSE IF n < -32768 THEN -32768 ELSE n
         /\ Clamp(n) \in Int
<1> DEFINE m == Max({-32768, n})
<1>1. m = IF -32768 >= n THEN -32768 ELSE n
  BY SMT, MaxOfTwo
<1>2. Clamp(n) = Min({32767, m})
  BY SMT DEF Clamp
<1>3. m \in Int
  BY SMT, <1>1
<1> HIDE DEF m
<1>4. Min({32767, m}) = IF 32767 <= m THEN 32767 ELSE m
  BY SMT, <1>3, MinOfTwo
<1> QED
  BY SMT, <1>1, <1>2, <1>4

\* Rectangles that stay in the 16-bit plane are cut only where there is no screen
\* (rdpPolyFillRect, rdpCompositeRects).
LEMMA ClampedCovered ==
  ASSUME NEW r \in Rects, NEW d \in Drawables, InPlane(r)
  PROVE  Pixels(RectOf(r, d)) \subseteq Pixels(ClampedBox(r, d))
<1>1. r.x \in Int /\ r.y \in Int /\ r.w \in Nat /\ r.h \in Nat /\ d.x \in Int /\ d.y \in Int
  BY SMT, DrawingAssumption
<1> DEFINE right == r.x + r.w
           low   == r.y + r.h
<1>2. /\ right \in Int /\ -32768 <= right /\ right <= 32767
      /\ low \in Int /\ -32768 <= low /\ low <= 32767
  BY SMT, <1>1, DrawingAssumption DEF InPlane
<1> HIDE DEF right, low
<1>3. Clamp(right) = right /\ Clamp(low) = low
  BY SMT, <1>2, ClampFacts
<1> DEFINE x1 == r.x + d.x
           y1 == r.y + d.y
           x2 == right + d.x
           y2 == low + d.y
<1>4. x1 \in Int /\ y1 \in Int /\ x2 \in Int /\ y2 \in Int
  BY <1>1, <1>2
<1>5. ClampedBox(r, d) = <<Clamp(x1), Clamp(y1), Clamp(x2), Clamp(y2)>>
  BY <1>3 DEF ClampedBox, right, low
<1>6. RectOf(r, d) = <<x1, y1, x2, y2>>
  <2>1. r.x + d.x + r.w = x2 /\ r.y + d.y + r.h = y2
    BY SMT, <1>1 DEF right, low
  <2> QED
    BY <2>1 DEF RectOf
<1> HIDE DEF x1, y1, x2, y2
<1>7. ASSUME NEW p \in Pixels(<<x1, y1, x2, y2>>)
      PROVE  p \in Pixels(<<Clamp(x1), Clamp(y1), Clamp(x2), Clamp(y2)>>)
  <2>1. /\ p \in Screen
        /\ x1 <= p[1] /\ p[1] < x2 /\ y1 <= p[2] /\ p[2] < y2
    BY <1>4, <1>7, InPixels
  <2>2. /\ p[1] \in Int /\ p[2] \in Int
        /\ 0 <= p[1] /\ p[1] < 32767 /\ 0 <= p[2] /\ p[2] < 32767
    <3>1. Width \in Int /\ Height \in Int
      BY SMT, DrawingAssumption
    <3> QED
      BY <2>1, <3>1, OnScreen
  <2>3. ASSUME NEW n \in Int, NEW k \in Int, 0 <= k, k < 32767
        PROVE  (n <= k => Clamp(n) <= k) /\ (k < n => k < Clamp(n)) /\ Clamp(n) \in Int
    BY SMT, <2>3, ClampFacts
  <2>4. /\ Clamp(x1) <= p[1] /\ p[1] < Clamp(x2) /\ Clamp(y1) <= p[2] /\ p[2] < Clamp(y2)
        /\ Clamp(x1) \in Int /\ Clamp(y1) \in Int /\ Clamp(x2) \in Int /\ Clamp(y2) \in Int
    BY <1>4, <2>1, <2>2, <2>3
  <2> QED
    BY <2>1, <2>4, InPixels
<1> QED
  BY <1>5, <1>6, <1>7

\* Several of them.
LEMMA RectanglesCovered ==
  ASSUME NEW rs \in SUBSET Rects, NEW d \in Drawables
  PROVE  \/ \E r \in rs : ~InPlane(r)
         \/ Ink(RectsOf(rs, d)) \subseteq Ink({ClampedBox(r, d) : r \in rs})
<1> SUFFICES ASSUME \A r \in rs : InPlane(r)
             PROVE  Ink(RectsOf(rs, d)) \subseteq Ink({ClampedBox(r, d) : r \in rs})
  OBVIOUS
<1>1. \A r \in rs : Pixels(RectOf(r, d)) \subseteq Pixels(ClampedBox(r, d))
  BY ClampedCovered
<1> QED
  BY <1>1 DEF Ink, RectsOf

\* Characters, and their background, stay in the box of a text
\* (GetTextBoundingBox).
LEMMA TextCovered ==
  ASSUME NEW g \in Contexts, NEW x \in Int, NEW y \in Int, NEW n \in {1, 2},
         NEW background \in BOOLEAN, NEW font, font = g.font, font.min.width >= 0
  PROVE  TextInk(font, x, y, n, background) \subseteq Ink({TextBox(font, x, y, n)})
<1> DEFINE ascent  == Max({font.ascent, font.max.ascent})
           descent == Max({font.descent, font.max.descent})
           wide    == MaxCharWidth(font)
           left    == Min({0, font.min.lsb})
<1>1. /\ font.ascent \in Int /\ font.descent \in Int
      /\ font.max.ascent \in Int /\ font.max.descent \in Int
      /\ font.max.rsb \in Int /\ font.max.width \in Nat /\ font.min.lsb \in Int
      /\ ~(font.min.width < 0)
  <2>1. font.min.width \in Int /\ font.max.width \in Int /\ font.min.width <= font.max.width
    BY SMT, DrawingAssumption
  <2> QED
    BY SMT, <2>1, DrawingAssumption
<1>2. /\ ascent \in Int /\ font.ascent <= ascent /\ font.max.ascent <= ascent
      /\ descent \in Int /\ font.descent <= descent /\ font.max.descent <= descent
  BY <1>1, MaxOfTwo
<1>3. wide \in Int /\ font.max.rsb <= wide /\ font.max.width <= wide
  BY <1>1, MaxOfTwo DEF MaxCharWidth
<1>4. left \in Int /\ left <= 0 /\ left <= font.min.lsb
  <2>1. 0 \in Int
    OBVIOUS
  <2> QED
    BY <1>1, <2>1, MinOfTwo
<1>5. TextBox(font, x, y, n) = <<x + left, y - ascent, x + wide * n, y + descent>>
  BY DEF TextBox
<1> HIDE DEF ascent, descent, wide, left
<1> DEFINE most == wide * n
           last == (n - 1) * font.max.width
           all  == n * font.max.width
<1>6. /\ most \in Int /\ last \in Int /\ all \in Int
      /\ all <= most /\ last + font.max.rsb <= most
  <2>1. CASE n = 1
    BY <1>1, <1>3, <2>1
  <2>2. CASE n = 2
    BY <1>1, <1>3, <2>2
  <2> QED
    BY <2>1, <2>2
<1> DEFINE chars == <<x + font.min.lsb, y - font.max.ascent,
                      x + last + font.max.rsb, y + font.max.descent>>
           back  == <<x, y - font.ascent, x + all, y + font.descent>>
<1>7. TextInk(font, x, y, n, background) = Ink({chars} \cup IF background THEN {back} ELSE {})
  BY <1>1 DEF TextInk
<1> HIDE DEF most, last, all
<1>8. TextBox(font, x, y, n) = <<x + left, y - ascent, x + most, y + descent>>
  BY <1>5 DEF most
<1> DEFINE a1 == x + left
           b1 == y - ascent
           a2 == x + most
           b2 == y + descent
<1>9. Pixels(chars) \subseteq Pixels(TextBox(font, x, y, n))
  <2> DEFINE x1 == x + font.min.lsb
             y1 == y - font.max.ascent
             x2 == x + last + font.max.rsb
             y2 == y + font.max.descent
  <2>1. /\ x1 \in Int /\ y1 \in Int /\ x2 \in Int /\ y2 \in Int
        /\ a1 \in Int /\ b1 \in Int /\ a2 \in Int /\ b2 \in Int
        /\ a1 <= x1 /\ b1 <= y1 /\ x2 <= a2 /\ y2 <= b2
    BY <1>1, <1>2, <1>3, <1>4, <1>6
  <2>2. chars = <<x1, y1, x2, y2>> /\ TextBox(font, x, y, n) = <<a1, b1, a2, b2>>
    BY <1>8
  <2> HIDE DEF chars, a1, b1, a2, b2, x1, y1, x2, y2
  <2>3. Pixels(<<x1, y1, x2, y2>>) \subseteq Pixels(<<a1, b1, a2, b2>>)
    BY SMTT(40), <2>1, BoxesNested
  <2> QED
    BY <2>2, <2>3
<1>10. Pixels(back) \subseteq Pixels(TextBox(font, x, y, n))
  <2> DEFINE y1 == y - font.ascent
             x2 == x + all
             y2 == y + font.descent
  <2>1. /\ y1 \in Int /\ x2 \in Int /\ y2 \in Int
        /\ a1 \in Int /\ b1 \in Int /\ a2 \in Int /\ b2 \in Int
        /\ a1 <= x /\ b1 <= y1 /\ x2 <= a2 /\ y2 <= b2
    BY <1>1, <1>2, <1>3, <1>4, <1>6
  <2>2. back = <<x, y1, x2, y2>> /\ TextBox(font, x, y, n) = <<a1, b1, a2, b2>>
    BY <1>8
  <2> HIDE DEF back, a1, b1, a2, b2, y1, x2, y2
  <2>3. Pixels(<<x, y1, x2, y2>>) \subseteq Pixels(<<a1, b1, a2, b2>>)
    BY SMTT(40), <2>1, BoxesNested
  <2> QED
    BY <2>2, <2>3
<1> HIDE DEF chars, back
<1> QED
  BY <1>7, <1>9, <1>10 DEF Ink

-----------------------------------------------------------------------------
(* The box around pixels of the screen that have moved *)

\* A set of naturals has a least number: the sets of the numbers up to each of
\* them are finite, and one of these holds no other.
LEMMA LeastNatural ==
  ASSUME NEW T \in SUBSET Nat, T # {}
  PROVE  \E n \in T : \A m \in T : n <= m
<1> DEFINE R == StrictSubsetOrdering(Nat)
           upTo == {0..n : n \in T}
<1>1. IsWellFoundedOn(R, FiniteSubsetsOf(Nat))
  BY FS_StrictSubsetOrderingWellFounded
<1>2. upTo \subseteq FiniteSubsetsOf(Nat)
  <2>1. 0 \in Int
    OBVIOUS
  <2>2. \A n \in T : IsFiniteSet(0..n)
    BY <2>1, FS_Interval
  <2> QED
    BY <2>2 DEF FiniteSubsetsOf
<1>3. upTo # {}
  OBVIOUS
<1> HIDE DEF R, upTo
<1>4. PICK s \in upTo : \A t \in upTo : ~ (<<t, s>> \in R)
  BY <1>1, <1>2, <1>3, WFMin
<1>5. PICK n \in T : s = 0..n
  BY <1>4 DEF upTo
<1>6. ASSUME NEW m \in T, m < n PROVE FALSE
  <2> DEFINE pair == <<0..m, 0..n>>
  <2>1. 0..m \in upTo
    BY DEF upTo
  <2>2. pair \in (SUBSET Nat) \X (SUBSET Nat) /\ pair[1] = 0..m /\ pair[2] = 0..n
    OBVIOUS
  <2>3. 0..m \subseteq 0..n /\ 0..m # 0..n
    BY <1>6
  <2>4. pair \in R
    BY <2>2, <2>3 DEF R, StrictSubsetOrdering
  <2> QED
    BY <1>4, <1>5, <2>1, <2>4
<1> QED
  BY <1>6

\* Integers that are bounded on both sides have a least and a greatest.
LEMMA Extremes ==
  ASSUME NEW S \in SUBSET Int, S # {}, NEW a \in Int, NEW b \in Int,
         \A x \in S : a <= x /\ x <= b
  PROVE  /\ Min(S) \in Int /\ \A x \in S : Min(S) <= x
         /\ Max(S) \in Int /\ \A x \in S : x <= Max(S)
<1> DEFINE up   == {x - a : x \in S}
           down == {b - x : x \in S}
<1>1. up \in SUBSET Nat /\ up # {} /\ down \in SUBSET Nat /\ down # {}
  <2>1. \A x \in S : x - a \in Nat /\ b - x \in Nat
    OBVIOUS
  <2> QED
    BY <2>1
<1>2. \E x \in S : \A y \in S : x <= y
  <2>1. PICK n \in up : \A m \in up : n <= m
    <3> HIDE DEF up
    <3> QED
      BY <1>1, LeastNatural
  <2>2. PICK x \in S : n = x - a
    BY <2>1
  <2>3. ASSUME NEW y \in S PROVE x <= y
    <3>1. x - a <= y - a
      BY <2>1, <2>2
    <3> QED
      BY <3>1
  <2> QED
    BY <2>3
<1>3. \E x \in S : \A y \in S : x >= y
  <2>1. PICK n \in down : \A m \in down : n <= m
    <3> HIDE DEF down
    <3> QED
      BY <1>1, LeastNatural
  <2>2. PICK x \in S : n = b - x
    BY <2>1
  <2>3. ASSUME NEW y \in S PROVE x >= y
    <3>1. b - x <= b - y
      BY <2>1, <2>2
    <3> QED
      BY <3>1
  <2> QED
    BY <2>3
<1>4. Min(S) \in S /\ \A y \in S : Min(S) <= y
  BY <1>2 DEF Min
<1>5. Max(S) \in S /\ \A y \in S : Max(S) >= y
  BY <1>3 DEF Max
<1> QED
  BY <1>4, <1>5

\* Pixels of the screen that have moved and are still on it are in the box around
\* them all (rdpRegionExtents, for rdpCopyWindow).
LEMMA AroundCovers ==
  ASSUME NEW old \in SUBSET Screen, NEW dx \in Int, NEW dy \in Int
  PROVE  Shift(old, dx, dy) \cap Screen \subseteq Ink(Around(Shift(old, dx, dy)))
<1> DEFINE R == Shift(old, dx, dy)
           xs == {p[1] : p \in R}
           ys == {p[2] : p \in R}
<1>1. CASE R = {}
  BY <1>1
<1>2. CASE R # {}
  <2>1. Width \in Int /\ Height \in Int
    BY SMT, DrawingAssumption
  <2>2. \A p \in R : /\ p \in Int \X Int
                     /\ dx <= p[1] /\ p[1] <= Width + dx
                     /\ dy <= p[2] /\ p[2] <= Height + dy
    <3>1. ASSUME NEW q \in old
          PROVE  /\ q[1] + dx \in Int /\ dx <= q[1] + dx /\ q[1] + dx <= Width + dx
                 /\ q[2] + dy \in Int /\ dy <= q[2] + dy /\ q[2] + dy <= Height + dy
      <4>1. q \in Int \X Int /\ 0 <= q[1] /\ q[1] < Width /\ 0 <= q[2] /\ q[2] < Height
        BY OnScreen
      <4> QED
        BY <2>1, <4>1
    <3> QED
      BY <3>1 DEF Shift
  <2> HIDE DEF R
  <2>3. /\ xs \in SUBSET Int /\ xs # {} /\ \A x \in xs : dx <= x /\ x <= Width + dx
        /\ ys \in SUBSET Int /\ ys # {} /\ \A y \in ys : dy <= y /\ y <= Height + dy
    BY <1>2, <2>2
  <2>4. \A p \in R : p[1] \in xs /\ p[2] \in ys
    OBVIOUS
  <2>5. Around(R) = {<<Min(xs), Min(ys), Max(xs) + 1, Max(ys) + 1>>}
    BY <1>2 DEF Around
  <2> HIDE DEF xs, ys
  <2>6. /\ Min(xs) \in Int /\ \A x \in xs : Min(xs) <= x
        /\ Max(xs) \in Int /\ \A x \in xs : x <= Max(xs)
    <3>1. dx \in Int /\ Width + dx \in Int
      BY <2>1
    <3> QED
      BY <2>3, <3>1, Extremes
  <2>7. /\ Min(ys) \in Int /\ \A y \in ys : Min(ys) <= y
        /\ Max(ys) \in Int /\ \A y \in ys : y <= Max(ys)
    <3>1. dy \in Int /\ Height + dy \in Int
      BY <2>1
    <3> QED
      BY <2>3, <3>1, Extremes
  <2>8. ASSUME NEW p \in R, p \in Screen
        PROVE  p \in Pixels(<<Min(xs), Min(ys), Max(xs) + 1, Max(ys) + 1>>)
    <3>1. p \in Int \X Int /\ Min(xs) <= p[1] /\ p[1] <= Max(xs) /\ Min(ys) <= p[2] /\ p[2] <= Max(ys)
      BY <2>2, <2>4, <2>6, <2>7, <2>8
    <3>2. p[1] < Max(xs) + 1 /\ p[2] < Max(ys) + 1 /\ Max(xs) + 1 \in Int /\ Max(ys) + 1 \in Int
      BY <2>6, <2>7, <3>1
    <3> QED
      BY <2>6, <2>7, <2>8, <3>1, <3>2, InPixels
  <2>9. R \cap Screen \subseteq Ink(Around(R))
    BY <2>5, <2>8 DEF Ink
  <2> QED
    BY <2>9 DEF R
<1> QED
  BY <1>1, <1>2

-----------------------------------------------------------------------------
(* The operations *)

\* A window's move is reported whole, or as the box around it.
LEMMA CopyWindowReports ==
  ASSUME NEW d \in Drawables, CopyWindow(d)
  PROVE  Reports
<1>1. PICK r \in Rects, move \in Moves, many \in BOOLEAN :
        LET old    == Pixels(RectOf(r, d))
            moved  == Shift(old, move[1], move[2])
            extent == IF d.borderClip = {} THEN {} ELSE Around(moved)
        IN /\ d.type = "window"
           /\ Paint(FALSE, many => Fits(extent), d,
                    IF Visible(d) THEN moved \cap d.borderClip \cap Screen ELSE {},
                    IF many THEN Region(extent) ELSE moved \cap d.borderClip)
           /\ UNCHANGED <<video, gc>>
  BY DEF CopyWindow
<1> DEFINE old      == Pixels(RectOf(r, d))
           moved    == Shift(old, move[1], move[2])
           extent   == IF d.borderClip = {} THEN {} ELSE Around(moved)
           fits     == many => Fits(extent)
           painted  == IF Visible(d) THEN moved \cap d.borderClip \cap Screen ELSE {}
           reported == IF many THEN Region(extent) ELSE moved \cap d.borderClip
<1>2. Paint(FALSE, fits, d, painted, reported) /\ gc' = gc
  BY <1>1
<1>3. painted \in SUBSET Screen /\ (painted # {} => Visible(d))
  OBVIOUS
<1>4. ~fits \/ painted \subseteq reported
  <2>1. moved \cap Screen \subseteq Ink(Around(moved))
    <3>1. old \in SUBSET Screen /\ move[1] \in Int /\ move[2] \in Int
      BY SMT, DrawingAssumption DEF Pixels
    <3> HIDE DEF old
    <3> QED
      BY <3>1, AroundCovers
  <2> HIDE DEF moved
  <2>2. painted \subseteq Ink(extent)
    BY <2>1
  <2>3. many /\ fits => Region(extent) = Ink(extent)
    BY FittingIsExact
  <2>4. painted \subseteq moved \cap d.borderClip
    OBVIOUS
  <2> HIDE DEF extent, fits, painted
  <2> QED
    BY <2>2, <2>3, <2>4
<1>5. fits \in BOOLEAN
  BY DEF Fits
<1> HIDE DEF fits, painted, reported
<1> QED
  BY <1>2, <1>3, <1>4, <1>5 DEF Reports

\* Video is painted and reported as one box.
LEMMA VideoReports ==
  ASSUME NEW d \in Drawables, XvPutImage(d) \/ XvPutImageGlamor(d)
  PROVE  Reports \/ Drop
<1>1. ASSUME NEW place, NEW reported,
             Paint(FALSE, Fits(place), d, Painted(Ink(place), d, ScratchClip(d)), reported),
             gc' = gc,
             Painted(Region(place), d, ScratchClip(d)) \subseteq reported
      PROVE  Reports
  <2> DEFINE painted == Painted(Ink(place), d, ScratchClip(d))
             fits == Fits(place)
  <2>1. painted \in SUBSET Screen /\ (painted # {} => Visible(d))
    BY PaintedFacts
  <2>2. ~fits \/ painted \subseteq reported
    BY <1>1, FittingIsExact
  <2>3. fits \in BOOLEAN
    BY DEF Fits
  <2>4. Paint(FALSE, fits, d, painted, reported)
    BY <1>1
  <2> HIDE DEF painted, fits
  <2> QED
    BY <1>1, <2>1, <2>2, <2>3, <2>4 DEF Reports
<1>2. CASE XvPutImage(d)
  <2>1. PICK p \in Pictures, r \in Rects :
          \/ Drop
          \/ /\ Paint(FALSE, Fits(VideoPlace(r, p, d)), d,
                      Painted(Ink(VideoPlace(r, p, d)), d, ScratchClip(d)),
                      Reported(Region(VideoPlace(r, p, d)), d, ScratchClip(d)))
             /\ gc' = gc
    BY <1>2 DEF XvPutImage
  <2>2. Painted(Region(VideoPlace(r, p, d)), d, ScratchClip(d))
          \subseteq Reported(Region(VideoPlace(r, p, d)), d, ScratchClip(d))
    BY ReportedCovers
  <2> QED
    BY <1>1, <2>1, <2>2
<1>3. CASE XvPutImageGlamor(d)
  <2>1. PICK p \in Pictures, r \in Rects :
          /\ Paint(FALSE, Fits(VideoPlace(r, p, d)), d,
                   Painted(Ink(VideoPlace(r, p, d)), d, ScratchClip(d)),
                   Region(VideoPlace(r, p, d)))
          /\ gc' = gc
    BY <1>3 DEF XvPutImageGlamor
  <2>2. Painted(Region(VideoPlace(r, p, d)), d, ScratchClip(d)) \subseteq Region(VideoPlace(r, p, d))
    BY DEF Painted
  <2> QED
    BY <1>1, <2>1, <2>2
<1> QED
  BY <1>2, <1>3

\* Copies, images, points, lines and areas.
LEMMA ShapesReport ==
  ASSUME ContextOK, NEW d \in Drawables, NEW g \in Contexts,
         \/ CopyArea(d, g) \/ CopyPlane(d, g) \/ PutImage(d, g)
         \/ PolyPoint(d, g) \/ Polylines(d, g) \/ PolySegment(d, g)
         \/ PolyRectangle(d, g) \/ PolyArc(d, g) \/ PolyFillArc(d, g)
         \/ FillPolygon(d, g) \/ PolyFillRect(d, g)
  PROVE  Reports \/ Drop
<1>1. CASE CopyArea(d, g) \/ PutImage(d, g)
  BY <1>1, DrawAwakeReports DEF CopyArea, PutImage
<1>2. CASE CopyPlane(d, g)
  BY <1>2, DrawReports DEF CopyPlane
<1>3. CASE PolyPoint(d, g)
  <2>1. PICK path \in Paths, mode \in {"origin", "previous"} :
          Draw(mode = "previous", d, g, Dots(PointsOf(path, d)), Ink(Dots(PointsInk(path, mode, d))))
    BY <1>3 DEF PolyPoint
  <2> DEFINE known == mode = "previous"
  <2>2. known \in BOOLEAN /\ (known \/ PointsInk(path, mode, d) = PointsOf(path, d))
    BY DEF PointsInk
  <2> HIDE DEF known
  <2>3. known \/ Ink(Dots(PointsInk(path, mode, d))) \subseteq Ink(Dots(PointsOf(path, d)))
    BY <2>2
  <2>4. Draw(known, d, g, Dots(PointsOf(path, d)), Ink(Dots(PointsInk(path, mode, d))))
    BY <2>1 DEF known
  <2> QED
    BY <2>2, <2>3, <2>4, DrawReports
<1>4. CASE Polylines(d, g)
  <2>1. PICK path \in Paths, mode \in {"origin", "previous"} :
          LET wide == g.lineWidth >= 1
          IN Draw(wide \/ mode = "previous", d, g, LineBoxes(Segments(PointsOf(path, d))),
                  LinesInk(Segments(PointsInk(path, mode, d)), wide))
    BY <1>4 DEF Polylines
  <2> DEFINE wide  == g.lineWidth >= 1
             known == wide \/ mode = "previous"
  <2>2. known \/ PointsInk(path, mode, d) = PointsOf(path, d)
    BY DEF PointsInk
  <2>3. known \/ wide = FALSE
    OBVIOUS
  <2>4. known \in BOOLEAN
    OBVIOUS
  <2>5. Draw(known, d, g, LineBoxes(Segments(PointsOf(path, d))),
             LinesInk(Segments(PointsInk(path, mode, d)), wide))
    BY <2>1
  <2> HIDE DEF known, wide
  <2>6. known \/ LinesInk(Segments(PointsInk(path, mode, d)), wide)
                   \subseteq Ink(LineBoxes(Segments(PointsOf(path, d))))
    BY <2>2, <2>3, LinesCovered
  <2> QED
    BY <2>4, <2>5, <2>6, DrawReports
<1>5. CASE PolySegment(d, g)
  <2>1. PICK path \in Paths :
          LET segments == Segments(PointsOf(path, d))
              wide     == g.lineWidth > 1
          IN Draw(wide, d, g, LineBoxes(segments), LinesInk(segments, wide))
    BY <1>5 DEF PolySegment
  <2> DEFINE wide     == g.lineWidth > 1
             segments == Segments(PointsOf(path, d))
  <2>2. wide \in BOOLEAN
    OBVIOUS
  <2>3. Draw(wide, d, g, LineBoxes(segments), LinesInk(segments, wide))
    BY <2>1
  <2> HIDE DEF wide, segments
  <2>4. wide \/ LinesInk(segments, wide) \subseteq Ink(LineBoxes(segments))
    BY <2>2, LinesCovered
  <2> QED
    BY <2>2, <2>3, <2>4, DrawReports
<1>6. CASE PolyRectangle(d, g)
  <2>1. PICK rs \in SUBSET Rects :
          Draw(FALSE, d, g, UNION {EdgeBoxes(r, d, g.lineWidth) : r \in rs},
               UNION {OutlineInk(r, d, g.lineWidth) : r \in rs})
    BY <1>6 DEF PolyRectangle
  <2>2. \A r \in rs : OutlineInk(r, d, g.lineWidth) = Ink(EdgeBoxes(r, d, g.lineWidth))
    <3>1. g.lineWidth \in Nat
      BY SMT, DrawingAssumption
    <3> QED
      BY <3>1, RectangleCovered
  <2>3. UNION {OutlineInk(r, d, g.lineWidth) : r \in rs}
          \subseteq Ink(UNION {EdgeBoxes(r, d, g.lineWidth) : r \in rs})
    <3> SUFFICES ASSUME NEW r \in rs, NEW p \in OutlineInk(r, d, g.lineWidth)
                 PROVE  p \in Ink(UNION {EdgeBoxes(q, d, g.lineWidth) : q \in rs})
      OBVIOUS
    <3>1. PICK b \in EdgeBoxes(r, d, g.lineWidth) : p \in Pixels(b)
      BY <2>2 DEF Ink
    <3>2. b \in UNION {EdgeBoxes(q, d, g.lineWidth) : q \in rs}
      OBVIOUS
    <3> QED
      BY <3>1, <3>2 DEF Ink
  <2> QED
    BY <2>1, <2>3, DrawReports
<1>7. CASE PolyArc(d, g)
  <2> DEFINE Grown(r) == [r EXCEPT !.w = @ + 1, !.h = @ + 1]
             wide == g.lineWidth >= 1
  <2>1. PICK rs \in SUBSET Rects :
          Draw(wide, d, g, {ArcBox(r, d, g) : r \in rs},
               IF wide THEN Screen ELSE Ink(RectsOf({Grown(r) : r \in rs}, d)))
    BY <1>7 DEF PolyArc
  <2>2. wide \/ \A r \in rs : Pixels(RectOf(Grown(r), d)) \subseteq Pixels(ArcBox(r, d, g))
    <3>1. g.lineWidth \in Nat
      BY SMT, DrawingAssumption
    <3>2. wide \/ g.lineWidth = 0
      BY <3>1
    <3> HIDE DEF wide
    <3> QED
      BY <3>2, ArcCovered
  <2>3. wide \in BOOLEAN
    OBVIOUS
  <2> HIDE DEF wide, Grown
  <2>4. wide \/ Ink(RectsOf({Grown(r) : r \in rs}, d)) \subseteq Ink({ArcBox(r, d, g) : r \in rs})
    BY <2>2 DEF Ink, RectsOf
  <2>5. wide \/ (IF wide THEN Screen ELSE Ink(RectsOf({Grown(r) : r \in rs}, d)))
                  \subseteq Ink({ArcBox(r, d, g) : r \in rs})
    BY <2>4
  <2> QED
    BY <2>1, <2>3, <2>5, DrawReports
<1>8. CASE PolyFillArc(d, g)
  <2>1. PICK rs \in SUBSET Rects :
          Draw(FALSE, d, g, {ArcBox(r, d, g) : r \in rs}, Ink(RectsOf(rs, d)))
    BY <1>8 DEF PolyFillArc
  <2>2. \A r \in rs : Pixels(RectOf(r, d)) \subseteq Pixels(ArcBox(r, d, g))
    BY ArcCovered
  <2>3. Ink(RectsOf(rs, d)) \subseteq Ink({ArcBox(r, d, g) : r \in rs})
    BY <2>2 DEF Ink, RectsOf
  <2> QED
    BY <2>1, <2>3, DrawReports
<1>9. CASE FillPolygon(d, g)
  <2>1. PICK path \in Paths, mode \in {"origin", "previous"} :
          Draw(mode = "previous", d, g, Around(Range(PointsOf(path, d))),
               Ink(Around(Range(PointsInk(path, mode, d)))))
    BY <1>9 DEF FillPolygon
  <2> DEFINE known == mode = "previous"
  <2>2. known \in BOOLEAN /\ (known \/ PointsInk(path, mode, d) = PointsOf(path, d))
    BY DEF PointsInk
  <2>3. Draw(known, d, g, Around(Range(PointsOf(path, d))),
             Ink(Around(Range(PointsInk(path, mode, d)))))
    BY <2>1
  <2> HIDE DEF known
  <2>4. known \/ Ink(Around(Range(PointsInk(path, mode, d))))
                   \subseteq Ink(Around(Range(PointsOf(path, d))))
    BY <2>2
  <2> QED
    BY <2>2, <2>3, <2>4, DrawReports
<1>10. CASE PolyFillRect(d, g)
  <2>1. PICK rs \in SUBSET Rects :
          Draw(\E r \in rs : ~InPlane(r), d, g,
               {ClampedBox(r, d) : r \in rs}, Ink(RectsOf(rs, d)))
    BY <1>10 DEF PolyFillRect
  <2> DEFINE known == \E r \in rs : ~InPlane(r)
  <2>2. known \in BOOLEAN /\ Draw(known, d, g, {ClampedBox(r, d) : r \in rs}, Ink(RectsOf(rs, d)))
    BY <2>1
  <2>3. known \/ Ink(RectsOf(rs, d)) \subseteq Ink({ClampedBox(r, d) : r \in rs})
    BY RectanglesCovered
  <2> HIDE DEF known
  <2> QED
    BY <2>2, <2>3, DrawReports
<1> QED
  BY <1>1, <1>2, <1>3, <1>4, <1>5, <1>6, <1>7, <1>8, <1>9, <1>10

\* Text.
LEMMA TextReports ==
  ASSUME ContextOK, NEW d \in Drawables, NEW g \in Contexts, NEW background \in BOOLEAN,
         Text(d, g, background)
  PROVE  Reports
<1>1. PICK r \in Rects, n \in {1, 2} :
        Draw(g.font.min.width < 0, d, g, {TextBox(g.font, r.x + d.x, r.y + d.y, n)},
             TextInk(g.font, r.x + d.x, r.y + d.y, n, background))
  BY DEF Text
<1> DEFINE known == g.font.min.width < 0
           x == r.x + d.x
           y == r.y + d.y
<1>2. x \in Int /\ y \in Int
  BY RectFacts
<1>3. known \/ g.font.min.width >= 0
  BY SMT, DrawingAssumption
<1>4. known \in BOOLEAN
  OBVIOUS
<1>5. Draw(known, d, g, {TextBox(g.font, x, y, n)}, TextInk(g.font, x, y, n, background))
  BY <1>1
<1> HIDE DEF known, x, y
<1>6. known \/ TextInk(g.font, x, y, n, background) \subseteq Ink({TextBox(g.font, x, y, n)})
  BY <1>2, <1>3, TextCovered
<1> QED
  BY <1>4, <1>5, <1>6, DrawReports

\* Render.
LEMMA RenderStepsReport ==
  ASSUME NEW d \in Drawables, NEW g \in Contexts,
         \/ Composite(d, g) \/ Trapezoids(d, g) \/ Triangles(d, g)
         \/ CompositeRects(d, g) \/ Glyphs(d, g)
  PROVE  Reports \/ Drop
<1>1. CASE Composite(d, g)
  BY <1>1, RenderReports DEF Composite
<1>2. CASE Trapezoids(d, g) \/ Triangles(d, g)
  BY <1>2, RenderReports DEF Trapezoids, Triangles
<1>3. CASE CompositeRects(d, g)
  <2>1. PICK rs \in SUBSET Rects :
          Render(\E r \in rs : ~InPlane(r), d, g,
                 {ClampedBox(r, d) : r \in rs}, Ink(RectsOf(rs, d)))
    BY <1>3 DEF CompositeRects
  <2> DEFINE known == \E r \in rs : ~InPlane(r)
  <2>2. known \in BOOLEAN /\ Render(known, d, g, {ClampedBox(r, d) : r \in rs}, Ink(RectsOf(rs, d)))
    BY <2>1
  <2>3. known \/ Ink(RectsOf(rs, d)) \subseteq Ink({ClampedBox(r, d) : r \in rs})
    BY RectanglesCovered
  <2> HIDE DEF known
  <2> QED
    BY <2>2, <2>3, RenderReports
<1>4. CASE Glyphs(d, g)
  <2>1. PICK r \in Rects, composited \in BOOLEAN :
          \/ Drop
          \/ Render(~composited, d, g, IF composited THEN {RectOf(r, d)} ELSE {},
                    Ink({RectOf(r, d)}))
    BY <1>4 DEF Glyphs
  <2>2. CASE Render(~composited, d, g, IF composited THEN {RectOf(r, d)} ELSE {},
                    Ink({RectOf(r, d)}))
    <3> DEFINE known == ~composited
               boxes == IF composited THEN {RectOf(r, d)} ELSE {}
    <3>1. known \in BOOLEAN /\ (known \/ Ink({RectOf(r, d)}) \subseteq Ink(boxes))
      OBVIOUS
    <3>2. Render(known, d, g, boxes, Ink({RectOf(r, d)}))
      BY <2>2
    <3> HIDE DEF known, boxes
    <3> QED
      BY <3>1, <3>2, RenderReports
  <2> QED
    BY <2>1, <2>2
<1> QED
  BY <1>1, <1>2, <1>3, <1>4

-----------------------------------------------------------------------------
(* What is reported *)

\* Beside the types, and the contexts, what a client that looks has not been sent
\* is in its dirty region.
DrawingInv ==
  /\ ContextOK
  /\ damage \in BOOLEAN /\ glamor \in BOOLEAN /\ client \in BOOLEAN /\ asleep \in BOOLEAN
  /\ gap \in BOOLEAN
  /\ dirty \in SUBSET Screen /\ stale \in SUBSET Screen
  /\ draws \in 0..MaxDraws
  /\ EveryChangeIsReported

\* A step of the clients, of the sleep, or of the damage.
ScreenStep ==
  \/ RegisterDamage \/ Capture \/ Connect \/ Disconnect
  \/ EnterSleep \/ UserWake \/ RefreshTimeout

\* What any step does, apart from the video overlay's buffer.
LEMMA DrawingSteps ==
  ASSUME ContextOK, [Next]_vars
  PROVE  \/ ContextStep
         \/ ScreenStep
         \/ Reports
         \/ Drop
         \/ UNCHANGED <<gc, damage, glamor, client, asleep, dirty, stale, gap, draws>>
<1>1. CASE UNCHANGED vars
  BY <1>1 DEF vars
<1>2. CASE XvNoBuffer \/ XvTimeout
  BY <1>2 DEF XvNoBuffer, XvTimeout
<1>3. ASSUME NEW d \in Drawables, CopyWindow(d) \/ XvPutImage(d) \/ XvPutImageGlamor(d)
      PROVE  Reports \/ Drop
  BY <1>3, CopyWindowReports, VideoReports
<1>4. ASSUME NEW d \in Drawables, NEW g \in Contexts,
             \/ PolyText8(d, g) \/ PolyText16(d, g) \/ ImageText8(d, g)
             \/ ImageText16(d, g) \/ ImageGlyphBlt(d, g) \/ PolyGlyphBlt(d, g)
      PROVE  Reports
  BY <1>4, TextReports
     DEF PolyText8, PolyText16, ImageText8, ImageText16, ImageGlyphBlt, PolyGlyphBlt
<1> QED
  BY <1>1, <1>2, <1>3, <1>4, ShapesReport, RenderStepsReport DEF Next, ScreenStep

\* Contexts: what is validated is wrapped, whatever tables the layer below takes.
LEMMA ContextKept ==
  ASSUME ContextOK, ContextStep \/ gc' \in {gc} \cup OpWrapped(gc)
  PROVE  ContextOK'
<1> DEFINE G == [exists : BOOLEAN, funcs : {"rdp", "fb"}, ops : {"rdp"} \cup Lower,
                 saved : {"none"} \cup Lower, valid : BOOLEAN]
<1>1. gc \in G /\ (gc.valid => gc.ops = "rdp")
  BY DEF ContextOK
<1>2. ASSUME NEW g \in G PROVE FuncPrologue(g) \in G
  BY DEF FuncPrologue, Lower
<1>3. ASSUME NEW g \in G, g.saved # "none" => g.ops \in Lower
      PROVE  FuncEpilogue(g) \in G /\ (g.saved # "none" => FuncEpilogue(g).ops = "rdp")
                               /\ FuncEpilogue(g).valid = g.valid
  BY <1>3 DEF FuncEpilogue, Lower
<1>4. CASE CreateGC
  BY <1>1, <1>4 DEF CreateGC, ContextOK
<1>5. CASE ValidateGC
  <2>1. PICK t \in Lower :
          gc' = FuncEpilogue([FuncPrologue(gc) EXCEPT !.ops = t, !.saved = t, !.valid = TRUE])
    BY <1>5 DEF ValidateGC
  <2> DEFINE g == [FuncPrologue(gc) EXCEPT !.ops = t, !.saved = t, !.valid = TRUE]
  <2>2. g \in G /\ g.saved # "none" /\ g.ops \in Lower
    BY <1>1, <1>2 DEF Lower
  <2> HIDE DEF g
  <2>3. gc' \in G /\ gc'.ops = "rdp"
    BY <1>3, <2>1, <2>2 DEF g
  <2> QED
    BY <2>3 DEF ContextOK
<1>6. CASE ChangeGC
  <2> DEFINE g == [FuncPrologue(gc) EXCEPT !.valid = FALSE]
  <2>1. g \in G /\ ~g.valid /\ (g.saved # "none" => g.ops \in Lower)
    BY <1>1 DEF FuncPrologue, Lower
  <2>2. gc' = FuncEpilogue(g)
    BY <1>6 DEF ChangeGC
  <2> HIDE DEF g
  <2>3. gc' \in G /\ ~gc'.valid
    BY <1>3, <2>1, <2>2
  <2> QED
    BY <2>3 DEF ContextOK
<1>7. CASE DestroyGC
  BY <1>7 DEF DestroyGC, ContextOK, Lower
<1>8. CASE gc' \in {gc} \cup OpWrapped(gc)
  BY <1>1, <1>8 DEF OpWrapped, ContextOK, Lower
<1> QED
  BY <1>4, <1>5, <1>6, <1>7, <1>8 DEF ContextStep

\* An operation that reports what it paints.
LEMMA ReportsKept == ASSUME DrawingInv, Reports PROVE DrawingInv'
<1> USE DEF DrawingInv
<1>0. PICK d \in Drawables, known \in BOOLEAN, fits \in BOOLEAN, painted \in SUBSET Screen :
        \E reported :
          /\ Paint(known, fits, d, painted, reported)
          /\ painted # {} => Visible(d)
          /\ known \/ ~fits \/ painted \subseteq reported
          /\ gc' \in {gc} \cup OpWrapped(gc)
  BY DEF Reports
<1>1. PICK reported :
        /\ Paint(known, fits, d, painted, reported)
        /\ painted # {} => Visible(d)
        /\ known \/ ~fits \/ painted \subseteq reported
        /\ gc' \in {gc} \cup OpWrapped(gc)
  BY <1>0
<1>2. ContextOK'
  BY <1>1, ContextKept
<1>3. /\ dirty' = IF client /\ ~asleep /\ Visible(d)
                   THEN dirty \cup ((reported \cup Damaged(painted)) \cap Screen) ELSE dirty
      /\ stale' = IF client THEN stale \cup painted ELSE stale
  BY <1>1 DEF Paint, AddAllReg
<1>4. dirty' \in SUBSET Screen /\ stale' \in SUBSET Screen
  BY <1>3
<1>5. UNCHANGED <<damage, glamor, client, asleep>>
  BY <1>1 DEF Paint
<1>6. gap' = (gap \/ ~fits \/ (known /\ ~damage)) /\ gap' \in BOOLEAN
  BY <1>1 DEF Paint
<1>7. draws' \in 0..MaxDraws
  BY SMT, <1>1, DrawingAssumption DEF Paint
<1>8. EveryChangeIsReported'
  <2> SUFFICES ASSUME client, ~asleep, ~gap' PROVE stale' \subseteq dirty'
    BY <1>5 DEF EveryChangeIsReported
  <2>1. ~gap /\ fits /\ (known => damage)
    BY <1>6
  <2>2. stale \subseteq dirty
    BY <2>1 DEF EveryChangeIsReported
  <2>3. painted \subseteq reported \cup Damaged(painted)
    BY <1>1, <2>1 DEF Damaged
  <2> QED
    BY <1>1, <1>3, <2>2, <2>3
<1> QED
  BY <1>2, <1>4, <1>5, <1>6, <1>7, <1>8

\* The clients, the sleep and the damage.
LEMMA ScreenStepKept == ASSUME DrawingInv, ScreenStep PROVE DrawingInv'
<1> USE DEF DrawingInv
<1>1. CASE RegisterDamage
  <2>1. damage' \in BOOLEAN
    BY <1>1 DEF RegisterDamage
  <2>2. UNCHANGED <<gc, glamor, client, asleep, dirty, stale, gap, draws>>
    BY <1>1 DEF RegisterDamage
  <2> QED
    BY <2>1, <2>2 DEF ContextOK, EveryChangeIsReported
<1>2. CASE Capture
  <2>1. /\ dirty' = {} /\ stale' = {} /\ draws' = 0 /\ ~gap' /\ gap' \in BOOLEAN
        /\ UNCHANGED <<gc, damage, glamor, client, asleep>>
    BY <1>2 DEF Capture
  <2>2. draws' \in 0..MaxDraws
    BY SMT, <2>1, DrawingAssumption
  <2> QED
    BY <2>1, <2>2 DEF ContextOK, EveryChangeIsReported
<1>3. CASE Connect
  <2>1. /\ dirty' = Screen /\ stale' = Screen /\ client' /\ client' \in BOOLEAN
        /\ UNCHANGED <<gc, damage, glamor, asleep, gap, draws>>
    BY <1>3 DEF Connect
  <2> QED
    BY <2>1 DEF ContextOK, EveryChangeIsReported
<1>4. CASE Disconnect
  <2>1. /\ dirty' = {} /\ stale' = {} /\ draws' = 0
        /\ ~client' /\ ~asleep' /\ client' \in BOOLEAN /\ asleep' \in BOOLEAN /\ gap' \in BOOLEAN
        /\ UNCHANGED <<gc, damage, glamor>>
    BY <1>4 DEF Disconnect
  <2>2. draws' \in 0..MaxDraws
    BY SMT, <2>1, DrawingAssumption
  <2>3. EveryChangeIsReported'
    BY <2>1 DEF EveryChangeIsReported
  <2> QED
    BY <2>1, <2>2, <2>3 DEF ContextOK
<1>5. CASE EnterSleep
  <2>1. /\ asleep' /\ asleep' \in BOOLEAN
        /\ UNCHANGED <<gc, damage, glamor, client, dirty, stale, gap, draws>>
    BY <1>5 DEF EnterSleep
  <2> QED
    BY <2>1 DEF ContextOK, EveryChangeIsReported
<1>6. CASE UserWake
  <2>1. /\ dirty' = Screen /\ stale' \in {stale, Screen}
        /\ ~asleep' /\ asleep' \in BOOLEAN
        /\ UNCHANGED <<gc, damage, glamor, client, gap, draws>>
    BY <1>6 DEF UserWake, QueueFullRefresh
  <2> QED
    BY <2>1 DEF ContextOK, EveryChangeIsReported
<1>7. CASE RefreshTimeout
  <2>1. /\ dirty' = Screen /\ stale' = stale
        /\ ~asleep' /\ asleep' \in BOOLEAN
        /\ UNCHANGED <<gc, damage, glamor, client, gap, draws>>
    BY <1>7 DEF RefreshTimeout, QueueFullRefresh
  <2> QED
    BY <2>1 DEF ContextOK, EveryChangeIsReported
<1> QED
  BY <1>1, <1>2, <1>3, <1>4, <1>5, <1>6, <1>7 DEF ScreenStep

\* Every step keeps the invariant.
LEMMA DrawingKept == DrawingInv /\ [Next]_vars => DrawingInv'
<1> SUFFICES ASSUME DrawingInv, [Next]_vars PROVE DrawingInv'
  OBVIOUS
<1> USE DEF DrawingInv
<1>1. CASE ContextStep
  <2>1. ContextOK'
    BY <1>1, ContextKept
  <2>2. UNCHANGED <<damage, glamor, client, asleep, dirty, stale, gap, draws>>
    BY <1>1 DEF ContextStep
  <2> QED
    BY <2>1, <2>2 DEF EveryChangeIsReported
<1>2. CASE ScreenStep
  BY <1>2, ScreenStepKept
<1>3. CASE Reports
  BY <1>3, ReportsKept
<1>4. CASE Drop
  <2>1. UNCHANGED <<gc, damage, glamor, client, asleep, dirty, stale, gap>>
    BY <1>4 DEF Drop
  <2>2. draws' \in 0..MaxDraws
    BY SMT, <1>4, DrawingAssumption DEF Drop
  <2> QED
    BY <2>1, <2>2 DEF ContextOK, EveryChangeIsReported
<1>5. CASE UNCHANGED <<gc, damage, glamor, client, asleep, dirty, stale, gap, draws>>
  BY <1>5 DEF ContextOK, EveryChangeIsReported
<1> QED
  BY <1>1, <1>2, <1>3, <1>4, <1>5, DrawingSteps

\* At the start there is nothing to report.
LEMMA DrawingAtInit == Init => DrawingInv
<1> SUFFICES ASSUME Init PROVE DrawingInv
  OBVIOUS
<1>1. ContextOK
  BY DEF Init, ContextOK, Lower
<1>2. /\ damage \in BOOLEAN /\ glamor \in BOOLEAN /\ client \in BOOLEAN /\ asleep \in BOOLEAN
      /\ gap \in BOOLEAN /\ ~client
  BY DEF Init
<1>3. dirty = {} /\ stale = {} /\ draws \in 0..MaxDraws
  BY SMT, DrawingAssumption DEF Init
<1> QED
  BY <1>1, <1>2, <1>3 DEF DrawingInv, EveryChangeIsReported

\* DrawingInv holds in every state.
LEMMA DrawingInvariant == Spec => []DrawingInv
BY DrawingAtInit, DrawingKept, PTL DEF Spec

\* The variables have their types, for every screen and all that is drawn on it.
THEOREM DrawingTypes == Spec => []TypeOK
<1>1. DrawingInv /\ VideoInv => TypeOK
  BY DEF DrawingInv, VideoInv, ContextOK, TypeOK
<1> QED
  BY <1>1, DrawingInvariant, VideoInvariant, PTL

\* Every pixel that an operation changes, by the ink that the model gives it, is
\* reported to a client that looks: by the wrapper, for every shape, clip and font
\* whose boxes fit 16 bits, and by the damage once that is registered for the
\* operations whose wrapper is known to report less (module/rdpGC.c,
\* module/rdpDraw.c and the wrappers).
THEOREM ChangesAlwaysReported == Spec => []EveryChangeIsReported
<1>1. DrawingInv => EveryChangeIsReported
  BY DEF DrawingInv
<1> QED
  BY <1>1, DrawingInvariant, PTL
=============================================================================
