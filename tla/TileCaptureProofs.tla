-------------------------- MODULE TileCaptureProofs --------------------------
(***************************************************************************)
(* Proofs about the capture: whatever is not dirty is what the client      *)
(* displays, for every screen, every arrangement of monitors, every mode   *)
(* and every limit.                                                        *)
(***************************************************************************)
EXTENDS TileCapture, FiniteSetTheorems, SequenceTheorems, WellFoundedInduction, TLAPS

-----------------------------------------------------------------------------
(* Monitors and regions. *)

\* Where a monitor is.
LEMMA Geometry ==
  ASSUME layout \in Layouts, NEW m \in Monitors
  PROVE  /\ m \in Slots
         /\ Left(m) \in Pixels
         /\ layout[m].right \in Pixels
         /\ Left(m) <= layout[m].right
         /\ Area(m) = Left(m) .. layout[m].right
         /\ Area(m) \in SUBSET Pixels
         /\ Size(m) \in Nat \ {0}
<1>1. m \in Slots /\ IsMonitor(layout[m])
  BY LayoutsAssumption DEF Monitors
<1>2. Left(m) \in Pixels /\ layout[m].right \in Pixels /\ Left(m) <= layout[m].right
  BY <1>1 DEF IsMonitor, Left
<1> QED
  BY <1>1, <1>2, SizesAssumption DEF Area, Left, Size, Pixels

\* No pixel belongs to two monitors.
LEMMA Disjoint ==
  ASSUME layout \in Layouts, NEW m \in Monitors, NEW n \in Monitors, m # n,
         NEW p \in Area(m)
  PROVE  p \notin Area(n)
<1>1. layout[m].right < layout[n].left \/ layout[n].right < layout[m].left
  BY LayoutsAssumption DEF Monitors
<1> QED
  BY <1>1, Geometry, SizesAssumption DEF Area, Left, Pixels

\* rdpCapRect captures at least what is dirty, and nothing of other monitors.
LEMMA CapDirtyCovers ==
  ASSUME layout \in Layouts, dirty \in SUBSET Pixels, NEW m \in Monitors
  PROVE  /\ dirty \cap Area(m) \subseteq CapDirty(m)
         /\ CapDirty(m) \subseteq Area(m)
<1> DEFINE R == dirty \cap Area(m)
<1>1. ASSUME NEW p \in R PROVE p \in Extents(R)
  <2>1. p \in Pixels /\ p <= p
    BY SizesAssumption DEF Pixels
  <2> QED
    BY <2>1 DEF Extents
<1>2. Extents(R) \subseteq Area(m)
  BY Geometry, SizesAssumption DEF Extents, Pixels
<1> QED
  BY <1>1, <1>2 DEF CapDirty

\* A pixel of the capture is in the memory.
LEMMA InMemory ==
  ASSUME layout \in Layouts, NEW m \in Monitors, NEW p \in Area(m)
  PROVE  /\ p - Origin(m) \in Memory
         /\ p - Origin(m) + Origin(m) = p
<1>1. Origin(m) \in 0 .. Left(m)
  BY Geometry, SizesAssumption DEF Origin, Pixels
<1> QED
  BY <1>1, Geometry, SizesAssumption DEF Pixels, Memory

-----------------------------------------------------------------------------
(* Rectangles. *)

\* A set of natural numbers has a least one.
LEMMA Least ==
  ASSUME NEW T \in SUBSET Nat, T # {}
  PROVE  \E x \in T : \A y \in T : x <= y
<1>1. PICK x \in T : \A y \in T : ~(<<y, x>> \in OpToRel(<, Nat))
  BY WFMin, NatLessThanWellFounded
<1>2. ASSUME NEW y \in T PROVE x <= y
  <2>1. ~(y < x)
    BY <1>1 DEF OpToRel
  <2> QED
    BY <2>1
<1> QED
  BY <1>2

\* Every pixel of a region is in one of its rectangles.
LEMMA RectsCover ==
  ASSUME NEW R \in SUBSET Pixels, NEW p \in R
  PROVE  \E r \in Rects(R) : r[1] <= p /\ p <= r[2]
<1> USE SizesAssumption DEF Pixels
<1> DEFINE T == {d \in Nat : p + 1 + d \notin R}
           U == {d \in Nat : p - 1 - d \notin R}
<1>1. Width \in T
  OBVIOUS
<1>2. Width \in U
  OBVIOUS
<1>3. PICK t \in T : \A d \in T : t <= d
  BY <1>1, Least
<1>4. PICK u \in U : \A d \in U : u <= d
  BY <1>2, Least
<1> DEFINE r == <<p - u, p + t>>
<1>5. ASSUME NEW x \in (p - u) .. (p + t) PROVE x \in R
  <2>1. CASE x = p
    BY <2>1
  <2>2. CASE x > p
    <3>1. x - p - 1 \in Nat /\ ~(t <= x - p - 1) /\ p + 1 + (x - p - 1) = x
      BY <2>2
    <3>2. x - p - 1 \notin T
      BY <1>3, <3>1
    <3> QED
      BY <3>1, <3>2
  <2>3. CASE x < p
    <3>1. p - 1 - x \in Nat /\ ~(u <= p - 1 - x) /\ p - 1 - (p - 1 - x) = x
      BY <2>3
    <3>2. p - 1 - x \notin U
      BY <1>4, <3>1
    <3> QED
      BY <3>1, <3>2
  <2> QED
    BY <2>1, <2>2, <2>3
<1>6. p - u \in R /\ p + t \in R /\ p - u <= p + t
  BY <1>5
<1>7. p - u - 1 \notin R
  OBVIOUS
<1>8. p + t + 1 \notin R
  OBVIOUS
<1>9. r \in Rects(R)
  BY <1>5, <1>6, <1>7, <1>8 DEF Rects
<1> QED
  BY <1>9

LEMMA Remainder ==
  ASSUME NEW g \in Nat \ {0}, NEW q \in Int, NEW r \in 0 .. (g - 1)
  PROVE  (g * q + r) % g = r
OBVIOUS

\* rdpCaptureSufA16 stays on the screen, and loses at most the pixels by which
\* the screen is too wide.
LEMMA RoundA16Covers ==
  ASSUME NEW a \in Pixels, NEW b \in Pixels, a <= b
  PROVE  /\ RoundA16(<<a, b>>) \subseteq Pixels
         /\ \A p \in a .. b : p >= Width % Grid => p \in RoundA16(<<a, b>>)
<1> USE SizesAssumption DEF Pixels
<1> DEFINE w == b - a + 1
           ex == (-w) % Grid
           over == IF b + ex > Width - 1 THEN b + ex - (Width - 1) ELSE 0
           left == a - over
<1>1. w \in 1 .. Width
  OBVIOUS
<1>2. ex \in 0 .. (Grid - 1)
  BY <1>1
<1> HIDE DEF w
<1>3. CASE left >= 0
  BY <1>2, <1>3 DEF RoundA16, w
<1>4. CASE left < 0
  <2> DEFINE k == -((-w) \div Grid)
  <2>1. k \in Int /\ w + ex = Grid * k
    BY <1>1
  <2>2. left = Width - Grid * k /\ b + ex - over = Width - 1
    <3>1. over = b + ex - (Width - 1)
      BY <1>2, <1>4
    <3> HIDE DEF k, ex, over
    <3>2. left = Width - (w + ex) /\ b + ex - over = Width - 1
      BY <1>2, <3>1 DEF w
    <3> QED
      BY <2>1, <3>2
  <2>3. left + Grid \in 0 .. (Grid - 1)
    BY <1>1, <1>2, <1>4, <2>1, <2>2
  <2>4. Width = Grid * (k - 1) + (left + Grid)
    BY <2>1, <2>2
  <2>5. Width % Grid = left + Grid
    <3> DEFINE q == k - 1
               r == left + Grid
    <3>1. Grid \in Nat \ {0} /\ q \in Int /\ r \in 0 .. (Grid - 1)
      BY <2>1, <2>3
    <3>2. Width = Grid * q + r
      BY <2>4
    <3> HIDE DEF q, r
    <3>3. (Grid * q + r) % Grid = r
      BY <3>1, Remainder, Zenon
    <3>4. Width % Grid = r
      BY <3>2, <3>3, Zenon
    <3> QED
      BY <3>4 DEF r
  <2> QED
    BY <1>2, <1>4, <2>2, <2>5 DEF RoundA16, w
<1> QED
  BY <1>2, <1>3, <1>4

\* rdpCaptureGfxA2 loses at most the last pixel of a monitor of odd size.
LEMMA RoundA2Covers ==
  ASSUME NEW size \in Nat \ {0}, NEW a \in 0 .. (size - 1), NEW b \in 0 .. (size - 1),
         NEW p \in a .. b, size % 2 = 1 => p # size - 1
  PROVE  p \in RoundA2(<<a, b>>, size)
BY DEF RoundA2

\* The modes of rectangles copy what is dirty, but for the pixels of Uncopied.
LEMMA CopiedCovers ==
  ASSUME layout \in Layouts, code \in Codes, code # "pro",
         NEW m \in Monitors, NEW R \in SUBSET Area(m)
  PROVE  /\ Copied(m, R) \subseteq Pixels
         /\ \A p \in R : p \in Uncopied \/ p \in Copied(m, R)
<1> USE SizesAssumption
<1>1. Area(m) \in SUBSET Pixels /\ R \in SUBSET Pixels
  BY Geometry
<1> DEFINE last == layout[m].right
<1>0. /\ Left(m) \in Nat /\ last \in Nat /\ Size(m) = last - Left(m) + 1
      /\ \A p \in R : p \in Left(m) .. last
  BY Geometry DEF Pixels, Size, Left
<1>2. CASE code = "simple"
  BY <1>1, <1>2 DEF Copied
<1>3. CASE code = "a16"
  <2>1. Copied(m, R) = UNION {RoundA16(r) : r \in Rects(R)}
    BY <1>3 DEF Copied
  <2>2. ASSUME NEW r \in Rects(R)
        PROVE  /\ r = <<r[1], r[2]>>
               /\ r[1] \in Pixels /\ r[2] \in Pixels /\ r[1] <= r[2]
    BY <1>1 DEF Rects
  <2>3. ASSUME NEW r \in Rects(R) PROVE RoundA16(r) \subseteq Pixels
    BY <2>2, RoundA16Covers
  <2>4. ASSUME NEW p \in R, p \notin Uncopied PROVE p \in Copied(m, R)
    <3>1. p >= Width % Grid
      BY <1>1, <1>3, <2>4 DEF Uncopied, Pixels
    <3>2. PICK r \in Rects(R) : r[1] <= p /\ p <= r[2]
      BY <1>1, RectsCover
    <3>3. p \in r[1] .. r[2]
      BY <1>1, <2>2, <3>2 DEF Pixels
    <3>4. p \in RoundA16(r)
      BY <2>2, <3>1, <3>3, RoundA16Covers
    <3> QED
      BY <2>1, <3>4
  <2> QED
    BY <2>1, <2>3, <2>4
<1>4. CASE code = "a2"
  <2>1. Copied(m, R) = {p \in Area(m) : \E r \in Rects(R) :
          p - Left(m) \in RoundA2(<<r[1] - Left(m), r[2] - Left(m)>>, Size(m))}
    BY <1>4 DEF Copied
  <2>2. ASSUME NEW p \in R, p \notin Uncopied PROVE p \in Copied(m, R)
    <3>1. PICK r \in Rects(R) : r[1] <= p /\ p <= r[2]
      BY <1>1, RectsCover
    <3>2. r[1] \in R /\ r[2] \in R
      BY DEF Rects
    <3> DEFINE a == r[1] - Left(m)
               b == r[2] - Left(m)
               q == p - Left(m)
    <3>3. /\ a \in 0 .. (Size(m) - 1) /\ b \in 0 .. (Size(m) - 1)
          /\ q \in a .. b
      <4> HIDE DEF last
      <4>1. p \in Left(m) .. last /\ r[1] \in Left(m) .. last /\ r[2] \in Left(m) .. last
        BY <1>0, <3>2
      <4> QED
        BY <1>0, <3>1, <4>1
    <3>4. Size(m) % 2 = 1 => q # Size(m) - 1
      <4>1. Size(m) % 2 = 1 => last \in Uncopied
        BY <1>4 DEF Uncopied
      <4>2. q = Size(m) - 1 => p = last
        BY <1>0
      <4> QED
        BY <2>2, <4>1, <4>2
    <3>5. Size(m) \in Nat \ {0}
      BY Geometry
    <3> HIDE DEF a, b, q
    <3>6. q \in RoundA2(<<a, b>>, Size(m))
      BY <3>3, <3>4, <3>5, RoundA2Covers
    <3> QED
      BY <2>1, <3>6 DEF a, b, q
  <2> QED
    BY <1>1, <2>1, <2>2
<1> QED
  BY <1>2, <1>3, <1>4, CodesAssumption

-----------------------------------------------------------------------------
(* Tiles. *)

LEMMA Quotient ==
  ASSUME NEW g \in Nat \ {0}, NEW a \in Nat, NEW b \in Nat, a <= b
  PROVE  /\ a \div g \in 0 .. (b \div g)
         /\ b \div g \in 0 .. b
OBVIOUS

LEMMA TilesOfMonitor ==
  ASSUME layout \in Layouts, NEW m \in Monitors
  PROVE  /\ Tiles(m) \in SUBSET Pixels
         /\ Cardinality(Tiles(m)) # 0
         /\ \A p \in Area(m) : TileOf(m, p) \in Tiles(m)
<1> DEFINE s == Size(m) - 1
<1>1. /\ s \in Nat /\ s < Width /\ TileWidth \in Nat \ {0} /\ Width \in Nat
      /\ \A p \in Area(m) : p - Left(m) \in Nat /\ p - Left(m) <= s
  BY Geometry, SizesAssumption DEF Pixels, Size, Left
<1> DEFINE t == s \div TileWidth
<1> HIDE DEF s
<1>2. t \in 0 .. s
  BY <1>1, Quotient
<1>3. ASSUME NEW p \in Area(m) PROVE TileOf(m, p) \in 0 .. t
  BY <1>1, Quotient DEF TileOf
<1> HIDE DEF t
<1>4. Tiles(m) = 0 .. t
  BY DEF Tiles, t, s
<1>5. Cardinality(0 .. t) # 0
  BY <1>2, FS_Interval
<1> QED
  BY <1>1, <1>2, <1>3, <1>4, <1>5 DEF Pixels

\* The list of checksums of a monitor is empty, or has one for every tile; a
\* checksum is computed from pixels of its tile; modes without tiles have none.
Slotted ==
  \A m \in Slots : crcs[m] = <<>> \/ (m \in Monitors /\ DOMAIN crcs[m] = Tiles(m))
Placed ==
  \A m \in Monitors : \A t \in DOMAIN crcs[m] : \A r \in DOMAIN crcs[m][t] :
    r + Left(m) \in Area(m) /\ TileOf(m, r + Left(m)) = t
TilesOnly == code # "pro" => \A m \in Slots : crcs[m] = <<>>

\* The invariant that gives types to everything.
Shape ==
  /\ TypeOK
  /\ Len(frames) <= 1
  /\ Slotted
  /\ Placed
  /\ TilesOnly

\* The list of a monitor is taken over whole or is fresh.
LEMMA StoredList ==
  ASSUME TypeOK, Slotted, NEW m \in Monitors
  PROVE  \/ Stored(m) = crcs[m] /\ DOMAIN crcs[m] = Tiles(m)
         \/ Stored(m) = [t \in Tiles(m) |-> NoChecksum]
<1>1. m \in Slots /\ Cardinality(Tiles(m)) # 0
  BY Geometry, TilesOfMonitor DEF TypeOK
<1>2. CASE DOMAIN crcs[m] = Tiles(m)
  BY <1>2 DEF Stored
<1>3. CASE crcs[m] = <<>>
  <2>1. DOMAIN crcs[m] = {}
    BY <1>3
  <2>2. Cardinality(DOMAIN crcs[m]) # Cardinality(Tiles(m))
    BY <1>1, <2>1, FS_EmptySet
  <2> QED
    BY <2>2 DEF Stored
<1> QED
  BY <1>1, <1>2, <1>3 DEF Slotted

\* It holds checksums, of pixels of their tile.
LEMMA StoredTyped ==
  ASSUME TypeOK, Slotted, Placed, NEW m \in Monitors
  PROVE  /\ Stored(m) \in [Tiles(m) -> Checksums]
         /\ \A t \in Tiles(m) : \A r \in DOMAIN Stored(m)[t] :
              r + Left(m) \in Area(m) /\ TileOf(m, r + Left(m)) = t
<1>1. CASE Stored(m) = crcs[m] /\ DOMAIN crcs[m] = Tiles(m)
  <2>1. crcs[m] \in Lists
    BY Geometry DEF TypeOK
  <2>2. PICK T \in SUBSET Pixels : crcs[m] \in [T -> Checksums]
    BY <2>1 DEF Lists
  <2> QED
    BY <1>1, <2>2 DEF Placed
<1>2. CASE Stored(m) = [t \in Tiles(m) |-> NoChecksum]
  <2>1. NoChecksum \in [{} -> Colors]
    BY DEF NoChecksum
  <2>2. NoChecksum \in Checksums
    BY <2>1 DEF Checksums
  <2>3. DOMAIN NoChecksum = {}
    BY DEF NoChecksum
  <2> QED
    BY <1>2, <2>2, <2>3
<1> QED
  BY <1>1, <1>2, StoredList

\* So does the list after a capture.
LEMMA NewList ==
  ASSUME Shape, NEW m \in Monitors, NEW R \in SUBSET Area(m),
         crcs' = NewChecksums(m, R)
  PROVE  /\ crcs' \in [Slots -> Lists]
         /\ \A n \in Slots : n # m => crcs'[n] = crcs[n]
         /\ DOMAIN crcs'[m] = Tiles(m)
         /\ \A t \in Tiles(m) :
              crcs'[m][t] = IF t \in Reached(m, R) THEN Checksum(m, R, t) ELSE Stored(m)[t]
         /\ \A t \in Tiles(m) : \A r \in DOMAIN crcs'[m][t] :
              r + Left(m) \in Area(m) /\ TileOf(m, r + Left(m)) = t
<1> DEFINE list == [t \in Tiles(m) |->
                      IF t \in Reached(m, R) THEN Checksum(m, R, t) ELSE Stored(m)[t]]
<1>1. /\ m \in Slots /\ Area(m) \in SUBSET Pixels /\ Left(m) \in Pixels
      /\ screen \in [Pixels -> Colors] /\ crcs \in [Slots -> Lists]
  BY Geometry DEF Shape, TypeOK
<1>2. crcs' = [crcs EXCEPT ![m] = list]
  BY DEF NewChecksums
<1>3. ASSUME NEW t \in Tiles(m), NEW r \in DOMAIN Checksum(m, R, t)
      PROVE  r + Left(m) \in R /\ TileOf(m, r + Left(m)) = t /\ r \in Pixels
  <2>1. PICK p \in R : r = p - Left(m) /\ TileOf(m, p) = t
    BY DEF Checksum
  <2>2. p \in Pixels /\ Left(m) <= p /\ Left(m) \in Pixels
    BY Geometry, <1>1 DEF Pixels, Shape, TypeOK
  <2>3. r + Left(m) = p /\ r \in Pixels
    BY <2>1, <2>2, SizesAssumption DEF Pixels
  <2> QED
    BY <2>1, <2>3
<1>4. ASSUME NEW t \in Tiles(m) PROVE Checksum(m, R, t) \in Checksums
  <2> DEFINE Q == DOMAIN Checksum(m, R, t)
  <2>1. Q \in SUBSET Pixels
    BY <1>3
  <2>2. Checksum(m, R, t) \in [Q -> Colors]
    BY <1>1, <1>3 DEF Checksum
  <2> QED
    BY <2>1, <2>2 DEF Checksums
<1>5. list \in [Tiles(m) -> Checksums]
  BY <1>4, StoredTyped DEF Shape
<1>6. list \in Lists
  BY <1>1, <1>5, TilesOfMonitor DEF Lists, Shape, TypeOK
<1>7. \A t \in Tiles(m) : \A r \in DOMAIN list[t] :
        r + Left(m) \in Area(m) /\ TileOf(m, r + Left(m)) = t
  BY <1>3, StoredTyped DEF Shape
<1> HIDE DEF list
<1>8. crcs'[m] = list
  BY <1>1, <1>2
<1> QED
  BY <1>1, <1>2, <1>5, <1>6, <1>7, <1>8 DEF list

-----------------------------------------------------------------------------
(* What a capture does to the frame under way. *)

\* The frame brings the pixels P up to date, and no others.
Paints(P) ==
  /\ frames' \in Seq(Frame)
  /\ Len(frames') <= 1
  /\ shm' \in [Memory -> Colors \cup {Blank}]
  /\ FrameIntact'
  /\ Flight' = P
  /\ \A p \in P : Pending(p)' = screen[p]
  /\ \A p \in Pixels \ P : Pending(p)' = picture[p]

\* No frame, and nothing painted.
LEMMA NothingSent ==
  ASSUME Shape, frames = <<>>, UNCHANGED <<shm, frames, picture>>
  PROVE  Paints({})
<1>1. /\ frames' \in Seq(Frame) /\ Len(frames') <= 1 /\ DOMAIN frames' = {}
      /\ shm' \in [Memory -> Colors \cup {Blank}]
  BY DEF Shape, TypeOK
<1>2. Flight' = {}
  BY DEF Flight
<1> QED
  BY <1>1, <1>2 DEF Paints, FrameIntact, Pending

\* Pixels that have been written to the memory.
LEMMA FrameSent ==
  ASSUME Shape, frames = <<>>, NEW m \in Monitors, NEW P \in SUBSET Area(m),
         NEW C \in SUBSET Pixels, NEW fill, P \subseteq C,
         Write(m, C, fill), Send(m, P), UNCHANGED <<picture, settings>>
  PROVE  Paints(P)
<1> DEFINE f == [p \in P |-> [at |-> p - Origin(m), was |-> screen[p]]]
<1>1. screen \in [Pixels -> Colors] /\ P \in SUBSET Pixels /\ layout \in Layouts
  BY Geometry DEF Shape, TypeOK
<1>2. \A p \in P : p - Origin(m) \in Memory /\ p - Origin(m) + Origin(m) = p
  BY <1>1, InMemory
<1>3. f \in [P -> Cell]
  BY <1>1, <1>2 DEF Cell
<1>4. f \in Frame
  BY <1>1, <1>3 DEF Frame
<1>5. frames' = Append(frames, f) /\ frames \in Seq(Frame)
  BY DEF Send, Shape, TypeOK
<1> HIDE DEF f
<1>6. /\ frames' \in Seq(Frame) /\ frames' # <<>> /\ Len(frames') = 1
      /\ frames'[1] = f /\ Head(frames') = f /\ DOMAIN frames' = {1}
  BY <1>4, <1>5, AppendProperties, HeadTailAppend
<1>7. DOMAIN f = P /\ \A p \in P : f[p].at = p - Origin(m) /\ f[p].was = screen[p]
  BY DEF f
<1>8. shm' \in [Memory -> Colors \cup {Blank}]
  BY <1>1 DEF Write, Shape, TypeOK
<1>9. \A p \in P : shm'[f[p].at] = screen[p]
  BY <1>2, <1>7 DEF Write
<1>10. Flight' = P
  BY <1>6, <1>7 DEF Flight
<1>11. FrameIntact'
  BY <1>6, <1>7, <1>9 DEF FrameIntact
<1> QED
  BY <1>6, <1>8, <1>9, <1>10, <1>11 DEF Paints, Pending

\* A capture of rectangles paints what is dirty, but for Uncopied.
LEMMA RectsPaint ==
  ASSUME Shape, frames = <<>>, NEW m \in Monitors, NEW R \in SUBSET Area(m),
         CaptureRects(m, R), UNCHANGED <<picture, settings>>
  PROVE  \E P \in SUBSET R : Paints(P) /\ R \ P \subseteq Uncopied
<1>1. layout \in Layouts /\ code \in Codes /\ code # "pro"
  BY DEF CaptureRects, Shape, TypeOK
<1>2. Copied(m, R) \subseteq Pixels /\ \A p \in R : p \in Uncopied \/ p \in Copied(m, R)
  BY <1>1, CopiedCovers
<1>3. Paints(R \cap Copied(m, R))
  BY <1>2, FrameSent DEF CaptureRects
<1> QED
  BY <1>2, <1>3

\* All changed tiles are reached when the capture does not give up.
LEMMA AllReached ==
  ASSUME Shape, NEW m \in Monitors, NEW R \in SUBSET Area(m)
  PROVE  /\ Reached(m, R) \subseteq Changed(m, R)
         /\ Changed(m, R) \subseteq Tiles(m)
         /\ ~Overflows(m, R) => Reached(m, R) = Changed(m, R)
<1>1. Changed(m, R) \subseteq Tiles(m)
  BY TilesOfMonitor DEF Changed, Dirtied, Shape, TypeOK
<1>2. Reached(m, R) \subseteq Changed(m, R)
  BY DEF Reached
<1>3. ASSUME ~Overflows(m, R), NEW t \in Changed(m, R) PROVE t \in Reached(m, R)
  <2> DEFINE U == {u \in Changed(m, R) : u <= t}
  <2>1. IsFiniteSet(Pixels)
    BY SizesAssumption, FS_Interval DEF Pixels
  <2>2. Tiles(m) \in SUBSET Pixels
    BY TilesOfMonitor DEF Shape, TypeOK
  <2>3. IsFiniteSet(Changed(m, R))
    BY <1>1, <2>1, <2>2, FS_Subset
  <2>4. U \in SUBSET Changed(m, R)
    OBVIOUS
  <2>5. IsFiniteSet(U) /\ Cardinality(U) <= Cardinality(Changed(m, R))
    BY <2>3, <2>4, FS_Subset
  <2>6. Cardinality(U) \in Nat /\ Cardinality(Changed(m, R)) \in Nat /\ limit \in Nat
    BY <2>3, <2>5, FS_CardinalityType, SizesAssumption DEF Shape, TypeOK
  <2> QED
    BY <1>3, <2>5, <2>6 DEF Overflows, Reached
<1> QED
  BY <1>1, <1>2, <1>3

\* A capture of tiles paints the changed ones, or refuses them.
LEMMA TilesPaint ==
  ASSUME Shape, frames = <<>>, NEW m \in Monitors, NEW R \in SUBSET Area(m),
         CaptureTiles(m, R), UNCHANGED <<picture, settings>>
  PROVE  LET C == {p \in R : TileOf(m, p) \in Changed(m, R)}
         IN  \/ Paints(C) /\ refused' = refused /\ Reached(m, R) = Changed(m, R)
             \/ Paints({}) /\ refused' = refused \cup C
<1> DEFINE C == {p \in R : TileOf(m, p) \in Changed(m, R)}
<1>1. C \in SUBSET Area(m) /\ C \in SUBSET Pixels
  BY Geometry DEF Shape, TypeOK
<1>2. CASE SendTiles(m, R)
  <2>1. Reached(m, R) = Changed(m, R) /\ refused' = refused
    BY <1>2, AllReached DEF SendTiles
  <2>2. Paints(C)
    <3>1. CASE C = {}
      <4>1. UNCHANGED <<shm, frames>>
        BY <1>2, <3>1 DEF SendTiles
      <4> QED
        BY <3>1, <4>1, NothingSent
    <3>2. CASE C # {}
      <4> DEFINE fill == {q \in Memory : q \div TileWidth \in Changed(m, R)}
      <4>1. Write(m, C, fill) /\ Send(m, C)
        BY <1>2, <3>2 DEF SendTiles
      <4> HIDE DEF C, fill
      <4> QED
        BY <1>1, <4>1, FrameSent
    <3> QED
      BY <3>1, <3>2
  <2> QED
    BY <2>1, <2>2
<1>3. CASE RefuseTiles(m, R)
  <2>1. UNCHANGED <<shm, frames>> /\ refused' = refused \cup C
    BY <1>3 DEF RefuseTiles
  <2> QED
    BY <2>1, NothingSent
<1> QED
  BY <1>2, <1>3 DEF CaptureTiles

-----------------------------------------------------------------------------
(* Types. *)

LEMMA EmptyList == <<>> \in Lists /\ DOMAIN <<>> = {}
<1>1. <<>> \in [{} -> Checksums]
  OBVIOUS
<1> QED
  BY <1>1 DEF Lists

LEMMA InitShape == Init => Shape
<1> SUFFICES ASSUME Init PROVE Shape
  OBVIOUS
<1> USE DEF Init
<1>1. TypeOK
  <2>1. Black \in Colors
    BY ColorsAssumption
  <2>2. crcs \in [Slots -> Lists]
    BY EmptyList
  <2>3. frames \in Seq(Frame)
    OBVIOUS
  <2> QED
    BY <2>1, <2>2, <2>3 DEF TypeOK
<1>2. Slotted /\ TilesOnly
  BY DEF Slotted, TilesOnly
<1>3. Placed
  BY EmptyList, Geometry DEF Placed
<1>4. Len(frames) = 0
  OBVIOUS
<1> QED
  BY <1>1, <1>2, <1>3, <1>4 DEF Shape

\* What rdpCapRect does, in any mode.
LEMMA CapturePaints ==
  ASSUME Shape, NEW m \in Monitors, CapRect(m)
  PROVE  /\ CapDirty(m) \subseteq Area(m)
         /\ CapDirty(m) \subseteq Pixels
         /\ frames = <<>>
         /\ refused \subseteq refused'
         /\ refused' \subseteq Pixels
         /\ \E P \in SUBSET CapDirty(m) : Paints(P)
<1> DEFINE R == CapDirty(m)
<1>1. frames = <<>> /\ UNCHANGED <<picture, settings>>
  BY DEF CapRect, MayCapture
<1>2. R \subseteq Area(m) /\ R \subseteq Pixels
  BY CapDirtyCovers, Geometry DEF Shape, TypeOK
<1> HIDE DEF R
<1>3. CASE CaptureRects(m, R)
  <2>1. \E P \in SUBSET R : Paints(P)
    BY <1>1, <1>2, <1>3, RectsPaint
  <2>2. refused' = refused
    BY <1>3 DEF CaptureRects
  <2> QED
    BY <1>1, <1>2, <2>1, <2>2 DEF R, Shape, TypeOK
<1>4. CASE CaptureTiles(m, R)
  <2> DEFINE C == {p \in R : TileOf(m, p) \in Changed(m, R)}
  <2>1. \/ Paints(C) /\ refused' = refused
        \/ Paints({}) /\ refused' = refused \cup C
    BY <1>1, <1>2, <1>4, TilesPaint
  <2> QED
    BY <1>1, <1>2, <2>1 DEF R, Shape, TypeOK
<1> QED
  BY <1>3, <1>4 DEF CapRect, R

\* The shape of the list of checksums after a capture.
LEMMA CaptureLists ==
  ASSUME Shape, NEW m \in Monitors, CapRect(m)
  PROVE  crcs' \in [Slots -> Lists] /\ Slotted' /\ Placed' /\ TilesOnly'
<1> DEFINE R == CapDirty(m)
<1>1. UNCHANGED <<code, layout>>
  BY DEF CapRect, settings
<1>2. CASE CaptureRects(m, R)
  <2>1. crcs' = crcs
    BY <1>2 DEF CaptureRects, checks
  <2> QED
    BY <1>1, <2>1 DEF Shape, TypeOK, Slotted, Placed, TilesOnly, Monitors, Tiles, Size,
                      Area, Left, TileOf
<1>3. CASE CaptureTiles(m, R)
  <2>1. R \in SUBSET Area(m) /\ code = "pro" /\ crcs' = NewChecksums(m, R)
    BY <1>3, CapturePaints DEF CaptureTiles
  <2>2. TilesOnly'
    BY <1>1, <2>1 DEF TilesOnly
  <2> HIDE DEF R
  <2>3. /\ crcs' \in [Slots -> Lists]
        /\ \A n \in Slots : n # m => crcs'[n] = crcs[n]
        /\ DOMAIN crcs'[m] = Tiles(m)
        /\ \A t \in Tiles(m) : \A r \in DOMAIN crcs'[m][t] :
             r + Left(m) \in Area(m) /\ TileOf(m, r + Left(m)) = t
    BY <2>1, NewList
  <2>4. Monitors' = Monitors /\ \A n : Tiles(n)' = Tiles(n)
    BY <1>1 DEF Monitors, Tiles, Size
  <2>5. Slotted'
    BY <2>3, <2>4 DEF Slotted, Shape
  <2>6. \A n \in Monitors : n \in Slots
    BY Geometry DEF Shape, TypeOK
  <2>7. \A n : Left(n)' = Left(n) /\ Area(n)' = Area(n) /\ \A p : TileOf(n, p)' = TileOf(n, p)
    BY <1>1 DEF Left, Area, TileOf
  <2>8. ASSUME NEW n \in Monitors, NEW t \in DOMAIN crcs'[n], NEW r \in DOMAIN crcs'[n][t]
        PROVE  r + Left(n) \in Area(n) /\ TileOf(n, r + Left(n)) = t
    <3>1. CASE n = m
      BY <2>3, <3>1
    <3>2. CASE n # m
      BY <2>3, <2>6, <3>2 DEF Placed, Shape
    <3> QED
      BY <3>1, <3>2
  <2>9. Placed'
    BY <2>4, <2>7, <2>8 DEF Placed
  <2> QED
    BY <2>2, <2>3, <2>5, <2>9
<1> QED
  BY <1>2, <1>3 DEF CapRect

LEMMA ShapeNext == Shape /\ [Next]_vars => Shape'
<1> SUFFICES ASSUME Shape, [Next]_vars PROVE Shape'
  OBVIOUS
<1> USE DEF region, checks, link, settings
<1> DEFINE Same == UNCHANGED <<layout, code, crcs>>
<1>1. ASSUME Same PROVE Slotted' /\ Placed' /\ TilesOnly'
  BY <1>1 DEF Shape, Slotted, Placed, TilesOnly, Monitors, Tiles, Size, Area, Left, TileOf
<1>2. CASE \E m \in Monitors : CapRect(m)
  <2>1. PICK m \in Monitors : CapRect(m)
    BY <1>2
  <2>2. crcs' \in [Slots -> Lists] /\ Slotted' /\ Placed' /\ TilesOnly'
    BY <2>1, CaptureLists
  <2>3. /\ refused' \subseteq Pixels
        /\ frames' \in Seq(Frame) /\ Len(frames') <= 1
        /\ shm' \in [Memory -> Colors \cup {Blank}]
    BY <2>1, CapturePaints DEF Paints
  <2>4. key' \in [Slots -> BOOLEAN]
    BY <2>1 DEF CapRect, CaptureRects, CaptureTiles, SendTiles, RefuseTiles, Shape, TypeOK
  <2>5. /\ UNCHANGED <<settings, screen, asleep, picture, overlaid>>
        /\ dirty' \in SUBSET Pixels
    BY <2>1 DEF CapRect, Shape, TypeOK
  <2>6. TypeOK'
    BY <2>2, <2>3, <2>4, <2>5 DEF Shape, TypeOK
  <2> QED
    BY <2>2, <2>3, <2>6 DEF Shape
<1>3. CASE Ack
  <2>1. /\ frames \in Seq(Frame) /\ frames # <<>> /\ Len(frames) = 1
        /\ Head(frames) \in Frame
    <3>1. frames \in Seq(Frame) /\ frames # <<>> /\ Len(frames) <= 1
      BY <1>3 DEF Ack, Shape, TypeOK
    <3>2. Len(frames) = 1
      <4>1. Len(frames) \in Nat \ {0}
        <5>1. \A seq \in Seq(Frame) : seq # <<>> => Len(seq) \in Nat \ {0}
          BY EmptySeq, Zenon
        <5> QED
          BY <3>1, <5>1, Zenon
      <4>2. \A n \in Nat \ {0} : n <= 1 => n = 1
        OBVIOUS
      <4> QED
        BY <3>1, <4>1, <4>2, Zenon
    <3>3. Head(frames) = frames[1] /\ 1 \in 1 .. Len(frames)
      BY <3>1, <3>2
    <3> QED
      BY <3>1, <3>2, <3>3, ElementOfSeq
  <2>2. Tail(frames) \in Seq(Frame) /\ Len(Tail(frames)) = 0
    BY <2>1
  <2>3. \A p \in DOMAIN Head(frames) : Head(frames)[p].at \in Memory
    BY <2>1 DEF Frame, Cell
  <2>4. picture' \in [Pixels -> Colors \cup {Blank}]
    BY <1>3, <2>3 DEF Ack, Shape, TypeOK
  <2>5. /\ shm' \in [Memory -> Colors \cup {Blank}]
        /\ overlaid' \in SUBSET Pixels /\ refused' \in SUBSET Pixels
        /\ UNCHANGED <<settings, screen, dirty, asleep, checks>>
        /\ frames' = Tail(frames)
    BY <1>3 DEF Ack, Shape, TypeOK
  <2>6. TypeOK'
    BY <2>2, <2>4, <2>5 DEF Shape, TypeOK
  <2> QED
    BY <1>1, <2>2, <2>5, <2>6 DEF Shape
<1>4. CASE \E p \in Pixels, v \in Colors : Draw(p, v)
  <2>1. Same /\ UNCHANGED frames
    BY <1>4 DEF Draw
  <2>2. TypeOK'
    BY <1>4 DEF Draw, AddDirty, Shape, TypeOK
  <2> QED
    BY <1>1, <2>1, <2>2 DEF Shape
<1>5. CASE Sleep
  BY <1>1, <1>5 DEF Sleep, Shape, TypeOK
<1>6. CASE SendSolid
  <2> DEFINE none == [p \in {} |-> [at |-> 0, was |-> Black]]
  <2>1. none \in [{} -> Cell]
    OBVIOUS
  <2>2. none \in Frame
    BY <2>1 DEF Frame
  <2> HIDE DEF none
  <2>3. frames' = [i \in DOMAIN frames |-> none]
    BY <1>6 DEF SendSolid, none
  <2>4. frames \in Seq(Frame) /\ Len(frames) \in Nat /\ DOMAIN frames = 1 .. Len(frames)
    BY DEF Shape, TypeOK
  <2>5. frames' \in Seq(Frame) /\ Len(frames') = Len(frames)
    BY <2>2, <2>3, <2>4
  <2>6. Black \in Colors
    BY ColorsAssumption
  <2>7. TypeOK'
    BY <1>6, <2>5, <2>6 DEF SendSolid, Shape, TypeOK
  <2> QED
    BY <1>1, <1>6, <2>5, <2>7 DEF SendSolid, Shape
<1>7. CASE Wake
  BY <1>1, <1>7, ColorsAssumption DEF Wake, Shape, TypeOK
<1>8. CASE Refresh
  BY <1>1, <1>8 DEF Refresh, Shape, TypeOK
<1>9. CASE \E l \in Layouts : MonitorUpdate(l)
  <2>1. PICK l \in Layouts : MonitorUpdate(l)
    BY <1>9
  <2>2. \A m \in Slots : crcs'[m] = <<>>
    BY <2>1 DEF MonitorUpdate, ResetState, Shape, TilesOnly
  <2>3. crcs' \in [Slots -> Lists]
    BY <2>1, EmptyList DEF MonitorUpdate, ResetState, Shape, TypeOK
  <2>4. key' \in [Slots -> BOOLEAN]
    BY <2>1 DEF MonitorUpdate, ResetState, Shape, TypeOK
  <2>5. TypeOK'
    BY <2>1, <2>3, <2>4 DEF MonitorUpdate, AddDirty, Shape, TypeOK
  <2>6. Slotted' /\ TilesOnly'
    BY <2>2 DEF Slotted, TilesOnly
  <2>7. \A m \in Monitors' : m \in Slots
    BY <2>1, LayoutsAssumption DEF MonitorUpdate, Monitors
  <2>8. Placed'
    BY <2>2, <2>7, EmptyList DEF Placed
  <2> QED
    BY <2>1, <2>5, <2>6, <2>8 DEF MonitorUpdate, Shape
<1>10. CASE UNCHANGED vars
  BY <1>1, <1>10 DEF vars, Shape, TypeOK
<1>11. CASE DropRest
  BY <1>1, <1>11 DEF DropRest, Shape, TypeOK
<1> QED
  BY <1>2, <1>3, <1>4, <1>5, <1>6, <1>7, <1>8, <1>9, <1>10, <1>11 DEF Next

LEMMA AlwaysShape == Spec => []Shape
BY InitShape, ShapeNext, PTL DEF Spec

\* Every variable keeps to its type: regions stay on the screen, frames refer to
\* the memory, checksums are of pixels.
THEOREM TypeCorrect == Spec => []TypeOK
<1>1. Shape => TypeOK
  BY DEF Shape
<1> QED
  BY <1>1, AlwaysShape, PTL

-----------------------------------------------------------------------------
(* The memory. *)

LEMMA IntactNext ==
  Shape /\ FrameIntact /\ [Next]_vars => FrameIntact'
<1> SUFFICES ASSUME Shape, FrameIntact, [Next]_vars PROVE FrameIntact'
  OBVIOUS
<1> USE DEF region, checks, link, settings
<1>1. ASSUME UNCHANGED <<frames, shm>> PROVE FrameIntact'
  BY <1>1 DEF FrameIntact
<1>2. CASE \E m \in Monitors : CapRect(m)
  BY <1>2, CapturePaints DEF Paints
<1>3. CASE Ack
  <2>1. frames' = <<>>
    <3>1. frames \in Seq(Frame) /\ frames # <<>> /\ Len(frames) <= 1
      BY <1>3 DEF Ack, Shape, TypeOK
    <3>2. frames' = Tail(frames)
      BY <1>3 DEF Ack
    <3> QED
      BY <3>1, <3>2
  <2>2. DOMAIN frames' = {}
    BY <2>1
  <2> QED
    BY <2>2 DEF FrameIntact
<1>4. CASE \E p \in Pixels, v \in Colors : Draw(p, v)
  BY <1>1, <1>4 DEF Draw
<1>5. CASE SendSolid
  <2>1. DOMAIN frames' = DOMAIN frames /\ \A i \in DOMAIN frames : DOMAIN frames'[i] = {}
    BY <1>5 DEF SendSolid
  <2> QED
    BY <2>1 DEF FrameIntact
<1>6. CASE DropRest \/ Sleep \/ Wake \/ Refresh
  BY <1>1, <1>6 DEF DropRest, Sleep, Wake, Refresh
<1>7. CASE \E l \in Layouts : MonitorUpdate(l)
  BY <1>1, <1>7 DEF MonitorUpdate
<1>8. CASE UNCHANGED vars
  BY <1>1, <1>8 DEF vars
<1> QED
  BY <1>2, <1>3, <1>4, <1>5, <1>6, <1>7, <1>8 DEF Next

\* What xrdp reads from the shared memory is what was captured for the frame.
THEOREM FrameStaysIntact == Spec => []FrameIntact
<1>1. Init => FrameIntact
  BY DEF Init, FrameIntact
<1> QED
  BY <1>1, IntactNext, AlwaysShape, PTL DEF Spec

-----------------------------------------------------------------------------
(* The picture. *)

\* What a capture does not paint and does not refuse is as before.
LEMMA Unpainted ==
  ASSUME frames = <<>>, overlaid' = overlaid, refused \subseteq refused',
         NEW P, Paints(P), NEW p \in Pixels, p \notin P, p \notin Excused'
  PROVE  p \notin Excused /\ Pending(p)' = Pending(p)
<1>1. Flight = {} /\ Flight' = P
  BY DEF Flight, Paints
<1>2. p \notin Excused
  BY <1>1 DEF Excused
<1>3. Pending(p) = picture[p]
  BY <1>1 DEF Pending
<1>4. \A q \in Pixels \ P : Pending(q)' = picture[q]
  BY DEF Paints
<1> QED
  BY <1>2, <1>3, <1>4

\* The pixels under way are on the screen.
LEMMA FlightOnScreen == Shape => Flight \subseteq Pixels
<1> SUFFICES ASSUME Shape PROVE Flight \subseteq Pixels
  OBVIOUS
<1>1. CASE frames = <<>>
  BY <1>1 DEF Flight
<1>2. CASE frames # <<>>
  <2>1. Head(frames) \in Frame
    BY <1>2 DEF Shape, TypeOK
  <2> QED
    BY <1>2, <2>1 DEF Flight, Frame
<1> QED
  BY <1>1, <1>2

\* An acknowledgement changes nothing of what will be displayed.
LEMMA AckArrives ==
  ASSUME Shape, Ack
  PROVE  /\ Excused' = Excused
         /\ \A p \in Pixels : Pending(p)' = Pending(p)
<1>1. frames # <<>> /\ frames \in Seq(Frame) /\ Len(frames) <= 1
  BY DEF Ack, Shape, TypeOK
<1>2. frames' = Tail(frames)
  BY DEF Ack
<1>3. frames' = <<>>
  BY <1>1, <1>2
<1>4. Flight' = {} /\ Flight = DOMAIN Head(frames)
  BY <1>1, <1>3 DEF Flight
<1>5. /\ overlaid' = overlaid \ Flight /\ refused' = refused \ Flight
      /\ picture' = [p \in Pixels |-> IF p \in Flight THEN shm[Head(frames)[p].at] ELSE picture[p]]
  BY <1>4 DEF Ack
<1>6. ASSUME NEW p \in Pixels PROVE Pending(p)' = Pending(p)
  <2>1. Pending(p)' = picture'[p]
    BY <1>4 DEF Pending
  <2>2. picture'[p] = Pending(p)
    BY <1>5 DEF Pending
  <2> QED
    BY <2>1, <2>2
<1> QED
  BY <1>4, <1>5, <1>6 DEF Excused

\* The checksums after a capture of tiles.
LEMMA CapturedChecksums ==
  ASSUME Shape, ChecksumsAreShown, NEW m \in Monitors, CapRect(m),
         CaptureTiles(m, CapDirty(m))
  PROVE  ChecksumsAreShown'
<1> DEFINE R == CapDirty(m)
           C == {p \in R : TileOf(m, p) \in Changed(m, R)}
<1>1. /\ R \subseteq Area(m) /\ R \subseteq Pixels /\ frames = <<>>
      /\ refused \subseteq refused' /\ overlaid' = overlaid
      /\ UNCHANGED <<picture, settings>> /\ layout \in Layouts
  BY CapturePaints DEF CapRect, Shape, TypeOK
<1> HIDE DEF R
<1>2. CaptureTiles(m, R)
  BY DEF R
<1>3. PICK P \in SUBSET C :
        /\ Paints(P)
        /\ \/ P = C /\ Reached(m, R) = Changed(m, R)
           \/ P = {} /\ refused' = refused \cup C
  BY <1>1, <1>2, TilesPaint
<1>4. /\ \A n \in Slots : n # m => crcs'[n] = crcs[n]
      /\ DOMAIN crcs'[m] = Tiles(m)
      /\ \A t \in Tiles(m) :
           crcs'[m][t] = IF t \in Reached(m, R) THEN Checksum(m, R, t) ELSE Stored(m)[t]
      /\ \A t \in Tiles(m) : \A r \in DOMAIN crcs'[m][t] :
           r + Left(m) \in Area(m) /\ TileOf(m, r + Left(m)) = t
  BY <1>1, <1>2, NewList DEF CaptureTiles
<1>5. Monitors' = Monitors /\ \A n : Left(n)' = Left(n)
  BY <1>1 DEF settings, Monitors, Left
<1>6. ASSUME NEW p \in Pixels, p \notin P, p \notin Excused'
      PROVE  p \notin Excused /\ Pending(p)' = Pending(p)
  BY <1>1, <1>3, <1>6, Unpainted
<1>7. ASSUME NEW n \in Monitors, NEW t \in DOMAIN crcs'[n], NEW r \in DOMAIN crcs'[n][t],
             NEW p, p = r + Left(n), p \notin Excused'
      PROVE  Pending(p)' = crcs'[n][t][r]
  <2>0. n \in Slots /\ m \in Slots /\ Area(n) \subseteq Pixels
    BY <1>1, Geometry
  <2>1. CASE n # m
    <3>1. crcs'[n] = crcs[n]
      BY <1>4, <2>0, <2>1
    <3>2. p \in Area(n)
      BY <1>7, <3>1 DEF Shape, Placed
    <3>3. p \notin Area(m)
      BY <1>1, <2>1, <3>2, Disjoint
    <3>4. p \in Pixels /\ p \notin P
      BY <1>1, <1>3, <2>0, <3>2, <3>3
    <3>5. p \notin Excused /\ Pending(p)' = Pending(p)
      BY <1>6, <1>7, <3>4
    <3> QED
      BY <1>7, <3>1, <3>5 DEF ChecksumsAreShown
  <2>2. CASE n = m /\ t \in Reached(m, R)
    <3>1. t \in Tiles(m) /\ crcs'[m][t] = Checksum(m, R, t)
      BY <1>4, <2>2
    <3>2. PICK q \in R : r = q - Left(m) /\ TileOf(m, q) = t
      BY <2>2, <3>1 DEF Checksum
    <3>3. q \in Pixels /\ Left(m) \in Pixels
      BY <1>1, Geometry
    <3>4. p = q
      BY <1>7, <2>2, <3>2, <3>3, SizesAssumption DEF Pixels
    <3>5. crcs'[m][t][r] = screen[q]
      <4>1. Checksum(m, R, t)[r] = screen[r + Left(m)]
        BY <2>2, <3>1 DEF Checksum
      <4> QED
        BY <1>7, <2>2, <3>1, <3>4, <4>1
    <3>6. q \in C
      BY <2>2, <3>2 DEF Reached
    <3>7. CASE P = C
      <4>1. \A x \in P : Pending(x)' = screen[x]
        BY <1>3 DEF Paints
      <4> QED
        BY <2>2, <3>4, <3>5, <3>6, <3>7, <4>1
    <3>8. CASE P = {} /\ refused' = refused \cup C
      <4>1. Flight' = {}
        BY <1>3, <3>8 DEF Paints
      <4>2. q \in Excused'
        BY <3>6, <3>8, <4>1 DEF Excused
      <4> QED
        BY <1>7, <3>4, <4>2
    <3> QED
      BY <1>3, <3>7, <3>8
  <2>3. CASE n = m /\ t \notin Reached(m, R)
    <3>1. t \in Tiles(m) /\ crcs'[m][t] = Stored(m)[t]
      BY <1>4, <2>3
    <3>2. Stored(m) = crcs[m] /\ DOMAIN crcs[m] = Tiles(m)
      <4>1. CASE Stored(m) = [u \in Tiles(m) |-> NoChecksum]
        <5>1. DOMAIN NoChecksum = {}
          BY DEF NoChecksum
        <5>2. DOMAIN crcs'[m][t] = {}
          BY <3>1, <4>1, <5>1
        <5> QED
          BY <2>3, <5>2
      <4> QED
        BY <4>1, StoredList DEF Shape
    <3>3. p \in Area(m) /\ TileOf(m, p) = t
      BY <1>4, <1>7, <2>3, <3>1
    <3>4. p \in Pixels /\ p \notin P
      BY <1>3, <2>0, <2>3, <3>3
    <3>5. p \notin Excused /\ Pending(p)' = Pending(p)
      BY <1>6, <1>7, <3>4
    <3>6. t \in DOMAIN crcs[m] /\ r \in DOMAIN crcs[m][t] /\ crcs'[m][t] = crcs[m][t]
      BY <2>3, <3>1, <3>2
    <3>7. Pending(p) = crcs[m][t][r]
      BY <1>7, <2>3, <3>5, <3>6 DEF ChecksumsAreShown
    <3> QED
      BY <2>3, <3>5, <3>6, <3>7
  <2> QED
    BY <2>1, <2>2, <2>3
<1>8. ASSUME NEW n \in Monitors, NEW t \in DOMAIN crcs'[n], NEW r \in DOMAIN crcs'[n][t]
      PROVE  (r + Left(n) \notin Excused => Pending(r + Left(n)) = crcs[n][t][r])'
  <2>1. PICK p : p = r + Left(n)
    OBVIOUS
  <2>2. p \notin Excused' => Pending(p)' = crcs'[n][t][r]
    BY <1>7, <2>1
  <2>3. Left(n)' = Left(n)
    BY <1>5
  <2>4. p = r + Left(n)'
    BY <2>1, <2>3
  <2> HIDE DEF Left
  <2> QED
    BY <2>2, <2>4 DEF Pending
<1> QED
  BY <1>5, <1>8 DEF ChecksumsAreShown

LEMMA ChecksumsNext ==
  Shape /\ ChecksumsAreShown /\ [Next]_vars => ChecksumsAreShown'
<1> SUFFICES ASSUME Shape, ChecksumsAreShown, [Next]_vars PROVE ChecksumsAreShown'
  OBVIOUS
<1> USE DEF region, checks, link, settings
<1>1. ASSUME UNCHANGED <<layout, crcs, link, overlaid, refused>> PROVE ChecksumsAreShown'
  BY <1>1 DEF ChecksumsAreShown, Monitors, Left, Excused, Flight, Pending
<1>2. ASSUME \A n \in Monitors' : crcs'[n] = <<>> PROVE ChecksumsAreShown'
  BY <1>2, EmptyList DEF ChecksumsAreShown
<1>3. CASE \E m \in Monitors : CapRect(m)
  <2>1. PICK m \in Monitors : CapRect(m)
    BY <1>3
  <2>2. CASE CaptureTiles(m, CapDirty(m))
    BY <2>1, <2>2, CapturedChecksums
  <2>3. CASE CaptureRects(m, CapDirty(m))
    <3>1. crcs' = crcs /\ \A n \in Slots : crcs[n] = <<>>
      BY <2>3 DEF CaptureRects, Shape, TilesOnly
    <3>2. Monitors' = Monitors /\ Monitors \subseteq Slots
      BY <2>1, Geometry DEF CapRect, Monitors, Shape, TypeOK
    <3> QED
      BY <1>2, <3>1, <3>2
  <2> QED
    BY <2>1, <2>2, <2>3 DEF CapRect
<1>4. CASE Ack
  <2>1. UNCHANGED <<layout, crcs>>
    BY <1>4 DEF Ack
  <2>2. ASSUME NEW n \in Monitors, NEW t \in DOMAIN crcs[n], NEW r \in DOMAIN crcs[n][t]
        PROVE  r + Left(n) \in Pixels
    BY Geometry DEF Shape, TypeOK, Placed
  <2>3. Monitors' = Monitors /\ \A n : Left(n)' = Left(n)
    BY <2>1 DEF Monitors, Left
  <2> QED
    BY <1>4, <2>1, <2>2, <2>3, AckArrives DEF ChecksumsAreShown
<1>5. CASE \E p \in Pixels, v \in Colors : Draw(p, v)
  BY <1>1, <1>5 DEF Draw
<1>6. CASE SendSolid
  <2>1. /\ overlaid' = Pixels /\ UNCHANGED <<layout, crcs>>
        /\ frames \in Seq(Frame)
        /\ DOMAIN frames' = DOMAIN frames
        /\ \A i \in DOMAIN frames : DOMAIN frames'[i] = {}
    BY <1>6 DEF SendSolid, Shape, TypeOK
  <2>2. Flight' = {}
    <3>1. CASE frames' = <<>>
      BY <3>1 DEF Flight
    <3>2. CASE frames' # <<>>
      <4>1. frames' \in Seq(Frame)
        BY ShapeNext DEF Shape, TypeOK
      <4>2. Head(frames') = frames'[1] /\ 1 \in DOMAIN frames'
        BY <3>2, <4>1
      <4> QED
        BY <2>1, <3>2, <4>2 DEF Flight
    <3> QED
      BY <3>1, <3>2
  <2>3. Excused' = Pixels \cup refused'
    BY <2>1, <2>2 DEF Excused
  <2>4. ASSUME NEW n \in Monitors, NEW t \in DOMAIN crcs[n], NEW r \in DOMAIN crcs[n][t]
        PROVE  r + Left(n) \in Pixels
    BY Geometry DEF Shape, TypeOK, Placed
  <2>5. Monitors' = Monitors /\ \A n : Left(n)' = Left(n)
    BY <2>1 DEF Monitors, Left
  <2> QED
    BY <2>1, <2>3, <2>4, <2>5 DEF ChecksumsAreShown
<1>7. CASE DropRest \/ Sleep \/ Wake \/ Refresh
  BY <1>1, <1>7 DEF DropRest, Sleep, Wake, Refresh
<1>8. CASE \E l \in Layouts : MonitorUpdate(l)
  <2>1. PICK l \in Layouts : MonitorUpdate(l)
    BY <1>8
  <2>2. \A n \in Slots : crcs'[n] = <<>>
    BY <2>1 DEF MonitorUpdate, ResetState, Shape, TilesOnly
  <2>3. \A n \in Monitors' : n \in Slots
    BY <2>1, LayoutsAssumption DEF MonitorUpdate, Monitors
  <2> QED
    BY <1>2, <2>2, <2>3
<1>9. CASE UNCHANGED vars
  BY <1>1, <1>9 DEF vars
<1> QED
  BY <1>3, <1>4, <1>5, <1>6, <1>7, <1>8, <1>9 DEF Next

LEMMA InitChecksums == Init => ChecksumsAreShown
<1> SUFFICES ASSUME Init PROVE ChecksumsAreShown
  OBVIOUS
<1>1. \A n \in Monitors : n \in Slots
  BY Geometry DEF Init
<1> QED
  BY <1>1, EmptyList DEF Init, ChecksumsAreShown

\* A checksum is of what the client displays: no capture, acknowledgement,
\* overlay or rearrangement of monitors leaves one that is stale.
THEOREM ChecksumsStayShown == Spec => []ChecksumsAreShown
BY InitChecksums, ChecksumsNext, AlwaysShape, PTL DEF Spec

\* A dirty tile is skipped because of a checksum that is of what is displayed.
LEMMA SkippedIsShown ==
  ASSUME Shape, ChecksumsAreShown, NEW m \in Monitors, NEW R \in SUBSET Area(m),
         NEW p \in R, TileOf(m, p) \notin Changed(m, R), p \notin Excused
  PROVE  Pending(p) = screen[p]
<1> DEFINE t == TileOf(m, p)
           r == p - Left(m)
<1>1. p \in Area(m) /\ p \in Pixels /\ Left(m) \in Pixels /\ layout \in Layouts
  BY Geometry DEF Shape, TypeOK
<1>2. r + Left(m) = p
  BY <1>1, SizesAssumption DEF Pixels
<1>3. t \in Tiles(m)
  BY <1>1, TilesOfMonitor
<1>4. Checksum(m, R, t) = Stored(m)[t]
  BY DEF Changed, Dirtied
<1>5. r \in DOMAIN Checksum(m, R, t) /\ Checksum(m, R, t)[r] = screen[r + Left(m)]
  BY DEF Checksum
<1> HIDE DEF r, t
<1>6. Stored(m) = crcs[m] /\ DOMAIN crcs[m] = Tiles(m)
  <2>1. CASE Stored(m) = [u \in Tiles(m) |-> NoChecksum]
    BY <1>3, <1>4, <1>5, <2>1 DEF NoChecksum
  <2> QED
    BY <2>1, StoredList DEF Shape
<1>7. t \in DOMAIN crcs[m] /\ r \in DOMAIN crcs[m][t] /\ crcs[m][t][r] = screen[p]
  BY <1>2, <1>3, <1>4, <1>5, <1>6
<1>8. r + Left(m) \notin Excused => Pending(r + Left(m)) = crcs[m][t][r]
  BY <1>7 DEF ChecksumsAreShown
<1> QED
  BY <1>2, <1>7, <1>8

\* What rdpCapRect takes out of dirtyRegion is sent, or is what is displayed.
LEMMA CapturedIsShown ==
  ASSUME Shape, ChecksumsAreShown, NEW m \in Monitors, CapRect(m),
         NEW p \in CapDirty(m), p \notin Uncopied, p \notin Excused'
  PROVE  Pending(p)' = screen[p]
<1> DEFINE R == CapDirty(m)
<1>1. /\ R \subseteq Area(m) /\ R \subseteq Pixels /\ frames = <<>>
      /\ refused \subseteq refused' /\ overlaid' = overlaid
      /\ UNCHANGED <<picture, settings>>
  BY CapturePaints DEF CapRect
<1>2. p \in R
  OBVIOUS
<1> HIDE DEF R
<1>3. CASE CaptureRects(m, R)
  <2>1. PICK P \in SUBSET R : Paints(P) /\ R \ P \subseteq Uncopied
    BY <1>1, <1>3, RectsPaint
  <2>2. p \in P
    BY <1>2, <2>1
  <2> QED
    BY <2>1, <2>2 DEF Paints
<1>4. CASE CaptureTiles(m, R)
  <2> DEFINE C == {q \in R : TileOf(m, q) \in Changed(m, R)}
  <2>1. PICK P \in SUBSET C :
          /\ Paints(P)
          /\ \/ P = C
             \/ P = {} /\ refused' = refused \cup C
    BY <1>1, <1>4, TilesPaint
  <2>2. CASE p \in P
    BY <2>1, <2>2 DEF Paints
  <2>3. CASE p \notin P /\ p \in C
    <3>1. p \in refused' /\ p \notin Flight'
      BY <2>1, <2>3 DEF Paints
    <3> QED
      BY <3>1 DEF Excused
  <2>4. CASE p \notin P /\ p \notin C
    <3>1. p \notin Excused /\ Pending(p)' = Pending(p)
      BY <1>1, <1>2, <2>1, <2>4, Unpainted
    <3>2. TileOf(m, p) \notin Changed(m, R)
      BY <1>2, <2>4
    <3>3. Pending(p) = screen[p]
      BY <1>1, <1>2, <3>1, <3>2, SkippedIsShown
    <3> QED
      BY <3>1, <3>3
  <2> QED
    BY <2>2, <2>3, <2>4
<1> QED
  BY <1>3, <1>4 DEF CapRect, R

LEMMA CleanNext ==
  Shape /\ ChecksumsAreShown /\ CleanIsShown /\ [Next]_vars => CleanIsShown'
<1> SUFFICES ASSUME Shape, ChecksumsAreShown, CleanIsShown, [Next]_vars PROVE CleanIsShown'
  OBVIOUS
<1> USE DEF region, checks, link, settings
<1> DEFINE Same == UNCHANGED <<layout, code>>
<1>1. ASSUME Same
      PROVE  /\ Monitors' = Monitors /\ Uncopied' = Uncopied
             /\ \A n \in Monitors : Area(n)' = Area(n)
  BY <1>1 DEF Monitors, Area, Uncopied, Size
<1>2. \A n \in Monitors : Area(n) \subseteq Pixels
  BY Geometry DEF Shape, TypeOK
<1>3. ASSUME asleep' PROVE CleanIsShown'
  BY <1>3 DEF CleanIsShown
<1>4. ASSUME dirty' = Pixels PROVE CleanIsShown'
  <2>1. \A n \in Monitors' : Area(n)' \subseteq Pixels
    BY ShapeNext, Geometry, LayoutsAssumption, SizesAssumption
    DEF Shape, TypeOK, IsMonitor, Area, Monitors, Pixels
  <2> QED
    BY <1>4, <2>1 DEF CleanIsShown
<1>5. CASE \E m \in Monitors : CapRect(m)
  <2>1. PICK m \in Monitors : CapRect(m)
    BY <1>5
  <2>2. /\ Same /\ frames = <<>> /\ ~asleep /\ screen' = screen
        /\ dirty' = dirty \ CapDirty(m) /\ overlaid' = overlaid /\ refused \subseteq refused'
    BY <2>1, CapturePaints DEF CapRect, MayCapture
  <2>3. PICK P \in SUBSET CapDirty(m) : Paints(P)
    BY <2>1, CapturePaints
  <2>4. ASSUME NEW n \in Monitors, NEW p \in Area(n), p \notin dirty', p \notin Excused',
               p \notin Uncopied
        PROVE  Pending(p)' = screen[p]
    <3>1. CASE p \in CapDirty(m)
      BY <2>1, <2>4, <3>1, CapturedIsShown
    <3>2. CASE p \notin CapDirty(m)
      <4>1. p \in Pixels /\ p \notin P /\ p \notin dirty
        BY <1>2, <2>2, <2>3, <2>4, <3>2
      <4>2. p \notin Excused /\ Pending(p)' = Pending(p)
        BY <2>2, <2>3, <2>4, <4>1, Unpainted
      <4>3. Pending(p) = screen[p]
        BY <2>2, <2>4, <4>1, <4>2 DEF CleanIsShown
      <4> QED
        BY <4>2, <4>3
    <3> QED
      BY <3>1, <3>2
  <2> QED
    BY <1>1, <2>2, <2>4 DEF CleanIsShown
<1>6. CASE Ack
  <2>1. Same /\ UNCHANGED <<screen, dirty, asleep>>
    BY <1>6 DEF Ack
  <2> QED
    BY <1>1, <1>2, <1>6, <2>1, AckArrives DEF CleanIsShown
<1>7. CASE \E p \in Pixels, v \in Colors : Draw(p, v)
  <2>1. PICK q \in Pixels, v \in Colors : Draw(q, v)
    BY <1>7
  <2>2. CASE asleep
    BY <1>3, <2>1, <2>2 DEF Draw
  <2>3. CASE ~asleep
    <3>1. /\ Same /\ dirty' = dirty \cup {q} /\ Excused' = Excused
          /\ \A p : p # q /\ p \in Pixels => screen'[p] = screen[p]
          /\ \A p : Pending(p)' = Pending(p)
      BY <2>1, <2>3 DEF Draw, AddDirty, Excused, Flight, Pending, Shape, TypeOK
    <3> QED
      BY <1>1, <1>2, <2>3, <3>1 DEF CleanIsShown
  <2> QED
    BY <2>2, <2>3
<1>8. CASE Sleep \/ SendSolid
  BY <1>3, <1>8 DEF Sleep, SendSolid
<1>9. CASE Wake \/ Refresh
  BY <1>4, <1>9 DEF Wake, Refresh
<1>10. CASE \E l \in Layouts : MonitorUpdate(l)
  <2>1. asleep' = asleep /\ (~asleep => dirty' = dirty \cup Pixels)
    BY <1>10 DEF MonitorUpdate, AddDirty
  <2> QED
    BY <1>3, <1>4, <2>1 DEF Shape, TypeOK
<1>11. CASE UNCHANGED vars
  <2>1. /\ Same /\ UNCHANGED <<screen, dirty, asleep>> /\ Excused' = Excused
        /\ \A p : Pending(p)' = Pending(p)
    BY <1>11 DEF vars, Excused, Flight, Pending
  <2> QED
    BY <1>1, <2>1 DEF CleanIsShown
<1>12. CASE DropRest
  <2>1. /\ Same /\ UNCHANGED <<screen, asleep>> /\ Excused' = Excused
        /\ \A m \in Monitors : dirty \cap Area(m) = {}
        /\ \A p : Pending(p)' = Pending(p)
    BY <1>12 DEF DropRest, Excused, Flight, Pending
  <2> QED
    BY <1>1, <2>1 DEF CleanIsShown
<1> QED
  BY <1>5, <1>6, <1>7, <1>8, <1>9, <1>10, <1>11, <1>12 DEF Next

LEMMA InitClean == Init => CleanIsShown
<1> SUFFICES ASSUME Init PROVE CleanIsShown
  OBVIOUS
<1>1. \A n \in Monitors : Area(n) \subseteq Pixels
  BY Geometry DEF Init
<1> QED
  BY <1>1 DEF Init, CleanIsShown

\* What is not dirty is what the client displays, or is on its way to it.
THEOREM CleanStaysShown == Spec => []CleanIsShown
BY InitChecksums, ChecksumsNext, InitClean, CleanNext, AlwaysShape, PTL DEF Spec

-----------------------------------------------------------------------------
(* Key frames. *)

\* A monitor that waits for a key frame and has checksums has had a capture that
\* failed, and nothing of it is under way.
KeyMissed ==
  \A m \in Monitors :
    key[m] /\ crcs[m] # <<>> => \E p \in Area(m) \cap refused : p \notin Flight

LEMMA InitKey == Init => KeyMissed
<1>1. Init => \A m \in Monitors : m \in Slots
  BY Geometry DEF Init
<1> QED
  BY <1>1 DEF Init, KeyMissed

\* A capture of tiles that fails has a tile that has changed.
LEMMA RefusedSome ==
  ASSUME Shape, NEW m \in Monitors, NEW R \in SUBSET Area(m), Overflows(m, R)
  PROVE  \E p \in R : TileOf(m, p) \in Changed(m, R)
<1>1. limit \in Nat \ {0}
  BY SizesAssumption DEF Shape, TypeOK
<1>2. Changed(m, R) # {}
  <2>1. CASE Changed(m, R) = {}
    <3>1. Cardinality(Changed(m, R)) = 0
      BY <2>1, FS_EmptySet
    <3> QED
      BY <1>1, <3>1 DEF Overflows
  <2> QED
    BY <2>1
<1> QED
  BY <1>2 DEF Changed, Dirtied

LEMMA CaptureKey ==
  ASSUME Shape, KeyMissed, NEW m \in Monitors, CapRect(m)
  PROVE  KeyMissed'
<1> DEFINE R == CapDirty(m)
           C == {p \in R : TileOf(m, p) \in Changed(m, R)}
<1>1. /\ R \subseteq Area(m) /\ frames = <<>> /\ refused \subseteq refused'
      /\ UNCHANGED <<picture, settings>> /\ layout \in Layouts
      /\ Flight = {}
  BY CapturePaints DEF CapRect, Shape, TypeOK, Flight
<1>2. /\ Monitors' = Monitors /\ \A n : Area(n)' = Area(n)
      /\ Monitors \subseteq Slots
  BY <1>1, Geometry DEF settings, Monitors, Area
<1> HIDE DEF R
<1>3. CASE CaptureRects(m, R)
  <2>1. crcs' = crcs /\ \A n \in Slots : crcs[n] = <<>>
    BY <1>3 DEF CaptureRects, checks, Shape, TilesOnly
  <2> QED
    BY <1>2, <2>1 DEF KeyMissed
<1>4. CASE CaptureTiles(m, R)
  <2>1. \/ SendTiles(m, R) /\ key' = [key EXCEPT ![m] = FALSE]
        \/ RefuseTiles(m, R) /\ key' = key
    BY <1>4 DEF CaptureTiles, SendTiles, RefuseTiles
  <2>2. \A n \in Slots : n # m => crcs'[n] = crcs[n]
    BY <1>1, <1>4, NewList DEF CaptureTiles
  <2>3. key \in [Slots -> BOOLEAN] /\ m \in Slots
    BY <1>2 DEF Shape, TypeOK
  <2>4. PICK P \in SUBSET C :
          /\ Paints(P)
          /\ RefuseTiles(m, R) => P = {} /\ refused' = refused \cup C
    <3>1. CASE SendTiles(m, R)
      <4>1. ~RefuseTiles(m, R)
        BY <3>1 DEF SendTiles, RefuseTiles
      <4> QED
        BY <1>1, <1>4, <4>1, TilesPaint
    <3>2. CASE RefuseTiles(m, R)
      <4>1. UNCHANGED <<shm, frames, picture>> /\ refused' = refused \cup C
        BY <1>1, <3>2 DEF RefuseTiles
      <4>2. Paints({})
        BY <1>1, <4>1, NothingSent
      <4> QED
        BY <4>1, <4>2
    <3> QED
      BY <2>1, <3>1, <3>2
  <2>5. Flight' = P
    BY <2>4 DEF Paints
  <2>6. ASSUME NEW n \in Monitors, key'[n], crcs'[n] # <<>>
        PROVE  \E p \in Area(n) \cap refused' : p \notin Flight'
    <3>1. CASE n # m
      <4>1. key[n] /\ crcs[n] # <<>>
        BY <1>2, <2>1, <2>2, <2>3, <2>6, <3>1
      <4>2. PICK p \in Area(n) \cap refused : TRUE
        BY <4>1 DEF KeyMissed
      <4>3. p \notin Area(m)
        BY <1>1, <3>1, Disjoint
      <4> QED
        BY <1>1, <2>5, <4>2, <4>3
    <3>2. CASE n = m
      <4>1. RefuseTiles(m, R)
        BY <2>1, <2>3, <2>6, <3>2
      <4>2. \E p \in R : p \in C
        BY <1>1, <4>1, RefusedSome DEF RefuseTiles
      <4> QED
        BY <1>1, <2>4, <2>5, <3>2, <4>1, <4>2
    <3> QED
      BY <3>1, <3>2
  <2> QED
    BY <1>2, <2>6 DEF KeyMissed
<1> QED
  BY <1>3, <1>4 DEF CapRect, R

LEMMA KeyNext == Shape /\ KeyMissed /\ [Next]_vars => KeyMissed'
<1> SUFFICES ASSUME Shape, KeyMissed, [Next]_vars PROVE KeyMissed'
  OBVIOUS
<1> USE DEF region, checks, link, settings
<1> DEFINE Same == UNCHANGED <<layout, crcs, key, refused>>
<1>1. ASSUME Same, Flight' \subseteq Flight PROVE KeyMissed'
  BY <1>1 DEF KeyMissed, Monitors, Area
<1>2. CASE \E m \in Monitors : CapRect(m)
  BY <1>2, CaptureKey
<1>3. CASE Ack
  <2>1. UNCHANGED <<layout, crcs, key>> /\ refused' = refused \ Flight
    BY <1>3 DEF Ack, Flight
  <2>2. frames \in Seq(Frame) /\ frames # <<>> /\ Len(frames) <= 1 /\ frames' = Tail(frames)
    BY <1>3 DEF Ack, Shape, TypeOK
  <2>3. Flight' = {}
    <3>1. frames' = <<>>
      BY <2>2
    <3> QED
      BY <3>1 DEF Flight
  <2> QED
    BY <2>1, <2>3 DEF KeyMissed, Monitors, Area
<1>4. CASE SendSolid
  <2>1. /\ Same
        /\ DOMAIN frames' = DOMAIN frames
        /\ \A i \in DOMAIN frames : DOMAIN frames'[i] = {}
    BY <1>4 DEF SendSolid
  <2>2. Flight' = {}
    <3>1. CASE frames' # <<>>
      <4>1. frames' \in Seq(Frame)
        BY ShapeNext DEF Shape, TypeOK
      <4>2. Head(frames') = frames'[1] /\ 1 \in DOMAIN frames'
        BY <3>1, <4>1
      <4> QED
        BY <2>1, <3>1, <4>2 DEF Flight
    <3> QED
      BY <3>1 DEF Flight
  <2> QED
    BY <1>1, <2>1, <2>2
<1>5. CASE DropRest \/ (\E p \in Pixels, v \in Colors : Draw(p, v)) \/ Sleep \/ Wake \/ Refresh
  BY <1>1, <1>5 DEF DropRest, Draw, Sleep, Wake, Refresh, Flight
<1>6. CASE \E l \in Layouts : MonitorUpdate(l)
  <2>1. PICK l \in Layouts : MonitorUpdate(l)
    BY <1>6
  <2>2. \A n \in Slots : crcs'[n] = <<>>
    BY <2>1 DEF MonitorUpdate, ResetState, Shape, TilesOnly
  <2>3. \A n \in Monitors' : n \in Slots
    BY <2>1, LayoutsAssumption DEF MonitorUpdate, Monitors
  <2> QED
    BY <2>2, <2>3 DEF KeyMissed
<1>7. CASE UNCHANGED vars
  BY <1>1, <1>7 DEF vars, Flight
<1> QED
  BY <1>2, <1>3, <1>4, <1>5, <1>6, <1>7 DEF Next

LEMMA KeyStep ==
  ASSUME Shape, KeyMissed, [Next]_vars, NEW m \in Slots, key[m], ~key'[m]
  PROVE  Len(frames') > Len(frames) \/ refused # {}
<1> USE DEF region, checks, link, settings
<1>1. PICK n \in Monitors : CapRect(n)
  <2>1. CASE \E l \in Layouts : MonitorUpdate(l)
    BY <2>1 DEF MonitorUpdate, ResetState
  <2>2. CASE DropRest \/ Ack \/ (\E p \in Pixels, v \in Colors : Draw(p, v)) \/ Sleep
             \/ SendSolid \/ Wake \/ Refresh \/ UNCHANGED vars
    BY <2>2 DEF DropRest, Ack, Draw, Sleep, SendSolid, Wake, Refresh, vars
  <2> QED
    BY <2>1, <2>2 DEF Next
<1> DEFINE R == CapDirty(n)
           C == {p \in R : TileOf(n, p) \in Changed(n, R)}
<1>2. SendTiles(n, R) /\ n = m
  BY <1>1 DEF CapRect, CaptureRects, CaptureTiles, SendTiles, RefuseTiles, Shape, TypeOK
<1>3. R # {} /\ R \subseteq Area(n) /\ frames = <<>> /\ layout \in Layouts
  BY <1>1, CapturePaints DEF CapRect, Shape, TypeOK
<1> HIDE DEF R
<1>4. CASE C # {}
  <2> DEFINE f == [p \in C |-> [at |-> p - Origin(n), was |-> screen[p]]]
  <2>1. frames' = Append(frames, f)
    BY <1>2, <1>4 DEF SendTiles, Send
  <2> HIDE DEF f
  <2>2. Len(frames') = 1 /\ Len(frames) = 0
    BY <1>3, <2>1
  <2> QED
    BY <2>2
<1>5. CASE C = {}
  <2>1. PICK p \in R : TRUE
    BY <1>3
  <2> DEFINE t == TileOf(n, p)
             r == p - Left(n)
  <2>2. t \in Tiles(n)
    BY <1>3, TilesOfMonitor
  <2>3. r \in DOMAIN Checksum(n, R, t)
    BY DEF Checksum
  <2>4. Checksum(n, R, t) = Stored(n)[t]
    BY <1>5 DEF Changed, Dirtied
  <2>5. CASE Stored(n) = [u \in Tiles(n) |-> NoChecksum]
    BY <2>2, <2>3, <2>4, <2>5 DEF NoChecksum
  <2>6. CASE DOMAIN crcs[n] = Tiles(n)
    <3>1. crcs[n] # <<>>
      BY <2>2, <2>6, EmptyList
    <3> QED
      BY <1>2, <3>1 DEF KeyMissed
  <2> QED
    BY <2>5, <2>6, StoredList DEF Shape
<1> QED
  BY <1>4, <1>5

\* A request for a key frame is never lost: it is reset by a frame that is sent,
\* unless a capture has failed.
THEOREM KeyFramesAreSent == Spec => KeyFrameSent
<1>1. Shape /\ KeyMissed /\ [Next]_vars =>
        [\A m \in Slots : key[m] /\ ~key'[m] => Len(frames') > Len(frames) \/ refused # {}]_vars
  BY KeyStep
<1> QED
  BY <1>1, InitKey, KeyNext, AlwaysShape, PTL DEF Spec, KeyFrameSent

=============================================================================
