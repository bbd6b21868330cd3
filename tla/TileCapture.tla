----------------------------- MODULE TileCapture -----------------------------
(***************************************************************************)
(* How one client's picture of the screen is captured, sent and skipped    *)
(* (module/rdpCapture.c; rdpCapRect, rdpClientConResizeAllMemoryAreas and  *)
(* the screen sleep in module/rdpClientCon.c).                             *)
(*                                                                         *)
(* A capture takes what is dirty of a monitor, writes it to memory shared  *)
(* with xrdp and sends a frame that says where it is.  xrdp reads the      *)
(* memory some time later and acknowledges.  In the modes that send tiles  *)
(* a checksum per tile remembers what was captured last, and a tile with   *)
(* the same checksum is not sent again.                                    *)
(*                                                                         *)
(* One row of pixels stands for the screen: regions are sets of pixels,    *)
(* their rectangles are runs.  Checksums do not collide: a checksum is     *)
(* what it is computed from, the rectangles and the colours in them.       *)
(* overlaid and refused are history variables.                             *)
(***************************************************************************)
EXTENDS Integers, FiniteSets, Sequences

CONSTANTS
  Width,      \* of the screen; it stays when monitors are rearranged
  Layouts,    \* the monitors that a client may have: sequences of [left, right];
              \* monitors do not overlap
  Codes,      \* client_info.capture_code: "simple", "a16", "a2" or "pro"
  TileWidth,  \* XRDP_RFX_ALIGN, 64
  Grid,       \* the 16 of rdpCaptureSufA16
  MaxRects,   \* MAX_CAPTURE_RECTS, 15
  Limits,     \* RDP_MAX_TILES, 4096, in proportion to the screen
  Colors,     \* of pixels
  Black,      \* the colour of fresh memory and of the overlay
  Blank       \* memory that holds no picture

Pixels == 0..(Width - 1)

\* Whole tiles: dst_stride is rounded up.
Memory == 0..(Width + TileWidth - 1)

\* The elements of rfx_crcs: there are at most 16 monitors.
Slots == 1..16

IsMonitor(mon) ==
  /\ mon.left \in Pixels
  /\ mon.right \in Pixels
  /\ mon.left <= mon.right

ASSUME SizesAssumption ==
  /\ Width \in Nat \ {0}
  /\ TileWidth \in Nat \ {0}
  /\ Grid \in Nat \ {0}
  /\ MaxRects \in Nat
  /\ Limits \subseteq Nat \ {0}
ASSUME LayoutsAssumption ==
  \A l \in Layouts :
    /\ DOMAIN l \subseteq Slots
    /\ \A m \in DOMAIN l : IsMonitor(l[m])
    /\ \A m, n \in DOMAIN l : m # n => l[m].right < l[n].left \/ l[n].right < l[m].left
ASSUME CodesAssumption  == Codes \subseteq {"simple", "a16", "a2", "pro"}
ASSUME ColorsAssumption == Black \in Colors /\ Blank \notin Colors

VARIABLES
  layout,    \* dev->minfo
  code,      \* client_info.capture_code
  limit,     \* RDP_MAX_TILES: more or less than the screen has
  screen,    \* the framebuffer
  dirty,     \* clientCon->dirtyRegion
  asleep,    \* dev->screen_sleep_active
  crcs,      \* clientCon->rfx_crcs, per monitor and tile
  key,       \* clientCon->send_key_frame
  shm,       \* the shared memory, as far as a frame refers to it
  frames,    \* sent and not acknowledged: what to paint from where
  picture,   \* what the client displays
  overlaid,  \* pixels painted black since they were last sent
  refused    \* pixels of captures that have failed since they were last sent

region   == <<dirty, overlaid, refused>>
checks   == <<crcs, key>>
link     == <<shm, frames, picture>>
settings == <<layout, code, limit>>
vars     == <<settings, screen, asleep, region, checks, link>>

Monitors == DOMAIN layout
Area(m)  == layout[m].left .. layout[m].right
Left(m)  == layout[m].left
Size(m)  == layout[m].right - layout[m].left + 1

\* A fresh slot: no real checksum is computed from nothing.
NoChecksum == [p \in {} |-> Black]

Checksums == UNION {[Q -> Colors] : Q \in SUBSET Pixels}
Lists     == UNION {[T -> Checksums] : T \in SUBSET Pixels}

\* A frame: where its pixels are in the memory, and what they were.
Cell  == [at : Memory, was : Colors]
Frame == UNION {[P -> Cell] : P \in SUBSET Pixels}

TypeOK ==
  /\ layout \in Layouts
  /\ code \in Codes
  /\ limit \in Limits
  /\ screen \in [Pixels -> Colors]
  /\ dirty \in SUBSET Pixels
  /\ asleep \in BOOLEAN
  /\ crcs \in [Slots -> Lists]
  /\ key \in [Slots -> BOOLEAN]
  /\ shm \in [Memory -> Colors \cup {Blank}]
  /\ frames \in Seq(Frame)
  /\ picture \in [Pixels -> Colors \cup {Blank}]
  /\ overlaid \in SUBSET Pixels
  /\ refused \in SUBSET Pixels

\* A client whose client_info has just been processed.
Init ==
  /\ layout \in Layouts
  /\ code \in Codes
  /\ limit \in Limits
  /\ screen = [p \in Pixels |-> Black]
  /\ dirty = Pixels
  /\ asleep = FALSE
  /\ crcs = [m \in Slots |-> <<>>]
  /\ key = [m \in Slots |-> code = "pro"]
  /\ shm = [q \in Memory |-> Blank]
  /\ frames = <<>>
  /\ picture = [p \in Pixels |-> Blank]
  /\ overlaid = {}
  /\ refused = {}

-----------------------------------------------------------------------------
(* Regions. *)

\* The rectangles of a region.
Rects(R) ==
  {r \in R \X R : /\ r[1] <= r[2]
                 /\ r[1] .. r[2] \subseteq R
                 /\ r[1] - 1 \notin R
                 /\ r[2] + 1 \notin R}

Extents(R) == {p \in Pixels : \E a, b \in R : a <= p /\ p <= b}

\* What rdpCapRect captures of a monitor: "the dirty region is too complex,
\* just get a rect that covers the whole region".
CapDirty(m) ==
  LET R == dirty \cap Area(m)
  IN  IF Cardinality(Rects(R)) > MaxRects THEN Extents(R) ELSE R

-----------------------------------------------------------------------------
(* rdpCaptureSimple, rdpCaptureSufA16, rdpCaptureGfxA2: rectangles. *)

\* "make out_rects always multiple of 16 width and height": wider to the right,
\* moved to the left where the screen ends, and cut where it begins.
RoundA16(r) ==
  LET ex   == (-(r[2] - r[1] + 1)) % Grid
      over == IF r[2] + ex > Width - 1 THEN r[2] + ex - (Width - 1) ELSE 0
      left == r[1] - over
  IN  (IF left < 0 THEN left + Grid ELSE left) .. (r[2] + ex - over)

\* "make out_rects always multiple of 2 width and height", inside a monitor of
\* the given size; the end of the rectangle is the pixel after it.
RoundA2(r, size) ==
  LET end == r[2] + 1 + ((r[2] + 1) % 2)
  IN  (r[1] - (r[1] % 2)) .. (IF end > size THEN size - (size % 2) ELSE end) - 1

\* The first pixel of the memory: of the screen, or of the monitor.
Origin(m) == IF code \in {"simple", "a16"} THEN 0 ELSE Left(m)

\* The pixels that are copied for a dirty region.
Copied(m, R) ==
  IF code = "simple" THEN R
  ELSE IF code = "a16" THEN UNION {RoundA16(r) : r \in Rects(R)}
  ELSE {p \in Area(m) : \E r \in Rects(R) :
          p - Left(m) \in RoundA2(<<r[1] - Left(m), r[2] - Left(m)>>, Size(m))}

-----------------------------------------------------------------------------
(* rdpCaptureGfxPro: tiles. *)

TileOf(m, p)  == (p - Left(m)) \div TileWidth
Tiles(m)      == 0 .. ((Size(m) - 1) \div TileWidth)

\* Mutant: a checksum of the colours alone, wherever they are.
ChecksumOfColors(m, R, t) ==
  [r \in {p - Left(m) : p \in {q \in Area(m) : TileOf(m, q) = t}} |->
     IF r + Left(m) \in R THEN screen[r + Left(m)] ELSE Black]

\* The rectangles of a tile that are dirty and what is in them; they are
\* relative to the monitor.  A tile that is dirty as a whole needs no rectangle,
\* and none that is not has the same checksum.
Checksum(m, R, t) ==
  [r \in {p - Left(m) : p \in {q \in R : TileOf(m, q) = t}} |-> screen[r + Left(m)]]

\* The list is allocated again when the monitor has another number of tiles.
Stored(m) ==
  IF Cardinality(DOMAIN crcs[m]) = Cardinality(Tiles(m))
  THEN crcs[m]
  ELSE [t \in Tiles(m) |-> NoChecksum]

Dirtied(m, R) == {TileOf(m, p) : p \in R}

\* The tiles that are not skipped.
Changed(m, R) == {t \in Dirtied(m, R) : Checksum(m, R, t) # Stored(m)[t]}

\* The capture gives up when it has RDP_MAX_TILES tiles, the last included.
Overflows(m, R) == Cardinality(Changed(m, R)) >= limit

\* The tiles that it has come to by then.
Reached(m, R) ==
  {t \in Changed(m, R) : Cardinality({u \in Changed(m, R) : u <= t}) <= limit}

\* The list after the capture.
NewChecksums(m, R) ==
  [crcs EXCEPT ![m] = [t \in Tiles(m) |->
     IF t \in Reached(m, R) THEN Checksum(m, R, t) ELSE Stored(m)[t]]]

-----------------------------------------------------------------------------
(* Frames. *)

\* Copy the pixels C of the screen to the memory; the rest of a tile is filled
\* with zeros.
Write(m, C, fill) ==
  shm' = [q \in Memory |->
            IF q + Origin(m) \in C THEN screen[q + Origin(m)]
            ELSE IF q \in fill THEN Blank
            ELSE shm[q]]

\* rdpClientConSendPaintRectShmFd: xrdp is to paint the pixels P.
Send(m, P) ==
  frames' = Append(frames, [p \in P |-> [at |-> p - Origin(m), was |-> screen[p]]])

\* rdpCapture and what rdpCapRect does with it, in the modes of rectangles.
CaptureRects(m, R) ==
  /\ code # "pro"
  /\ Write(m, Copied(m, R), {})
  /\ Send(m, R \cap Copied(m, R))
  /\ UNCHANGED <<checks, refused>>

\* The same in the modes of tiles.  The tiles that are sent are written; those
\* that are written and not sent are left out.
SendTiles(m, R) ==
  LET C == {p \in R : TileOf(m, p) \in Changed(m, R)}
  IN  /\ ~Overflows(m, R)
      /\ key' = [key EXCEPT ![m] = FALSE]
      /\ \/ /\ C # {}
            /\ Write(m, C, {q \in Memory : q \div TileWidth \in Changed(m, R)})
            /\ Send(m, C)
         \/ /\ C = {}
            /\ UNCHANGED <<shm, frames>>
      /\ UNCHANGED refused

\* "rdpCapture failed": nothing is sent, the checksums stay.
RefuseTiles(m, R) ==
  /\ Overflows(m, R)
  /\ refused' = refused \cup {p \in R : TileOf(m, p) \in Changed(m, R)}
  /\ UNCHANGED <<key, shm, frames>>

CaptureTiles(m, R) ==
  /\ code = "pro"
  /\ crcs' = NewChecksums(m, R)
  /\ SendTiles(m, R) \/ RefuseTiles(m, R)

\* Mutant: a second frame is captured before the first is acknowledged.
MayCaptureUnacked == ~asleep /\ Len(frames) < 2

\* rdpDeferredUpdateCallback: "rect_id > rect_id_ack" ends it.
MayCapture == ~asleep /\ frames = <<>>

\* rdpCapRect, from the scan of the monitors in rdpDeferredUpdateCallback.
CapRect(m) ==
  /\ MayCapture
  /\ CapDirty(m) # {}
  /\ CaptureRects(m, CapDirty(m)) \/ CaptureTiles(m, CapDirty(m))
  /\ dirty' = dirty \ CapDirty(m)
  /\ UNCHANGED <<settings, screen, asleep, picture, overlaid>>

\* "gone through all monitors, nothing changed": the scan ends, maybe with a
\* capture, and forgets what is dirty outside of them.
DropRest ==
  /\ ~asleep
  /\ dirty # {}
  /\ \A m \in Monitors : dirty \cap Area(m) = {}
  /\ dirty' = {}
  /\ UNCHANGED <<settings, screen, asleep, overlaid, refused, checks, link>>

\* xrdp reads the memory, the client paints, and the frame is acknowledged.
\* Memory that no frame refers to is forgotten: nobody reads it again before it
\* is written.
Ack ==
  /\ frames # <<>>
  /\ LET f == Head(frames)
     IN  /\ picture' = [p \in Pixels |-> IF p \in DOMAIN f THEN shm[f[p].at] ELSE picture[p]]
         /\ overlaid' = overlaid \ DOMAIN f
         /\ refused' = refused \ DOMAIN f
  /\ frames' = Tail(frames)
  /\ shm' = IF Len(frames) = 1 THEN [q \in Memory |-> Blank] ELSE shm
  /\ UNCHANGED <<settings, screen, dirty, asleep, checks>>

-----------------------------------------------------------------------------
(* The rest of the driver. *)

\* Mutant: boxes are a pixel too wide.
AddDirtyWide(R) == dirty' = IF asleep THEN dirty ELSE dirty \cup R \cup {p + 1 : p \in R}

\* rdpClientConAddDirtyScreenReg
AddDirty(R) == dirty' = IF asleep THEN dirty ELSE dirty \cup R

\* An application draws, maybe what was there before.
Draw(p, v) ==
  /\ screen' = [screen EXCEPT ![p] = v]
  /\ AddDirty({p})
  /\ UNCHANGED <<settings, asleep, overlaid, refused, checks, link>>

\* rdpScreenSleepEnter
Sleep ==
  /\ ~asleep
  /\ asleep' = TRUE
  /\ UNCHANGED <<settings, screen, region, checks, link>>

\* rdpScreenSleepSendSolid: an order, painted after the frames before it, which
\* it covers.
SendSolid ==
  /\ asleep
  /\ picture' = [p \in Pixels |-> Black]
  /\ frames' = [i \in DOMAIN frames |-> [p \in {} |-> [at |-> 0, was |-> Black]]]
  /\ overlaid' = Pixels
  /\ UNCHANGED <<settings, screen, dirty, asleep, refused, checks, shm>>

\* rdpScreenSleepWake: "any unredrawn areas appear as black", and all is dirty.
Wake ==
  /\ asleep
  /\ asleep' = FALSE
  /\ screen' = [p \in Pixels |-> Black]
  /\ dirty' = Pixels
  /\ UNCHANGED <<settings, overlaid, refused, checks, link>>

\* rdpScreenSleepRefreshCallback, in a mode that knows no overlay: the picture
\* is sent again.
Refresh ==
  /\ asleep
  /\ overlaid = {}
  /\ asleep' = FALSE
  /\ dirty' = Pixels
  /\ UNCHANGED <<settings, screen, overlaid, refused, checks, link>>

\* Mutant: the checksums survive.
ResetStateKeys == crcs' = crcs /\ key' = [m \in Slots |-> key[m] \/ code = "pro"]

\* rdpCaptureResetState
ResetState ==
  /\ crcs' = IF code = "pro" THEN [m \in Slots |-> <<>>] ELSE crcs
  /\ key' = [m \in Slots |-> key[m] \/ code = "pro"]

\* rdpClientConProcessMonitorUpdateMsg, for a session of the same size: the
\* memory is used again, and the client starts from nothing.
MonitorUpdate(l) ==
  /\ layout' = l
  /\ ResetState
  /\ AddDirty(Pixels)
  /\ picture' = [p \in Pixels |-> Blank]
  /\ overlaid' = {}
  /\ refused' = {}
  /\ UNCHANGED <<code, limit, screen, asleep, shm, frames>>

Next ==
  \/ \E m \in Monitors : CapRect(m)
  \/ DropRest
  \/ Ack
  \/ \E p \in Pixels, v \in Colors : Draw(p, v)
  \/ Sleep
  \/ SendSolid
  \/ Wake
  \/ Refresh
  \/ \E l \in Layouts : MonitorUpdate(l)

Spec == Init /\ [][Next]_vars

-----------------------------------------------------------------------------
(* Properties. *)

\* Pixels that the alignment of a mode leaves out, as long as the screen or a
\* monitor is no multiple of it: the first of the screen, the last of a monitor.
Uncopied ==
  IF code = "a16" THEN 0 .. ((Width % Grid) - 1)
  ELSE IF code = "a2" THEN {layout[m].right : m \in {n \in Monitors : Size(n) % 2 = 1}}
  ELSE {}

\* The pixels on their way, and what the client displays when they arrive.
Flight     == IF frames = <<>> THEN {} ELSE DOMAIN Head(frames)
Pending(p) == IF p \in Flight THEN shm[Head(frames)[p].at] ELSE picture[p]

\* Pixels of captures that failed, and those under the overlay of the screen
\* sleep, of which the checksums know nothing; until they are sent again.
Excused == (overlaid \cup refused) \ Flight

\* Every pixel of a monitor that is not dirty is what the client displays when
\* the frame under way has arrived, unless it is excused: rdpCapRect takes a
\* region out of dirtyRegion whether it is copied, skipped for its checksum or
\* widened.
CleanIsShown ==
  ~asleep =>
    \A m \in Monitors : \A p \in Area(m) \ (dirty \cup Excused \cup Uncopied) :
      Pending(p) = screen[p]

\* xrdp reads from the memory what was captured for the frame: neither another
\* monitor nor the next capture has written over it.
FrameIntact ==
  \A i \in DOMAIN frames : \A p \in DOMAIN frames[i] :
    shm[frames[i][p].at] = frames[i][p].was

\* A checksum in rfx_crcs stands for what the client displays of its tile, also
\* after an overlay and a rearrangement of monitors: that is why the capture
\* may skip the tile.
ChecksumsAreShown ==
  \A m \in Monitors : \A t \in DOMAIN crcs[m] : \A r \in DOMAIN crcs[m][t] :
    r + Left(m) \notin Excused => Pending(r + Left(m)) = crcs[m][t][r]

\* send_key_frame is reset by a frame that is sent, unless a capture has failed.
KeyFrameSent ==
  [][\A m \in Slots : key[m] /\ ~key'[m] => Len(frames') > Len(frames) \/ refused # {}]_vars

=============================================================================
