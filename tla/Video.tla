-------------------------------- MODULE Video --------------------------------
(***************************************************************************)
(* The scratch buffer of the video overlay (module/rdpXv.c, and the SSE2   *)
(* conversions that module/rdpSimd.c installs instead of the C ones).      *)
(*                                                                         *)
(* A picture arrives in a YUV format, laid out as                          *)
(* xrdpVidQueryImageAttributes told the application.  It is converted into *)
(* the first part of the buffer, scaled into the second, and painted from  *)
(* there with an ordinary PutImage.  The buffer only grows; a timer that   *)
(* every picture sets back frees it two seconds after the last one.        *)
(*                                                                         *)
(* Colours are left out: a conversion is the places it reads and writes.   *)
(* Nobody checks that the part of a picture that is shown lies in the      *)
(* picture, or that its size can be reckoned in an int: what a picture     *)
(* that is not Regular does to memory is not followed.                     *)
(***************************************************************************)
EXTENDS Integers, FiniteSets, FiniteSetsExt

CONSTANTS
  Pictures,  \* pictures: [format, w, h, src, dw, dh], src a part [x, y, w, h]
  Bases      \* addresses modulo 16 that the allocator returns

VARIABLES
  xvSimd,    \* the conversions are the SSE2 ones
  xvTimer,   \* dev->xv_timer_scheduled
  xvBytes,   \* dev->xv_data_bytes
  xvData,    \* the size of the memory at dev->xv_data, 0 for NULL
  xvBase,    \* dev->xv_data modulo 16
  xvReach,   \* history: the end of what the last picture since a capture touched of
             \* the buffer
  xvPicture  \* history: that picture

video == <<xvSimd, xvTimer, xvBytes, xvData, xvBase, xvReach, xvPicture>>

\* External: the sizes of pictures that the X server lets pass, being no larger
\* than the answer of xrdpVidQueryImageAttributes.
ASSUME VideoAssumption ==
  /\ \A p \in Pictures :
       /\ p.format \in {"YV12", "I420", "YUY2", "UYVY"}
       /\ p.w \in Nat \ {0} /\ p.w <= 2048 /\ p.h \in Nat \ {0} /\ p.h <= 2046
       /\ p.dw \in Nat \ {0} /\ p.dw <= 32767 /\ p.dh \in Nat \ {0} /\ p.dh <= 32767
       /\ p.src.x \in Int /\ p.src.y \in Int /\ p.src.w \in Nat /\ p.src.h \in Nat
  /\ Bases \subseteq 0..15

NoPicture == [format |-> "none"]

VideoTypeOK ==
  /\ xvSimd \in BOOLEAN
  /\ xvTimer \in BOOLEAN
  /\ xvBytes \in Nat
  /\ xvData \in Nat
  /\ xvBase \in Bases \cup {0}
  /\ xvReach \in Nat
  /\ xvPicture \in Pictures \cup {NoPicture}

VideoInit ==
  /\ xvSimd \in BOOLEAN
  /\ xvTimer = FALSE
  /\ xvBytes = 0
  /\ xvData = 0
  /\ xvBase = 0
  /\ xvReach = 0
  /\ xvPicture = NoPicture

-----------------------------------------------------------------------------
(* What the application is told. *)

RoundUp(n, k) == ((n + k - 1) \div k) * k

\* xrdpVidQueryImageAttributes: the size that a picture is rounded up to.
Rounded(format, w, h) ==
  [w |-> RoundUp(w, 4),
   h |-> IF format \in {"YV12", "I420"} THEN RoundUp(h, 2) ELSE h]

\* Its pitches and offsets, of the two planes of colour at half the size.
ColourPitch(p) == RoundUp(Rounded(p.format, p.w, p.h).w \div 2, 4)

ColourPlane(p, plane) ==
  LET as == Rounded(p.format, p.w, p.h)
  IN as.w * as.h + plane * ColourPitch(p) * (as.h \div 2)

-----------------------------------------------------------------------------
(* The conversions, YV12_to_RGB32 and its three companions. *)

Planar(p) == p.format \in {"YV12", "I420"}

\* Mutant: the second plane is taken to be as big as the first of them all.
ColourAtFull(p, plane, i, j) ==
  (j \div 2) * (p.w \div 2) + (i \div 2) + p.w * p.h + plane * ((p.w * p.h) \div 2)

\* Where the planar ones read a colour of pixel (i, j); those of SSE2, eight pixels
\* at a time, in the same place when 8 divides the width and 2 the height.
ColourAt(p, plane, i, j) ==
  (j \div 2) * (p.w \div 2) + (i \div 2) + p.w * p.h + plane * ((p.w * p.h) \div 4)

\* The end of the pixels that are written; in C the packed ones write two at a
\* time.
ConvertedC(p) ==
  IF Planar(p) THEN p.w * p.h ELSE (p.h - 1) * p.w + RoundUp(p.w, 2)

\* SSE2 writes eight at a time: the planar ones in each row of a pair of rows, and
\* then step over a whole row; the packed ones in all, and at least once.
PlanarSse2(p) == (p.h \div 2) * (8 * (p.w \div 8) + p.w)

PackedSse2(p) == 8 * Max({1, (p.w * p.h) \div 8})

\* rdpSimdInit
ConvertedPixels(p) ==
  IF ~xvSimd THEN ConvertedC(p) ELSE IF Planar(p) THEN PlanarSse2(p) ELSE PackedSse2(p)

-----------------------------------------------------------------------------
(* stretch_RGB32_RGB32 *)

\* 16.16 fixed point: the source index of step k, of n steps over len pixels.
Stepped(k, len, n) == (k * ((len * 65536) \div n)) \div 65536

\* The last pixel of the converted picture that is read: one is fetched ahead.
StretchReads(p) ==
  (p.src.y + Stepped(p.dh - 1, p.src.h, p.dh)) * p.w
    + p.src.x + Stepped(p.dw, p.src.w, p.dw)

Stretched(p) == p.w # p.dw \/ p.h # p.dh

-----------------------------------------------------------------------------
(* xrdpVidPutImage *)

\* What an int keeps of a number of pixels, which are four bytes each.
IntPixels(n) == ((n + 536870912) % 1073741824) - 536870912

\* Mutant: no room for the alignment of the two parts.
NeededTight(p) == 4 * IntPixels(p.w * p.h + p.dw * p.dh)

\* "index", the bytes that the picture needs, as an int.
Needed(p) == 4 * IntPixels(p.w * p.h + p.dw * p.dh + 16)

\* A picture that the code does well by: the part that is scaled lies in it, its
\* bytes can be counted in an int, and the planar SSE2 conversions, whose stores
\* are aligned and whose loops end at zero, find rows and columns of their size.
Regular(p) ==
  /\ Stretched(p) => /\ p.src.x >= 0 /\ p.src.w > 0 /\ p.src.x + p.src.w <= p.w
                     /\ p.src.y >= 0 /\ p.src.h > 0 /\ p.src.y + p.src.h <= p.h
  /\ p.w * p.h + p.dw * p.dh + 16 < 536870912
  /\ (xvSimd /\ Planar(p)) => p.w >= 8 /\ p.w % 4 = 0 /\ p.h >= 2

\* RDPALIGN(.., 16), as offsets into a buffer at an address of base modulo 16.
Aligned(base, n) == RoundUp(base + n, 16) - base

\* rgborg32 and rgbend32
Converted(base) == Aligned(base, 0)
Scaled(base, p) == Aligned(base, Converted(base) + p.w * p.h * 4)

\* The end of what converting, scaling and painting a picture touches; of one that
\* is not Regular it is not known.
Beyond == 2147483647

Reach(base, p) ==
  IF ~Regular(p) THEN Beyond ELSE
  Max({Converted(base) + 4 * ConvertedPixels(p)} \cup
      IF Stretched(p)
      THEN {Converted(base) + 4 * (StretchReads(p) + 1), Scaled(base, p) + 4 * p.dw * p.dh}
      ELSE {Converted(base) + 4 * p.w * p.h})

\* "index > dev->xv_data_bytes": the buffer is kept.
Enough(p) == Needed(p) <= xvBytes

\* The buffer is kept or replaced, and the picture is converted and scaled.
ConvertPicture(p) ==
  /\ xvTimer' = TRUE
  /\ UNCHANGED xvSimd
  /\ \/ /\ Enough(p)
        /\ UNCHANGED <<xvBytes, xvData, xvBase>>
     \/ /\ ~Enough(p)
        /\ xvBytes' = Needed(p)
        /\ xvData' = Needed(p)
        /\ xvBase' \in Bases
  /\ xvReach' = Reach(xvBase', p)
  /\ xvPicture' = p

\* The allocation fails: the picture is not painted.
NoBuffer(p) ==
  /\ ~Enough(p)
  /\ xvTimer' = TRUE
  /\ UNCHANGED xvSimd
  /\ xvBytes' = 0
  /\ xvData' = 0
  /\ xvBase' = 0
  /\ xvReach' = 0
  /\ UNCHANGED xvPicture

\* rdpDeferredXvCleanup
XvCleanup ==
  /\ xvTimer
  /\ xvTimer' = FALSE
  /\ UNCHANGED xvSimd
  /\ xvBytes' = 0
  /\ xvData' = 0
  /\ xvBase' = 0
  /\ xvReach' = 0
  /\ UNCHANGED xvPicture

-----------------------------------------------------------------------------
(* Properties *)

\* Converting and scaling a picture that is Regular stay inside memory that is
\* allocated, also when it is left over from another picture of any kind, aligned
\* anyhow, and read one pixel ahead.
VideoStaysInside ==
  (xvPicture # NoPicture /\ Regular(xvPicture)) => xvReach <= xvData

\* The colours of a pixel are read from where the application was told to put
\* them, for pictures whose width is a multiple of 8 and whose height is even:
\* of the others the answer is rounded up and the conversion is not.
ColourFromItsPlane ==
  (/\ xvPicture # NoPicture
   /\ Planar(xvPicture)
   /\ xvPicture.w % 8 = 0
   /\ xvPicture.h % 2 = 0) =>
    \A plane \in {0, 1}, i \in 0..(xvPicture.w - 1), j \in 0..(xvPicture.h - 1) :
      ColourAt(xvPicture, plane, i, j) =
        ColourPlane(xvPicture, plane) + (j \div 2) * ColourPitch(xvPicture) + i \div 2
=============================================================================
