----------------------------- MODULE UpdateTimer -----------------------------
(***************************************************************************)
(* The delay of the next update (rdpScheduleDeferredUpdate): a clock of    *)
(* milliseconds that starts again at zero every 49.7 days, the stamp of    *)
(* the last update, and a timer whose delay is the difference of such      *)
(* stamps.  ScreenUpdate has the rest of the protocol; there the timer may *)
(* expire at any moment.                                                   *)
(***************************************************************************)
EXTENDS Integers

CONSTANTS
  Word,           \* 2^32: milliseconds until the clock starts again
  FrameInterval   \* dev->msFrameInterval

VARIABLES
  now,        \* GetTimeInMillis()
  last,       \* clientCon->lastUpdateTime
  dirty,      \* rdpRegionNotEmpty(clientCon->dirtyRegion)
  unacked,    \* clientCon->rect_id > clientCon->rect_id_ack
  scheduled,  \* clientCon->updateScheduled
  timer       \* what is left of the delay of clientCon->updateTimer

ASSUME UpdateTimerAssumption ==
  /\ Word \in Nat /\ Word > 8
  /\ FrameInterval \in Nat /\ 2 * FrameInterval < Word

vars == <<now, last, dirty, unacked, scheduled, timer>>

Times   == 0..(Word - 1)
NoTimer == -1

\* MIN_MS_TO_WAIT_FOR_MORE_UPDATES
MinWait == 4

\* Sum and difference of two stamps.
Plus(a, b)  == IF a + b < Word THEN a + b ELSE a + b - Word
Minus(a, b) == IF a >= b THEN a - b ELSE a - b + Word

TypeOK ==
  /\ now \in Times
  /\ last \in Times
  /\ dirty \in BOOLEAN
  /\ unacked \in BOOLEAN
  /\ scheduled \in BOOLEAN
  /\ timer \in {NoTimer} \cup Times

\* A client has connected; lastUpdateTime is zero.
Init ==
  /\ now \in Times
  /\ last = 0
  /\ dirty = FALSE
  /\ unacked = FALSE
  /\ scheduled = FALSE
  /\ timer = NoTimer

\* Mutant: the clock may have wrapped since the last update.
MsToWaitUnguarded(c, l) ==
  IF Plus(l, FrameInterval) > Plus(c, MinWait)
  THEN Minus(Plus(l, FrameInterval), c)
  ELSE MinWait

\* Mutant: the difference is signed.
MsToWaitSigned(c, l) ==
  IF l < c /\ Plus(l, FrameInterval) > Plus(c, MinWait)
  THEN Plus(l, FrameInterval) - c
  ELSE MinWait

\* The delay, for an update that is scheduled at time c after the last at l.
MsToWait(c, l) ==
  IF l < c /\ Plus(l, FrameInterval) > Plus(c, MinWait)
  THEN Minus(Plus(l, FrameInterval), c)
  ELSE MinWait

\* TimerSet takes a delay in the upper half of its range for one that is over.
Over(delay) == 2 * delay >= Word

\* rdpDeferredUpdateCallback, apart from updateScheduled; u tells whether a
\* frame has not been acknowledged.  All that is dirty is sent, or nothing.
Update(d, u) ==
  IF u THEN dirty' = d /\ unacked' = u /\ UNCHANGED last
       ELSE dirty' = FALSE /\ unacked' = d /\ last' = now

\* rdpScheduleDeferredUpdate: a delay that is over runs the callback inside
\* TimerSet, before updateScheduled is set.
Schedule(d, u) ==
  LET delay == MsToWait(now, last)
  IN /\ scheduled' = TRUE
     /\ IF ~scheduled /\ Over(delay)
        THEN timer' = NoTimer /\ Update(d, u)
        ELSE /\ timer' = IF scheduled THEN timer ELSE delay
             /\ dirty' = d
             /\ unacked' = u
             /\ UNCHANGED last

\* rdpClientConAddDirtyScreenReg
AddDirty ==
  /\ Schedule(TRUE, unacked)
  /\ UNCHANGED now

\* Mutant: updateScheduled stays set.
DeferredUpdateScheduled ==
  /\ timer = 0
  /\ timer' = NoTimer
  /\ Update(dirty, unacked)
  /\ UNCHANGED <<now, scheduled>>

DeferredUpdate ==
  /\ timer = 0
  /\ timer' = NoTimer
  /\ scheduled' = FALSE
  /\ Update(dirty, unacked)
  /\ UNCHANGED now

\* rdpClientConProcessMsgClientRegionEx
Ack ==
  /\ unacked
  /\ Schedule(dirty, FALSE)
  /\ UNCHANGED now

\* A timer that is due may run late.
Tick ==
  /\ now' = Plus(now, 1)
  /\ timer' = IF timer > 0 THEN timer - 1 ELSE timer
  /\ UNCHANGED <<last, dirty, unacked, scheduled>>

Next == AddDirty \/ DeferredUpdate \/ Ack \/ Tick

Spec == Init /\ [][Next]_vars

-----------------------------------------------------------------------------
(* Properties *)

\* The longest delay that is meant.
MaxDelay == IF FrameInterval > MinWait THEN FrameInterval ELSE MinWait

\* The sum of now and MinWait does not wrap.
BeforeWrap == now + MinWait < Word

\* An update that is scheduled more than MinWait before the clock wraps comes
\* within the frame interval, and not before MinWait is over, however long ago
\* the last update was and whether or not the clock has wrapped since.
InTime ==
  [][BeforeWrap /\ ~scheduled /\ scheduled' => timer' \in MinWait..MaxDelay]_vars

\* Only in the last MinWait before the wrap can the timer of a scheduled update
\* get lost.  "The first check is to gracefully handle the infrequent case of the
\* time wrapping around", in rdpScheduleDeferredUpdate, does not handle these.
LostOnlyAtWrap ==
  [][BeforeWrap /\ scheduled' /\ timer' = NoTimer => scheduled /\ timer = NoTimer]_vars

=============================================================================
