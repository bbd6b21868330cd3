-------------------------- MODULE UpdateTimerProofs --------------------------
(***************************************************************************)
(* Proofs about the delay of the next update: away from the wrap of the    *)
(* clock it is as long as it should be, for every clock and every frame    *)
(* interval of less than half of it.                                       *)
(***************************************************************************)
EXTENDS UpdateTimer, TLAPS

\* Every variable keeps its type; the delay of rdpScheduleDeferredUpdate is a
\* number of the width of the clock.
THEOREM TypeCorrect == Spec => []TypeOK
<1>1. Init => TypeOK
  <2>1. 0 \in Times
    BY UpdateTimerAssumption DEF Times
  <2> QED
    BY <2>1 DEF Init, TypeOK
<1>2. ASSUME TypeOK, [Next]_vars PROVE TypeOK'
  <2> USE <1>2, UpdateTimerAssumption DEF TypeOK, Times, NoTimer, MinWait
  <2>1. MsToWait(now, last) \in Times
    BY DEF MsToWait, Plus, Minus
  <2>2. ASSUME NEW d \in BOOLEAN, NEW u \in BOOLEAN, Schedule(d, u), now' = now PROVE TypeOK'
    BY <2>1, <2>2 DEF Schedule, Update
  <2>3. CASE AddDirty
    BY <2>2, <2>3 DEF AddDirty
  <2>4. CASE DeferredUpdate
    BY <2>4 DEF DeferredUpdate, Update
  <2>5. CASE Ack
    BY <2>2, <2>5 DEF Ack
  <2>6. CASE Tick
    BY <2>6 DEF Tick, Plus
  <2>7. CASE UNCHANGED vars
    BY <2>7 DEF vars
  <2> QED
    BY <2>3, <2>4, <2>5, <2>6, <2>7 DEF Next
<1> QED
  BY <1>1, <1>2, PTL DEF Spec

\* The delay lies between the two that rdpScheduleDeferredUpdate means, unless
\* the time at which it is computed wraps when the shorter one is added.
LEMMA DelayBounds ==
  ASSUME NEW c \in Times, NEW l \in Times, c + MinWait < Word
  PROVE  /\ MsToWait(c, l) \in MinWait..MaxDelay
         /\ ~Over(MsToWait(c, l))
<1> USE UpdateTimerAssumption DEF Times, MinWait
<1>1. Plus(c, MinWait) = c + MinWait
  BY DEF Plus
<1>2. Plus(l, FrameInterval) \in Nat /\ Plus(l, FrameInterval) <= l + FrameInterval
  BY DEF Plus
<1>3. MsToWait(c, l) \in MinWait..MaxDelay
  BY <1>1, <1>2 DEF MsToWait, Minus, MaxDelay
<1>4. 2 * MaxDelay < Word
  BY DEF MaxDelay
<1> QED
  BY <1>3, <1>4 DEF Over, MaxDelay

\* What scheduling does before the wrap: the timer runs, or ran before.
LEMMA ScheduleBeforeWrap ==
  ASSUME TypeOK, BeforeWrap, NEW d \in BOOLEAN, NEW u \in BOOLEAN, Schedule(d, u)
  PROVE  IF scheduled THEN timer' = timer ELSE timer' \in MinWait..MaxDelay
<1>1. ~Over(MsToWait(now, last)) /\ MsToWait(now, last) \in MinWait..MaxDelay
  BY DelayBounds DEF TypeOK, BeforeWrap
<1> QED
  BY <1>1 DEF Schedule, TypeOK

\* The update comes within the frame interval (rdpScheduleDeferredUpdate).
THEOREM UpdateInTime == Spec => InTime
<1>1. ASSUME TypeOK, [Next]_vars, BeforeWrap, ~scheduled, scheduled'
      PROVE timer' \in MinWait..MaxDelay
  <2> USE <1>1 DEF TypeOK
  <2>1. CASE AddDirty
    BY <2>1, ScheduleBeforeWrap DEF AddDirty
  <2>2. CASE Ack
    BY <2>2, ScheduleBeforeWrap DEF Ack
  <2>3. CASE DeferredUpdate \/ Tick \/ UNCHANGED vars
    BY <2>3 DEF DeferredUpdate, Tick, vars
  <2> QED
    BY <2>1, <2>2, <2>3 DEF Next
<1>2. TypeOK /\ [Next]_vars
        => [BeforeWrap /\ ~scheduled /\ scheduled' => timer' \in MinWait..MaxDelay]_vars
  BY <1>1
<1> QED
  BY <1>2, TypeCorrect, PTL DEF Spec, InTime

\* A scheduled update keeps its timer but in the last milliseconds before the
\* clock wraps (rdpScheduleDeferredUpdate, rdpDeferredUpdateCallback).
THEOREM TimerLostOnlyAtWrap == Spec => LostOnlyAtWrap
<1>1. ASSUME TypeOK, [Next]_vars, BeforeWrap, scheduled', timer' = NoTimer
      PROVE scheduled /\ timer = NoTimer
  <2> USE <1>1 DEF TypeOK
  <2>1. NoTimer \notin MinWait..MaxDelay
    BY DEF NoTimer, MinWait
  <2>2. CASE AddDirty
    BY <2>1, <2>2, ScheduleBeforeWrap DEF AddDirty
  <2>3. CASE Ack
    BY <2>1, <2>3, ScheduleBeforeWrap DEF Ack
  <2>4. CASE DeferredUpdate
    BY <2>4 DEF DeferredUpdate
  <2>5. CASE Tick
    BY <2>5 DEF Tick, NoTimer, Times
  <2>6. CASE UNCHANGED vars
    BY <2>6 DEF vars
  <2> QED
    BY <2>2, <2>3, <2>4, <2>5, <2>6 DEF Next
<1>2. TypeOK /\ [Next]_vars
        => [BeforeWrap /\ scheduled' /\ timer' = NoTimer => scheduled /\ timer = NoTimer]_vars
  BY <1>1
<1> QED
  BY <1>2, TypeCorrect, PTL DEF Spec, LostOnlyAtWrap
=============================================================================
