-------------------------- MODULE ScreenUpdateProofs --------------------------
(***************************************************************************)
(* Proofs about ScreenUpdate, for every set of client objects, every       *)
(* number of monitors and every choice of sleep modes: its types, that no  *)
(* change is forgotten, that updates and the sleep cycle are scheduled,    *)
(* and that the protocol implements the module FrameWindow.                *)
(***************************************************************************)
EXTENDS ScreenUpdate, FiniteSetTheorems, TLAPS

-----------------------------------------------------------------------------
(* The inductive invariant *)

\* An object that is not in the list is as calloc has left it.
FreedIsFresh ==
  \A c \in Clients \ clients :
    /\ ~connected[c]
    /\ ~ready[c]
    /\ ~scheduled[c]
    /\ unacked[c] = 0
    /\ shown[c] = Outdated

\* The connection before the last one is marked when a new one comes.
OneConnected == \A c, d \in clients : connected[c] /\ connected[d] => c = d

\* The timers that put the screen to sleep have somebody to sleep for.
SleepsForSomebody == active \/ enterTimer \/ resumeTimer => clients # {}

\* Asleep, at most one client has its update timer armed: the one that was
\* connected when the screen fell asleep.
OneSleeper == active => \A c, d \in Clients : scheduled[c] /\ scheduled[d] => c = d

IndInv ==
  /\ TypeOK
  /\ FreedIsFresh
  /\ OneConnected
  /\ SleepsForSomebody
  /\ OneSleeper
  /\ NothingForgotten
  /\ DirtyIsScheduled
  /\ SleepCycleGoesOn

-----------------------------------------------------------------------------
(* Types *)

\* A capture sends no more frames than there are monitors.
LEMMA FramesBounded ==
  ASSUME NEW sent \in SUBSET Monitors
  PROVE  Cardinality(sent) \in 0..N
<1>1. IsFiniteSet(Monitors) /\ Cardinality(Monitors) = N
  BY FS_Interval, NAssumption DEF Monitors
<1>2. IsFiniteSet(sent) /\ Cardinality(sent) <= N
  BY <1>1, FS_Subset
<1> QED
  BY <1>2, FS_CardinalityType, NAssumption

\* Falling asleep keeps the types of the timers and of the sleep state.
LEMMA EnterTypes == ASSUME TypeOK, Enter PROVE TypeOK'
<1>1. scheduled' \in [Clients -> BOOLEAN]
  BY Zenon DEF Enter
<1>2. refreshTimer' \in BOOLEAN
  BY Zenon DEF Enter
<1>3. overlay' \in 0..3
  BY DEF Enter
<1> QED
  BY <1>1, <1>2, <1>3 DEF TypeOK, Enter, link, window

\* Marking a region keeps the types of what it changes.
LEMMA MarkDirtyTypes ==
  ASSUME TypeOK, NEW S, NEW R \in SUBSET Monitors, MarkDirty(S, R)
  PROVE  dirty' \in [Clients -> SUBSET Monitors] /\ scheduled' \in [Clients -> BOOLEAN]
BY DEF TypeOK, MarkDirty

\* So it does when the screen may be asleep.
LEMMA AddDirtyTypes ==
  ASSUME TypeOK, NEW S, NEW R \in SUBSET Monitors, AddDirtyScreen(S, R)
  PROVE  dirty' \in [Clients -> SUBSET Monitors] /\ scheduled' \in [Clients -> BOOLEAN]
BY MarkDirtyTypes DEF TypeOK, AddDirtyScreen, queue

\* User input keeps the types of the sleep state.
LEMMA UserInputTypes ==
  ASSUME TypeOK, UserInput
  PROVE  /\ mode' \in SleepModes
         /\ active' \in BOOLEAN
         /\ overlay' \in 0..3
         /\ refreshPending' \in BOOLEAN
         /\ enterTimer' \in BOOLEAN
         /\ refreshTimer' \in BOOLEAN
         /\ resumeTimer' \in BOOLEAN
<1>1. enterTimer' \in BOOLEAN /\ refreshTimer' \in BOOLEAN
  BY Zenon DEF UserInput
<1>2. overlay' \in 0..3
  BY DEF TypeOK, UserInput
<1> QED
  BY <1>1, <1>2 DEF TypeOK, UserInput

\* A capture keeps the types of the frame counters and of the pictures.
LEMMA CaptureTypes ==
  ASSUME TypeOK, NEW c \in Clients, NEW sent \in SUBSET Monitors,
         NEW failed \in SUBSET Monitors, Capture(c, sent, failed)
  PROVE  TypeOK'
<1>1. Cardinality(sent) \in 0..N
  BY FramesBounded
<1>2. unacked' \in [Clients -> 0..N]
  BY <1>1, NAssumption DEF TypeOK, Capture, MayCapture
<1>3. NextFrame(c, sent) \in Monitors
  BY <1>1, NAssumption DEF TypeOK, NextFrame, Monitors
<1>4. AfterCapture(c, sent, failed) \in [Monitors -> {"same", "old", "overlaid", "lost"}]
  BY DEF TypeOK, AfterCapture
<1> QED
  BY <1>2, <1>3, <1>4 DEF TypeOK, Capture, sleep, timers, link

\* Every step keeps the types.
LEMMA TypesKept == TypeOK /\ [Next]_vars => TypeOK'
<1> SUFFICES ASSUME TypeOK, [Next]_vars PROVE TypeOK'
  OBVIOUS
<1> USE DEF TypeOK
<1>1. CASE EnterTimeout
  BY <1>1, EnterTypes DEF EnterTimeout, link, queue, window
<1>2. CASE RefreshTimeout
  <2>1. dirty' \in [Clients -> SUBSET Monitors] /\ scheduled' \in [Clients -> BOOLEAN]
    BY <1>2, MarkDirtyTypes DEF RefreshTimeout, queue
  <2>2. /\ active' \in BOOLEAN
        /\ refreshPending' \in BOOLEAN
        /\ resumeTimer' \in BOOLEAN
    BY <1>2, Zenon DEF RefreshTimeout
  <2>3. overlay' \in 0..3
    BY <1>2 DEF RefreshTimeout
  <2>4. refreshTimer' \in BOOLEAN /\ UNCHANGED <<mode, enterTimer, link, window, shown>>
    BY <1>2 DEF RefreshTimeout
  <2> QED
    BY <2>1, <2>2, <2>4, <2>3 DEF link, window
<1>3. CASE ResumeTimeout
  BY <1>3, EnterTypes DEF ResumeTimeout, link, queue, window
<1>4. ASSUME NEW c \in Clients, NEW accepted \in BOOLEAN, GotConnection(c, accepted)
      PROVE TypeOK'
  BY <1>4 DEF GotConnection, queue, window
<1>5. ASSUME NEW c \in Clients, LoseConnection(c) PROVE TypeOK'
  BY <1>5 DEF LoseConnection, sleep, timers, queue, window
<1>6. ASSUME NEW c \in Clients, RemoveClient(c) PROVE TypeOK'
  <2>1. 0 \in Monitors /\ 0 \in 0..N
    BY NAssumption DEF Monitors
  <2>2. /\ active' \in BOOLEAN
        /\ refreshPending' \in BOOLEAN
        /\ enterTimer' \in BOOLEAN
        /\ refreshTimer' \in BOOLEAN
        /\ resumeTimer' \in BOOLEAN
    BY <1>6, Zenon DEF RemoveClient, EndSleep, timers
  <2>3. overlay' \in 0..3
    BY <1>6 DEF RemoveClient, EndSleep
  <2>4. shown' \in [Clients -> [Monitors -> {"same", "old", "overlaid", "lost"}]]
    BY <1>6 DEF RemoveClient, Outdated
  <2>5. /\ connected' \in [Clients -> BOOLEAN]
        /\ ready' \in [Clients -> BOOLEAN]
        /\ suppress' \in [Clients -> BOOLEAN]
        /\ scheduled' \in [Clients -> BOOLEAN]
    BY <1>6 DEF RemoveClient
  <2>6. /\ dirty' \in [Clients -> SUBSET Monitors]
        /\ unacked' \in [Clients -> 0..N]
        /\ frame' \in [Clients -> Monitors]
    BY <1>6, <2>1 DEF RemoveClient
  <2>7. mode' \in SleepModes /\ clients' \subseteq Clients
    BY <1>6 DEF RemoveClient
  <2> QED
    BY <2>2, <2>3, <2>4, <2>5, <2>6, <2>7
<1>7. ASSUME NEW c \in Clients, Input(c) PROVE TypeOK'
  BY <1>7, UserInputTypes, MarkDirtyTypes DEF Input, Stale, link, window
<1>8. ASSUME NEW c \in Clients, ClientInfo(c) PROVE TypeOK'
  BY <1>8, UserInputTypes, MarkDirtyTypes DEF ClientInfo, Outdated, window
<1>9. ASSUME NEW c \in Clients, MonitorUpdate(c) PROVE TypeOK'
  BY <1>9, AddDirtyTypes DEF MonitorUpdate, Outdated, sleep, timers, link, window
<1>10. ASSUME NEW c \in Clients, NEW m \in Monitors, Invalidate(c, m) PROVE TypeOK'
  BY <1>10, AddDirtyTypes DEF Invalidate, sleep, timers, link, window
<1>11. ASSUME NEW c \in Clients, NEW R \in SUBSET Monitors, SuppressOutput(c, R)
       PROVE TypeOK'
  BY <1>11, AddDirtyTypes DEF SuppressOutput, sleep, timers, queue, window
<1>12. ASSUME NEW c \in Clients, Ack(c) PROVE TypeOK'
  BY <1>12, AddDirtyTypes, NAssumption DEF Ack, sleep, timers, link
<1>13. ASSUME NEW c \in Clients, SendSolid(c) PROVE TypeOK'
  <2>1. overlay' \in 0..3
    BY <1>13 DEF SendSolid
  <2>2. OverlayAgain(c) \in BOOLEAN
    BY DEF OverlayAgain
  <2>3. scheduled' \in [Clients -> BOOLEAN]
    BY <1>13, <2>2 DEF SendSolid
  <2>4. shown' \in [Clients -> [Monitors -> {"same", "old", "overlaid", "lost"}]]
    BY <1>13 DEF SendSolid
  <2> QED
    BY <1>13, <2>1, <2>3, <2>4 DEF SendSolid, timers, link, window
<1>14. ASSUME NEW c \in Clients, SkipUpdate(c) PROVE TypeOK'
  BY <1>14 DEF SkipUpdate, sleep, timers, link, window
<1>15. ASSUME NEW c \in Clients, NEW sent \in SUBSET Monitors,
              NEW failed \in SUBSET Monitors, Capture(c, sent, failed)
       PROVE TypeOK'
  BY <1>15, CaptureTypes
<1>16. ASSUME NEW m \in Monitors, Draw(m) PROVE TypeOK'
  BY <1>16, AddDirtyTypes DEF Draw, Stale, sleep, timers, link, window
<1>17. CASE UNCHANGED vars
  BY <1>17 DEF vars, sleep, timers, link, queue, window
<1> QED
  BY <1>1, <1>2, <1>3, <1>4, <1>5, <1>6, <1>7, <1>8, <1>9, <1>10, <1>11, <1>12,
     <1>13, <1>14, <1>15, <1>16, <1>17
     DEF Next, Connection, Message, DeferredUpdate

\* The types hold when the server starts.
LEMMA TypesAtInit == Init => TypeOK
<1>1. 0 \in Monitors /\ 0 \in 0..N
  BY NAssumption DEF Monitors
<1>2. ASSUME Init
      PROVE  shown \in [Clients -> [Monitors -> {"same", "old", "overlaid", "lost"}]]
  BY <1>2 DEF Init
<1>3. ASSUME Init
      PROVE  /\ dirty \in [Clients -> SUBSET Monitors]
             /\ unacked \in [Clients -> 0..N]
             /\ frame \in [Clients -> Monitors]
  BY <1>1, <1>3 DEF Init
<1>4. ASSUME Init
      PROVE  /\ connected \in [Clients -> BOOLEAN]
             /\ ready \in [Clients -> BOOLEAN]
             /\ suppress \in [Clients -> BOOLEAN]
             /\ scheduled \in [Clients -> BOOLEAN]
  BY <1>4 DEF Init
<1>5. ASSUME Init
      PROVE  /\ mode \in SleepModes
             /\ active \in BOOLEAN
             /\ refreshPending \in BOOLEAN
             /\ enterTimer \in BOOLEAN
             /\ refreshTimer \in BOOLEAN
             /\ resumeTimer \in BOOLEAN
             /\ clients \subseteq Clients
  BY <1>5, Zenon DEF Init
<1>6. Init => overlay \in 0..3
  BY DEF Init
<1> QED
  BY <1>2, <1>3, <1>4, <1>5, <1>6 DEF TypeOK

\* Every variable keeps its type: overlays are counted down from three, no
\* more frames are under way than monitors, and the scan starts with a monitor
\* (rdpScreenSleepEnter, rdpDeferredUpdateCallback).
THEOREM TypeCorrect == Spec => []TypeOK
BY TypesAtInit, TypesKept, PTL DEF Spec

-----------------------------------------------------------------------------
(* The list of clients *)

\* Only clients in the list are connected, described and scheduled, and at most
\* one of them is connected.
LEMMA ListKept ==
  TypeOK /\ FreedIsFresh /\ OneConnected /\ [Next]_vars
    => FreedIsFresh' /\ OneConnected'
<1> SUFFICES ASSUME TypeOK, FreedIsFresh, OneConnected, [Next]_vars
             PROVE  FreedIsFresh' /\ OneConnected'
  OBVIOUS
<1> USE DEF TypeOK, FreedIsFresh, OneConnected, Outdated
<1>1. ASSUME UNCHANGED <<clients, connected, ready, unacked, shown>>,
             \A c \in Clients \ clients : ~scheduled'[c]
      PROVE  FreedIsFresh' /\ OneConnected'
  BY <1>1
<1>2. CASE EnterTimeout \/ ResumeTimeout
  BY <1>1, <1>2 DEF EnterTimeout, ResumeTimeout, Enter, link, queue, window
<1>3. CASE RefreshTimeout
  BY <1>1, <1>3 DEF RefreshTimeout, MarkDirty, link, queue, window
<1>4. ASSUME NEW c \in Clients, NEW accepted \in BOOLEAN, GotConnection(c, accepted)
      PROVE FreedIsFresh' /\ OneConnected'
  BY <1>4 DEF GotConnection, queue, window
<1>5. ASSUME NEW c \in Clients, LoseConnection(c) PROVE FreedIsFresh' /\ OneConnected'
  BY <1>5 DEF LoseConnection, queue, window
<1>6. ASSUME NEW c \in Clients, RemoveClient(c) PROVE FreedIsFresh' /\ OneConnected'
  BY <1>6 DEF RemoveClient
<1>7. ASSUME NEW c \in Clients, Input(c) PROVE FreedIsFresh' /\ OneConnected'
  BY <1>7 DEF Input, MarkDirty, Refreshed, link, window
<1>8. ASSUME NEW c \in Clients, ClientInfo(c) PROVE FreedIsFresh' /\ OneConnected'
  BY <1>8 DEF ClientInfo, MayRecv, MarkDirty, Refreshed, window
<1>9. ASSUME NEW c \in Clients, MonitorUpdate(c) PROVE FreedIsFresh' /\ OneConnected'
  BY <1>9 DEF MonitorUpdate, MayRecv, AddDirtyScreen, MarkDirty, link, queue, window
<1>10. ASSUME NEW c \in Clients, NEW m \in Monitors, Invalidate(c, m)
       PROVE FreedIsFresh' /\ OneConnected'
  BY <1>1, <1>10 DEF Invalidate, MayRecv, AddDirtyScreen, MarkDirty, link, queue, window
<1>11. ASSUME NEW c \in Clients, NEW R \in SUBSET Monitors, SuppressOutput(c, R)
       PROVE FreedIsFresh' /\ OneConnected'
  BY <1>1, <1>11 DEF SuppressOutput, MayRecv, AddDirtyScreen, MarkDirty, queue, window
<1>12. ASSUME NEW c \in Clients, Ack(c) PROVE FreedIsFresh' /\ OneConnected'
  BY <1>12 DEF Ack, MayRecv, AddDirtyScreen, MarkDirty, link, queue
<1>13. ASSUME NEW c \in Clients, SendSolid(c) PROVE FreedIsFresh' /\ OneConnected'
  BY <1>13 DEF SendSolid, link, window
<1>14. ASSUME NEW c \in Clients, SkipUpdate(c) PROVE FreedIsFresh' /\ OneConnected'
  BY <1>14 DEF SkipUpdate, link, window
<1>15. ASSUME NEW c \in Clients, NEW sent \in SUBSET Monitors,
              NEW failed \in SUBSET Monitors, Capture(c, sent, failed)
       PROVE FreedIsFresh' /\ OneConnected'
  BY <1>15 DEF Capture, link
<1>16. ASSUME NEW m \in Monitors, Draw(m) PROVE FreedIsFresh' /\ OneConnected'
  BY <1>16 DEF Draw, AddDirtyScreen, MarkDirty, link, queue, window
<1>17. CASE UNCHANGED vars
  BY <1>17 DEF vars, link, queue, window
<1> QED
  BY <1>2, <1>3, <1>4, <1>5, <1>6, <1>7, <1>8, <1>9, <1>10, <1>11, <1>12,
     <1>13, <1>14, <1>15, <1>16, <1>17
     DEF Next, Connection, Message, DeferredUpdate

-----------------------------------------------------------------------------
(* Screen sleep *)

SleepInv == SleepsForSomebody /\ OneSleeper /\ SleepCycleGoesOn

\* Falling asleep: only one client is connected, so one timer is armed.
LEMMA EnterKeepsSleep ==
  ASSUME TypeOK, FreedIsFresh, OneConnected, SleepInv, clients # {}, Enter
  PROVE  SleepInv'
<1> USE DEF TypeOK, FreedIsFresh, OneConnected, SleepInv
<1>1. SleepsForSomebody'
  BY DEF SleepsForSomebody, Enter, link
<1>2. OneSleeper'
  BY DEF OneSleeper, Enter
<1>3. mode' = "refresh" => refreshTimer'
  BY Zenon DEF Enter
<1>4. \A c \in clients' : scheduled'[c] => overlay' > 0
  <2>1. mode = "black" => overlay' > 0
    BY DEF Enter
  <2>2. \A c \in clients' : scheduled'[c] => mode = "black"
    <3>1. clients' \subseteq Clients
      BY DEF Enter, link
    <3> QED
      BY <3>1, Zenon DEF Enter
  <2> QED
    BY <2>1, <2>2
<1>5. active' /\ clients' # {}
  BY DEF Enter, link
<1>6. SleepCycleGoesOn'
  BY <1>3, <1>4, <1>5 DEF SleepCycleGoesOn
<1> QED
  BY <1>1, <1>2, <1>6

\* A wake-up, or activity of a user who is awake, leaves nobody asleep.
LEMMA UserInputKeepsSleep ==
  ASSUME TypeOK, SleepInv, clients # {}, clients' = clients, UserInput
  PROVE  SleepInv'
BY DEF SleepInv, SleepsForSomebody, OneSleeper, SleepCycleGoesOn, UserInput

\* The handlers that neither wake the screen nor arm a timer while it sleeps.
LEMMA QuietKeepsSleep ==
  ASSUME TypeOK, SleepInv, UNCHANGED <<sleep, clients>>,
         active => \A c \in Clients : scheduled'[c] => scheduled[c]
  PROVE  SleepInv'
BY DEF TypeOK, SleepInv, SleepsForSomebody, OneSleeper, SleepCycleGoesOn, sleep, timers

\* Every step keeps the sleep cycle going.
LEMMA SleepKept ==
  TypeOK /\ FreedIsFresh /\ OneConnected /\ SleepInv /\ [Next]_vars => SleepInv'
<1> SUFFICES ASSUME TypeOK, FreedIsFresh, OneConnected, SleepInv, [Next]_vars
             PROVE  SleepInv'
  OBVIOUS
<1> USE DEF TypeOK
<1>1. CASE EnterTimeout
  <2>1. CASE ~active
    BY <1>1, <2>1, EnterKeepsSleep DEF EnterTimeout, SleepInv, SleepsForSomebody
  <2>2. CASE active
    BY <1>1, <2>2 DEF EnterTimeout, SleepInv, SleepsForSomebody, OneSleeper,
                      SleepCycleGoesOn, link, queue
  <2> QED
    BY <2>1, <2>2
<1>2. CASE RefreshTimeout
  BY <1>2 DEF RefreshTimeout, SleepInv, SleepsForSomebody, OneSleeper,
              SleepCycleGoesOn, link, queue
<1>3. CASE ResumeTimeout
  <2>1. CASE refreshPending /\ ~active
    BY <1>3, <2>1, EnterKeepsSleep DEF ResumeTimeout, SleepInv, SleepsForSomebody
  <2>2. CASE ~refreshPending \/ active
    BY <1>3, <2>2 DEF ResumeTimeout, SleepInv, SleepsForSomebody, OneSleeper,
                      SleepCycleGoesOn, link, queue
  <2> QED
    BY <2>1, <2>2
<1>4. ASSUME NEW c \in Clients, NEW accepted \in BOOLEAN, GotConnection(c, accepted)
      PROVE SleepInv'
  BY <1>4 DEF GotConnection, FreedIsFresh, SleepInv, SleepsForSomebody, OneSleeper,
              SleepCycleGoesOn, queue
<1>5. ASSUME NEW c \in Clients, LoseConnection(c) PROVE SleepInv'
  BY <1>5, QuietKeepsSleep DEF LoseConnection, queue
<1>6. ASSUME NEW c \in Clients, RemoveClient(c) PROVE SleepInv'
  <2>1. CASE clients = {c}
    BY <1>6, <2>1 DEF RemoveClient, EndSleep, SleepInv, SleepsForSomebody, OneSleeper,
                      SleepCycleGoesOn
  <2>2. CASE clients # {c}
    <3>1. clients' # {} /\ clients' \subseteq clients
      BY <1>6, <2>2 DEF RemoveClient
    <3>2. UNCHANGED sleep
      BY <1>6, <2>2 DEF RemoveClient, EndSleep, sleep
    <3>3. \A d \in Clients : scheduled'[d] => scheduled[d]
      BY <1>6 DEF RemoveClient
    <3> QED
      BY <3>1, <3>2, <3>3 DEF SleepInv, SleepsForSomebody, OneSleeper,
                              SleepCycleGoesOn, sleep, timers
  <2> QED
    BY <2>1, <2>2
<1>7. ASSUME NEW c \in Clients, Input(c) PROVE SleepInv'
  BY <1>7, UserInputKeepsSleep DEF Input, MayRecv, link
<1>8. ASSUME NEW c \in Clients, ClientInfo(c) PROVE SleepInv'
  BY <1>8, UserInputKeepsSleep DEF ClientInfo, MayRecv
<1>9. ASSUME NEW c \in Clients, MonitorUpdate(c) PROVE SleepInv'
  BY <1>9, QuietKeepsSleep DEF MonitorUpdate, AddDirtyScreen, MarkDirty, link, queue
<1>10. ASSUME NEW c \in Clients, NEW m \in Monitors, Invalidate(c, m) PROVE SleepInv'
  BY <1>10, QuietKeepsSleep DEF Invalidate, AddDirtyScreen, MarkDirty, link, queue
<1>11. ASSUME NEW c \in Clients, NEW R \in SUBSET Monitors, SuppressOutput(c, R)
       PROVE SleepInv'
  BY <1>11, QuietKeepsSleep DEF SuppressOutput, AddDirtyScreen, MarkDirty, queue
<1>12. ASSUME NEW c \in Clients, Ack(c) PROVE SleepInv'
  BY <1>12, QuietKeepsSleep DEF Ack, AddDirtyScreen, MarkDirty, link, queue
<1>13. ASSUME NEW c \in Clients, SendSolid(c) PROVE SleepInv'
  <2>1. \A d \in Clients : scheduled[d] => d = c
    BY <1>13 DEF SendSolid, SleepInv, OneSleeper
  <2>2. \A d \in Clients : scheduled'[d] => d = c /\ overlay' > 0
    BY <1>13, <2>1 DEF SendSolid, OverlayAgain
  <2> QED
    BY <1>13, <2>2 DEF SendSolid, SleepInv, SleepsForSomebody, OneSleeper,
                       SleepCycleGoesOn, timers, link
<1>14. ASSUME NEW c \in Clients, SkipUpdate(c) PROVE SleepInv'
  BY <1>14, QuietKeepsSleep DEF SkipUpdate, link
<1>15. ASSUME NEW c \in Clients, NEW sent \in SUBSET Monitors,
              NEW failed \in SUBSET Monitors, Capture(c, sent, failed)
       PROVE SleepInv'
  <2>1. active => \A d \in Clients : scheduled'[d] => scheduled[d]
    BY <1>15 DEF Capture
  <2> QED
    BY <1>15, <2>1, QuietKeepsSleep DEF Capture, link
<1>16. ASSUME NEW m \in Monitors, Draw(m) PROVE SleepInv'
  BY <1>16, QuietKeepsSleep DEF Draw, AddDirtyScreen, MarkDirty, link, queue
<1>17. CASE UNCHANGED vars
  BY <1>17, QuietKeepsSleep DEF vars, link, queue
<1> QED
  BY <1>1, <1>2, <1>3, <1>4, <1>5, <1>6, <1>7, <1>8, <1>9, <1>10, <1>11, <1>12,
     <1>13, <1>14, <1>15, <1>16, <1>17
     DEF Next, Connection, Message, DeferredUpdate

-----------------------------------------------------------------------------
(* Dirty regions *)

DirtyInv == NothingForgotten /\ DirtyIsScheduled

\* While the screen sleeps nothing is said about dirty regions.
LEMMA AsleepKeepsDirty == ASSUME active' PROVE DirtyInv'
BY DEF DirtyInv, NothingForgotten, DirtyIsScheduled

\* Every step keeps what is outdated dirty, and what is dirty scheduled.
LEMMA DirtyKept ==
  TypeOK /\ FreedIsFresh /\ DirtyInv /\ [Next]_vars => DirtyInv'
<1> SUFFICES ASSUME TypeOK, FreedIsFresh, DirtyInv, [Next]_vars
             PROVE  DirtyInv'
  OBVIOUS
<1> USE DEF TypeOK, MayCapture
<1>1. CASE EnterTimeout
  BY <1>1, AsleepKeepsDirty DEF EnterTimeout, Enter
<1>2. CASE RefreshTimeout
  BY <1>2 DEF RefreshTimeout, MarkDirty, DirtyInv, NothingForgotten, DirtyIsScheduled,
              link, queue, window
<1>3. CASE ResumeTimeout
  BY <1>3, AsleepKeepsDirty DEF ResumeTimeout, Enter, DirtyInv, NothingForgotten,
              DirtyIsScheduled, link, queue, window
<1>4. ASSUME NEW c \in Clients, NEW accepted \in BOOLEAN, GotConnection(c, accepted)
      PROVE DirtyInv'
  BY <1>4 DEF GotConnection, FreedIsFresh, DirtyInv, NothingForgotten, DirtyIsScheduled,
              queue, window
<1>5. ASSUME NEW c \in Clients, LoseConnection(c) PROVE DirtyInv'
  BY <1>5 DEF LoseConnection, DirtyInv, NothingForgotten, DirtyIsScheduled,
              sleep, queue, window
<1>6. ASSUME NEW c \in Clients, RemoveClient(c) PROVE DirtyInv'
  BY <1>6 DEF RemoveClient, EndSleep, DirtyInv, NothingForgotten, DirtyIsScheduled
<1>7. ASSUME NEW c \in Clients, Input(c) PROVE DirtyInv'
  BY <1>7 DEF Input, Refreshed, MarkDirty, DirtyInv, NothingForgotten, DirtyIsScheduled,
              link, window
<1>8. ASSUME NEW c \in Clients, ClientInfo(c) PROVE DirtyInv'
  BY <1>8 DEF ClientInfo, Refreshed, MarkDirty, Outdated, DirtyInv, NothingForgotten,
              DirtyIsScheduled, window
<1>9. ASSUME NEW c \in Clients, MonitorUpdate(c) PROVE DirtyInv'
  BY <1>9 DEF MonitorUpdate, AddDirtyScreen, MarkDirty, Outdated, DirtyInv,
              NothingForgotten, DirtyIsScheduled, sleep, link, queue, window
<1>10. ASSUME NEW c \in Clients, NEW m \in Monitors, Invalidate(c, m) PROVE DirtyInv'
  BY <1>10 DEF Invalidate, AddDirtyScreen, MarkDirty, DirtyInv, NothingForgotten,
               DirtyIsScheduled, sleep, link, queue, window
<1>11. ASSUME NEW c \in Clients, NEW R \in SUBSET Monitors, SuppressOutput(c, R)
       PROVE DirtyInv'
  <2>1. NothingForgotten'
    BY <1>11 DEF SuppressOutput, AddDirtyScreen, MarkDirty, DirtyInv, NothingForgotten,
                 sleep, queue
  <2>2. \A d \in Clients \ {c} : suppress'[d] = suppress[d]
    BY <1>11 DEF SuppressOutput
  <2>3. suppress'[c] \/ active \/ scheduled'[c]
    BY <1>11 DEF SuppressOutput, AddDirtyScreen, MarkDirty
  <2>4. \A d \in Clients \ {c} : dirty'[d] = dirty[d] /\ (scheduled[d] => scheduled'[d])
    BY <1>11 DEF SuppressOutput, AddDirtyScreen, MarkDirty, queue
  <2>5. DirtyIsScheduled'
    BY <1>11, <2>2, <2>3, <2>4
       DEF SuppressOutput, DirtyInv, DirtyIsScheduled, sleep, window
  <2> QED
    BY <2>1, <2>5 DEF DirtyInv
<1>12. ASSUME NEW c \in Clients, Ack(c) PROVE DirtyInv'
  BY <1>12 DEF Ack, AddDirtyScreen, MarkDirty, DirtyInv, NothingForgotten,
               DirtyIsScheduled, sleep, link, queue
<1>13. ASSUME NEW c \in Clients, SendSolid(c) PROVE DirtyInv'
  BY <1>13, AsleepKeepsDirty DEF SendSolid
<1>14. ASSUME NEW c \in Clients, SkipUpdate(c) PROVE DirtyInv'
  BY <1>14 DEF SkipUpdate, DirtyInv, NothingForgotten, DirtyIsScheduled,
               sleep, link, window
<1>15. ASSUME NEW c \in Clients, NEW sent \in SUBSET Monitors,
              NEW failed \in SUBSET Monitors, Capture(c, sent, failed)
       PROVE DirtyInv'
  BY <1>15 DEF Capture, AfterCapture, DirtyInv, NothingForgotten, DirtyIsScheduled,
               sleep, link
<1>16. ASSUME NEW m \in Monitors, Draw(m) PROVE DirtyInv'
  BY <1>16 DEF Draw, AddDirtyScreen, MarkDirty, Stale, DirtyInv, NothingForgotten,
               DirtyIsScheduled, sleep, link, queue, window
<1>17. CASE UNCHANGED vars
  BY <1>17 DEF vars, sleep, link, queue, window, DirtyInv, NothingForgotten,
               DirtyIsScheduled
<1> QED
  BY <1>1, <1>2, <1>3, <1>4, <1>5, <1>6, <1>7, <1>8, <1>9, <1>10, <1>11, <1>12,
     <1>13, <1>14, <1>15, <1>16, <1>17
     DEF Next, Connection, Message, DeferredUpdate

-----------------------------------------------------------------------------
(* The invariant, and what follows from it *)

\* The server starts awake and without clients.
LEMMA InvAtInit == Init => IndInv
<1> SUFFICES ASSUME Init PROVE IndInv
  OBVIOUS
<1>1. TypeOK
  BY TypesAtInit
<1>2. FreedIsFresh /\ OneConnected /\ SleepsForSomebody /\ OneSleeper
  BY DEF Init, FreedIsFresh, OneConnected, SleepsForSomebody, OneSleeper, Outdated
<1>3. NothingForgotten /\ DirtyIsScheduled /\ SleepCycleGoesOn
  BY DEF Init, NothingForgotten, DirtyIsScheduled, SleepCycleGoesOn
<1> QED
  BY <1>1, <1>2, <1>3 DEF IndInv

\* Every step keeps the invariant.
LEMMA InvKept == IndInv /\ [Next]_vars => IndInv'
BY TypesKept, ListKept, SleepKept, DirtyKept DEF IndInv, SleepInv, DirtyInv

\* IndInv holds in every state of the updates (module/rdpClientCon.c).
THEOREM Invariant == Spec => []IndInv
BY InvAtInit, InvKept, PTL DEF Spec

\* No change is forgotten while the screen is awake (rdpClientConAddDirtyScreenReg,
\* rdpScreenSleepWake, rdpDeferredUpdateCallback).
THEOREM NothingIsForgotten == Spec => []NothingForgotten
<1>1. IndInv => NothingForgotten
  BY DEF IndInv
<1> QED
  BY <1>1, Invariant, PTL

\* No early return of rdpDeferredUpdateCallback leaves a dirty client without its
\* timer.
THEOREM DirtyStaysScheduled == Spec => []DirtyIsScheduled
<1>1. IndInv => DirtyIsScheduled
  BY DEF IndInv
<1> QED
  BY <1>1, Invariant, PTL

\* The sleep cycle goes on, and captures nothing while the screen sleeps
\* (rdpScreenSleepEnter and the callbacks of the three timers).
THEOREM SleepGoesOn == Spec => []SleepCycleGoesOn
<1>1. IndInv => SleepCycleGoesOn
  BY DEF IndInv
<1> QED
  BY <1>1, Invariant, PTL

-----------------------------------------------------------------------------
(* Refinement: every step is a step of FrameWindow, or none *)

Lagging  == {p \in Live \X Monitors : shown[p[1]][p[2]] # "same"}
InFlight == {c \in Live : unacked[c] > 0}
Window   == <<Live, Lagging, InFlight, active>>

\* A step that keeps the clients and what is under way, asleep or awake, and
\* brings no monitor up to date, is a change of pictures.
LEMMA ChangeStep ==
  ASSUME TypeOK, UNCHANGED <<clients, connected, unacked, active>>,
         \A c \in Live, m \in Monitors : shown'[c][m] = "same" => shown[c][m] = "same"
  PROVE  Promise!Change
<1>1. Live' = Live
  BY DEF Live
<1>2. Lagging \subseteq Lagging'
  BY <1>1 DEF Lagging
<1>3. Lagging' \subseteq Live \X Monitors
  BY <1>1 DEF Lagging
<1>4. InFlight' = InFlight
  BY <1>1 DEF InFlight
<1> QED
  BY <1>1, <1>2, <1>3, <1>4 DEF Promise!Change, Lagging, InFlight

\* The same when the step wakes the screen.
LEMMA WakeStep ==
  ASSUME TypeOK, UNCHANGED <<clients, connected, unacked>>, active, active' = FALSE,
         \A c \in Live, m \in Monitors : shown'[c][m] = "same" => shown[c][m] = "same"
  PROVE  Promise!WakeUp
<1>1. Live' = Live
  BY DEF Live
<1>2. Lagging \subseteq Lagging'
  BY <1>1 DEF Lagging
<1>3. Lagging' \subseteq Live \X Monitors
  BY <1>1 DEF Lagging
<1>4. InFlight' = InFlight
  BY <1>1 DEF InFlight
<1> QED
  BY <1>1, <1>2, <1>3, <1>4 DEF Promise!WakeUp, Lagging, InFlight

\* A step that the window does not see.
LEMMA StutterStep ==
  ASSUME UNCHANGED <<clients, connected, unacked, active, shown>>
  PROVE  UNCHANGED Promise!vars
BY DEF Promise!vars, Live

\* The server starts with nobody to serve.
LEMMA InitRefines == Init => Promise!Init
BY DEF Init, Promise!Init, Live

\* A new client is the only one that is live, and has seen nothing.
LEMMA AcceptStep ==
  ASSUME IndInv, NEW c \in Clients, NEW accepted \in BOOLEAN, GotConnection(c, accepted)
  PROVE  Promise!Take(IF accepted THEN {c} ELSE {})
<1> DEFINE S == IF accepted THEN {c} ELSE {}
<1> USE DEF IndInv, TypeOK
<1>1. Live' = S
  BY DEF GotConnection, Live
<1>2. shown'[c] = Outdated /\ unacked'[c] = 0
  BY DEF GotConnection, FreedIsFresh, window
<1>3. Lagging' = UNION {Promise!Lag(d) : d \in S}
  BY <1>1, <1>2 DEF Lagging, Outdated, Promise!Lag
<1>4. InFlight' = {}
  BY <1>1, <1>2 DEF InFlight
<1> QED
  BY <1>1, <1>3, <1>4 DEF Promise!Take, Lagging, InFlight, GotConnection

\* A client that is marked as disconnected, or removed while it is connected.
LEMMA LeaveStep ==
  ASSUME TypeOK, NEW c \in Live, Live' = Live \ {c},
         \A d \in Live \ {c} : shown'[d] = shown[d] /\ unacked'[d] = unacked[d],
         active' \in {active, FALSE}
  PROVE  Promise!Leave(c)
<1>1. Lagging' = Lagging \ Promise!Lag(c)
  BY DEF Lagging, Promise!Lag, TypeOK
<1>2. InFlight' = InFlight \ {c}
  BY DEF InFlight
<1> QED
  BY <1>1, <1>2 DEF Promise!Leave, Lagging, InFlight

\* Removing a client that is marked already is not seen, unless it is the last.
LEMMA RemoveStep ==
  ASSUME IndInv, NEW c \in Clients, RemoveClient(c)
  PROVE  Promise!Leave(c) \/ Promise!Forget \/ UNCHANGED Promise!vars
<1> USE DEF IndInv, TypeOK
<1>1. Live' = Live \ {c}
  BY DEF RemoveClient, Live
<1>2. \A d \in Clients \ {c} : shown'[d] = shown[d] /\ unacked'[d] = unacked[d]
  BY DEF RemoveClient
<1>3. active' = FALSE \/ active' = active
  BY DEF RemoveClient, EndSleep
<1>4. CASE connected[c]
  <2>1. c \in Live
    BY <1>4 DEF RemoveClient, Live
  <2>2. Live \subseteq Clients
    BY DEF Live
  <2> QED
    BY <1>1, <1>2, <1>3, <2>1, <2>2, LeaveStep
<1>5. CASE ~connected[c]
  <2>1. Live' = Live /\ c \notin Live
    BY <1>1, <1>5 DEF Live
  <2>2. Lagging' = Lagging
    BY <1>2, <2>1 DEF Lagging, Live
  <2>3. InFlight' = InFlight
    BY <1>2, <2>1 DEF InFlight, Live
  <2>4. CASE clients = {c}
    <3>1. Live = {}
      BY <1>5, <2>4 DEF Live
    <3>2. active' = FALSE
      BY <2>4 DEF RemoveClient, EndSleep
    <3> QED
      BY <2>1, <2>2, <2>3, <3>1, <3>2 DEF Promise!Forget, Lagging, InFlight
  <2>5. CASE clients # {c}
    <3>1. active' = active
      BY <2>5 DEF RemoveClient, EndSleep
    <3> QED
      BY <2>1, <2>2, <2>3, <3>1 DEF Promise!vars, Lagging, InFlight
  <2> QED
    BY <2>4, <2>5
<1> QED
  BY <1>4, <1>5

\* An acknowledgement without a frame is not seen.
LEMMA AckStep ==
  ASSUME TypeOK, NEW c \in Clients, Ack(c)
  PROVE  Promise!Acknowledge(c) \/ UNCHANGED Promise!vars
<1> USE DEF TypeOK
<1>1. Live' = Live /\ c \in Live
  BY DEF Ack, MayRecv, Live, link
<1>2. Lagging' = Lagging
  BY <1>1 DEF Ack, Lagging
<1>3. InFlight' = InFlight \ {c}
  BY <1>1 DEF Ack, InFlight, Live
<1>4. active' = active
  BY DEF Ack, sleep
<1>5. CASE c \in InFlight
  BY <1>1, <1>2, <1>3, <1>4, <1>5 DEF Promise!Acknowledge, Lagging, InFlight
<1>6. CASE c \notin InFlight
  BY <1>1, <1>2, <1>3, <1>4, <1>6 DEF Promise!vars, Lagging, InFlight
<1> QED
  BY <1>5, <1>6

\* The scan ends with the first monitor that is sent, so a capture sends one
\* frame at most.
LEMMA OneFrame ==
  ASSUME NEW c \in Clients, NEW sent \in SUBSET Monitors, sent \subseteq Visited(c, sent),
         NEW m \in sent, NEW n \in sent
  PROVE  m = n
<1>1. PICK i \in Monitors : m = Scan(c, i) /\ \A k \in 0..(i - 1) : Scan(c, k) \notin sent
  BY DEF Visited
<1>2. PICK j \in Monitors : n = Scan(c, j) /\ \A k \in 0..(j - 1) : Scan(c, k) \notin sent
  BY DEF Visited
<1>3. ~(i < j) /\ ~(j < i)
  BY <1>1, <1>2, NAssumption DEF Monitors
<1> QED
  BY <1>1, <1>2, <1>3, NAssumption DEF Monitors

\* A capture sends a frame of one monitor, or nothing; then pictures may be lost.
LEMMA CaptureStep ==
  ASSUME IndInv, NEW c \in Clients, NEW sent \in SUBSET Monitors,
         NEW failed \in SUBSET Monitors, Capture(c, sent, failed)
  PROVE  \/ \E m \in Monitors : Promise!Send(c, m)
         \/ Promise!Change
         \/ UNCHANGED Promise!vars
<1> USE DEF IndInv, TypeOK
<1>1. /\ UNCHANGED <<clients, connected, active>>
      /\ Live' = Live
      /\ \A d \in Clients \ {c} : shown'[d] = shown[d] /\ unacked'[d] = unacked[d]
      /\ unacked[c] = 0 /\ unacked'[c] = Cardinality(sent)
      /\ shown'[c] = AfterCapture(c, sent, failed)
  <2>1. unacked[c] = 0
    BY DEF Capture, MayCapture
  <2>2. Cardinality(sent) \in 0..N
    BY FramesBounded
  <2> QED
    BY <2>1, <2>2 DEF Capture, Live, link, sleep
<1>2. CASE c \notin Live
  <2>1. Lagging' = Lagging
    BY <1>1, <1>2 DEF Lagging, Live
  <2>2. InFlight' = InFlight
    BY <1>1, <1>2 DEF InFlight, Live
  <2> QED
    BY <1>1, <2>1, <2>2 DEF Promise!vars, Lagging, InFlight
<1>3. CASE c \in Live /\ sent = {}
  <2>1. Cardinality(sent) = 0
    BY <1>3, FS_EmptySet
  <2>2. unacked' = unacked
    BY <1>1, <2>1 DEF Capture
  <2>3. \A m \in Monitors : shown'[c][m] = "same" => shown[c][m] = "same"
    BY <1>1, <1>3 DEF AfterCapture
  <2>4. \A d \in Live, m \in Monitors : shown'[d][m] = "same" => shown[d][m] = "same"
    BY <1>1, <2>3 DEF Live
  <2> QED
    BY <1>1, <2>2, <2>4, ChangeStep
<1>4. CASE c \in Live /\ sent # {}
  <2>1. PICK m \in sent : TRUE
    BY <1>4
  <2>2. sent = {m}
    BY <2>1, OneFrame DEF Capture
  <2>3. unacked'[c] = 1
    BY <1>1, <2>2, FS_Singleton
  <2>4. ~active
    BY <1>4 DEF Capture, SleepCycleGoesOn, Live
  <2>5. InFlight' = InFlight \cup {c} /\ c \notin InFlight
    BY <1>1, <1>4, <2>3 DEF InFlight, Live
  <2>6. /\ shown'[c][m] = "same"
        /\ \A n \in Monitors \ {m} : shown'[c][n] = "same" => shown[c][n] = "same"
        /\ \A n \in Monitors \ {m} : shown[c][n] # "same" => shown'[c][n] # "same"
    BY <1>1, <1>4, <2>2 DEF AfterCapture, Live
  <2>7. Lagging \ {<<c, m>>} \subseteq Lagging'
    BY <1>1, <2>6 DEF Lagging, Live
  <2>8. Lagging' \subseteq (Lagging \cup Promise!Lag(c)) \ {<<c, m>>}
    BY <1>1, <2>6 DEF Lagging, Live, Promise!Lag
  <2> QED
    BY <1>1, <1>4, <2>4, <2>5, <2>7, <2>8 DEF Promise!Send, Lagging, InFlight
<1> QED
  BY <1>2, <1>3, <1>4

\* Every step is a step of the window, or none that it sees.
LEMMA StepRefines == IndInv /\ [Next]_vars => [Promise!Next]_(Promise!vars)
<1> SUFFICES ASSUME IndInv, [Next]_vars PROVE Promise!Next \/ UNCHANGED Promise!vars
  OBVIOUS
<1> USE DEF IndInv
<1>1. ASSUME UNCHANGED <<clients, connected, unacked, shown>>, ~active, active' = TRUE
      PROVE  Promise!FallAsleep
  BY <1>1 DEF Promise!FallAsleep, Live
<1>2. CASE EnterTimeout
  BY <1>1, <1>2, StutterStep DEF EnterTimeout, Enter, link, window, Promise!Next
<1>3. CASE RefreshTimeout
  <2>1. CASE active
    BY <1>3, <2>1, WakeStep DEF RefreshTimeout, link, window, Promise!Next
  <2>2. CASE ~active
    BY <1>3, <2>2, StutterStep DEF RefreshTimeout, link, window
  <2> QED
    BY <2>1, <2>2
<1>4. CASE ResumeTimeout
  BY <1>1, <1>4, StutterStep DEF ResumeTimeout, Enter, link, window, Promise!Next
<1>5. ASSUME NEW c \in Clients, NEW accepted \in BOOLEAN, GotConnection(c, accepted)
      PROVE Promise!Next
  BY <1>5, AcceptStep DEF Promise!Next
<1>6. ASSUME NEW c \in Clients, LoseConnection(c) PROVE Promise!Next
  <2>1. c \in Live /\ Live' = Live \ {c}
    BY <1>6 DEF LoseConnection, Live, TypeOK
  <2>2. UNCHANGED <<shown, unacked, active>>
    BY <1>6 DEF LoseConnection, sleep, window
  <2> QED
    BY <2>1, <2>2, LeaveStep DEF Promise!Next
<1>7. ASSUME NEW c \in Clients, RemoveClient(c)
      PROVE Promise!Next \/ UNCHANGED Promise!vars
  BY <1>7, RemoveStep DEF Promise!Next
<1>8. ASSUME NEW c \in Clients, Input(c) \/ ClientInfo(c)
      PROVE Promise!Next \/ UNCHANGED Promise!vars
  <2>1. UNCHANGED <<clients, connected, unacked>> /\ active' = FALSE
    BY <1>8 DEF Input, ClientInfo, UserInput, link, window
  <2>2. \A d \in Live, m \in Monitors : shown'[d][m] = "same" => shown[d][m] = "same"
    BY <1>8 DEF Input, ClientInfo, Stale, Outdated, Live, TypeOK
  <2>3. CASE active
    BY <2>1, <2>2, <2>3, WakeStep DEF Promise!Next
  <2>4. CASE ~active
    BY <2>1, <2>2, <2>4, ChangeStep DEF Promise!Next, TypeOK
  <2> QED
    BY <2>3, <2>4
<1>9. ASSUME NEW c \in Clients, MonitorUpdate(c) PROVE Promise!Next
  <2>1. \A d \in Live, m \in Monitors : shown'[d][m] = "same" => shown[d][m] = "same"
    BY <1>9 DEF MonitorUpdate, Outdated, Live, TypeOK
  <2> QED
    BY <1>9, <2>1, ChangeStep DEF MonitorUpdate, sleep, link, window, Promise!Next
<1>10. ASSUME NEW c \in Clients, NEW m \in Monitors, Invalidate(c, m)
       PROVE UNCHANGED Promise!vars
  BY <1>10, StutterStep DEF Invalidate, sleep, link, window
<1>11. ASSUME NEW c \in Clients, NEW R \in SUBSET Monitors, SuppressOutput(c, R)
       PROVE UNCHANGED Promise!vars
  BY <1>11, StutterStep DEF SuppressOutput, sleep, window
<1>12. ASSUME NEW c \in Clients, Ack(c) PROVE Promise!Next \/ UNCHANGED Promise!vars
  BY <1>12, AckStep DEF Promise!Next
<1>13. ASSUME NEW c \in Clients, SendSolid(c) PROVE Promise!Next
  <2>1. \A d \in Live, m \in Monitors : shown'[d][m] = "same" => shown[d][m] = "same"
    BY <1>13 DEF SendSolid, Live, TypeOK
  <2> QED
    BY <1>13, <2>1, ChangeStep DEF SendSolid, link, window, Promise!Next
<1>14. ASSUME NEW c \in Clients, SkipUpdate(c) PROVE UNCHANGED Promise!vars
  BY <1>14, StutterStep DEF SkipUpdate, sleep, link, window
<1>15. ASSUME NEW c \in Clients, NEW sent \in SUBSET Monitors,
              NEW failed \in SUBSET Monitors, Capture(c, sent, failed)
       PROVE Promise!Next \/ UNCHANGED Promise!vars
  BY <1>15, CaptureStep DEF Promise!Next
<1>16. ASSUME NEW m \in Monitors, Draw(m) PROVE Promise!Next
  <2>1. \A d \in Live, n \in Monitors : shown'[d][n] = "same" => shown[d][n] = "same"
    BY <1>16 DEF Draw, Stale, Live, TypeOK
  <2> QED
    BY <1>16, <2>1, ChangeStep DEF Draw, sleep, link, window, Promise!Next
<1>17. CASE UNCHANGED vars
  BY <1>17, StutterStep DEF vars, sleep, link, window
<1> QED
  BY <1>2, <1>3, <1>4, <1>5, <1>6, <1>7, <1>8, <1>9, <1>10, <1>11, <1>12,
     <1>13, <1>14, <1>15, <1>16, <1>17
     DEF Next, Connection, Message, DeferredUpdate

\* The protocol of dirty regions, timers and sleep modes implements the window
\* of one frame: no second frame before the acknowledgement
\* (rdpDeferredUpdateCallback), none while the screen sleeps, and a take-over
\* begins with nothing sent.
THEOREM ImplementsFrameWindow == Spec => KeepsFrameWindow
BY InitRefines, StepRefines, Invariant, PTL DEF Spec, KeepsFrameWindow, Promise!Spec
=============================================================================
