---------------------------- MODULE ScreenUpdate ----------------------------
(***************************************************************************)
(* How the picture on the server reaches the client, and how that stops    *)
(* while the screen sleeps (module/rdpClientCon.c, module/rdpInput.c).     *)
(*                                                                         *)
(* Drawing marks monitors dirty and arms a client's update timer.  Its     *)
(* callback captures dirty monitors and sends them as frames, one at a     *)
(* time: the next waits for the acknowledgement of xrdp.  After a time     *)
(* without input the screen goes to sleep: no capture until the user is    *)
(* back, and according to the mode the last picture, a black one or one    *)
(* refreshed now and then.                                                 *)
(*                                                                         *)
(* The X server is one thread, so a handler or a timer callback is one     *)
(* action; a timer that is armed may expire at any moment.  shown is a     *)
(* history variable: what the client displays of each monitor.             *)
(***************************************************************************)
EXTENDS Integers, FiniteSets

CONSTANTS
  Clients,    \* addresses of rdpClientCon objects; freed ones are reused
  N,          \* dev->monitorCount; 1 also stands for the one-screen case
  SleepModes  \* the modes that the environment of the server may ask for

ASSUME NAssumption          == N \in Nat \ {0}
ASSUME SleepModesAssumption == SleepModes \subseteq {"off", "last", "black", "refresh"}

VARIABLES
  mode,            \* dev->screen_sleep_mode; "off": screen_sleep_time_ms is 0
  active,          \* dev->screen_sleep_active
  overlay,         \* dev->screen_sleep_overlay_pending
  refreshPending,  \* dev->screen_sleep_refresh_pending
  enterTimer, refreshTimer, resumeTimer,  \* the timers that are armed
  clients,         \* the list of clients
  connected,       \* clientCon->connected
  ready,           \* client_info has arrived, shared memory is allocated
  suppress,        \* clientCon->suppress_output
  dirty,           \* monitors that meet clientCon->dirtyRegion
  scheduled,       \* clientCon->updateScheduled
  unacked,         \* clientCon->rect_id - clientCon->rect_id_ack
  frame,           \* clientCon->rect_id % dev->monitorCount
  shown            \* per client and monitor: "same" picture as the server,
                   \* "old" one, "overlaid" in black, or "lost": a picture that
                   \* no capture is due for although it may be outdated

timers == <<enterTimer, refreshTimer, resumeTimer>>
sleep  == <<mode, active, overlay, refreshPending, timers>>
link   == <<clients, connected, ready, suppress>>
queue  == <<dirty, scheduled>>
window == <<unacked, frame>>
vars   == <<sleep, link, queue, window, shown>>

Monitors == 0..(N - 1)

TypeOK ==
  /\ mode \in SleepModes
  /\ active \in BOOLEAN
  /\ overlay \in 0..3
  /\ refreshPending \in BOOLEAN
  /\ enterTimer \in BOOLEAN
  /\ refreshTimer \in BOOLEAN
  /\ resumeTimer \in BOOLEAN
  /\ clients \subseteq Clients
  /\ connected \in [Clients -> BOOLEAN]
  /\ ready \in [Clients -> BOOLEAN]
  /\ suppress \in [Clients -> BOOLEAN]
  /\ dirty \in [Clients -> SUBSET Monitors]
  /\ scheduled \in [Clients -> BOOLEAN]
  /\ unacked \in [Clients -> 0..N]
  /\ frame \in [Clients -> Monitors]
  /\ shown \in [Clients -> [Monitors -> {"same", "old", "overlaid", "lost"}]]

\* The sleep mode comes from the environment of the server.
Init ==
  /\ mode \in SleepModes
  /\ active = FALSE
  /\ overlay = 0
  /\ refreshPending = FALSE
  /\ enterTimer = FALSE
  /\ refreshTimer = FALSE
  /\ resumeTimer = FALSE
  /\ clients = {}
  /\ connected = [c \in Clients |-> FALSE]
  /\ ready = [c \in Clients |-> FALSE]
  /\ suppress = [c \in Clients |-> FALSE]
  /\ dirty = [c \in Clients |-> {}]
  /\ scheduled = [c \in Clients |-> FALSE]
  /\ unacked = [c \in Clients |-> 0]
  /\ frame = [c \in Clients |-> 0]
  /\ shown = [c \in Clients |-> [m \in Monitors |-> "old"]]

-----------------------------------------------------------------------------
(* Dirty regions, and what happens to the pictures. *)

Outdated == [m \in Monitors |-> "old"]

\* The server's picture has changed; what is overlaid or lost stays so.
Stale(s) == IF s = "same" THEN "old" ELSE s

\* rdpClientConAddDirtyScreenReg for the clients in S, the screen being awake.
MarkDirty(S, R) ==
  /\ dirty' = [c \in Clients |-> IF c \in S THEN dirty[c] \cup R ELSE dirty[c]]
  /\ scheduled' = [c \in Clients |-> scheduled[c] \/ c \in S]

\* The same when it may be asleep: the region is dropped.
AddDirtyScreen(S, R) ==
  \/ ~active /\ MarkDirty(S, R)
  \/ active /\ UNCHANGED queue

\* Mutant: the wake-up asks for no full refresh.
RefreshedNone == {}

\* The clients that rdpScreenSleepWake sends a full picture to.
Refreshed == IF active THEN clients ELSE {}

-----------------------------------------------------------------------------
(* Falling asleep, waking up. *)

\* rdpScreenSleepEnter
Enter ==
  /\ active' = TRUE
  /\ overlay' = IF mode = "black" THEN 3 ELSE 0
  /\ refreshPending' = FALSE
  /\ enterTimer' = FALSE
  /\ resumeTimer' = FALSE
  /\ refreshTimer' = (mode = "refresh")
  /\ scheduled' = [c \in Clients |-> mode = "black" /\ c \in clients /\ connected[c]]
  /\ UNCHANGED <<mode, link, dirty, window, shown>>

\* rdpScreenSleepEnterCallback
EnterTimeout ==
  /\ enterTimer
  /\ \/ ~active /\ Enter
     \/ /\ active
        /\ enterTimer' = FALSE
        /\ UNCHANGED <<mode, active, overlay, refreshPending, refreshTimer,
                       resumeTimer, link, queue, window, shown>>

\* rdpScreenSleepRefreshCallback: awake for a second, to send the picture.
RefreshTimeout ==
  /\ refreshTimer
  /\ refreshTimer' = FALSE
  /\ \/ /\ active
        /\ active' = FALSE
        /\ refreshPending' = TRUE
        /\ overlay' = 0
        /\ MarkDirty(clients, Monitors)
        /\ resumeTimer' = TRUE
     \/ /\ ~active
        /\ UNCHANGED <<active, refreshPending, overlay, queue, resumeTimer>>
  /\ UNCHANGED <<mode, enterTimer, link, window, shown>>

\* Mutant: the callback does not go back to sleep.
ResumeNever ==
  /\ resumeTimer
  /\ resumeTimer' = FALSE
  /\ UNCHANGED <<mode, active, overlay, refreshPending, enterTimer,
                 refreshTimer, link, queue, window, shown>>

\* rdpScreenSleepResumeCallback
ResumeTimeout ==
  /\ resumeTimer
  /\ \/ /\ refreshPending
        /\ ~active
        /\ Enter
     \/ /\ ~refreshPending \/ active
        /\ resumeTimer' = FALSE
        /\ UNCHANGED <<mode, active, overlay, refreshPending, enterTimer,
                       refreshTimer, link, queue, window, shown>>

\* rdpInputKeyboardEvent and rdpInputMouseEvent: check_wake_up and
\* rdpScreenSleepActivity.  The wake-up resizes the screen forth and back, so
\* its pictures change.  The 300 ms between two wake-ups never matter: falling
\* asleep takes at least a minute without input.
UserInput ==
  /\ active' = FALSE
  /\ overlay' = IF active THEN 0 ELSE overlay
  /\ refreshPending' = FALSE
  /\ enterTimer' = (mode # "off")
  /\ refreshTimer' = (refreshTimer /\ ~active)
  /\ resumeTimer' = FALSE
  /\ UNCHANGED mode

-----------------------------------------------------------------------------
(* Clients come and go (the module ClientCon has the whole story). *)

\* rdpClientConGotConnection: the client before it is marked, and the sleep
\* timer starts again, even when the screen sleeps.
GotConnection(c, accepted) ==
  /\ c \notin clients
  /\ \A d \in clients : connected[d]
  /\ clients' = clients \cup {c}
  /\ connected' = [d \in Clients |-> d = c /\ accepted]
  /\ enterTimer' = (mode # "off")
  /\ UNCHANGED <<mode, active, overlay, refreshPending, refreshTimer,
                 resumeTimer, ready, suppress, queue, window, shown>>

\* A connection breaks: the client is marked.
LoseConnection(c) ==
  /\ c \in clients
  /\ connected[c]
  /\ connected' = [connected EXCEPT ![c] = FALSE]
  /\ UNCHANGED <<sleep, clients, ready, suppress, queue, window, shown>>

\* "if (dev->clientConHead == NULL)": nobody is left to sleep for.
EndSleep(c) ==
  IF clients = {c}
  THEN /\ active' = FALSE
       /\ overlay' = 0
       /\ refreshPending' = FALSE
       /\ enterTimer' = FALSE
       /\ refreshTimer' = FALSE
       /\ resumeTimer' = FALSE
  ELSE UNCHANGED <<active, overlay, refreshPending, timers>>

\* rdpClientConDisconnect, of a marked client or of all of them; the object is
\* freed, and a new one starts from zero.
RemoveClient(c) ==
  /\ c \in clients
  /\ clients' = clients \ {c}
  /\ EndSleep(c)
  /\ connected' = [connected EXCEPT ![c] = FALSE]
  /\ ready' = [ready EXCEPT ![c] = FALSE]
  /\ suppress' = [suppress EXCEPT ![c] = FALSE]
  /\ dirty' = [dirty EXCEPT ![c] = {}]
  /\ scheduled' = [scheduled EXCEPT ![c] = FALSE]
  /\ unacked' = [unacked EXCEPT ![c] = 0]
  /\ frame' = [frame EXCEPT ![c] = 0]
  /\ shown' = [shown EXCEPT ![c] = Outdated]
  /\ UNCHANGED mode

-----------------------------------------------------------------------------
(* Messages from a client. *)

MayRecv(c) == c \in clients /\ connected[c]

\* rdpClientConProcessMsgClientInput with a key or a mouse event.
Input(c) ==
  /\ MayRecv(c)
  /\ UserInput
  /\ MarkDirty(Refreshed, Monitors)
  /\ shown' = [d \in Clients |-> [m \in Monitors |->
                 IF active /\ d \in clients THEN Stale(shown[d][m]) ELSE shown[d][m]]]
  /\ UNCHANGED <<link, window>>

\* rdpClientConProcessMsgClientInfo: new capture state, rdpLoadLayout as a
\* keyboard event, and a full picture for this client.
ClientInfo(c) ==
  /\ MayRecv(c)
  /\ ready' = [ready EXCEPT ![c] = TRUE]
  /\ UserInput
  /\ MarkDirty(Refreshed \cup {c}, Monitors)
  /\ shown' = [shown EXCEPT ![c] = Outdated]
  /\ UNCHANGED <<clients, connected, suppress, window>>

\* rdpClientConProcessMonitorUpdateMsg, from a client that xrdp has introduced.
MonitorUpdate(c) ==
  /\ MayRecv(c)
  /\ ready[c]
  /\ AddDirtyScreen({c}, Monitors)
  /\ shown' = [shown EXCEPT ![c] = Outdated]
  /\ UNCHANGED <<sleep, link, window>>

\* msg 200, "invalidate"
Invalidate(c, m) ==
  /\ MayRecv(c)
  /\ AddDirtyScreen({c}, {m})
  /\ UNCHANGED <<sleep, link, window, shown>>

\* rdpClientConProcessMsgClientSuppressOutput; R is the part to paint again.
SuppressOutput(c, R) ==
  /\ MayRecv(c)
  /\ \/ /\ suppress' = [suppress EXCEPT ![c] = TRUE]
        /\ UNCHANGED queue
     \/ /\ suppress' = [suppress EXCEPT ![c] = FALSE]
        /\ AddDirtyScreen({c}, R)
  /\ UNCHANGED <<sleep, clients, connected, ready, window, shown>>

\* Mutant: an acknowledgement does not arm the update timer.
AckSilent(c) ==
  /\ MayRecv(c)
  /\ unacked' = [unacked EXCEPT ![c] = 0]
  /\ UNCHANGED <<sleep, link, queue, frame, shown>>

\* rdpClientConProcessMsgClientRegion and ...RegionEx acknowledge the last
\* frame; rdpScheduleDeferredUpdate.
Ack(c) ==
  /\ MayRecv(c)
  /\ unacked' = [unacked EXCEPT ![c] = 0]
  /\ AddDirtyScreen({c}, {})
  /\ UNCHANGED <<sleep, link, frame, shown>>

-----------------------------------------------------------------------------
(* rdpDeferredUpdateCallback *)

\* Mutant: the black picture is sent once.
OverlayOnce(c) == FALSE

\* The black picture is due again.
OverlayAgain(c) == connected[c] /\ overlay > 1

\* While a black picture is due it is sent, up to three times.
SendSolid(c) ==
  /\ scheduled[c]
  /\ active
  /\ overlay > 0
  /\ \/ /\ suppress[c]
        /\ scheduled' = [scheduled EXCEPT ![c] = FALSE]
        /\ UNCHANGED <<overlay, shown>>
     \/ /\ ~suppress[c]
        /\ overlay' = overlay - 1
        /\ scheduled' = [scheduled EXCEPT ![c] = OverlayAgain(c)]
        /\ shown' = IF connected[c] /\ ready[c]
                    THEN [shown EXCEPT ![c] = [m \in Monitors |-> "overlaid"]]
                    ELSE shown
  /\ UNCHANGED <<mode, active, refreshPending, timers, link, dirty, window>>

\* Mutant: the acknowledgement is not waited for.
MayCaptureUnacked(c) == ~suppress[c] /\ ready[c]

\* No capture for a client that does not look, has not said what it can do, or
\* has a frame to acknowledge.
MayCapture(c) == ~suppress[c] /\ ready[c] /\ unacked[c] = 0

\* The callback returns early; the region stays dirty.
SkipUpdate(c) ==
  /\ scheduled[c]
  /\ ~(active /\ overlay > 0)
  /\ ~MayCapture(c)
  /\ scheduled' = [scheduled EXCEPT ![c] = FALSE]
  /\ UNCHANGED <<sleep, link, dirty, window, shown>>

\* Mutant: the scan starts with the same monitor each time.
ScanFromFirst(c, i) == i

\* "start the monitor scan on a different monitor each time"
Scan(c, i) == (frame[c] + i) % N

\* "Did we get anything from the last monitor?"  The scan ends with the first
\* monitor that is sent.
Visited(c, sent) ==
  {Scan(c, i) : i \in {j \in Monitors : \A k \in 0..(j - 1) : Scan(c, k) \notin sent}}

\* Mutant: the frame number is not reduced to a monitor.
UnreducedFrame(c, sent) == frame[c] + Cardinality(sent)

\* rect_id, which is only asked for its remainder, counts the frames.
NextFrame(c, sent) == (frame[c] + Cardinality(sent)) % N

\* What the client shows after the capture of dirty monitors: those sent are
\* right, a capture may fail, and a tile with the checksum of the last capture
\* is skipped even when the client has been painted black since.
AfterCapture(c, sent, failed) ==
  [m \in Monitors |->
     IF m \in sent THEN IF connected[c] THEN "same" ELSE shown[c][m]
     ELSE IF m \in failed \/ (m \in Visited(c, sent) \cap dirty[c] /\ shown[c][m] # "same")
          THEN "lost"
     ELSE shown[c][m]]

\* The callback captures.  A changed picture is never skipped, and rdpCapRect
\* takes a monitor out of the dirty region whether its capture fails or not.
Capture(c, sent, failed) ==
  /\ scheduled[c]
  /\ ~(active /\ overlay > 0)
  /\ MayCapture(c)
  /\ sent \cup failed \subseteq Visited(c, sent) \cap dirty[c]
  /\ sent \cap failed = {}
  /\ \A m \in Visited(c, sent) \cap dirty[c] :
        shown[c][m] = "old" => m \in sent \cup failed
  /\ dirty' = [dirty EXCEPT ![c] = dirty[c] \ Visited(c, sent)]
  /\ scheduled' = [scheduled EXCEPT ![c] = dirty'[c] # {} /\ ~active]
  /\ unacked' = [unacked EXCEPT ![c] = @ + Cardinality(sent)]
  /\ frame' = [frame EXCEPT ![c] = NextFrame(c, sent)]
  /\ shown' = [shown EXCEPT ![c] = AfterCapture(c, sent, failed)]
  /\ UNCHANGED <<sleep, link>>

DeferredUpdate(c) ==
  \/ SendSolid(c)
  \/ SkipUpdate(c)
  \/ \E sent, failed \in SUBSET Monitors : Capture(c, sent, failed)

-----------------------------------------------------------------------------
\* An application draws; asleep, the region is not marked (rdpClientConAddAllReg).
Draw(m) ==
  /\ clients # {}
  /\ AddDirtyScreen(clients, {m})
  /\ shown' = [c \in Clients |->
                 IF c \in clients THEN [shown[c] EXCEPT ![m] = Stale(@)] ELSE shown[c]]
  /\ UNCHANGED <<sleep, link, window>>

Message(c) ==
  \/ Input(c)
  \/ ClientInfo(c)
  \/ MonitorUpdate(c)
  \/ \E m \in Monitors : Invalidate(c, m)
  \/ \E R \in SUBSET Monitors : SuppressOutput(c, R)
  \/ Ack(c)

Connection(c) ==
  \/ \E accepted \in BOOLEAN : GotConnection(c, accepted)
  \/ LoseConnection(c)
  \/ RemoveClient(c)

Next ==
  \/ EnterTimeout
  \/ RefreshTimeout
  \/ ResumeTimeout
  \/ \E c \in Clients : Connection(c) \/ Message(c) \/ DeferredUpdate(c)
  \/ \E m \in Monitors : Draw(m)

(***************************************************************************)
(* Fairness.  Armed timers expire and the server runs them; xrdp answers   *)
(* every frame.  Nothing is assumed of users and applications.             *)
(***************************************************************************)
Fairness ==
  /\ \A c \in Clients : WF_vars(DeferredUpdate(c))
  /\ \A c \in Clients : WF_vars(unacked[c] > 0 /\ Ack(c))
  /\ WF_vars(EnterTimeout)
  /\ WF_vars(RefreshTimeout)
  /\ WF_vars(ResumeTimeout)

Spec     == Init /\ [][Next]_vars
FairSpec == Spec /\ Fairness

-----------------------------------------------------------------------------
(* Properties *)

\* While the screen is awake, every change that a client has not seen is in
\* its dirty region, also the changes made while the screen slept and the
\* black that was painted over the picture.
NothingForgotten ==
  ~active => \A c \in clients, m \in Monitors :
    connected[c] /\ ready[c] /\ shown[c][m] \in {"old", "overlaid"} => m \in dirty[c]

\* A dirty client that may be updated has its update timer armed: none of the
\* early returns of the callback leaves it waiting for the next drawing.
DirtyIsScheduled ==
  ~active => \A c \in clients :
    connected[c] /\ MayCapture(c) /\ dirty[c] # {} => scheduled[c]

\* While a client is there the sleep cycle goes on: the screen will fall
\* asleep, sleeps, or is about to go back to sleep after a refresh; asleep in
\* refresh mode, the next refresh is due.  A client that connects after the
\* last one has left finds the screen awake.  While it sleeps no update timer is
\* armed, except to paint it black, so that nothing is captured.
SleepCycleGoesOn ==
  /\ clients # {} /\ mode # "off" =>
       active \/ enterTimer \/ (refreshPending /\ resumeTimer)
  /\ active /\ mode = "refresh" => refreshTimer
  /\ active => clients # {}
  /\ active => \A c \in clients : scheduled[c] => overlay > 0

(***************************************************************************)
(* The promise of the module FrameWindow, of the clients that are          *)
(* connected: the protocol of dirty regions, timers and sleep modes is an  *)
(* implementation of a window of one frame that is closed during sleep.    *)
(***************************************************************************)
Live == {c \in clients : connected[c]}

Promise == INSTANCE FrameWindow WITH
  live     <- Live,
  lag      <- {p \in Live \X Monitors : shown[p[1]][p[2]] # "same"},
  inflight <- {c \in Live : unacked[c] > 0},
  asleep   <- active

\* Every step of the protocol is a step of the one-frame window, or none.
KeepsFrameWindow == Promise!Spec

\* An outdated monitor is brought up to date, its capture fails, or the client
\* stops looking: a monitor is not starved by drawing on the others.
PictureCatchesUp ==
  \A c \in Clients, m \in Monitors :
    (connected[c] /\ ready[c] /\ shown[c][m] = "old")
      ~> (shown[c][m] # "old" \/ active \/ suppress[c] \/ ~connected[c])

\* A black screen is painted as often as intended.
OverlayCompletes ==
  \A c \in Clients :
    (active /\ scheduled[c])
      ~> (~active \/ overlay = 0 \/ suppress[c] \/ ~connected[c])
=============================================================================
