------------------------------ MODULE ClientCon ------------------------------
(***************************************************************************)
(* The life cycle of the connections that xrdp opens to the X server, and  *)
(* of the two session timers that hang on them (module/rdpClientCon.c).    *)
(*                                                                         *)
(* The X server is one thread.  Its main loop runs expired timers and      *)
(* calls rdpClientConCheck; xrdp and sesman are other processes, so a      *)
(* peer may close, a connection may arrive or a disconnect request may be  *)
(* posted between any two steps of rdpClientConCheck.  pc says where the   *)
(* thread is: in the main loop, or in one of the phases of the check.      *)
(*                                                                         *)
(* Time is relative: a timer holds what is left of its delay, idleAge the  *)
(* time since last_event_time_ms, saturated at the idle timeout (the code  *)
(* only asks whether it has been reached).                                 *)
(***************************************************************************)
EXTENDS Integers, Sequences, FiniteSets

CONSTANTS
  Cons,         \* addresses of rdpClientCon objects; freed ones are reused
  NoTimer,      \* a timer that is not armed
  MaxIdle,      \* largest idle timeout configured, in ticks
  MaxDisc,      \* largest disconnect timeout configured, in ticks
  MaxBacklog    \* bound on connections waiting in the listen queue

ASSUME MaxIdleAssumption    == MaxIdle \in Nat
ASSUME MaxDiscAssumption    == MaxDisc \in Nat
ASSUME MaxBacklogAssumption == MaxBacklog \in Nat
ASSUME NoTimerAssumption    == NoTimer \notin Int
ASSUME ConsAssumption       == Cons \cap {"listen_sck", "disconnect_sck"} = {}

VARIABLES
  pc,                     \* "loop", or the phase of rdpClientConCheck
  list,                   \* dev->clientConHead .. clientConTail
  connected,              \* clientCon->connected
  peer,                   \* the far end of clientCon->sck; "closed" if there is none
  rfds,                   \* what select() reported readable
  backlog,                \* connections waiting on listen_sck
  disconnectReq,          \* a datagram waits on disconnect_sck
  idleTimer,              \* dev->idleDisconnectTimer, ticks left
  idleAge,                \* now - dev->last_event_time_ms
  disconnectTimer,        \* dev->disconnectTimer, ticks left
  disconnect_scheduled,   \* dev->disconnect_scheduled
  sigterm,                \* SIGTERM sent to this process, and why
  idle_disconnect_timeout_s, do_kill_disconnected, disconnect_timeout_s

conf == <<idle_disconnect_timeout_s, do_kill_disconnected, disconnect_timeout_s>>
net  == <<peer, backlog, disconnectReq>>
kill == <<disconnectTimer, disconnect_scheduled, sigterm>>
vars == <<pc, list, connected, net, rfds, idleTimer, idleAge, kill, conf>>

Members  == {list[i] : i \in DOMAIN list}
Timer(m) == {NoTimer} \cup 0..m

TypeOK ==
  /\ pc \in {"loop", "sweep", "listen", "disconnect", "serve", "exited"}
  /\ list \in Seq(Cons)
  /\ connected \in [Cons -> BOOLEAN]
  /\ peer \in [Cons -> {"open", "closed"}]
  /\ rfds \subseteq Cons \cup {"listen_sck", "disconnect_sck"}
  /\ backlog \in 0..MaxBacklog
  /\ disconnectReq \in BOOLEAN
  /\ idle_disconnect_timeout_s \in 0..MaxIdle
  /\ do_kill_disconnected \in BOOLEAN
  /\ disconnect_timeout_s \in 0..MaxDisc
  /\ idleTimer \in Timer(MaxIdle)
  /\ idleAge \in 0..idle_disconnect_timeout_s
  /\ disconnectTimer \in Timer(MaxDisc)
  /\ disconnect_scheduled \in BOOLEAN
  /\ sigterm \in {"none", "logout", "disconnect"}

(***************************************************************************)
(* rdpClientConInit: the timeouts come from the environment of the server; *)
(* 0 turns the idle timer off, and kills at once after a disconnect.       *)
(***************************************************************************)
Init ==
  /\ pc = "loop"
  /\ list = <<>>
  /\ connected = [c \in Cons |-> FALSE]
  /\ peer = [c \in Cons |-> "closed"]
  /\ rfds = {}
  /\ backlog = 0
  /\ disconnectReq = FALSE
  /\ idleTimer = NoTimer
  /\ idleAge = 0
  /\ disconnectTimer = NoTimer
  /\ disconnect_scheduled = FALSE
  /\ sigterm = "none"
  /\ idle_disconnect_timeout_s \in 0..MaxIdle
  /\ do_kill_disconnected \in BOOLEAN
  /\ disconnect_timeout_s \in 0..MaxDisc

(***************************************************************************)
(* TimerSet of the X server: a delay of zero does not arm the timer.       *)
(***************************************************************************)
TimerSet(delay) == IF delay = 0 THEN NoTimer ELSE delay

-----------------------------------------------------------------------------
(* rdpClientConDisconnect: what leaving does to the list and the timers. *)

RemoveClientConFromDev(i) ==
  /\ list' = [j \in 1..(Len(list) - 1) |-> IF j < i THEN list[j] ELSE list[j + 1]]
  /\ connected' = [connected EXCEPT ![list[i]] = FALSE]
  /\ peer' = [peer EXCEPT ![list[i]] = "closed"]

StopIdleTimer ==
  idleTimer' = IF idle_disconnect_timeout_s > 0 THEN NoTimer ELSE idleTimer

\* Mutant: the flag is set but the timer is not.
FlagOnlyKillTimer ==
  /\ disconnect_scheduled' = TRUE
  /\ UNCHANGED disconnectTimer

StartKillTimer ==
  /\ disconnect_scheduled' = TRUE
  /\ disconnectTimer' = IF disconnect_scheduled THEN disconnectTimer
                                                ELSE TimerSet(disconnect_timeout_s)

\* "kill session after disconnect ?"
KillSession ==
  \/ /\ ~do_kill_disconnected
     /\ UNCHANGED kill
  \/ /\ do_kill_disconnected
     /\ disconnect_timeout_s = 0
     /\ sigterm' = "disconnect"
     /\ UNCHANGED <<disconnectTimer, disconnect_scheduled>>
  \/ /\ do_kill_disconnected
     /\ disconnect_timeout_s > 0
     /\ StartKillTimer
     /\ UNCHANGED sigterm

Disconnect(i) ==
  /\ RemoveClientConFromDev(i)
  /\ StopIdleTimer
  /\ KillSession

(***************************************************************************)
(* "disconnect all clients": rdpClientConDisconnect until the list is      *)
(* empty.  Leaving twice does to the timers what leaving once does.        *)
(***************************************************************************)
EmptyList ==
  /\ list' = <<>>
  /\ connected' = [c \in Cons |-> connected[c] /\ c \notin Members]
  /\ peer' = [c \in Cons |-> IF c \in Members THEN "closed" ELSE peer[c]]

DisconnectAll ==
  IF list = <<>>
  THEN UNCHANGED <<list, connected, peer, idleTimer, kill>>
  ELSE EmptyList /\ StopIdleTimer /\ KillSession

-----------------------------------------------------------------------------
(* rdpClientConCheck, phase by phase. *)

\* The wakeup handler or a NotifyFd callback calls rdpClientConCheck.
StartCheck ==
  /\ pc = "loop"
  /\ pc' = "sweep"
  /\ UNCHANGED <<list, connected, net, rfds, idleTimer, idleAge, kill, conf>>

\* "I/O error on this client - remove it", walking from the head.
Sweep(i) ==
  /\ pc = "sweep"
  /\ ~connected[list[i]]
  /\ \A j \in 1..(i - 1) : connected[list[j]]
  /\ Disconnect(i)
  /\ UNCHANGED <<pc, backlog, disconnectReq, rfds, idleAge, conf>>

\* The walk has removed every client that was not connected any more.
Swept == \A c \in Members : connected[c]

\* select() with a zero timeout: a client whose peer has closed is readable,
\* one whose peer is open is readable when a message has arrived.  The rest of
\* the check looks at this snapshot, not at the sockets.
Select ==
  /\ pc = "sweep"
  /\ Swept
  /\ \E R \in SUBSET Members :
        /\ {c \in Members : peer[c] = "closed"} \subseteq R
        /\ rfds' = R \cup {s \in {"listen_sck"} : backlog > 0}
                     \cup {s \in {"disconnect_sck"} : disconnectReq}
        /\ pc' = IF rfds' = {} THEN "loop" ELSE "listen"
  /\ UNCHANGED <<list, connected, net, idleTimer, idleAge, kill, conf>>

\* Mutant: the previous client is not marked.
ReplacedNever(c) == FALSE

\* "Only allow one client at a time": the tail is marked for disconnection.
Replaced(c) == list # <<>> /\ c = list[Len(list)]

\* "reset disconnectTimer if reconnection"
StopKillTimer ==
  /\ disconnectTimer' = IF disconnect_scheduled THEN NoTimer ELSE disconnectTimer
  /\ disconnect_scheduled' = FALSE

\* rdpClientConGotConnection; accepted tells whether g_sck_accept succeeded.
\* The new client joins the list, and its predecessor is marked, either way.
GotConnection(c, accepted) ==
  /\ pc = "listen"
  /\ "listen_sck" \in rfds
  /\ c \notin Members
  /\ pc' = "disconnect"
  /\ backlog' = backlog - 1
  /\ peer' = [peer EXCEPT ![c] = IF accepted THEN "open" ELSE "closed"]
  /\ connected' = [d \in Cons |->
                     IF d = c THEN accepted ELSE connected[d] /\ ~Replaced(d)]
  /\ StopKillTimer
  /\ idleTimer' = IF idle_disconnect_timeout_s > 0
                  THEN TimerSet(idle_disconnect_timeout_s) ELSE idleTimer
  /\ idleAge' = 0
  /\ list' = Append(list, c)
  /\ UNCHANGED <<rfds, disconnectReq, sigterm, conf>>

\* listen_sck is not readable.
NoConnection ==
  /\ pc = "listen"
  /\ "listen_sck" \notin rfds
  /\ pc' = "disconnect"
  /\ UNCHANGED <<list, connected, net, rfds, idleTimer, idleAge, kill, conf>>

\* A datagram on disconnect_sck disconnects every client.
DisconnectRequest ==
  /\ pc = "disconnect"
  /\ pc' = "serve"
  /\ IF "disconnect_sck" \in rfds
     THEN disconnectReq' = FALSE /\ DisconnectAll
     ELSE UNCHANGED <<disconnectReq, list, connected, peer, idleTimer, kill>>
  /\ UNCHANGED <<backlog, rfds, idleAge, conf>>

\* Mutant: the connection stays marked as connected.
KeepConnection(c) == UNCHANGED connected

\* "connected = FALSE": the next check removes the client.
LoseConnection(c) == connected' = [connected EXCEPT ![c] = FALSE]

\* Mutant: a client marked for disconnection is still read.
MayRecvMarked(c) == TRUE

\* rdpClientConRecv reads from a connected client only.
MayRecv(c) == connected[c]

\* rdpClientConGotData with a whole message; keyboard and mouse messages and
\* the client info count as user activity (rdpScreenSleepActivity).
GotMessage(c, activity) ==
  /\ pc = "serve"
  /\ c \in rfds \cap Members
  /\ MayRecv(c)
  /\ peer[c] = "open"
  /\ rfds' = rfds \ {c}
  /\ idleAge' = IF activity THEN 0 ELSE idleAge
  /\ UNCHANGED <<pc, list, connected, net, idleTimer, kill, conf>>

\* rdpClientConRecv finds the connection closed.
GotEof(c) ==
  /\ pc = "serve"
  /\ c \in rfds \cap Members
  /\ MayRecv(c)
  /\ peer[c] = "closed"
  /\ rfds' = rfds \ {c}
  /\ LoseConnection(c)
  /\ UNCHANGED <<pc, list, net, idleTimer, idleAge, kill, conf>>

\* rdpClientConRecv returns at once on a client marked for disconnection.
SkipMarked(c) ==
  /\ pc = "serve"
  /\ c \in rfds \cap Members
  /\ ~MayRecv(c)
  /\ rfds' = rfds \ {c}
  /\ UNCHANGED <<pc, list, connected, net, idleTimer, idleAge, kill, conf>>

EndCheck ==
  /\ pc = "serve"
  /\ rfds \cap Members = {}
  /\ pc' = "loop"
  /\ rfds' = {}
  /\ UNCHANGED <<list, connected, net, idleTimer, idleAge, kill, conf>>

-----------------------------------------------------------------------------
(* Timer callbacks and sends from the main loop. *)

IdleExpired == idleAge >= idle_disconnect_timeout_s

\* Mutant: the timer is restarted with the whole timeout.
RestartIdleTimer == TimerSet(idle_disconnect_timeout_s)

\* Mutant: the remainder is computed with the wrong sign.
OvershootIdleTimer == TimerSet(idle_disconnect_timeout_s + idleAge)

\* Mutant: a timer that has expired early is not set again.
DropIdleTimer == NoTimer

\* "restart the idle timer with last_event + idle timeout"
IdleRemainder == TimerSet(idle_disconnect_timeout_s - idleAge)

\* rdpDeferredIdleDisconnectCallback
IdleTimeout ==
  /\ pc = "loop"
  /\ idleTimer = 0
  /\ \/ /\ IdleExpired
        /\ EmptyList
        /\ idleTimer' = NoTimer
        /\ IF list = <<>> THEN UNCHANGED kill ELSE KillSession
     \/ /\ ~IdleExpired
        /\ idleTimer' = IdleRemainder
        /\ UNCHANGED <<list, connected, peer, kill>>
  /\ UNCHANGED <<pc, backlog, disconnectReq, rfds, idleAge, conf>>

\* rdpDeferredDisconnectCallback: the timer is spent, SIGTERM is on its way.
DisconnectTimeout ==
  /\ pc = "loop"
  /\ disconnectTimer = 0
  /\ disconnectTimer' = NoTimer
  /\ sigterm' = "disconnect"
  /\ UNCHANGED <<pc, list, connected, net, rfds, idleTimer, idleAge,
                 disconnect_scheduled, conf>>

\* rdpClientConSend, called from an update or in answer to a message, finds the
\* connection broken.
SendFailed(c) ==
  /\ pc \in {"loop", "serve"}
  /\ c \in Members
  /\ connected[c]
  /\ LoseConnection(c)
  /\ UNCHANGED <<pc, list, net, rfds, idleTimer, idleAge, kill, conf>>

\* rdpClientConDeinit, from CloseScreen after SIGTERM.
Deinit ==
  /\ pc = "loop"
  /\ sigterm # "none"
  /\ pc' = "exited"
  /\ DisconnectAll
  /\ UNCHANGED <<backlog, disconnectReq, rfds, idleAge, conf>>

-----------------------------------------------------------------------------
(* The other processes, and time. *)

\* xrdp connects to the listening socket.
ClientArrives ==
  /\ pc # "exited"
  /\ backlog < MaxBacklog
  /\ backlog' = backlog + 1
  /\ UNCHANGED <<pc, list, connected, peer, rfds, disconnectReq, idleTimer,
                 idleAge, kill, conf>>

\* xrdp closes a connection (or dies) once its data has been read.
PeerCloses(c) ==
  /\ pc # "exited"
  /\ c \in Members
  /\ peer[c] = "open"
  /\ peer' = [peer EXCEPT ![c] = "closed"]
  /\ UNCHANGED <<pc, list, connected, rfds, backlog, disconnectReq, idleTimer,
                 idleAge, kill, conf>>

\* sesman asks for the session to be disconnected.
RequestDisconnect ==
  /\ pc # "exited"
  /\ ~disconnectReq
  /\ disconnectReq' = TRUE
  /\ UNCHANGED <<pc, list, connected, peer, rfds, backlog, idleTimer, idleAge,
                 kill, conf>>

\* The user logs out, or sesman ends the session.
Logout ==
  /\ pc # "exited"
  /\ sigterm = "none"
  /\ sigterm' = "logout"
  /\ UNCHANGED <<pc, list, connected, net, rfds, idleTimer, idleAge,
                 disconnectTimer, disconnect_scheduled, conf>>

Elapse(t) == IF t = NoTimer \/ t = 0 THEN t ELSE t - 1

\* A tick of the clock; a timer that is due may still be run late.
Tick ==
  /\ pc # "exited"
  /\ idleTimer' = Elapse(idleTimer)
  /\ disconnectTimer' = Elapse(disconnectTimer)
  /\ idleAge' = IF idleAge < idle_disconnect_timeout_s THEN idleAge + 1 ELSE idleAge
  /\ UNCHANGED <<pc, list, connected, net, rfds, disconnect_scheduled, sigterm, conf>>

\* The process is gone.
Exited == pc = "exited" /\ UNCHANGED vars

-----------------------------------------------------------------------------
Check ==
  \/ StartCheck
  \/ \E i \in DOMAIN list : Sweep(i)
  \/ Select
  \/ \E c \in Cons, accepted \in BOOLEAN : GotConnection(c, accepted)
  \/ NoConnection
  \/ DisconnectRequest
  \/ \E c \in Cons, activity \in BOOLEAN : GotMessage(c, activity)
  \/ \E c \in Cons : GotEof(c) \/ SkipMarked(c)
  \/ EndCheck

Environment ==
  \/ ClientArrives
  \/ \E c \in Cons : PeerCloses(c)
  \/ RequestDisconnect
  \/ Logout
  \/ Tick

Next ==
  \/ Check
  \/ IdleTimeout
  \/ DisconnectTimeout
  \/ \E c \in Cons : SendFailed(c)
  \/ Deinit
  \/ Environment
  \/ Exited

(***************************************************************************)
(* Fairness.  The thread does not stop (WF on the check and on the exit),  *)
(* the clock advances, and the dispatch loop runs expired timers on every  *)
(* iteration, so a due timer cannot be overtaken for ever by checks (SF).  *)
(* Nothing is assumed of xrdp, sesman or the user.                         *)
(***************************************************************************)
Fairness ==
  /\ WF_vars(Check)
  /\ WF_vars(Tick)
  /\ SF_vars(IdleTimeout)
  /\ SF_vars(DisconnectTimeout)
  /\ SF_vars(Deinit)

Spec     == Init /\ [][Next]_vars
FairSpec == Spec /\ Fairness

-----------------------------------------------------------------------------
(* Properties *)

\* "Only allow one client at a time" (rdpClientConGotConnection): of all the
\* clients in the device's list at most the newest is connected, also while
\* the one it replaced has not been removed yet.
OnlyNewestConnected ==
  \A i \in 1..(Len(list) - 1) : ~connected[list[i]]

\* The list never holds more than the newest client and one that is about to
\* be removed, however many connections arrive or fail to be accepted.
ListBounded == Len(list) <= 2

\* What select() reported still holds when rdpClientConCheck comes to accept: a
\* connection waits, and the walk has left only connected clients.
SnapshotHolds ==
  pc = "listen" => /\ "listen_sck" \in rfds => backlog > 0
                   /\ Swept

\* Input is processed for the newest client only: a replaced client whose
\* last messages are still in its socket cannot move the pointer or type.
ReplacedClientIsSilent ==
  [][\A c \in Cons, a \in BOOLEAN : GotMessage(c, a) => c = list[Len(list)]]_vars

\* disconnect_scheduled and the disconnect timer tell the same story until
\* the timer has sent SIGTERM, so a later disconnect can arm it again.
KillTimerMatchesFlag ==
  /\ disconnectTimer # NoTimer => disconnect_scheduled
  /\ disconnect_scheduled => disconnectTimer # NoTimer \/ sigterm = "disconnect"

\* The idle timer, re-armed with what is left of the timeout, is due no later
\* than the moment at which the user has been idle for the whole timeout.
IdleDeadlineKept ==
  idleTimer # NoTimer => idleTimer + idleAge <= idle_disconnect_timeout_s

\* The inductive invariant: the parts above need each other and SnapshotHolds.
IndInv ==
  /\ TypeOK
  /\ SnapshotHolds
  /\ OnlyNewestConnected
  /\ ListBounded
  /\ KillTimerMatchesFlag
  /\ IdleDeadlineKept

\* A client whose xrdp has gone leaves the list, whatever phase of the check
\* its connection breaks in.
ClosedPeerIsRemoved ==
  \A c \in Cons : (c \in Members /\ peer[c] = "closed")
                     ~> (c \notin Members \/ peer[c] = "open")

\* A scheduled disconnect kills the session unless a client comes back first.
ScheduledKillHappens ==
  disconnect_scheduled ~> (~disconnect_scheduled \/ sigterm # "none")

\* An armed idle timer ends in the disconnect of the client unless the user does
\* something first or another client comes, which sets the timer anew
\* (rdpDeferredIdleDisconnectCallback, rdpClientConGotConnection).  A timer that
\* is merely lost does not do.  Of one client: while one that has been replaced
\* is still in the list the timer can be lost, see OneTimerFollowsClient.
IdleSessionDisconnected ==
  (idleTimer # NoTimer /\ Len(list) = 1) ~> (list = <<>> \/ idleAge = 0)

(* Violated: what the comments of rdpClientCon.c say of the two timers. *)

\* "set idle timer to disconnect", "reset disconnectTimer if reconnection": a
\* connected client has its idle timer set, where one is configured, and the
\* timer that kills the session reset.  The run asks for one of the two only.
OneTimerFollowsClient ==
  pc = "loop" /\ idle_disconnect_timeout_s > 0 /\ (\E c \in Members : connected[c])
    => idleTimer # NoTimer \/ ~disconnect_scheduled
=============================================================================
