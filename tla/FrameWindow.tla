----------------------------- MODULE FrameWindow -----------------------------
(***************************************************************************)
(* What the screen updates promise, without dirty regions, update timers   *)
(* and sleep modes: one client is served at a time, with one frame at a    *)
(* time, and none while the screen sleeps; only a frame brings a monitor   *)
(* of a client up to date, and a frame is about one monitor.               *)
(***************************************************************************)
EXTENDS Integers

CONSTANTS Clients, Monitors

VARIABLES
  live,      \* the clients that are connected
  lag,       \* <<c, m>>: client c does not show the picture of monitor m
  inflight,  \* the clients that have a frame to acknowledge
  asleep     \* the screen sleeps

vars == <<live, lag, inflight, asleep>>

Lag(c) == {c} \X Monitors

Init ==
  /\ live = {}
  /\ lag = {}
  /\ inflight = {}
  /\ asleep = FALSE

\* A client takes the place of the one before; it has seen nothing.  Nobody
\* may be left to serve when its connection is not accepted.
Take(S) ==
  /\ live' = S
  /\ lag' = UNION {Lag(c) : c \in S}
  /\ inflight' = {}
  /\ UNCHANGED asleep

\* A client leaves; the screen does not sleep for nobody.
Leave(c) ==
  /\ c \in live
  /\ live' = live \ {c}
  /\ lag' = lag \ Lag(c)
  /\ inflight' = inflight \ {c}
  /\ asleep' \in {asleep, FALSE}

\* Pictures change, of some monitors for some clients.
Change ==
  /\ lag \subseteq lag'
  /\ lag' \subseteq live \X Monitors
  /\ UNCHANGED <<live, inflight, asleep>>

\* A frame is sent; the capture of other monitors may fail.
Send(c, m) ==
  /\ c \in live \ inflight
  /\ ~asleep
  /\ inflight' = inflight \cup {c}
  /\ lag \ {<<c, m>>} \subseteq lag'
  /\ lag' \subseteq (lag \cup Lag(c)) \ {<<c, m>>}
  /\ UNCHANGED <<live, asleep>>

Acknowledge(c) ==
  /\ c \in inflight
  /\ inflight' = inflight \ {c}
  /\ UNCHANGED <<live, lag, asleep>>

FallAsleep ==
  /\ ~asleep
  /\ asleep' = TRUE
  /\ UNCHANGED <<live, lag, inflight>>

\* Pictures may have changed by the time the screen is awake.
WakeUp ==
  /\ asleep
  /\ asleep' = FALSE
  /\ lag \subseteq lag'
  /\ lag' \subseteq live \X Monitors
  /\ UNCHANGED <<live, inflight>>

\* The last object in the list is freed after its client has left.
Forget ==
  /\ live = {}
  /\ asleep' = FALSE
  /\ UNCHANGED <<live, lag, inflight>>

Next ==
  \/ \E c \in Clients : Take({c}) \/ Leave(c) \/ Acknowledge(c)
  \/ Take({})
  \/ \E c \in Clients, m \in Monitors : Send(c, m)
  \/ Change
  \/ FallAsleep
  \/ WakeUp
  \/ Forget

Spec == Init /\ [][Next]_vars
=============================================================================
