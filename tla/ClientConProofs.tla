--------------------------- MODULE ClientConProofs ---------------------------
(***************************************************************************)
(* What ClientCon's runs check on a small instance, for any set of client  *)
(* objects, any timeouts and any listen queue: type correctness, at most   *)
(* one connected client, a list of at most two, agreement of the           *)
(* disconnect timer with its flag, the idle deadline, and silence of       *)
(* replaced clients.                                                       *)
(***************************************************************************)
EXTENDS ClientCon, SequenceTheorems, TLAPS

-----------------------------------------------------------------------------
(* The list *)

\* Removing the i-th client keeps the others in order.
LEMMA RemoveFacts ==
  ASSUME TypeOK, NEW i \in DOMAIN list, RemoveClientConFromDev(i)
  PROVE  /\ list' \in Seq(Cons)
         /\ Len(list') = Len(list) - 1
         /\ \A j \in 1..(Len(list) - 1) :
               list'[j] = IF j < i THEN list[j] ELSE list[j + 1]
<1> DEFINE n == Len(list) - 1
           f == [j \in 1..n |-> IF j < i THEN list[j] ELSE list[j + 1]]
<1>1. /\ Len(list) \in Nat
      /\ list \in [1..Len(list) -> Cons]
      /\ DOMAIN list = 1..Len(list)
  BY LenProperties DEF TypeOK
<1>2. n \in Nat
  BY <1>1
<1>3. \A j \in 1..n : f[j] \in Cons
  BY <1>1
<1>4. f \in [1..n -> Cons]
  BY <1>3
<1>5. f \in Seq(Cons) /\ Len(f) = n
  BY <1>2, <1>4
<1>6. list' = f
  BY DEF RemoveClientConFromDev
<1> QED
  BY <1>5, <1>6

\* The members of the list are clients, and its length is a number.
LEMMA ListFacts ==
  ASSUME TypeOK
  PROVE  /\ Len(list) \in Nat
         /\ DOMAIN list = 1..Len(list)
         /\ \A i \in 1..Len(list) : list[i] \in Cons
         /\ Members \subseteq Cons
BY LenProperties DEF TypeOK, Members

\* Appending the new client keeps the old ones where they are.
LEMMA AppendFacts ==
  ASSUME TypeOK, NEW c \in Cons, list' = Append(list, c)
  PROVE  /\ list' \in Seq(Cons)
         /\ Len(list') = Len(list) + 1
         /\ \A i \in 1..Len(list) : list'[i] = list[i]
         /\ list'[Len(list) + 1] = c
BY AppendProperties DEF TypeOK

\* Emptying the list keeps it a list of clients.
LEMMA EmptyFacts ==
  ASSUME list' = <<>>
  PROVE  list' \in Seq(Cons) /\ Len(list') = 0
BY EmptySeq

-----------------------------------------------------------------------------
(* Types *)

LEMMA KillSessionType ==
  ASSUME TypeOK, KillSession
  PROVE  /\ disconnectTimer' \in Timer(MaxDisc)
         /\ disconnect_scheduled' \in BOOLEAN
         /\ sigterm' \in {"none", "logout", "disconnect"}
BY MaxDiscAssumption DEF TypeOK, KillSession, StartKillTimer, TimerSet, Timer, kill

LEMMA StopIdleType ==
  ASSUME TypeOK, StopIdleTimer
  PROVE  idleTimer' \in Timer(MaxIdle)
BY DEF TypeOK, StopIdleTimer, Timer

LEMMA EmptyListType ==
  ASSUME TypeOK, EmptyList
  PROVE  /\ list' \in Seq(Cons)
         /\ connected' \in [Cons -> BOOLEAN]
         /\ peer' \in [Cons -> {"open", "closed"}]
BY EmptyFacts DEF TypeOK, EmptyList

LEMMA DisconnectAllType ==
  ASSUME TypeOK, DisconnectAll
  PROVE  /\ list' \in Seq(Cons)
         /\ connected' \in [Cons -> BOOLEAN]
         /\ peer' \in [Cons -> {"open", "closed"}]
         /\ idleTimer' \in Timer(MaxIdle)
         /\ disconnectTimer' \in Timer(MaxDisc)
         /\ disconnect_scheduled' \in BOOLEAN
         /\ sigterm' \in {"none", "logout", "disconnect"}
<1>1. CASE list = <<>>
  BY <1>1 DEF DisconnectAll, TypeOK, kill
<1>2. CASE list # <<>>
  BY <1>2, EmptyListType, StopIdleType, KillSessionType DEF DisconnectAll
<1> QED
  BY <1>1, <1>2

\* The variables keep their types in every step of Next.
LEMMA TypeStep == TypeOK /\ SnapshotHolds /\ [Next]_vars => TypeOK'
<1> SUFFICES ASSUME TypeOK, SnapshotHolds, [Next]_vars
             PROVE  TypeOK'
  OBVIOUS
<1> USE MaxIdleAssumption, MaxDiscAssumption, MaxBacklogAssumption
<1>1. CASE StartCheck
  BY <1>1 DEF StartCheck, TypeOK, net, kill, conf
<1>2. CASE \E i \in DOMAIN list : Sweep(i)
  <2> PICK i \in DOMAIN list : Sweep(i)
    BY <1>2
  <2>1. RemoveClientConFromDev(i) /\ StopIdleTimer /\ KillSession
    BY DEF Sweep, Disconnect
  <2>2. list' \in Seq(Cons)
    BY <2>1, RemoveFacts
  <2>3. /\ connected' \in [Cons -> BOOLEAN]
        /\ peer' \in [Cons -> {"open", "closed"}]
    BY <2>1 DEF RemoveClientConFromDev, TypeOK
  <2>4. idleTimer' \in Timer(MaxIdle)
    BY <2>1, StopIdleType
  <2> QED
    BY <2>1, <2>2, <2>3, <2>4, KillSessionType DEF Sweep, TypeOK, conf
<1>3. CASE Select
  BY <1>3, ListFacts DEF Select, TypeOK, net, kill, conf
<1>4. CASE \E c \in Cons, accepted \in BOOLEAN : GotConnection(c, accepted)
  <2> PICK c \in Cons, accepted \in BOOLEAN : GotConnection(c, accepted)
    BY <1>4
  <2>1. list' \in Seq(Cons)
    BY AppendFacts DEF GotConnection
  <2>2. /\ connected' \in [Cons -> BOOLEAN]
        /\ peer' \in [Cons -> {"open", "closed"}]
    BY DEF GotConnection, TypeOK
  <2>3. /\ idleTimer' \in Timer(MaxIdle)
        /\ idleAge' \in 0..idle_disconnect_timeout_s
    BY DEF GotConnection, TypeOK, TimerSet, Timer
  <2>4. /\ disconnectTimer' \in Timer(MaxDisc)
        /\ disconnect_scheduled' \in BOOLEAN
    BY DEF GotConnection, TypeOK, StopKillTimer, Timer
  <2>5. backlog' \in 0..MaxBacklog
    BY DEF GotConnection, TypeOK, SnapshotHolds
  <2> QED
    BY <2>1, <2>2, <2>3, <2>4, <2>5 DEF GotConnection, TypeOK, conf
<1>5. CASE NoConnection
  BY <1>5 DEF NoConnection, TypeOK, net, kill, conf
<1>6. CASE DisconnectRequest
  <2>1. CASE "disconnect_sck" \in rfds
    BY <1>6, <2>1, DisconnectAllType DEF DisconnectRequest, TypeOK, conf
  <2>2. CASE "disconnect_sck" \notin rfds
    BY <1>6, <2>2 DEF DisconnectRequest, TypeOK, kill, conf
  <2> QED
    BY <2>1, <2>2
<1>7. CASE \E c \in Cons, activity \in BOOLEAN : GotMessage(c, activity)
  BY <1>7 DEF GotMessage, TypeOK, net, kill, conf
<1>8. CASE \E c \in Cons : GotEof(c) \/ SkipMarked(c)
  BY <1>8 DEF GotEof, SkipMarked, LoseConnection, TypeOK, net, kill, conf
<1>9. CASE EndCheck
  BY <1>9 DEF EndCheck, TypeOK, net, kill, conf
<1>10. CASE IdleTimeout
  <2>1. CASE IdleExpired
    <3>1. EmptyList /\ idleTimer' = NoTimer
      BY <1>10, <2>1 DEF IdleTimeout
    <3>2. /\ disconnectTimer' \in Timer(MaxDisc)
          /\ disconnect_scheduled' \in BOOLEAN
          /\ sigterm' \in {"none", "logout", "disconnect"}
      BY <1>10, <2>1, KillSessionType DEF IdleTimeout, TypeOK, kill
    <3> QED
      BY <1>10, <3>1, <3>2, EmptyListType DEF IdleTimeout, TypeOK, Timer, conf
  <2>2. CASE ~IdleExpired
    BY <1>10, <2>2 DEF IdleTimeout, IdleExpired, IdleRemainder, TimerSet, Timer,
                       TypeOK, kill, conf
  <2> QED
    BY <2>1, <2>2
<1>11. CASE DisconnectTimeout
  BY <1>11 DEF DisconnectTimeout, TypeOK, Timer, net, conf
<1>12. CASE \E c \in Cons : SendFailed(c)
  BY <1>12 DEF SendFailed, LoseConnection, TypeOK, net, kill, conf
<1>13. CASE Deinit
  BY <1>13, DisconnectAllType DEF Deinit, TypeOK, conf
<1>14. CASE ClientArrives
  BY <1>14 DEF ClientArrives, TypeOK, kill, conf
<1>15. CASE \E c \in Cons : PeerCloses(c)
  BY <1>15 DEF PeerCloses, TypeOK, kill, conf
<1>16. CASE RequestDisconnect
  BY <1>16 DEF RequestDisconnect, TypeOK, kill, conf
<1>17. CASE Logout
  BY <1>17 DEF Logout, TypeOK, net, conf
<1>18. CASE Tick
  BY <1>18, NoTimerAssumption DEF Tick, Elapse, TypeOK, Timer, net, conf
<1>19. CASE Exited
  BY <1>19 DEF Exited, TypeOK, vars, net, kill, conf
<1>20. CASE UNCHANGED vars
  BY <1>20 DEF TypeOK, vars, net, kill, conf
<1> QED
  BY <1>1, <1>2, <1>3, <1>4, <1>5, <1>6, <1>7, <1>8, <1>9, <1>10, <1>11, <1>12,
     <1>13, <1>14, <1>15, <1>16, <1>17, <1>18, <1>19, <1>20
  DEF Next, Check, Environment

-----------------------------------------------------------------------------
(* What rdpClientConDisconnect does to the timers *)

\* The kill timer and its flag keep agreeing when a client leaves.
LEMMA KillSessionAgrees ==
  ASSUME TypeOK, KillTimerMatchesFlag, KillSession
  PROVE  KillTimerMatchesFlag'
BY NoTimerAssumption DEF TypeOK, KillTimerMatchesFlag, KillSession, StartKillTimer,
   TimerSet, kill

\* An idle timer that survives a client's leaving is still in time.
LEMMA StopIdleKept ==
  ASSUME TypeOK, IdleDeadlineKept, StopIdleTimer, UNCHANGED <<idleAge, conf>>
  PROVE  IdleDeadlineKept'
BY DEF TypeOK, IdleDeadlineKept, StopIdleTimer, conf

-----------------------------------------------------------------------------
(* The inductive invariant, conjunct by conjunct *)

\* A connection reported by select() is still there when it is accepted, and
\* no client is marked for disconnection in between.
LEMMA SnapshotStep == IndInv /\ [Next]_vars => SnapshotHolds'
<1> SUFFICES ASSUME IndInv, [Next]_vars, pc' = "listen"
             PROVE  /\ "listen_sck" \in rfds' => backlog' > 0
                    /\ Swept'
  BY DEF SnapshotHolds
<1> USE DEF IndInv
<1>1. CASE Select
  <2>1. Swept' /\ backlog' = backlog
    BY <1>1 DEF Select, Swept, Members, net
  <2>2. "listen_sck" \notin Members
    BY ListFacts, ConsAssumption
  <2> QED
    BY <1>1, <2>1, <2>2 DEF Select
<1>2. CASE ClientArrives
  BY <1>2 DEF ClientArrives, TypeOK, SnapshotHolds, Swept, Members
<1>3. CASE \E c \in Cons : PeerCloses(c)
  BY <1>3 DEF PeerCloses, SnapshotHolds, Swept, Members
<1>4. CASE RequestDisconnect
  BY <1>4 DEF RequestDisconnect, SnapshotHolds, Swept, Members
<1>5. CASE Logout
  BY <1>5 DEF Logout, SnapshotHolds, Swept, Members, net
<1>6. CASE Tick
  BY <1>6 DEF Tick, SnapshotHolds, Swept, Members, net
<1>7. CASE UNCHANGED vars
  BY <1>7 DEF vars, SnapshotHolds, Swept, Members, net
<1> QED
  BY <1>1, <1>2, <1>3, <1>4, <1>5, <1>6, <1>7
  DEF Next, Check, Environment, StartCheck, Sweep, GotConnection, NoConnection,
      DisconnectRequest, GotMessage, GotEof, SkipMarked, EndCheck, IdleTimeout,
      DisconnectTimeout, SendFailed, Deinit, Exited

\* Once the walk has removed the clients marked for disconnection, at most one
\* client is left.
LEMMA SweptIsShort ==
  ASSUME TypeOK, OnlyNewestConnected, Swept
  PROVE  Len(list) <= 1
<1>1. SUFFICES ASSUME Len(list) > 1
               PROVE  FALSE
  BY ListFacts
<1>2. 1 \in DOMAIN list /\ 1 \in 1..(Len(list) - 1)
  BY <1>1, ListFacts
<1> QED
  BY <1>2 DEF OnlyNewestConnected, Swept, Members

\* Steps that touch neither the list nor, except to lose one, its connections.
LEMMA LosingKeepsNewest ==
  ASSUME TypeOK, OnlyNewestConnected, list' = list,
         \A c \in Cons : connected'[c] => connected[c]
  PROVE  OnlyNewestConnected'
<1> SUFFICES ASSUME NEW i \in 1..(Len(list') - 1)
             PROVE  ~connected'[list'[i]]
  BY DEF OnlyNewestConnected
<1>1. i \in 1..(Len(list) - 1) /\ list'[i] = list[i] /\ list[i] \in Cons
  BY ListFacts
<1> QED
  BY <1>1 DEF OnlyNewestConnected

\* The removal of any client leaves at most the newest connected.
LEMMA RemoveKeepsNewest ==
  ASSUME TypeOK, OnlyNewestConnected, NEW i \in DOMAIN list,
         RemoveClientConFromDev(i)
  PROVE  OnlyNewestConnected'
<1> SUFFICES ASSUME NEW j \in 1..(Len(list') - 1)
             PROVE  ~connected'[list'[j]]
  BY DEF OnlyNewestConnected
<1>0. Len(list) \in Nat /\ Len(list') = Len(list) - 1
  BY RemoveFacts, ListFacts
<1>1. j \in 1..(Len(list) - 1) /\ j + 1 \in 1..(Len(list) - 1)
  BY <1>0
<1>2. list'[j] = list[j] \/ list'[j] = list[j + 1]
  BY <1>1, RemoveFacts
<1>3. list'[j] \in Cons /\ ~connected[list'[j]]
  BY <1>1, <1>2, ListFacts DEF OnlyNewestConnected
<1>4. list[i] \in Cons
  BY ListFacts
<1>5. connected'[list'[j]] \in BOOLEAN /\ ~connected'[list'[j]]
  BY <1>3, <1>4 DEF RemoveClientConFromDev, TypeOK
<1> QED
  BY <1>5

\* A new client joins behind a tail that has been marked.
LEMMA JoinKeepsNewest ==
  ASSUME IndInv, NEW c \in Cons, NEW accepted \in BOOLEAN,
         GotConnection(c, accepted)
  PROVE  OnlyNewestConnected' /\ Len(list') <= 2
<1>1. Len(list) <= 1
  BY SweptIsShort DEF IndInv, SnapshotHolds, GotConnection
<1>2. Len(list') <= 2 /\ Len(list') = Len(list) + 1
  BY <1>1, AppendFacts, ListFacts DEF IndInv, GotConnection
<1> SUFFICES ASSUME NEW i \in 1..(Len(list') - 1)
             PROVE  ~connected'[list'[i]]
  BY <1>2 DEF OnlyNewestConnected
<1>3. i = 1 /\ Len(list) = 1
  BY <1>1, <1>2, ListFacts DEF IndInv
<1>4. list'[1] = list[1] /\ list[1] \in Cons /\ list[1] # c
  BY <1>3, AppendFacts, ListFacts DEF IndInv, GotConnection, Members
<1>5. Replaced(list[1])
  BY <1>3, EmptySeq DEF Replaced
<1> QED
  BY <1>3, <1>4, <1>5 DEF GotConnection

\* At most the newest client is connected, and the list stays short.
LEMMA NewestStep == IndInv /\ [Next]_vars => OnlyNewestConnected' /\ ListBounded'
<1> SUFFICES ASSUME IndInv, [Next]_vars
             PROVE  OnlyNewestConnected' /\ Len(list') <= 2
  BY DEF ListBounded
<1> USE DEF IndInv
<1>1. CASE \E i \in DOMAIN list : Sweep(i)
  <2> PICK i \in DOMAIN list : RemoveClientConFromDev(i)
    BY <1>1 DEF Sweep, Disconnect
  <2>1. OnlyNewestConnected'
    BY RemoveKeepsNewest
  <2>2. Len(list') = Len(list) - 1 /\ Len(list) \in Nat
    BY RemoveFacts, ListFacts
  <2> QED
    BY <2>1, <2>2 DEF ListBounded
<1>2. CASE \E c \in Cons, accepted \in BOOLEAN : GotConnection(c, accepted)
  BY <1>2, JoinKeepsNewest
<1>3. CASE list' = <<>>
  BY <1>3, EmptyFacts DEF OnlyNewestConnected
<1>4. CASE list' = list /\ \A c \in Cons : connected'[c] => connected[c]
  BY <1>4, LosingKeepsNewest DEF ListBounded
<1>5. CASE \E c \in Cons : GotEof(c) \/ SkipMarked(c) \/ SendFailed(c)
  BY <1>4, <1>5 DEF GotEof, SkipMarked, SendFailed, LoseConnection, TypeOK
<1>6. CASE DisconnectRequest \/ Deinit
  BY <1>3, <1>4, <1>6 DEF DisconnectRequest, Deinit, DisconnectAll, EmptyList
<1>7. CASE IdleTimeout
  BY <1>3, <1>4, <1>7 DEF IdleTimeout, EmptyList
<1>8. CASE UNCHANGED vars
  BY <1>4, <1>8 DEF vars
<1> QED
  BY <1>1, <1>2, <1>4, <1>5, <1>6, <1>7, <1>8
  DEF Next, Check, Environment, StartCheck, Select, NoConnection, GotMessage,
      EndCheck, DisconnectTimeout, ClientArrives, PeerCloses, RequestDisconnect,
      Logout, Tick, Exited

\* The disconnect timer and its flag agree after every step.
LEMMA KillTimerStep == IndInv /\ [Next]_vars => KillTimerMatchesFlag'
<1> SUFFICES ASSUME IndInv, [Next]_vars
             PROVE  KillTimerMatchesFlag'
  OBVIOUS
<1> USE DEF IndInv
<1>1. CASE UNCHANGED kill
  BY <1>1 DEF KillTimerMatchesFlag, kill
<1>2. CASE KillSession
  BY <1>2, KillSessionAgrees
<1>3. CASE \E c \in Cons, accepted \in BOOLEAN : GotConnection(c, accepted)
  BY <1>3 DEF GotConnection, StopKillTimer, KillTimerMatchesFlag
<1>4. CASE DisconnectTimeout
  BY <1>4 DEF DisconnectTimeout, KillTimerMatchesFlag
<1>5. CASE Logout
  BY <1>5 DEF Logout, KillTimerMatchesFlag
<1>6. CASE Tick
  BY <1>6, NoTimerAssumption DEF Tick, Elapse, TypeOK, Timer, KillTimerMatchesFlag
<1>7. CASE \E i \in DOMAIN list : Sweep(i)
  BY <1>2, <1>7 DEF Sweep, Disconnect
<1>8. CASE DisconnectRequest \/ Deinit \/ IdleTimeout
  BY <1>1, <1>2, <1>8 DEF DisconnectRequest, Deinit, IdleTimeout, DisconnectAll
<1> QED
  BY <1>1, <1>3, <1>4, <1>5, <1>6, <1>7, <1>8
  DEF Next, Check, Environment, StartCheck, Select, NoConnection, GotMessage,
      GotEof, SkipMarked, EndCheck, SendFailed, ClientArrives, PeerCloses,
      RequestDisconnect, Exited, vars

\* The idle timer is never due later than the user's idle deadline.
LEMMA IdleDeadlineStep == IndInv /\ [Next]_vars => IdleDeadlineKept'
<1> SUFFICES ASSUME IndInv, [Next]_vars
             PROVE  IdleDeadlineKept'
  OBVIOUS
<1> USE DEF IndInv
<1>1. CASE UNCHANGED <<idleTimer, idleAge, conf>>
  BY <1>1 DEF IdleDeadlineKept, conf
<1>2. CASE StopIdleTimer /\ UNCHANGED <<idleAge, conf>>
  BY <1>2, StopIdleKept
<1>3. CASE \E i \in DOMAIN list : Sweep(i)
  BY <1>2, <1>3 DEF Sweep, Disconnect
<1>4. CASE DisconnectRequest \/ Deinit
  BY <1>1, <1>2, <1>4 DEF DisconnectRequest, Deinit, DisconnectAll
<1>5. CASE \E c \in Cons, accepted \in BOOLEAN : GotConnection(c, accepted)
  BY <1>5 DEF GotConnection, TimerSet, TypeOK, IdleDeadlineKept, conf
<1>6. CASE \E c \in Cons, activity \in BOOLEAN : GotMessage(c, activity)
  BY <1>6, NoTimerAssumption DEF GotMessage, TypeOK, Timer, IdleDeadlineKept, conf
<1>7. CASE IdleTimeout
  BY <1>7 DEF IdleTimeout, IdleExpired, IdleRemainder, TimerSet, TypeOK,
              IdleDeadlineKept, conf
<1>8. CASE Tick
  BY <1>8, NoTimerAssumption DEF Tick, Elapse, TypeOK, Timer, IdleDeadlineKept, conf
<1> QED
  BY <1>1, <1>3, <1>4, <1>5, <1>6, <1>7, <1>8
  DEF Next, Check, Environment, StartCheck, Select, NoConnection,
      GotEof, SkipMarked, EndCheck, DisconnectTimeout, SendFailed, ClientArrives,
      PeerCloses, RequestDisconnect, Logout, Exited, vars

-----------------------------------------------------------------------------
(* The theorems *)

\* The invariant holds at start-up, when no client has connected.
LEMMA InitInv == Init => IndInv
<1> SUFFICES ASSUME Init
             PROVE  IndInv
  OBVIOUS
<1>1. list \in Seq(Cons) /\ Len(list) = 0
  BY EmptySeq DEF Init
<1>2. /\ connected \in [Cons -> BOOLEAN]
      /\ peer \in [Cons -> {"open", "closed"}]
  BY DEF Init
<1>3. /\ backlog \in 0..MaxBacklog
      /\ idleAge \in 0..idle_disconnect_timeout_s
  BY MaxIdleAssumption, MaxBacklogAssumption DEF Init
<1>4. TypeOK
  BY <1>1, <1>2, <1>3 DEF Init, TypeOK, Timer
<1> QED
  BY <1>1, <1>4 DEF Init, IndInv, SnapshotHolds, OnlyNewestConnected, ListBounded,
                    KillTimerMatchesFlag, IdleDeadlineKept

\* Every reachable state satisfies the inductive invariant of ClientCon.
THEOREM IndInvHolds == Spec => []IndInv
<1>1. IndInv /\ [Next]_vars => IndInv'
  BY TypeStep, SnapshotStep, NewestStep, KillTimerStep, IdleDeadlineStep DEF IndInv
<1> QED
  BY InitInv, <1>1, PTL DEF Spec

\* Type correctness of the life cycle, for every value of the constants.
THEOREM TypeCorrect == Spec => []TypeOK
<1>1. IndInv => TypeOK
  BY DEF IndInv
<1> QED
  BY IndInvHolds, <1>1, PTL

\* However connections arrive, fail and leave, at most the newest client of the
\* device is connected, and the list holds at most one other.
THEOREM OneClientAtATime == Spec => [](OnlyNewestConnected /\ ListBounded)
<1>1. IndInv => OnlyNewestConnected /\ ListBounded
  BY DEF IndInv
<1> QED
  BY IndInvHolds, <1>1, PTL

\* disconnect_scheduled always says whether the kill timer is armed.
THEOREM KillTimerAgreement == Spec => []KillTimerMatchesFlag
<1>1. IndInv => KillTimerMatchesFlag
  BY DEF IndInv
<1> QED
  BY IndInvHolds, <1>1, PTL

\* An armed idle timer always fires by the idle deadline.
THEOREM IdleDeadline == Spec => []IdleDeadlineKept
<1>1. IndInv => IdleDeadlineKept
  BY DEF IndInv
<1> QED
  BY IndInvHolds, <1>1, PTL

\* No message of a client that has been replaced is ever processed.
THEOREM ReplacedIsSilent == Spec => ReplacedClientIsSilent
<1> DEFINE Silent == \A c \in Cons, a \in BOOLEAN : GotMessage(c, a) => c = list[Len(list)]
<1>1. IndInv => Silent
  <2> SUFFICES ASSUME IndInv, NEW c \in Cons, NEW a \in BOOLEAN, GotMessage(c, a)
               PROVE  c = list[Len(list)]
    OBVIOUS
  <2>1. PICK i \in 1..Len(list) : list[i] = c
    BY ListFacts DEF IndInv, GotMessage, Members
  <2>2. connected[list[i]]
    BY <2>1 DEF GotMessage, MayRecv
  <2>3. i \notin 1..(Len(list) - 1)
    BY <2>2 DEF IndInv, OnlyNewestConnected
  <2> QED
    BY <2>1, <2>3, ListFacts DEF IndInv
<1> QED
  BY IndInvHolds, <1>1, PTL DEF ReplacedClientIsSilent
=============================================================================
