------------------------------ MODULE OutStream ------------------------------
(***************************************************************************)
(* The stream of orders to one client (module/rdpClientCon.c).             *)
(*                                                                         *)
(* Orders are collected in out_s between a begin and an end of update, and *)
(* leave as messages: a header with their number, then the orders.  Some   *)
(* orders announce a file descriptor, which is sent on its own once the    *)
(* message has gone.  xrdp reads header, orders and descriptor in this     *)
(* order and has no way to find its place again.                           *)
(*                                                                         *)
(* todo is what is left of the handler that the thread is in, in steps of  *)
(* one order or one send; told and wire are what is left of the message    *)
(* that it is sending.  The socket takes a message piece by piece, and     *)
(* xrdp reads as it does; before each piece the send may be given up, or   *)
(* find the connection broken.                                             *)
(***************************************************************************)
EXTENDS Integers, Sequences

VARIABLES
  connected,   \* clientCon->connected
  alive,       \* the socket reaches xrdp
  begin,       \* clientCon->begin
  count,       \* clientCon->count
  unacked,     \* clientCon->rect_id > clientCon->rect_id_ack
  out,         \* the orders in clientCon->out_s
  todo,        \* the steps that the handler has left
  told,        \* the number of orders in a header that is still to be sent, or 0
  wire,        \* the orders of the message that are still to be sent
  left,        \* xrdp: orders it expects of the message it is reading
  owed,        \* xrdp: descriptors it expects after the message
  open,        \* xrdp: inside an update
  inSync,      \* xrdp has found what it expected so far
  arrived,     \* xrdp has a frame to acknowledge
  givenUp      \* a send has been given up on this connection

socket  == <<connected, alive>>
server  == <<begin, count, out, unacked>>
message == <<told, wire>>
xrdp    == <<left, owed, open, inSync, arrived>>
vars    == <<socket, server, todo, message, xrdp, givenUp>>

\* Orders by what matters to the stream: "frame" and "cursor" announce a
\* descriptor, "large" is a frame with so many rectangles that it needs the
\* stream for itself, "local" a frame that the assistant process takes from
\* video memory.
Updates  == {"plain", "frame", "large", "local", "cursor"}
Metadata == {"monitors", "memory", "version"}
Orders   == Updates \cup Metadata \cup {"begin", "end"}

Frames       == {"frame", "large", "local"}
Announces(o) == o \in {"frame", "large", "cursor"}

\* The handlers, as the steps they consist of; the name of an order stands for
\* the step that writes it.
Solid      == <<"BeginUpdate", "plain", "plain", "plain", "plain", "EndUpdate">>
Cursor     == <<"BeginUpdate", "plain", "EndUpdate">>
CursorShm  == <<"BeginUpdate", "cursor", "SendPending", "SendFd", "EndUpdate">>
CursorMove == <<"BeginUpdate", "cursor", "SendPending", "SendFd", "plain", "EndUpdate">>
Paint(o)   == <<"BeginUpdate", o, "SendPending", "SendFd", "EndUpdate">>
PaintLocal == <<"BeginUpdate", "local", "EndUpdate">>
Monitors   == <<"SendPending", "monitors">>
Memory     == <<"SendPending", "memory">>
Caps       == <<"version">>

Captures == {Paint("frame"), Paint("large"), PaintLocal}
Handlers == Captures \cup {Solid, Cursor, CursorShm, CursorMove, Monitors, Memory, Caps}

\* What a handler may have left.
Stages == UNION {{SubSeq(h, i, Len(h)) : i \in 1..(Len(h) + 1)} : h \in Handlers}

TypeOK ==
  /\ connected \in BOOLEAN
  /\ alive \in BOOLEAN
  /\ begin \in BOOLEAN
  /\ count \in 0..6
  /\ out \in Seq(Orders)
  /\ unacked \in BOOLEAN
  /\ todo \in Stages
  /\ told \in 0..6
  /\ wire \in Seq(Orders)
  /\ left \in 0..6
  /\ owed \in 0..1
  /\ open \in BOOLEAN
  /\ inSync \in BOOLEAN
  /\ arrived \in BOOLEAN
  /\ givenUp \in BOOLEAN

\* rdpClientConGotConnection: a new object starts from zero.
Init ==
  /\ connected = TRUE
  /\ alive = TRUE
  /\ begin = FALSE
  /\ count = 0
  /\ out = <<>>
  /\ unacked = FALSE
  /\ todo = <<>>
  /\ told = 0
  /\ wire = <<>>
  /\ left = 0
  /\ owed = 0
  /\ open = FALSE
  /\ inSync = TRUE
  /\ arrived = FALSE
  /\ givenUp = FALSE

-----------------------------------------------------------------------------
(* xrdp reads: a header, an order, a descriptor, in whatever order they come. *)

\* Nothing that it reads makes sense any more.
OutOfStep ==
  /\ left' = 0
  /\ owed' = 0
  /\ open' = FALSE
  /\ inSync' = FALSE
  /\ arrived' = FALSE

ReadHeader(n) ==
  IF inSync /\ left = 0 /\ owed = 0
  THEN left' = n /\ UNCHANGED <<owed, open, inSync, arrived>>
  ELSE OutOfStep

ReadFd ==
  IF inSync /\ left = 0 /\ owed = 1
  THEN owed' = 0 /\ UNCHANGED <<left, open, inSync, arrived>>
  ELSE OutOfStep

\* Updates begin and end by turns, drawing orders are inside one, and a second
\* descriptor is not announced before the first has come.
Expected(o) ==
  /\ left > 0
  /\ o = "begin" => ~open
  /\ o \in Updates \cup {"end"} => open
  /\ Announces(o) => owed = 0

ReadOrder(o) ==
  IF inSync /\ Expected(o)
  THEN /\ left' = left - 1
       /\ owed' = IF Announces(o) THEN 1 ELSE owed
       /\ open' = (o = "begin" \/ (open /\ o # "end"))
       /\ arrived' = (arrived \/ o \in Frames)
       /\ UNCHANGED inSync
  ELSE OutOfStep

-----------------------------------------------------------------------------
(* rdpClientConSend *)

SendHeader ==
  /\ told > 0
  /\ told' = 0
  /\ ReadHeader(told)
  /\ UNCHANGED <<socket, wire, givenUp>>

SendOrder ==
  /\ told = 0
  /\ wire' = Tail(wire)
  /\ ReadOrder(Head(wire))
  /\ UNCHANGED <<socket, told, givenUp>>

\* "Just because we couldn't after 100 retries does not mean we're
\* disconnected": the rest is dropped, and the caller told that all is well.
GiveUp ==
  /\ told' = 0
  /\ wire' = <<>>
  /\ givenUp' = TRUE
  /\ UNCHANGED <<socket, xrdp>>

\* An error other than a full socket.
SendBroken ==
  /\ told' = 0
  /\ wire' = <<>>
  /\ connected' = FALSE
  /\ alive' = FALSE
  /\ UNCHANGED <<xrdp, givenUp>>

\* The thread waits until the socket has taken the message.
Send ==
  /\ wire # <<>>
  /\ SendHeader \/ SendOrder \/ GiveUp \/ SendBroken
  /\ UNCHANGED <<server, todo>>

\* rdpClientConSendMsg: n is the number of orders that the header tells.
SendMsg(n, orders) ==
  IF connected THEN told' = n /\ wire' = orders ELSE UNCHANGED message

-----------------------------------------------------------------------------
(* The steps of the handlers. *)

\* rdpClientConBeginUpdate: what count and out_s are afterwards.
Begun ==
  IF begin THEN [count |-> count, out |-> out]
           ELSE [count |-> 1, out |-> <<"begin">>]

BeginUpdate ==
  /\ begin' = TRUE
  /\ count' = Begun.count
  /\ out' = Begun.out
  /\ UNCHANGED <<unacked, message>>

\* Mutant: the number of orders is not started again after a flush.
AfterFlushKept(n) == n

\* "clientCon->count = 0" in rdpClientConPreCheck.
AfterFlush(n) == 0

\* rdpClientConPreCheck and the order.  A large order does not fit behind the
\* begin of the update, which is sent first.  Only frames are written for a
\* client that is not connected.
WriteOrder(o) ==
  IF ~connected /\ o = "plain"
  THEN UNCHANGED <<server, message>>
  ELSE /\ begin' = TRUE
       /\ unacked' = (unacked \/ o \in Frames)
       /\ IF o = "large"
          THEN /\ SendMsg(Begun.count, Begun.out)
               /\ count' = AfterFlush(Begun.count) + 1
               /\ out' = <<o>>
          ELSE /\ count' = Begun.count + 1
               /\ out' = Append(Begun.out, o)
               /\ UNCHANGED message

\* "clientCon->count++" in rdpClientConSendPending.
EndCounted == count + 1

SendUpdate ==
  IF connected /\ begin
  THEN SendMsg(EndCounted, Append(out, "end"))
  ELSE UNCHANGED message

\* Mutant: the update stays begun.
SendPendingOpen ==
  /\ SendUpdate
  /\ UNCHANGED <<begin, count, out, unacked>>

\* rdpClientConSendPending
SendPending ==
  /\ SendUpdate
  /\ begin' = FALSE
  /\ count' = 0
  /\ out' = <<>>
  /\ UNCHANGED unacked

\* Mutant: an update is only sent when it announces a descriptor.
EndUpdateLater ==
  IF connected /\ begin /\ \E i \in DOMAIN out : Announces(out[i])
  THEN SendPending ELSE UNCHANGED <<server, message>>

\* rdpClientConEndUpdate; do_dirty_ons is set when the first client connects.
EndUpdate ==
  IF connected /\ begin THEN SendPending ELSE UNCHANGED <<server, message>>

\* g_sck_send_fd_set, whatever became of the message, and of the connection;
\* what it returns is not looked at.
SendFd ==
  /\ \/ alive /\ ReadFd /\ UNCHANGED givenUp
     \/ alive /\ givenUp' = TRUE /\ UNCHANGED xrdp
     \/ ~alive /\ UNCHANGED <<xrdp, givenUp>>
  /\ UNCHANGED <<server, message>>

\* rdpSendAccelAssistMonitors and rdpSendMemoryAllocationComplete start the
\* stream again and leave count as it is; rdpClientConSendCaps has a stream of
\* its own.
SendMetadata(o) ==
  LET orders == IF o = "monitors" THEN <<o, o>> ELSE <<o>>
      n      == Len(orders) + (IF o = "version" THEN 0 ELSE count)
  IN /\ SendMsg(n, orders)
     /\ IF o = "version" THEN UNCHANGED <<count, out>>
                         ELSE count' = n /\ out' = <<>>
     /\ UNCHANGED <<begin, unacked>>

-----------------------------------------------------------------------------
\* The thread has left the handler that it was in.
Idle == todo = <<>> /\ wire = <<>>

\* The thread enters a handler.  Of a large cursor nothing but the begin of the
\* update is left for a client that is not connected, as of a small one.
Enter ==
  /\ Idle
  /\ todo' \in Handlers
  /\ todo' \in {Solid, CursorShm, CursorMove} => connected
  /\ todo' \in Captures => ~unacked
  /\ UNCHANGED <<socket, server, message, xrdp, givenUp>>

\* The steps that write to out_s, or send what has been written.
Write(step) ==
  /\ \/ step = "BeginUpdate" /\ BeginUpdate
     \/ step = "SendPending" /\ SendPending
     \/ step = "EndUpdate"   /\ EndUpdate
     \/ step \in Updates     /\ WriteOrder(step)
     \/ step \in Metadata    /\ SendMetadata(step)
  /\ UNCHANGED <<xrdp, givenUp>>

Step ==
  /\ todo # <<>>
  /\ wire = <<>>
  /\ todo' = Tail(todo)
  /\ Write(Head(todo)) \/ (Head(todo) = "SendFd" /\ SendFd)
  /\ UNCHANGED socket

\* rdpClientConProcessMsgClientRegionEx: xrdp acknowledges a frame.
Ack ==
  /\ Idle
  /\ connected
  /\ arrived
  /\ arrived' = FALSE
  /\ unacked' = FALSE
  /\ UNCHANGED <<socket, begin, count, out, todo, message, left, owed, open, inSync, givenUp>>

\* rdpClientConGotConnection marks the client for another that connects; its
\* xrdp goes on reading.
Replaced ==
  /\ Idle
  /\ connected
  /\ connected' = FALSE
  /\ UNCHANGED <<alive, server, todo, message, xrdp, givenUp>>

\* The client is removed, and another connects.
Reconnect ==
  /\ Idle
  /\ ~connected
  /\ connected' = TRUE
  /\ alive' = TRUE
  /\ begin' = FALSE
  /\ count' = 0
  /\ out' = <<>>
  /\ unacked' = FALSE
  /\ left' = 0
  /\ owed' = 0
  /\ open' = FALSE
  /\ inSync' = TRUE
  /\ arrived' = FALSE
  /\ givenUp' = FALSE
  /\ UNCHANGED <<todo, message>>

Next == Enter \/ Step \/ Send \/ Ack \/ Replaced \/ Reconnect

Spec == Init /\ [][Next]_vars

-----------------------------------------------------------------------------
(* Properties *)

\* As long as no send has been given up, a connected client finds every header,
\* order, begin and end of update and descriptor where it expects it, through
\* flushes in the middle of updates and metadata messages in between; and
\* between handlers it has nothing left to wait for: no order of a message, no
\* descriptor, no end of an update.
InStep ==
  connected /\ ~givenUp =>
    /\ inSync
    /\ Idle => left = 0 /\ owed = 0 /\ ~open

\* A frame that the server waits for has reached xrdp: had it stayed in the
\* stream, it would not be acknowledged and no other frame would follow.
FrameArrives ==
  Idle /\ connected /\ ~givenUp => (unacked <=> arrived)

(* Violated: what the comment in rdpClientConSend says of a full socket. *)

\* "Just because we couldn't after 100 retries does not mean we're
\* disconnected": the connection can be used after a send that was given up.
UsableAfterGivingUp == connected => inSync
=============================================================================
