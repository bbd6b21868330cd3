--------------------------- MODULE OutStreamProofs ---------------------------
(***************************************************************************)
(* Proofs about OutStream.                                                 *)
(*                                                                         *)
(* StreamInv is the inductive invariant.  It says of every order that is   *)
(* still to be sent that xrdp will find it in its place, and what xrdp     *)
(* expects once it has read them: what the server has in mind.             *)
(***************************************************************************)
EXTENDS OutStream, SequenceTheorems, TLAPS

\* The next step of the handler.
At(steps) == todo # <<>> /\ Head(todo) \in steps

\* The next steps send an order that announces a descriptor, and the descriptor.
Sending == At({"SendPending"}) /\ Tail(todo) # <<>> /\ Head(Tail(todo)) = "SendFd"

Announced(q) == \E i \in DOMAIN q : Announces(q[i])
Framed(q)    == \E i \in DOMAIN q : q[i] \in Frames

\* A part of an update: it begins first or not at all, and announces one
\* descriptor at most.
Part(q) ==
  /\ \A i \in DOMAIN q : q[i] = "begin" => i = 1
  /\ \A i, j \in DOMAIN q : Announces(q[i]) /\ Announces(q[j]) => i = j

\* What out_s holds.  A client that has been marked gets a frame at most.
Counted ==
  /\ begin <=> out # <<>>
  /\ ~begin => count <= 2
  /\ At({"monitors", "memory"}) => count = 0 /\ ~begin
  /\ connected /\ begin => count = Len(out) /\ Len(out) + Len(todo) <= 6
  /\ ~connected /\ begin => count <= IF unacked THEN 2 ELSE 1
  /\ ~connected /\ At(Frames) => ~unacked
  /\ ~connected /\ At({"BeginUpdate"}) /\ Head(Tail(todo)) \in Frames => ~unacked
  /\ ~connected => ~At({"cursor"})
  /\ ~connected /\ At({"BeginUpdate"}) => Head(Tail(todo)) # "cursor"

\* Between its handlers, and where a handler begins an update, nothing is in
\* out_s; in the midst of one there is what the handler has written.
Written ==
  /\ todo = <<>> \/ At({"BeginUpdate", "SendFd"} \cup Metadata) => ~begin
  /\ At({"SendPending"}) => (begin <=> Sending)
  /\ At(Updates \ {"plain"}) => out = <<"begin">>
  /\ At({"plain", "EndUpdate"}) /\ begin => out[1] = "begin"
  /\ begin => out[1] = "begin" \/ out = <<"large">>
  /\ \A i \in DOMAIN out : i > 1 => out[i] \in Updates
  /\ Part(out)
  /\ Announced(out) <=> Sending
  /\ wire # <<>> => ~At({"BeginUpdate", "cursor"} \cup Frames)
  /\ wire # <<>> /\ begin => out = <<"large">>

\* What xrdp makes of the orders that are still to be sent.
Readable ==
  /\ inSync
  /\ told > 0 => left = 0 /\ owed = 0 /\ told = Len(wire)
  /\ told = 0 => left = Len(wire)
  /\ Part(wire)
  /\ \A i \in DOMAIN wire :
       /\ wire[i] = "begin" => ~open
       /\ wire[i] \in Updates \cup {"end"} => open \/ wire[1] = "begin"
       /\ wire[i] = "end" => i = Len(wire)
       /\ Announces(wire[i]) => owed = 0

\* Once it has read them it is where the server is.
Agreed ==
  /\ (open \/ (wire # <<>> /\ wire[1] = "begin")) /\ (wire # <<>> => wire[Len(wire)] # "end")
       <=> begin /\ out[1] # "begin"
  /\ owed = 1 \/ Announced(wire) <=> At({"SendFd"})
  /\ unacked <=> arrived \/ Framed(wire) \/ Framed(out)

\* A message is sent on a connection.
Linked ==
  /\ connected => alive
  /\ wire # <<>> => connected
  /\ told > 0 => wire # <<>>

StreamInv ==
  /\ TypeOK
  /\ Linked
  /\ Counted
  /\ connected => Written
  /\ connected /\ ~givenUp => Readable /\ Agreed

-----------------------------------------------------------------------------
(* The steps of the handlers *)

Steps == Orders \cup {"BeginUpdate", "SendPending", "SendFd", "EndUpdate"}

\* What follows a step of a handler.
Follows(s, rest) ==
  /\ s = "BeginUpdate" => rest # <<>> /\ Head(rest) \in Updates
  /\ s \in {"frame", "large", "cursor"} =>
       /\ rest # <<>> /\ Head(rest) = "SendPending"
       /\ Tail(rest) # <<>> /\ Head(Tail(rest)) = "SendFd"
  /\ s \in {"plain", "SendFd"} => rest # <<>> /\ Head(rest) \in {"plain", "EndUpdate"}
  /\ s = "local" => rest # <<>> /\ Head(rest) = "EndUpdate"
  /\ s = "SendPending" => rest # <<>> /\ Head(rest) \in {"SendFd", "monitors", "memory"}
  /\ s \in {"EndUpdate"} \cup Metadata => rest = <<>>
  /\ s \in Updates => Len(rest) <= 4

\* The handlers are sequences of steps, of which the table says what follows.
LEMMA HandlerSteps ==
  ASSUME NEW h \in Handlers
  PROVE  /\ h \in Seq(Steps) /\ Len(h) \in 1..6 /\ h # <<>>
         /\ \A i \in 1..Len(h) :
              /\ h[i] = "BeginUpdate" => i < Len(h) /\ h[i + 1] \in Updates
              /\ h[i] \in {"frame", "large", "cursor"} =>
                   i + 1 < Len(h) /\ h[i + 1] = "SendPending" /\ h[i + 2] = "SendFd"
              /\ h[i] \in {"plain", "SendFd"} => i < Len(h) /\ h[i + 1] \in {"plain", "EndUpdate"}
              /\ h[i] = "local" => i < Len(h) /\ h[i + 1] = "EndUpdate"
              /\ h[i] = "SendPending" => i < Len(h) /\ h[i + 1] \in {"SendFd", "monitors", "memory"}
              /\ h[i] \in {"EndUpdate"} \cup Metadata => i = Len(h)
              /\ h[i] \in Updates => i > 1
<1> USE DEF Steps, Orders, Updates, Metadata
<1>1. CASE h = Solid
  BY <1>1 DEF Solid
<1>2. CASE h = Cursor
  BY <1>2 DEF Cursor
<1>3. CASE h = CursorShm
  BY <1>3 DEF CursorShm
<1>4. CASE h = CursorMove
  BY <1>4 DEF CursorMove
<1>5. CASE h = Paint("frame")
  BY <1>5 DEF Paint
<1>6. CASE h = Paint("large")
  BY <1>6 DEF Paint
<1>7. CASE h = PaintLocal
  BY <1>7 DEF PaintLocal
<1>8. CASE h = Monitors
  BY <1>8 DEF Monitors
<1>9. CASE h = Memory
  BY <1>9 DEF Memory
<1>10. CASE h = Caps
  BY <1>10 DEF Caps
<1> QED
  BY <1>1, <1>2, <1>3, <1>4, <1>5, <1>6, <1>7, <1>8, <1>9, <1>10 DEF Handlers, Captures

\* What is left of a handler, after its first step.
LEMMA StageSteps ==
  ASSUME NEW t \in Stages
  PROVE  /\ t \in Seq(Steps) /\ Len(t) \in 0..6
         /\ t # <<>> => /\ Head(t) \in Steps
                        /\ Tail(t) \in Stages
                        /\ Len(Tail(t)) = Len(t) - 1
                        /\ Follows(Head(t), Tail(t))
<1>0. PICK h \in Handlers : \E i \in 1..(Len(h) + 1) : t = SubSeq(h, i, Len(h))
  BY DEF Stages
<1>1. PICK i \in 1..(Len(h) + 1) : t = SubSeq(h, i, Len(h))
  BY <1>0
<1>2. h \in Seq(Steps) /\ Len(h) \in 1..6
  BY HandlerSteps
<1>3. \A j \in i..Len(h) : h[j] \in Steps
  BY <1>2
<1>4. t \in Seq(Steps) /\ Len(t) = Len(h) - i + 1
  <2>1. i \in Int /\ Len(h) \in Int
    BY <1>2
  <2>2. t \in Seq(Steps) /\ Len(t) = IF i <= Len(h) THEN Len(h) - i + 1 ELSE 0
    BY <1>1, <1>3, <2>1, SubSeqProperties
  <2> QED
    BY <1>2, <2>2
<1>5. Len(t) \in 0..6
  <2>1. Len(h) \in 1..6 /\ Len(t) = Len(h) - i + 1
    BY <1>2, <1>4
  <2>2. i \in Int /\ 1 <= i /\ i <= Len(h) + 1
    BY <1>1, <2>1
  <2> DEFINE n == Len(h)
             m == Len(t)
  <2>3. n \in 1..6 /\ m = n - i + 1 /\ i \in Int /\ 1 <= i /\ i <= n + 1
    BY <2>1, <2>2
  <2>4. m \in 0..6
    <3> HIDE DEF n, m
    <3> QED
      BY <2>3
  <2> QED
    BY <2>4
<1>6. SUFFICES ASSUME t # <<>>
               PROVE  /\ Head(t) \in Steps
                      /\ Tail(t) \in Stages
                      /\ Len(Tail(t)) = Len(t) - 1
                      /\ Follows(Head(t), Tail(t))
  BY <1>4, <1>5
<1>7. i \in 1..Len(h)
  <2>1. Len(t) # 0
    BY <1>4, <1>6, EmptySeq
  <2> QED
    BY <1>2, <1>4, <2>1
<1>8. Head(t) = h[i] /\ Tail(t) = SubSeq(h, i + 1, Len(h))
  <2>1. Len(h) \in i..Len(h)
    BY <1>2, <1>7
  <2> QED
    BY <1>1, <1>2, <1>7, <2>1, HeadTailOfSubSeq
<1>9. Head(t) \in Steps /\ Len(Tail(t)) = Len(t) - 1
  BY <1>4, <1>6, HeadTailProperties
<1>10. Tail(t) \in Stages
  <2>1. i + 1 \in 1..(Len(h) + 1)
    BY <1>2, <1>7
  <2>2. Tail(t) \in {SubSeq(h, k, Len(h)) : k \in 1..(Len(h) + 1)}
    BY <1>8, <2>1
  <2> QED
    BY <2>2 DEF Stages
<1>11. i = Len(h) => Tail(t) = <<>>
  BY <1>2, <1>8, SubSeqEmpty
<1>12. ASSUME NEW j \in 1..Len(h)
       PROVE  SubSeq(h, j, Len(h)) # <<>> /\ Head(SubSeq(h, j, Len(h))) = h[j]
                /\ Tail(SubSeq(h, j, Len(h))) = SubSeq(h, j + 1, Len(h))
  <2>1. Len(h) \in j..Len(h) /\ j \in Int /\ Len(h) \in Int
    BY <1>2
  <2>2. \A k \in j..Len(h) : h[k] \in Steps
    BY <1>2
  <2>3. Len(SubSeq(h, j, Len(h))) = Len(h) - j + 1
    BY <2>1, <2>2, SubSeqProperties
  <2>4. SubSeq(h, j, Len(h)) # <<>>
    BY <2>1, <2>3, EmptySeq
  <2> QED
    BY <1>2, <2>1, <2>4, HeadTailOfSubSeq
<1>13. i < Len(h) => Tail(t) # <<>> /\ Head(Tail(t)) = h[i + 1]
  <2>1. i < Len(h) => i + 1 \in 1..Len(h)
    BY <1>2, <1>7
  <2> QED
    BY <1>8, <1>12, <2>1
<1>14. i + 1 < Len(h) => Tail(Tail(t)) # <<>> /\ Head(Tail(Tail(t))) = h[i + 2]
  <2>1. i + 1 < Len(h) => i + 1 \in 1..Len(h) /\ i + 2 \in 1..Len(h) /\ i + 1 + 1 = i + 2
    BY <1>2, <1>7
  <2> QED
    BY <1>8, <1>12, <2>1
<1>15. Follows(Head(t), Tail(t))
  <2>1. /\ h[i] = "BeginUpdate" => i < Len(h) /\ h[i + 1] \in Updates
        /\ h[i] \in {"frame", "large", "cursor"} =>
             i + 1 < Len(h) /\ h[i + 1] = "SendPending" /\ h[i + 2] = "SendFd"
        /\ h[i] \in {"plain", "SendFd"} => i < Len(h) /\ h[i + 1] \in {"plain", "EndUpdate"}
        /\ h[i] = "local" => i < Len(h) /\ h[i + 1] = "EndUpdate"
        /\ h[i] = "SendPending" => i < Len(h) /\ h[i + 1] \in {"SendFd", "monitors", "memory"}
        /\ h[i] \in {"EndUpdate"} \cup Metadata => i = Len(h)
        /\ h[i] \in Updates => i > 1
    BY <1>7, HandlerSteps
  <2>2. i + 1 < Len(h) => i < Len(h)
    BY <1>2, <1>7
  <2>3. h[i] = Head(t)
    BY <1>8
  <2>4. i > 1 => Len(Tail(t)) <= 4
    BY <1>2, <1>4, <1>9
  <2> QED
    BY <1>11, <1>13, <1>14, <2>1, <2>2, <2>3, <2>4, Zenon DEF Follows
<1> QED
  BY <1>9, <1>10, <1>15

-----------------------------------------------------------------------------
(* Sequences of orders *)

\* Nothing is announced where nothing is.
LEMMA OfNothing == ~Announced(<<>>) /\ ~Framed(<<>>) /\ Part(<<>>)
  BY DEF Announced, Framed, Part

\* An order at the end.
LEMMA Appended ==
  ASSUME NEW q \in Seq(Orders), NEW o \in Orders
  PROVE  /\ Append(q, o) \in Seq(Orders) /\ Append(q, o) # <<>>
         /\ Len(Append(q, o)) = Len(q) + 1
         /\ Append(q, o)[Len(q) + 1] = o
         /\ \A i \in DOMAIN q : Append(q, o)[i] = q[i]
         /\ DOMAIN q = 1..Len(q) /\ DOMAIN Append(q, o) = 1..(Len(q) + 1)
         /\ Announced(Append(q, o)) <=> Announced(q) \/ Announces(o)
         /\ Framed(Append(q, o)) <=> Framed(q) \/ o \in Frames
         /\ o # "begin" /\ Part(q) /\ ~(Announces(o) /\ Announced(q)) => Part(Append(q, o))
<1> DEFINE r == Append(q, o)
<1>1. /\ r \in Seq(Orders) /\ r # <<>>
      /\ Len(r) = Len(q) + 1
      /\ r[Len(q) + 1] = o
      /\ \A i \in DOMAIN q : r[i] = q[i]
      /\ DOMAIN q = 1..Len(q) /\ DOMAIN r = 1..(Len(q) + 1)
      /\ Len(q) \in Nat
  OBVIOUS
<1> HIDE DEF r
<1>2. DOMAIN r = DOMAIN q \cup {Len(q) + 1} /\ Len(q) + 1 \notin DOMAIN q
  BY <1>1
<1>3. Announced(r) <=> Announced(q) \/ Announces(o)
  BY <1>1, <1>2, Zenon DEF Announced
<1>4. Framed(r) <=> Framed(q) \/ o \in Frames
  BY <1>1, <1>2, Zenon DEF Framed
<1>5. o # "begin" /\ Part(q) /\ ~(Announces(o) /\ Announced(q)) => Part(r)
  BY <1>1, <1>2, Zenon DEF Part, Announced
<1> QED
  BY <1>1, <1>3, <1>4, <1>5 DEF r

\* One order.
LEMMA Alone ==
  ASSUME NEW o \in Orders
  PROVE  /\ <<o>> \in Seq(Orders) /\ <<o>> # <<>> /\ Len(<<o>>) = 1
         /\ <<o>>[1] = o /\ DOMAIN <<o>> = {1}
         /\ Announced(<<o>>) <=> Announces(o)
         /\ Framed(<<o>>) <=> o \in Frames
         /\ Part(<<o>>)
<1>1. /\ <<o>> \in Seq(Orders) /\ <<o>> # <<>> /\ Len(<<o>>) = 1
      /\ <<o>>[1] = o /\ DOMAIN <<o>> = {1}
  OBVIOUS
<1> QED
  BY <1>1, Zenon DEF Announced, Framed, Part

\* What is left when the first order has been taken.
LEMMA Taken ==
  ASSUME NEW q \in Seq(Orders), q # <<>>
  PROVE  /\ Head(q) = q[1] /\ q[1] \in Orders
         /\ Tail(q) \in Seq(Orders)
         /\ Len(q) \in Nat \ {0} /\ Len(Tail(q)) = Len(q) - 1
         /\ DOMAIN q = 1..Len(q) /\ DOMAIN Tail(q) = 1..(Len(q) - 1)
         /\ \A i \in DOMAIN Tail(q) : Tail(q)[i] = q[i + 1] /\ i + 1 \in DOMAIN q
         /\ Tail(q) = <<>> <=> Len(q) = 1
         /\ Announced(q) <=> Announces(q[1]) \/ Announced(Tail(q))
         /\ Framed(q) <=> q[1] \in Frames \/ Framed(Tail(q))
         /\ Part(q) => Part(Tail(q)) /\ ~(Announces(q[1]) /\ Announced(Tail(q)))
<1> DEFINE t == Tail(q)
<1>1. /\ Head(q) = q[1] /\ q[1] \in Orders
      /\ t \in Seq(Orders)
      /\ Len(q) \in Nat \ {0} /\ Len(t) = Len(q) - 1
      /\ DOMAIN q = 1..Len(q) /\ DOMAIN t = 1..(Len(q) - 1)
      /\ \A i \in DOMAIN t : t[i] = q[i + 1]
  BY HeadTailProperties
<1> HIDE DEF t
<1>8. t = <<>> <=> Len(q) = 1
  <2>1. Len(<<>>) = 0 /\ (t # <<>> => Len(t) # 0)
    BY <1>1, EmptySeq
  <2> QED
    BY <1>1, <2>1
<1>2. \A i \in DOMAIN t : i + 1 \in DOMAIN q /\ i + 1 # 1
  BY <1>1
<1>3. \A i \in DOMAIN q : i = 1 \/ \E j \in DOMAIN t : i = j + 1
  <2> SUFFICES ASSUME NEW i \in DOMAIN q, i # 1 PROVE \E j \in DOMAIN t : i = j + 1
    OBVIOUS
  <2>1. i - 1 \in DOMAIN t /\ i = (i - 1) + 1
    BY <1>1
  <2> QED
    BY <2>1
<1>4. 1 \in DOMAIN q
  BY <1>1
<1>5. Announced(q) <=> Announces(q[1]) \/ Announced(t)
  BY <1>1, <1>2, <1>3, <1>4, Zenon DEF Announced
<1>6. Framed(q) <=> q[1] \in Frames \/ Framed(t)
  BY <1>1, <1>2, <1>3, <1>4, Zenon DEF Framed
<1>7. Part(q) => Part(t) /\ ~(Announces(q[1]) /\ Announced(t))
  <2> SUFFICES ASSUME Part(q) PROVE Part(t) /\ ~(Announces(q[1]) /\ Announced(t))
    OBVIOUS
  <2>1. \A i \in DOMAIN t : t[i] # "begin"
    BY <1>1, <1>2, Zenon DEF Part
  <2>2. \A i, j \in DOMAIN t : i + 1 = j + 1 => i = j
    BY <1>1
  <2>3. \A i, j \in DOMAIN t : Announces(t[i]) /\ Announces(t[j]) => i = j
    BY <1>1, <1>2, <2>2, Zenon DEF Part
  <2>4. ~(Announces(q[1]) /\ Announced(t))
    BY <1>1, <1>2, <1>4, Zenon DEF Part, Announced
  <2> QED
    BY <2>1, <2>3, <2>4, Zenon DEF Part
<1> QED
  BY <1>1, <1>2, <1>5, <1>6, <1>7, <1>8 DEF t

-----------------------------------------------------------------------------
(* The invariant at the start, and as a handler is entered *)

\* A handler that is entered.
LEMMA Entered ==
  ASSUME NEW h \in Handlers
  PROVE  /\ h \in Stages /\ h # <<>> /\ Len(h) \in 1..6
         /\ Head(h) \in {"BeginUpdate", "SendPending", "version"}
         /\ Head(h) = "SendPending" => Head(Tail(h)) \in {"monitors", "memory"}
         /\ Head(h) = "BeginUpdate" /\ Head(Tail(h)) \in Frames => h \in Captures
         /\ Head(h) = "BeginUpdate" /\ Head(Tail(h)) = "cursor" => h \in {CursorShm, CursorMove}
<1>1. h \in Seq(Steps) /\ Len(h) \in 1..6
  BY HandlerSteps
<1>2. h \in Stages
  <2>1. h = SubSeq(h, 1, Len(h))
    BY <1>1, SubSeqFull
  <2>2. 1 \in 1..(Len(h) + 1)
    BY <1>1
  <2>3. h \in {SubSeq(h, i, Len(h)) : i \in 1..(Len(h) + 1)}
    BY <2>1, <2>2
  <2> QED
    BY <2>3 DEF Stages
<1>3. h # <<>>
  BY HandlerSteps
<1>4. /\ Head(h) \in {"BeginUpdate", "SendPending", "version"}
      /\ Head(h) = "SendPending" => Head(Tail(h)) \in {"monitors", "memory"}
      /\ Head(h) = "BeginUpdate" /\ Head(Tail(h)) \in Frames => h \in Captures
      /\ Head(h) = "BeginUpdate" /\ Head(Tail(h)) = "cursor" => h \in {CursorShm, CursorMove}
  <2>1. CASE h \in Captures
    BY <2>1 DEF Captures, Paint, PaintLocal, Frames
  <2>2. CASE h \in {Solid, Cursor}
    BY <2>2 DEF Solid, Cursor, Frames
  <2>3. CASE h \in {CursorShm, CursorMove}
    BY <2>3 DEF CursorShm, CursorMove, Frames
  <2>4. CASE h \in {Monitors, Memory, Caps}
    BY <2>4 DEF Monitors, Memory, Caps
  <2> QED
    BY <2>1, <2>2, <2>3, <2>4 DEF Handlers
<1> QED
  BY <1>1, <1>2, <1>3, <1>4

\* The step that the handler takes.
LEMMA NextStep ==
  ASSUME TypeOK, todo # <<>>, todo' = Tail(todo)
  PROVE  /\ todo' \in Stages /\ Len(todo') \in 0..5 /\ Len(todo) = Len(todo') + 1
         /\ Follows(Head(todo), todo')
<1>1. todo \in Stages
  BY DEF TypeOK
<1>2. Len(todo) \in 0..6 /\ Len(Tail(todo)) = Len(todo) - 1 /\ Len(Tail(todo)) \in 0..6
  BY <1>1, StageSteps
<1>3. Tail(todo) \in Stages /\ Follows(Head(todo), Tail(todo))
  BY <1>1, StageSteps
<1> QED
  BY <1>2, <1>3

LEMMA StreamAtInit == Init => StreamInv
<1> SUFFICES ASSUME Init PROVE StreamInv
  OBVIOUS
<1> USE DEF Init
<1>1. <<>> \in Stages
  <2>1. Caps \in Handlers
    BY DEF Handlers
  <2>2. Caps \in Stages /\ Tail(Caps) = <<>> /\ Caps # <<>>
    BY <2>1, Entered DEF Caps
  <2> QED
    BY <2>2, StageSteps, Zenon
<1>2. TypeOK
  <2>1. <<>> \in Seq(Orders)
    BY EmptySeq
  <2>2. out \in Seq(Orders) /\ wire \in Seq(Orders)
    BY <2>1
  <2>3. count \in 0..6 /\ told \in 0..6 /\ left \in 0..6 /\ owed \in 0..1
    OBVIOUS
  <2> QED
    BY <1>1, <2>2, <2>3, Zenon DEF TypeOK
<1>3. Linked /\ Counted
  BY DEF Linked, Counted, At
<1>4. Written /\ Readable
  BY OfNothing DEF Written, Readable, At, Sending
<1>5. Agreed
  BY OfNothing DEF Agreed, At
<1> QED
  BY <1>2, <1>3, <1>4, <1>5 DEF StreamInv

LEMMA EnterKept == StreamInv /\ Enter => StreamInv'
<1> SUFFICES ASSUME StreamInv, Enter PROVE StreamInv'
  OBVIOUS
<1> USE DEF StreamInv
<1>1. /\ UNCHANGED <<socket, server, message, xrdp, givenUp>>
      /\ todo = <<>> /\ wire = <<>> /\ todo' \in Handlers
      /\ todo' \in {Solid, CursorShm, CursorMove} => connected
      /\ todo' \in Captures => ~unacked
  BY DEF Enter, Idle
<1>2. /\ todo' \in Stages /\ todo' # <<>> /\ Len(todo') \in 1..6
      /\ Head(todo') \in {"BeginUpdate", "SendPending", "version"}
      /\ Head(todo') = "SendPending" => Head(Tail(todo')) \in {"monitors", "memory"}
      /\ Head(todo') = "BeginUpdate" /\ Head(Tail(todo')) \in Frames => ~unacked
      /\ Head(todo') = "BeginUpdate" /\ Head(Tail(todo')) = "cursor" => connected
  BY <1>1, Entered
<1>3. connected => ~begin /\ out = <<>>
  BY <1>1 DEF Counted, Written
<1> USE DEF socket, server, message, xrdp
<1>4. TypeOK'
  BY <1>1, <1>2 DEF TypeOK
<1>5. Linked'
  BY <1>1 DEF Linked
<1>6. Counted'
  BY <1>1, <1>2, <1>3 DEF Counted, At, Frames
<1>7. ASSUME connected PROVE Written'
  BY <1>1, <1>2, <1>3, <1>7, OfNothing DEF Written, At, Sending, Frames, Updates, Metadata
<1>8. ASSUME connected, ~givenUp PROVE Readable' /\ Agreed'
  <2>1. Readable'
    BY <1>1, <1>8 DEF Readable, Part, Announces
  <2>2. Agreed'
    <3>1. ~At({"SendFd"}) /\ ~At({"SendFd"})'
      BY <1>1, <1>2 DEF At
    <3> QED
      BY <1>1, <1>3, <1>8, <3>1 DEF Agreed, Announced, Framed
  <2> QED
    BY <2>1, <2>2
<1> QED
  BY <1>1, <1>4, <1>5, <1>6, <1>7, <1>8

-----------------------------------------------------------------------------
(* The steps that write and send *)

\* Between messages xrdp is where the server is.
LEMMA InBetween ==
  ASSUME StreamInv, wire = <<>>, connected, ~givenUp
  PROVE  /\ inSync /\ left = 0 /\ told = 0
         /\ open <=> begin /\ out[1] # "begin"
         /\ owed = 1 <=> At({"SendFd"})
         /\ ~At({"SendFd"}) => owed = 0
         /\ unacked <=> arrived \/ Framed(out)
<1>1. told = 0
  BY DEF StreamInv, TypeOK, Linked
<1>2. Len(wire) = 0
  BY EmptySeq
<1>3. owed \in 0..1
  BY DEF StreamInv, TypeOK
<1>4. ~Announced(wire) /\ ~Framed(wire)
  BY OfNothing
<1> QED
  BY <1>1, <1>2, <1>3, <1>4 DEF StreamInv, Readable, Agreed

\* Nothing is sent: what xrdp expects stays, and so must what the server has in
\* mind.
LEMMA Unsent ==
  ASSUME StreamInv, wire = <<>>, connected, ~givenUp, UNCHANGED <<message, xrdp>>,
         ~At({"SendFd"}), ~At({"SendFd"})',
         (begin /\ out[1] # "begin") <=> (begin /\ out[1] # "begin")',
         (unacked' <=> unacked \/ Framed(out)')
           \/ (unacked' = unacked /\ (Framed(out)' <=> Framed(out))),
         Framed(out) => Framed(out)'
  PROVE  (Readable /\ Agreed)'
<1>1. Readable'
  BY DEF StreamInv, Readable, Part, Announces, message, xrdp
<1>2. ~Announced(wire) /\ ~Framed(wire)
  BY OfNothing
<1>3. ~Announced(wire)' /\ ~Framed(wire)'
  BY <1>2 DEF Announced, Framed, message
<1>4. owed # 1 /\ open' = open /\ owed' = owed /\ arrived' = arrived /\ wire' = <<>>
  BY InBetween DEF message, xrdp
<1>5. (unacked <=> arrived \/ Framed(out))'
  BY <1>4, InBetween
<1>6. (owed = 1 \/ Announced(wire) <=> At({"SendFd"}))'
  BY <1>3, <1>4
<1>7. open' <=> (begin /\ out[1] # "begin")'
  BY <1>4, InBetween
<1>8. Agreed'
  BY <1>3, <1>4, <1>5, <1>6, <1>7 DEF Agreed
<1> QED
  BY <1>1, <1>8

\* A message of the orders q, which fits where xrdp is.
Fits(q, n) ==
  /\ q \in Seq(Orders) /\ q # <<>> /\ n = Len(q) /\ Part(q)
  /\ \A i \in DOMAIN q :
       /\ q[i] = "begin" => ~open
       /\ q[i] \in Updates \cup {"end"} => open \/ q[1] = "begin"
       /\ q[i] = "end" => i = Len(q)

LEMMA SentReadable ==
  ASSUME StreamInv, wire = <<>>, connected, ~givenUp, ~At({"SendFd"}), UNCHANGED xrdp,
         NEW q, NEW n, Fits(q, n), told' = n, wire' = q
  PROVE  Readable'
<1>1. inSync /\ left = 0 /\ owed = 0
  BY InBetween
<1>2. Len(q) \in Nat \ {0}
  BY EmptySeq DEF Fits
<1> QED
  BY <1>1, <1>2, Zenon DEF Fits, Readable, Part, xrdp, Announces

\* An update is begun.
LEMMA BeginUpdateKept ==
  ASSUME StreamInv, todo # <<>>, wire = <<>>, todo' = Tail(todo), Head(todo) = "BeginUpdate",
         BeginUpdate, UNCHANGED <<socket, xrdp, givenUp>>
  PROVE  StreamInv'
<1> USE DEF StreamInv
<1>1. /\ todo' \in Stages /\ Len(todo') \in 0..5 /\ Len(todo) = Len(todo') + 1
      /\ todo' # <<>> /\ Head(todo') \in Updates
  BY NextStep DEF Follows
<1>2. /\ begin' = TRUE
      /\ begin => count' = count /\ out' = out
      /\ ~begin => count' = 1 /\ out' = <<"begin">>
      /\ UNCHANGED <<unacked, message>>
  BY DEF BeginUpdate, Begun
<1>3. "begin" \in Orders
  BY DEF Orders
<1>4. connected => ~begin /\ out = <<>>
  BY DEF Counted, Written, At
<1> USE DEF socket, message, xrdp
<1>5. TypeOK'
  <2>1. <<"begin">> \in Seq(Orders)
    BY <1>3, Alone
  <2>2. count \in 0..6 /\ out \in Seq(Orders) /\ begin \in BOOLEAN
    BY DEF TypeOK
  <2>3. count' \in 0..6
    BY <1>2, <2>2
  <2>4. out' \in Seq(Orders)
    BY <1>2, <2>1, <2>2, Zenon
  <2> QED
    BY <1>1, <1>2, <2>3, <2>4 DEF TypeOK
<1>6. Linked'
  BY <1>2 DEF Linked
<1>7. Counted'
  <2>1. Len(<<"begin">>) = 1 /\ <<"begin">> # <<>>
    OBVIOUS
  <2>2. At({"BeginUpdate"}) /\ ~At({"monitors", "memory"})' /\ ~At({"BeginUpdate"})'
    BY <1>1 DEF At, Updates
  <2>3. (begin <=> out # <<>>)'
    BY <1>2, <2>1 DEF Counted
  <2>4. (connected /\ begin => count = Len(out) /\ Len(out) + Len(todo) <= 6)'
    <3> SUFFICES ASSUME connected PROVE count' = Len(out') /\ Len(out') + Len(todo') <= 6
      OBVIOUS
    <3>1. count' = 1 /\ Len(out') = 1
      BY <1>2, <1>4, <2>1
    <3> QED
      BY <1>1, <3>1
  <2>5. (~connected /\ begin => count <= IF unacked THEN 2 ELSE 1)'
    BY <1>2 DEF Counted
  <2>6. ~connected => (~(At(Frames))' /\ ~At({"cursor"})') \/ ~unacked
    BY <2>2 DEF Counted, At
  <2>7. ~connected => ~At({"cursor"})'
    BY <2>2 DEF Counted, At
  <2>8. (~connected /\ At(Frames) => ~unacked)'
    BY <1>2, <2>6
  <2> QED
    BY <1>2, <2>2, <2>3, <2>4, <2>5, <2>7, <2>8 DEF Counted
<1>8. ASSUME connected PROVE Written'
  <2>1. out' = <<"begin">> /\ out'[1] = "begin" /\ DOMAIN out' = {1}
    BY <1>2, <1>3, <1>4, <1>8, Alone
  <2>2. Part(out)' /\ ~Announced(out)'
    BY <1>3, <2>1, Alone DEF Announces, Part, Announced
  <2>3. ~Sending'
    BY <1>1 DEF Sending, At, Updates
  <2> QED
    BY <1>1, <1>2, <2>1, <2>2, <2>3 DEF Written, At, Updates, Metadata
<1>9. ASSUME connected, ~givenUp PROVE (Readable /\ Agreed)'
  <2>1. out' = <<"begin">> /\ out'[1] = "begin"
    BY <1>2, <1>4, <1>9
  <2>2. ~Framed(out) /\ ~Framed(out)'
    BY <1>3, <1>4, <1>9, <2>1, Alone, OfNothing DEF Frames, Framed
  <2>3. ~At({"SendFd"}) /\ ~At({"SendFd"})'
    BY <1>1 DEF At, Updates
  <2> QED
    BY <1>2, <1>4, <1>9, <2>1, <2>2, <2>3, Unsent
<1> QED
  BY <1>5, <1>6, <1>7, <1>8, <1>9

\* An order is written behind those that are there.
LEMMA OrderKept ==
  ASSUME StreamInv, todo # <<>>, wire = <<>>, todo' = Tail(todo),
         NEW o \in Updates \ {"large"}, Head(todo) = o, connected \/ o # "plain",
         WriteOrder(o), UNCHANGED <<socket, xrdp, givenUp>>
  PROVE  StreamInv'
<1> USE DEF StreamInv
<1> DEFINE before == IF begin THEN out ELSE <<"begin">>
           n      == IF begin THEN count ELSE 1
<1>1. /\ todo' \in Stages /\ Len(todo') \in 0..5 /\ Len(todo) = Len(todo') + 1
      /\ Follows(o, todo')
  BY NextStep
<1>2. /\ begin' = TRUE /\ count' = n + 1 /\ out' = Append(before, o)
      /\ unacked' = (unacked \/ o \in Frames)
      /\ UNCHANGED message
  BY DEF WriteOrder, Begun
<1>3. o \in Orders /\ "begin" \in Orders /\ o # "begin"
  BY DEF Orders, Updates
<1>4. before \in Seq(Orders)
  BY <1>3, Alone DEF TypeOK
<1>5. ASSUME connected
      PROVE  /\ before # <<>> /\ before[1] = "begin" /\ n = Len(before)
             /\ Len(before) + Len(todo) <= 6
             /\ ~Announced(before) /\ Part(before)
             /\ \A i \in DOMAIN before : i > 1 => before[i] \in Updates
  <2>1. ~Sending
    BY DEF Sending, At, Updates
  <2>2. CASE begin
    <3>1. out[1] = "begin"
      <4>1. CASE o = "plain"
        BY <1>5, <2>2, <4>1 DEF Written, At
      <4>2. CASE o # "plain"
        BY <1>5, <2>2, <4>2, <1>3, Alone DEF Written, At
      <4> QED
        BY <4>1, <4>2
    <3> QED
      BY <1>5, <2>1, <2>2, <3>1 DEF Counted, Written
  <2>3. CASE ~begin
    <3>1. before = <<"begin">> /\ n = 1
      BY <2>3
    <3>2. before # <<>> /\ before[1] = "begin" /\ Len(before) = 1 /\ DOMAIN before = {1}
          /\ Part(before) /\ ~Announced(before)
      BY <1>3, <3>1, Alone DEF Announces
    <3>3. Len(before) + Len(todo) <= 6
      <4>1. Len(todo') <= 4
        BY <1>1 DEF Follows
      <4>2. Len(todo') \in 0..5 /\ Len(todo) = Len(todo') + 1 /\ Len(before) = 1
        BY <1>1, <3>2
      <4> HIDE DEF before
      <4> QED
        BY <4>1, <4>2
    <3>4. n = Len(before) /\ \A i \in DOMAIN before : ~(i > 1)
      BY <3>1, <3>2
    <3> QED
      BY <3>2, <3>3, <3>4
  <2> QED
    BY <2>2, <2>3
<1> HIDE DEF before, n
<1>6. /\ out' \in Seq(Orders) /\ out' # <<>>
      /\ Len(out') = Len(before) + 1 /\ out'[Len(before) + 1] = o
      /\ \A i \in DOMAIN before : out'[i] = before[i]
      /\ DOMAIN before = 1..Len(before) /\ DOMAIN out' = 1..(Len(before) + 1)
      /\ Announced(out') <=> Announced(before) \/ Announces(o)
      /\ Framed(out') <=> Framed(before) \/ o \in Frames
      /\ Part(before) /\ ~(Announces(o) /\ Announced(before)) => Part(out')
  BY <1>2, <1>3, <1>4, Appended
<1> USE DEF socket, message, xrdp
<1>7. connected => out'[1] = "begin"
  <2> SUFFICES ASSUME connected PROVE out'[1] = "begin"
    OBVIOUS
  <2>1. Len(before) \in Nat /\ Len(before) # 0
    BY <1>4, <1>5, EmptySeq
  <2>2. 1 \in DOMAIN before
    BY <1>6, <2>1
  <2> QED
    BY <1>5, <1>6, <2>2
<1>8. CASE connected
  <2>1. Len(before) \in Nat /\ n = Len(before) /\ Len(before) + Len(todo) <= 6
    BY <1>4, <1>5, <1>8, EmptySeq
  <2>2. TypeOK'
    <3>1. count' \in 0..6
      BY <1>1, <1>2, <2>1
    <3> QED
      BY <1>1, <1>2, <1>6, <3>1 DEF TypeOK
  <2>3. Counted'
    <3>1. count' = Len(out') /\ Len(out') + Len(todo') <= 6
      BY <1>1, <1>2, <1>6, <2>1
    <3>2. ~At({"monitors", "memory"})'
      BY <1>1 DEF Follows, At, Updates
    <3> QED
      BY <1>2, <1>6, <1>8, <3>1, <3>2 DEF Counted
  <2>4. Announces(o) <=> Sending'
    BY <1>1 DEF Follows, Sending, At, Updates, Announces
  <2>5. Written'
    <3>1. ~At({"BeginUpdate", "SendFd"} \cup Metadata)' /\ ~At(Updates \ {"plain"})' /\ todo' # <<>>
      BY <1>1 DEF Follows, At, Updates, Metadata
    <3>2. At({"SendPending"})' => Sending'
      BY <1>1 DEF Follows, Sending, At, Updates
    <3>3. ASSUME NEW i \in DOMAIN out', i > 1 PROVE out'[i] \in Updates
      <4>1. CASE i = Len(before) + 1
        BY <1>6, <4>1
      <4>2. CASE i # Len(before) + 1
        <5>1. i \in DOMAIN before
          BY <1>6, <2>1, <4>2
        <5> QED
          BY <1>5, <1>6, <1>8, <3>3, <5>1
      <4> QED
        BY <4>1, <4>2
    <3>4. Part(out') /\ (Announced(out') <=> Sending')
      BY <1>5, <1>6, <1>8, <2>4
    <3> QED
      BY <1>2, <1>7, <1>8, <3>1, <3>2, <3>3, <3>4 DEF Written, Part, Announced
  <2>6. ASSUME ~givenUp PROVE (Readable /\ Agreed)'
    <3>1. ~At({"SendFd"}) /\ ~At({"SendFd"})'
      BY <1>1 DEF Follows, At, Updates
    <3>2. begin => before = out
      BY DEF before
    <3>3. ~begin => before = <<"begin">> /\ out = <<>>
      BY DEF before, Counted
    <3>4. unacked <=> arrived \/ Framed(out)
      BY <1>8, <2>6, InBetween
    <3>5. Framed(before) => unacked
      BY <1>3, <3>2, <3>3, <3>4, Alone DEF Frames
    <3>6. Framed(out) => Framed(before)
      BY <3>2, <3>3, OfNothing
    <3>7. begin => out[1] = "begin"
      BY <1>5, <1>8, <3>2
    <3>8. (unacked' <=> unacked \/ Framed(out)') /\ (Framed(out) => Framed(out)')
      BY <1>2, <1>6, <3>5, <3>6, Zenon DEF Framed
    <3> QED
      BY <1>2, <1>7, <1>8, <2>6, <3>1, <3>7, <3>8, Unsent
  <2>7. Linked'
    BY <1>2 DEF Linked
  <2> QED
    BY <2>2, <2>3, <2>5, <2>6, <2>7
<1>9. CASE ~connected
  <2>1. o \in Frames /\ ~unacked
    BY <1>9 DEF Counted, At, Updates, Frames
  <2>2. n <= 1 /\ n \in Nat
    BY <1>9, <2>1 DEF n, Counted, TypeOK
  <2>3. TypeOK'
    <3>1. count' \in 0..6
      BY <1>2, <2>2
    <3> QED
      BY <1>1, <1>2, <1>6, <3>1 DEF TypeOK
  <2>4. Counted'
    <3>0. count' <= 2
      BY <1>2, <2>2
    <3>1. unacked' = TRUE
      BY <1>2, <2>1
    <3>2. /\ ~At({"monitors", "memory"})' /\ ~(At(Frames))' /\ ~At({"BeginUpdate"})'
          /\ ~At({"cursor"})'
      BY <1>1, <2>1 DEF Follows, At, Updates, Frames
    <3> QED
      BY <1>2, <1>6, <1>9, <3>0, <3>1, <3>2 DEF Counted
  <2>5. Linked'
    BY <1>2 DEF Linked
  <2> QED
    BY <1>9, <2>3, <2>4, <2>5
<1> QED
  BY <1>8, <1>9


\* A frame that needs the stream for itself: the begin of the update goes first.
LEMMA LargeKept ==
  ASSUME StreamInv, todo # <<>>, wire = <<>>, todo' = Tail(todo), Head(todo) = "large",
         WriteOrder("large"), UNCHANGED <<socket, xrdp, givenUp>>
  PROVE  StreamInv'
<1> USE DEF StreamInv
<1>1. /\ todo' \in Stages /\ Len(todo') \in 0..5 /\ Len(todo) = Len(todo') + 1
      /\ Follows("large", todo') /\ Len(todo') <= 4
  BY NextStep DEF Follows, Updates
<1>2. /\ begin' = TRUE /\ count' = 1 /\ out' = <<"large">> /\ unacked' = TRUE
      /\ SendMsg(Begun.count, Begun.out)
  <2>1. /\ begin' = TRUE /\ unacked' = (unacked \/ "large" \in Frames)
        /\ SendMsg(Begun.count, Begun.out)
        /\ count' = AfterFlush(Begun.count) + 1 /\ out' = <<"large">>
    BY DEF WriteOrder
  <2>2. count' = 1
    BY <2>1 DEF AfterFlush
  <2>3. unacked' = TRUE
    BY <2>1 DEF Frames
  <2> QED
    BY <2>1, <2>2, <2>3
<1>3. "large" \in Orders /\ "begin" \in Orders
  BY DEF Orders, Updates
<1>4. /\ out' \in Seq(Orders) /\ out' # <<>> /\ Len(out') = 1 /\ out'[1] = "large"
      /\ DOMAIN out' = {1}
      /\ Announced(out') /\ Framed(out') /\ Part(out')
  BY <1>2, <1>3, Alone DEF Announces, Frames
<1>5. connected => told' = 1 /\ wire' = <<"begin">>
  <2> SUFFICES ASSUME connected PROVE told' = 1 /\ wire' = <<"begin">>
    OBVIOUS
  <2>1. out = <<"begin">>
    BY DEF Written, At, Updates
  <2>2. begin /\ count = 1
    BY <2>1, <1>3, Alone DEF Counted
  <2> QED
    BY <1>2, <2>1, <2>2 DEF SendMsg, Begun
<1>6. ~connected => UNCHANGED message
  BY <1>2 DEF SendMsg
<1>7. At({"SendPending"})' /\ Sending'
  BY <1>1 DEF Follows, At, Sending
<1>8. /\ ~At({"SendFd"}) /\ ~At({"SendFd"})' /\ ~At({"monitors", "memory"})'
      /\ ~At({"BeginUpdate", "cursor"} \cup Frames)' /\ ~At({"BeginUpdate"})'
      /\ ~(At(Frames))' /\ ~At({"cursor"})' /\ ~At({"plain", "EndUpdate"})'
      /\ ~At({"BeginUpdate", "SendFd"} \cup Metadata)' /\ ~At(Updates \ {"plain"})'
      /\ todo' # <<>>
  BY <1>7 DEF At, Frames, Updates, Metadata
<1> USE DEF socket, xrdp
<1>9. TypeOK'
  <2>1. count' \in 0..6
    BY <1>2
  <2>2. told' \in 0..6
    BY <1>5, <1>6 DEF message, TypeOK
  <2>3. wire' \in Seq(Orders)
    BY <1>3, <1>5, <1>6, Alone DEF message, TypeOK
  <2> QED
    BY <1>1, <1>2, <1>4, <2>1, <2>2, <2>3, Zenon DEF TypeOK
<1>10. Linked'
  BY <1>3, <1>5, <1>6, Alone DEF Linked, message
<1>11. Counted'
  <2>1. count' <= 2
    BY <1>2
  <2>2. count' = Len(out') /\ Len(out') + Len(todo') <= 6
    BY <1>1, <1>2, <1>4
  <2> QED
    BY <1>2, <1>4, <1>8, <2>1, <2>2 DEF Counted
<1>12. ASSUME connected PROVE Written'
  <2>1. \A i \in DOMAIN out' : i > 1 => out'[i] \in Updates
    BY <1>4
  <2> QED
    BY <1>2, <1>4, <1>7, <1>8, <2>1, Zenon DEF Written, Announced, Part
<1>13. ASSUME connected, ~givenUp PROVE (Readable /\ Agreed)'
  <2>1. ~open
    <3>1. out = <<"begin">>
      BY <1>13 DEF Written, At, Updates
    <3>2. out[1] = "begin"
      BY <3>1
    <3> QED
      BY <1>13, <3>2, InBetween
  <2>2. /\ <<"begin">> \in Seq(Orders) /\ <<"begin">> # <<>> /\ Len(<<"begin">>) = 1
        /\ <<"begin">>[1] = "begin" /\ DOMAIN <<"begin">> = {1}
        /\ ~Announced(<<"begin">>) /\ ~Framed(<<"begin">>) /\ Part(<<"begin">>)
    BY <1>3, Alone DEF Announces, Frames
  <2>3. Fits(<<"begin">>, 1)
    BY <2>1, <2>2 DEF Fits
  <2>4. Readable'
    BY <1>5, <1>8, <1>13, <2>3, SentReadable
  <2>5. wire' # <<>> /\ wire'[1] = "begin" /\ wire'[Len(wire')] # "end"
    BY <1>5, <1>13, <2>2
  <2>6. ~Announced(wire')
    BY <1>5, <1>13, <2>2
  <2>7. owed' # 1
    BY <1>8, <1>13, InBetween
  <2>8. Agreed'
    BY <1>2, <1>4, <1>8, <2>5, <2>6, <2>7 DEF Agreed, Announced, Framed
  <2> QED
    BY <2>4, <2>8
<1> QED
  BY <1>9, <1>10, <1>11, <1>12, <1>13


\* Nothing is written of an order for a client that is not connected, and
\* nothing is sent of an update that has not begun.
LEMMA NothingWrittenKept ==
  ASSUME StreamInv, todo # <<>>, wire = <<>>, todo' = Tail(todo),
         Head(todo) \in {"plain", "EndUpdate"},
         ~connected \/ (Head(todo) = "EndUpdate" /\ ~begin),
         UNCHANGED <<server, message>>, UNCHANGED <<socket, xrdp, givenUp>>
  PROVE  StreamInv'
<1> USE DEF StreamInv
<1>1. /\ todo' \in Stages
      /\ todo' = <<>> \/ Head(todo') \in {"plain", "EndUpdate"}
  BY NextStep DEF Follows
<1>2. connected => todo' = <<>> /\ ~begin /\ out = <<>>
  BY NextStep DEF Follows, Counted
<1> USE DEF socket, server, message, xrdp
<1>3. TypeOK'
  BY <1>1 DEF TypeOK
<1>4. Linked'
  BY DEF Linked
<1>5. Counted'
  BY <1>1, <1>2 DEF Counted, At, Frames
<1>6. ASSUME connected PROVE Written'
  BY <1>2, <1>6, OfNothing DEF Written, At, Sending
<1>7. ASSUME connected, ~givenUp PROVE (Readable /\ Agreed)'
  <2>1. ~At({"SendFd"}) /\ ~At({"SendFd"})'
    BY <1>2, <1>7 DEF At
  <2>2. Framed(out)' <=> Framed(out)
    BY DEF Framed
  <2> QED
    BY <1>7, <2>1, <2>2, Unsent
<1> QED
  BY <1>3, <1>4, <1>5, <1>6, <1>7

\* What has been written is sent, with the end of the update.
LEMMA SendPendingKept ==
  ASSUME StreamInv, todo # <<>>, wire = <<>>, todo' = Tail(todo),
         Head(todo) \in {"SendPending", "EndUpdate"},
         SendPending, UNCHANGED <<socket, xrdp, givenUp>>
  PROVE  StreamInv'
<1> USE DEF StreamInv
<1> DEFINE q == Append(out, "end")
<1>1. /\ todo' \in Stages /\ Len(todo') \in 0..5 /\ Len(todo) = Len(todo') + 1
      /\ Follows(Head(todo), todo')
  BY NextStep
<1>2. /\ todo' = <<>> \/ Head(todo') \in {"SendFd", "monitors", "memory"}
      /\ Head(todo) = "EndUpdate" => todo' = <<>>
      /\ Head(todo) = "SendPending" => todo' # <<>>
  BY <1>1 DEF Follows
<1>3. begin' = FALSE /\ count' = 0 /\ out' = <<>> /\ unacked' = unacked /\ SendUpdate
  BY DEF SendPending
<1>4. /\ connected /\ begin => told' = count + 1 /\ wire' = q
      /\ ~(connected /\ begin) => UNCHANGED message
  BY <1>3 DEF SendUpdate, SendMsg, EndCounted
<1>5. "end" \in Orders /\ ~Announces("end") /\ "end" \notin Frames /\ out \in Seq(Orders)
  BY DEF Orders, Announces, Frames, TypeOK
<1>6. /\ q \in Seq(Orders) /\ q # <<>>
      /\ Len(q) = Len(out) + 1
      /\ q[Len(out) + 1] = "end"
      /\ \A i \in DOMAIN out : q[i] = out[i]
      /\ DOMAIN out = 1..Len(out) /\ DOMAIN q = 1..(Len(out) + 1)
      /\ Announced(q) <=> Announced(out)
      /\ Framed(q) <=> Framed(out)
      /\ Part(out) => Part(q)
  BY <1>5, Appended
<1> HIDE DEF q
<1>7. ASSUME connected, begin
      PROVE  /\ count = Len(out) /\ count + 1 \in 0..6 /\ out # <<>>
             /\ Len(out) \in Nat /\ Len(out) # 0
  <2>1. count = Len(out) /\ Len(out) + Len(todo) <= 6 /\ out # <<>>
    BY <1>7 DEF Counted
  <2>2. Len(out) \in Nat /\ Len(out) # 0
    BY <1>5, <2>1, EmptySeq
  <2>3. count + 1 \in 0..6
    BY <1>1, <2>1, <2>2
  <2> QED
    BY <2>1, <2>2, <2>3
<1>8. (At({"SendFd"}))' <=> Sending
  <2>1. Head(todo) = "SendPending" => ((At({"SendFd"}))' <=> Sending)
    BY <1>2 DEF At, Sending
  <2>2. Head(todo) = "EndUpdate" => ~(At({"SendFd"}))' /\ ~Sending
    BY <1>2 DEF At, Sending
  <2> QED
    BY <2>1, <2>2
<1>9. /\ ~At({"SendFd"})
      /\ ~At({"BeginUpdate", "cursor"} \cup Frames)' /\ ~At({"BeginUpdate"})'
      /\ ~(At(Frames))' /\ ~At({"cursor"})' /\ ~At({"plain", "EndUpdate"})'
      /\ ~At({"SendPending"})' /\ ~At(Updates \ {"plain"})' /\ ~Sending'
  BY <1>2 DEF At, Frames, Updates, Sending
<1> USE DEF socket, xrdp
<1>10. TypeOK'
  <2>1. told' \in 0..6
    BY <1>4, <1>7 DEF message, TypeOK
  <2>2. wire' \in Seq(Orders)
    BY <1>4, <1>6 DEF message, TypeOK
  <2>3. out' \in Seq(Orders)
    BY <1>3, EmptySeq
  <2>4. count' \in 0..6
    BY <1>3
  <2> QED
    BY <1>1, <1>3, <2>1, <2>2, <2>3, <2>4, Zenon DEF TypeOK
<1>11. Linked'
  BY <1>4, <1>6 DEF Linked, message
<1>12. Counted'
  BY <1>3, <1>9 DEF Counted
<1>13. ASSUME connected PROVE Written'
  <2>1. ~Announced(out)' /\ Part(out)'
    BY <1>3, OfNothing DEF Announced, Part
  <2> QED
    BY <1>3, <1>9, <2>1, EmptySeq DEF Written
<1>14. ASSUME connected, ~givenUp, begin PROVE (Readable /\ Agreed)'
  <2>1. Fits(q, told')
    <3>1. 1 \in DOMAIN out
      BY <1>6, <1>7, <1>14
    <3>2. /\ out[1] = "begin" \/ out = <<"large">>
          /\ \A i \in DOMAIN out : i > 1 => out[i] \in Updates
      BY <1>14 DEF Written
    <3>3. open <=> out[1] # "begin"
      BY <1>14, InBetween
    <3>4. "large" \in Updates /\ \A o \in Updates : o # "begin" /\ o # "end"
      BY DEF Updates
    <3>5. out = <<"large">> => out[1] = "large"
      OBVIOUS
    <3>6. \A i \in DOMAIN out : (q[i] = "begin" => i = 1 /\ ~open) /\ q[i] # "end"
      <4> SUFFICES ASSUME NEW i \in DOMAIN out
                   PROVE  (q[i] = "begin" => i = 1 /\ ~open) /\ q[i] # "end"
        OBVIOUS
      <4>1. CASE i = 1
        BY <1>6, <3>2, <3>3, <3>4, <3>5, <4>1
      <4>2. CASE i # 1
        <5>1. i > 1
          BY <1>6, <1>7, <1>14, <4>2
        <5> QED
          BY <1>6, <3>2, <3>4, <5>1
      <4> QED
        BY <4>1, <4>2
    <3>7. open \/ q[1] = "begin"
      BY <1>6, <3>1, <3>3
    <3>8. told' = Len(q)
      BY <1>4, <1>6, <1>7, <1>14
    <3>9. Part(q)
      BY <1>6, <1>14 DEF Written
    <3>10. \A i \in DOMAIN q : i \in DOMAIN out \/ (i = Len(q) /\ q[i] = "end")
      BY <1>6, <1>7, <1>14
    <3> QED
      BY <1>6, <3>6, <3>7, <3>8, <3>9, <3>10, Zenon DEF Fits
  <2>2. Readable'
    BY <1>4, <1>9, <1>14, <2>1, SentReadable
  <2>3. wire' # <<>> /\ wire'[Len(wire')] = "end"
    BY <1>4, <1>6, <1>14
  <2>4. owed' # 1
    BY <1>9, <1>14, InBetween
  <2>5. Announced(wire') <=> Sending
    BY <1>4, <1>6, <1>14 DEF Written
  <2>6. unacked' <=> arrived' \/ Framed(wire')
    BY <1>3, <1>4, <1>6, <1>14, InBetween
  <2>7. ~Framed(out')
    BY <1>3, OfNothing
  <2>8. Agreed'
    BY <1>3, <1>8, <2>3, <2>4, <2>5, <2>6, <2>7 DEF Agreed, Announced, Framed
  <2> QED
    BY <2>2, <2>8
<1>15. ASSUME connected, ~givenUp, ~begin PROVE (Readable /\ Agreed)'
  <2>1. out = <<>>
    BY <1>15 DEF Counted
  <2>2. ~Framed(out) /\ ~Framed(out)'
    BY <1>3, <2>1, OfNothing DEF Framed
  <2>3. ~At({"SendFd"})'
    <3>1. ~Announced(out)
      BY <2>1, OfNothing
    <3> QED
      BY <1>8, <1>15, <3>1 DEF Written
  <2> QED
    BY <1>3, <1>4, <1>9, <1>15, <2>2, <2>3, Unsent
<1> QED
  BY <1>10, <1>11, <1>12, <1>13, <1>14, <1>15


\* Metadata is sent as a message of its own, between updates.
LEMMA SendMetadataKept ==
  ASSUME StreamInv, todo # <<>>, wire = <<>>, todo' = Tail(todo),
         NEW o \in Metadata, Head(todo) = o,
         SendMetadata(o), UNCHANGED <<socket, xrdp, givenUp>>
  PROVE  StreamInv'
<1> USE DEF StreamInv
<1> DEFINE q == IF o = "monitors" THEN <<o, o>> ELSE <<o>>
           n == Len(q) + (IF o = "version" THEN 0 ELSE count)
<1>1. todo' \in Stages /\ todo' = <<>>
  BY NextStep DEF Follows
<1>2. /\ SendMsg(n, q)
      /\ o = "version" => count' = count /\ out' = out
      /\ o # "version" => count' = n /\ out' = <<>>
      /\ begin' = begin /\ unacked' = unacked
  BY DEF SendMetadata
<1>3. o \in Orders /\ o # "begin" /\ o # "end" /\ o \notin Updates /\ ~Announces(o) /\ o \notin Frames
  BY DEF Orders, Metadata, Updates, Announces, Frames
<1>4. /\ q \in Seq(Orders) /\ q # <<>> /\ Len(q) \in 1..2
      /\ DOMAIN q = 1..Len(q) /\ \A i \in DOMAIN q : q[i] = o
  <2>1. CASE o = "monitors"
    <3>1. /\ <<o, o>> \in Seq(Orders) /\ <<o, o>> # <<>> /\ Len(<<o, o>>) = 2
          /\ DOMAIN <<o, o>> = 1..2 /\ \A i \in DOMAIN <<o, o>> : <<o, o>>[i] = o
      BY <1>3
    <3>2. q = <<o, o>>
      BY <2>1
    <3> HIDE DEF q
    <3> QED
      BY <3>1, <3>2
  <2>2. CASE o # "monitors"
    <3>1. /\ <<o>> \in Seq(Orders) /\ <<o>> # <<>> /\ Len(<<o>>) = 1
          /\ DOMAIN <<o>> = 1..1 /\ \A i \in DOMAIN <<o>> : <<o>>[i] = o
      BY <1>3
    <3>2. q = <<o>>
      BY <2>2
    <3> HIDE DEF q
    <3> QED
      BY <3>1, <3>2
  <2> QED
    BY <2>1, <2>2
<1>5. o # "version" => count = 0 /\ ~begin
  BY DEF Counted, At, Metadata
<1> HIDE DEF q
<1>6. n = Len(q)
  BY <1>4, <1>5
<1> HIDE DEF n
<1>7. /\ connected => told' = Len(q) /\ wire' = q
      /\ ~connected => UNCHANGED message
  BY <1>2, <1>6 DEF SendMsg
<1>8. connected => ~begin /\ out = <<>>
  BY DEF Counted, Written, At
<1>9. \A S : ~At(S)'
  BY <1>1 DEF At
<1> USE DEF socket, xrdp
<1>10. TypeOK'
  <2>1. told' \in 0..6
    BY <1>4, <1>7 DEF message, TypeOK
  <2>2. wire' \in Seq(Orders)
    BY <1>4, <1>7 DEF message, TypeOK
  <2>3. out' \in Seq(Orders)
    BY <1>2, EmptySeq DEF TypeOK
  <2>4. count' \in 0..6
    BY <1>2, <1>4, <1>6 DEF TypeOK
  <2> QED
    BY <1>1, <1>2, <2>1, <2>2, <2>3, <2>4, Zenon DEF TypeOK
<1>11. Linked'
  BY <1>4, <1>7 DEF Linked, message
<1>12. Counted'
  <2>1. (begin <=> out # <<>>)'
    BY <1>2, <1>5 DEF Counted
  <2>2. (~begin => count <= 2)'
    BY <1>2, <1>4, <1>6 DEF Counted
  <2>3. (~connected /\ begin => count <= IF unacked THEN 2 ELSE 1)'
    BY <1>2, <1>5 DEF Counted
  <2>4. connected => ~begin'
    BY <1>2, <1>8
  <2> QED
    BY <1>9, <2>1, <2>2, <2>3, <2>4, Zenon DEF Counted
<1>13. ASSUME connected PROVE Written'
  <2>1. ~begin' /\ out' = <<>>
    BY <1>2, <1>8, <1>13
  <2>2. ~Announced(out)' /\ Part(out)' /\ ~Sending'
    BY <1>9, <2>1, OfNothing DEF Announced, Part, Sending
  <2> QED
    BY <1>1, <1>9, <2>1, <2>2 DEF Written
<1>14. ASSUME connected, ~givenUp PROVE (Readable /\ Agreed)'
  <2>1. ~Announced(q) /\ ~Framed(q) /\ Part(q)
    BY <1>3, <1>4 DEF Announced, Framed, Part
  <2>2. Fits(q, Len(q))
    BY <1>3, <1>4, <2>1, Zenon DEF Fits
  <2>3. ~At({"SendFd"})
    BY DEF At, Metadata
  <2>4. Readable'
    BY <1>7, <1>14, <2>2, <2>3, SentReadable
  <2>5. owed' # 1 /\ ~open' /\ (unacked' <=> arrived')
    BY <1>2, <1>8, <1>14, <2>3, InBetween, OfNothing
  <2>6. ~Announced(wire') /\ ~Framed(wire') /\ ~(wire' # <<>> /\ wire'[1] = "begin")
    <3>1. 1 \in DOMAIN q
      BY <1>4
    <3> QED
      BY <1>3, <1>4, <1>7, <1>14, <2>1, <3>1
  <2>7. ~begin' /\ ~Framed(out')
    BY <1>2, <1>8, <1>14, OfNothing
  <2>8. Agreed'
    BY <1>9, <2>5, <2>6, <2>7 DEF Agreed, Announced, Framed
  <2> QED
    BY <2>4, <2>8
<1> QED
  BY <1>10, <1>11, <1>12, <1>13, <1>14

\* A descriptor.
LEMMA SendFdKept ==
  ASSUME StreamInv, todo # <<>>, wire = <<>>, todo' = Tail(todo), Head(todo) = "SendFd",
         SendFd, UNCHANGED socket
  PROVE  StreamInv'
<1> USE DEF StreamInv
<1>1. /\ todo' \in Stages /\ Len(todo') \in 0..5 /\ Len(todo) = Len(todo') + 1
      /\ todo' # <<>> /\ Head(todo') \in {"plain", "EndUpdate"}
  BY NextStep DEF Follows
<1>2. /\ UNCHANGED <<server, message>>
      /\ (alive /\ ReadFd /\ UNCHANGED givenUp) \/ (UNCHANGED xrdp /\ (givenUp' = TRUE \/ (~alive /\ UNCHANGED givenUp)))
  BY DEF SendFd
<1>3. At({"SendFd"})
  BY DEF At
<1>4. connected => ~begin /\ out = <<>>
  BY <1>3 DEF Counted, Written, At
<1>5. /\ ~At({"BeginUpdate", "SendFd"} \cup Metadata)' /\ ~At({"monitors", "memory"})'
      /\ ~At({"BeginUpdate", "cursor"} \cup Frames)' /\ ~At({"BeginUpdate"})'
      /\ ~(At(Frames))' /\ ~At({"cursor"})' /\ ~At({"SendFd"})'
      /\ ~At({"SendPending"})' /\ ~At(Updates \ {"plain"})' /\ ~Sending' /\ todo' # <<>>
  BY <1>1 DEF At, Frames, Updates, Metadata, Sending
<1> USE DEF socket, server, message
<1>6. TypeOK'
  <2>1. left' \in 0..6 /\ owed' \in 0..1
    BY <1>2 DEF TypeOK, ReadFd, OutOfStep, xrdp
  <2>2. open' \in BOOLEAN /\ inSync' \in BOOLEAN /\ arrived' \in BOOLEAN /\ givenUp' \in BOOLEAN
    BY <1>2 DEF TypeOK, ReadFd, OutOfStep, xrdp
  <2> QED
    BY <1>1, <1>2, <2>1, <2>2, Zenon DEF TypeOK
<1>7. Linked'
  BY <1>2 DEF Linked
<1>8. Counted'
  BY <1>1, <1>2, <1>4, <1>5 DEF Counted
<1>9. ASSUME connected PROVE Written'
  <2>1. ~begin' /\ out' = <<>>
    BY <1>2, <1>4, <1>9
  <2>2. ~Announced(out)' /\ Part(out)'
    BY <2>1, OfNothing DEF Announced, Part
  <2> QED
    BY <1>2, <1>5, <2>1, <2>2 DEF Written
<1>10. ASSUME connected, ~givenUp' PROVE (Readable /\ Agreed)'
  <2>1. alive /\ ReadFd /\ ~givenUp
    BY <1>2, <1>10 DEF Linked
  <2>2. inSync /\ left = 0 /\ told = 0 /\ owed = 1 /\ ~open /\ (unacked <=> arrived)
    BY <1>3, <1>4, <1>10, <2>1, InBetween, OfNothing
  <2>3. owed' = 0 /\ UNCHANGED <<left, open, inSync, arrived>>
    BY <2>1, <2>2 DEF ReadFd
  <2>4. wire' = <<>> /\ DOMAIN wire' = {} /\ Len(wire') = 0
    BY <1>2
  <2>5. Readable'
    BY <1>2, <2>2, <2>3, <2>4 DEF Readable, Part
  <2>6. Agreed'
    BY <1>2, <1>4, <1>5, <1>10, <2>2, <2>3, <2>4, OfNothing DEF Agreed, Announced, Framed
  <2> QED
    BY <2>5, <2>6
<1> QED
  BY <1>6, <1>7, <1>8, <1>9, <1>10


\* A step of a handler.
LEMMA StepKept == StreamInv /\ Step => StreamInv'
<1> SUFFICES ASSUME StreamInv, Step PROVE StreamInv'
  OBVIOUS
<1>1. todo # <<>> /\ wire = <<>> /\ todo' = Tail(todo) /\ UNCHANGED socket
  BY DEF Step
<1>2. CASE Head(todo) = "SendFd" /\ SendFd
  BY <1>1, <1>2, SendFdKept
<1>3. CASE Write(Head(todo))
  <2>1. UNCHANGED <<socket, xrdp, givenUp>>
    BY <1>1, <1>3 DEF Write
  <2>2. CASE Head(todo) = "BeginUpdate" /\ BeginUpdate
    BY <1>1, <2>1, <2>2, BeginUpdateKept
  <2>3. CASE Head(todo) = "SendPending" /\ SendPending
    BY <1>1, <2>1, <2>3, SendPendingKept
  <2>4. CASE Head(todo) = "EndUpdate" /\ EndUpdate
    <3>1. CASE connected /\ begin
      BY <1>1, <2>1, <2>4, <3>1, SendPendingKept DEF EndUpdate
    <3>2. CASE ~connected
      BY <1>1, <2>1, <2>4, <3>2, NothingWrittenKept DEF EndUpdate
    <3>3. CASE connected /\ ~begin
      BY <1>1, <2>1, <2>4, <3>3, NothingWrittenKept DEF EndUpdate
    <3> QED
      BY <3>1, <3>2, <3>3
  <2>5. CASE Head(todo) \in Updates /\ WriteOrder(Head(todo))
    <3>1. CASE Head(todo) = "large"
      BY <1>1, <2>1, <2>5, <3>1, LargeKept
    <3>2. CASE Head(todo) # "large" /\ (connected \/ Head(todo) # "plain")
      BY <1>1, <2>1, <2>5, <3>2, OrderKept
    <3>3. CASE Head(todo) = "plain" /\ ~connected
      <4>1. UNCHANGED <<server, message>>
        BY <2>5, <3>3 DEF WriteOrder
      <4> QED
        BY <1>1, <2>1, <3>3, <4>1, NothingWrittenKept
    <3> QED
      BY <3>1, <3>2, <3>3
  <2>6. CASE Head(todo) \in Metadata /\ SendMetadata(Head(todo))
    BY <1>1, <2>1, <2>6, SendMetadataKept
  <2> QED
    BY <1>3, <2>2, <2>3, <2>4, <2>5, <2>6 DEF Write
<1> QED
  BY <1>1, <1>2, <1>3 DEF Step

-----------------------------------------------------------------------------
(* The message on its way *)

\* xrdp reads the header.
LEMMA SendHeaderKept ==
  ASSUME StreamInv, wire # <<>>, SendHeader, UNCHANGED <<server, todo>>
  PROVE  StreamInv'
<1> USE DEF StreamInv, socket, server
<1>1. told > 0 /\ told' = 0 /\ UNCHANGED <<socket, wire, givenUp>> /\ ReadHeader(told) /\ told \in 0..6
  BY DEF SendHeader, TypeOK
<1>2. TypeOK'
  <2>1. told' \in 0..6
    BY <1>1
  <2>2. left' \in 0..6 /\ owed' \in 0..1
    BY <1>1 DEF TypeOK, ReadHeader, OutOfStep
  <2>3. open' \in BOOLEAN /\ inSync' \in BOOLEAN /\ arrived' \in BOOLEAN
    BY <1>1 DEF TypeOK, ReadHeader, OutOfStep
  <2> QED
    BY <1>1, <2>1, <2>2, <2>3, Zenon DEF TypeOK
<1>3. Linked'
  BY <1>1 DEF Linked
<1>4. Counted'
  BY <1>1 DEF Counted, At
<1>5. ASSUME connected PROVE Written'
  BY <1>1, <1>5 DEF Written, At, Part, Announced, Sending
<1>6. ASSUME connected, ~givenUp PROVE (Readable /\ Agreed)'
  <2>1. inSync /\ left = 0 /\ owed = 0 /\ told = Len(wire)
    BY <1>1, <1>6 DEF Readable
  <2>2. left' = told /\ UNCHANGED <<owed, open, inSync, arrived>>
    BY <1>1, <2>1 DEF ReadHeader
  <2>3. Readable'
    BY <1>1, <1>6, <2>1, <2>2 DEF Readable, Part
  <2>4. Agreed'
    BY <1>1, <1>6, <2>2 DEF Agreed, Announced, Framed, At
  <2> QED
    BY <2>3, <2>4
<1> QED
  BY <1>1, <1>2, <1>3, <1>4, <1>5, <1>6

\* xrdp reads an order.
LEMMA SendOrderKept ==
  ASSUME StreamInv, wire # <<>>, SendOrder, UNCHANGED <<server, todo>>
  PROVE  StreamInv'
<1> USE DEF StreamInv, socket, server
<1> DEFINE o == wire[1]
<1>1. told = 0 /\ wire' = Tail(wire) /\ UNCHANGED <<socket, told, givenUp>> /\ ReadOrder(o)
  BY Taken DEF SendOrder, TypeOK
<1>2. /\ o \in Orders
      /\ wire' \in Seq(Orders)
      /\ Len(wire) \in Nat \ {0} /\ Len(wire') = Len(wire) - 1
      /\ DOMAIN wire = 1..Len(wire) /\ DOMAIN wire' = 1..(Len(wire) - 1)
      /\ \A i \in DOMAIN wire' : wire'[i] = wire[i + 1] /\ i + 1 \in DOMAIN wire
      /\ wire' = <<>> <=> Len(wire) = 1
      /\ Announced(wire) <=> Announces(o) \/ Announced(wire')
      /\ Framed(wire) <=> o \in Frames \/ Framed(wire')
      /\ Part(wire) => Part(wire') /\ ~(Announces(o) /\ Announced(wire'))
  <2>1. wire \in Seq(Orders)
    BY DEF TypeOK
  <2> QED
    BY <1>1, <2>1, Taken
<1> HIDE DEF o
<1>3. TypeOK'
  <2>1. left' \in 0..6
    BY <1>1 DEF TypeOK, ReadOrder, Expected, OutOfStep
  <2>2. owed' \in 0..1
    BY <1>1 DEF TypeOK, ReadOrder, OutOfStep
  <2>3. open' \in BOOLEAN /\ inSync' \in BOOLEAN /\ arrived' \in BOOLEAN
    BY <1>1, Zenon DEF TypeOK, ReadOrder, OutOfStep
  <2> QED
    BY <1>1, <1>2, <2>1, <2>2, <2>3, Zenon DEF TypeOK
<1>4. Linked'
  BY <1>1 DEF Linked
<1>5. Counted'
  BY <1>1 DEF Counted, At
<1>6. ASSUME connected PROVE Written'
  BY <1>1, <1>6 DEF Written, At, Part, Announced, Sending
<1>7. ASSUME connected, ~givenUp PROVE (Readable /\ Agreed)'
  <2>1. inSync /\ left = Len(wire) /\ Part(wire)
    BY <1>1, <1>7 DEF Readable
  <2>2. /\ o = "begin" => ~open
        /\ o \in Updates \cup {"end"} => open
        /\ o = "end" => Len(wire) = 1
        /\ Announces(o) => owed = 0
    <3>1. 1 \in DOMAIN wire
      BY <1>2
    <3>2. o \in Updates \cup {"end"} => o # "begin"
      BY DEF Updates
    <3> QED
      BY <1>7, <3>1, <3>2 DEF Readable, o
  <2>3. left > 0
    BY <1>2, <2>1
  <2>4. /\ left' = left - 1
        /\ owed' = IF Announces(o) THEN 1 ELSE owed
        /\ open' = (o = "begin" \/ (open /\ o # "end"))
        /\ arrived' = (arrived \/ o \in Frames)
        /\ inSync' = inSync
    BY <1>1, <2>1, <2>2, <2>3, Zenon DEF ReadOrder, Expected
  <2>5. Part(wire') /\ ~(Announces(o) /\ Announced(wire'))
    BY <1>2, <2>1
  <2>6. left' = Len(wire') /\ told' = 0
    BY <1>1, <1>2, <2>1, <2>4
  <2>7. ASSUME NEW i \in DOMAIN wire'
        PROVE  /\ wire'[i] # "begin"
               /\ wire'[i] \in Updates \cup {"end"} => open'
               /\ wire'[i] = "end" => i = Len(wire')
               /\ Announces(wire'[i]) => owed' = 0
    <3>1. wire'[i] = wire[i + 1] /\ i + 1 \in DOMAIN wire /\ i + 1 # 1 /\ Len(wire) # 1
      BY <1>2, <2>7
    <3>2. wire'[i] # "begin"
      BY <2>1, <3>1 DEF Part
    <3>3. wire'[i] \in Updates \cup {"end"} => open'
      <4>1. o # "end"
        BY <2>2, <3>1
      <4>2. wire'[i] \in Updates \cup {"end"} => open \/ o = "begin"
        BY <1>7, <3>1 DEF Readable, o
      <4> QED
        BY <2>4, <4>1, <4>2
    <3>4. wire'[i] = "end" => i = Len(wire')
      <4>1. wire'[i] = "end" => i + 1 = Len(wire)
        BY <1>7, <3>1 DEF Readable
      <4> QED
        BY <1>2, <4>1
    <3>5. Announces(wire'[i]) => owed' = 0
      <4>1. Announces(wire'[i]) => owed = 0
        BY <1>7, <3>1 DEF Readable
      <4>2. Announces(wire'[i]) => ~Announces(o)
        BY <2>5, <2>7, Zenon DEF Announced
      <4> QED
        BY <2>4, <4>1, <4>2
    <3> QED
      BY <3>2, <3>3, <3>4, <3>5
  <2>8. Readable'
    <3>1. ~(told' > 0)
      BY <2>6
    <3> QED
      BY <2>1, <2>4, <2>5, <2>6, <2>7, <3>1, Zenon DEF Readable, Part, Announces
  <2>9. (unacked <=> arrived \/ Framed(wire) \/ Framed(out))'
    BY <1>2, <1>7, <2>4, Zenon DEF Agreed, Framed
  <2>10. (owed = 1 \/ Announced(wire) <=> At({"SendFd"}))'
    <3>1. owed' = 1 \/ Announced(wire') <=> owed = 1 \/ Announced(wire)
      BY <1>2, <2>4
    <3> QED
      BY <1>7, <3>1, Zenon DEF Agreed, At, Announced
  <2>11. ((open \/ (wire # <<>> /\ wire[1] = "begin")) /\ (wire # <<>> => wire[Len(wire)] # "end")
            <=> begin /\ out[1] # "begin")'
    <3>1. wire' = <<>> \/ wire'[1] # "begin"
      <4>1. wire' # <<>> => 1 \in DOMAIN wire'
        BY <1>2
      <4> QED
        BY <2>7, <4>1
    <3>2. CASE wire' = <<>>
      <4>1. wire[Len(wire)] = o
        BY <1>2, <3>2 DEF o
      <4>2. (open \/ o = "begin") /\ o # "end" <=> begin /\ out[1] # "begin"
        BY <1>7, <4>1 DEF Agreed, o
      <4> QED
        BY <2>4, <3>2, <4>2
    <3>3. CASE wire' # <<>>
      <4>1. wire'[Len(wire')] = wire[Len(wire)] /\ o # "end"
        <5>1. Len(wire) # 1 /\ Len(wire') \in DOMAIN wire' /\ Len(wire') + 1 = Len(wire)
          BY <1>2, <3>3
        <5> QED
          BY <1>2, <2>2, <5>1
      <4>2. (open \/ o = "begin") /\ wire[Len(wire)] # "end" <=> begin /\ out[1] # "begin"
        BY <1>7 DEF Agreed, o
      <4> QED
        BY <2>4, <3>1, <3>3, <4>1, <4>2
    <3> QED
      BY <3>2, <3>3
  <2>12. Agreed'
    BY <2>9, <2>10, <2>11 DEF Agreed
  <2> QED
    BY <2>8, <2>12
<1> QED
  BY <1>1, <1>3, <1>4, <1>5, <1>6, <1>7


\* What is left of the message is dropped.
LEMMA GiveUpKept ==
  ASSUME StreamInv, wire # <<>>, GiveUp, UNCHANGED <<server, todo>>
  PROVE  StreamInv'
<1> USE DEF StreamInv, socket, server, xrdp
<1>1. told' = 0 /\ wire' = <<>> /\ givenUp' = TRUE /\ UNCHANGED <<socket, xrdp>>
  BY DEF GiveUp
<1>2. TypeOK'
  <2>1. told' \in 0..6
    BY <1>1
  <2>2. wire' \in Seq(Orders)
    BY <1>1, EmptySeq
  <2> QED
    BY <1>1, <2>1, <2>2, Zenon DEF TypeOK
<1>3. Linked'
  BY <1>1 DEF Linked
<1>4. Counted'
  BY <1>1 DEF Counted, At
<1>5. ASSUME connected PROVE Written'
  BY <1>1, <1>5 DEF Written, At, Part, Announced, Sending
<1> QED
  BY <1>1, <1>2, <1>3, <1>4, <1>5

\* The connection is broken.
LEMMA SendBrokenKept ==
  ASSUME StreamInv, wire # <<>>, SendBroken, UNCHANGED <<server, todo>>
  PROVE  StreamInv'
<1> USE DEF StreamInv, server, xrdp
<1>1. /\ told' = 0 /\ wire' = <<>> /\ connected' = FALSE /\ alive' = FALSE
      /\ UNCHANGED <<xrdp, givenUp>>
  BY DEF SendBroken
<1>2. connected
  BY DEF Linked
<1>3. TypeOK'
  <2>1. told' \in 0..6
    BY <1>1
  <2>2. wire' \in Seq(Orders)
    BY <1>1, EmptySeq
  <2> QED
    BY <1>1, <2>1, <2>2, Zenon DEF TypeOK
<1>4. Linked'
  BY <1>1 DEF Linked
<1>5. Counted'
  <2>1. ~At({"BeginUpdate"}) /\ ~At({"cursor"}) /\ ~At(Frames)
    BY <1>2 DEF Written, At
  <2>2. begin => count = 1
    <3>1. begin => count = Len(out) /\ out = <<"large">>
      BY <1>2 DEF Counted, Written
    <3>2. Len(<<"large">>) = 1
      OBVIOUS
    <3> QED
      BY <3>1, <3>2
  <2> QED
    BY <1>1, <2>1, <2>2 DEF Counted, At
<1> QED
  BY <1>1, <1>3, <1>4, <1>5

-----------------------------------------------------------------------------
(* Between handlers *)

\* Between handlers nothing is in out_s and nothing on its way.
LEMMA IdleFacts ==
  ASSUME StreamInv, Idle
  PROVE  /\ told = 0 /\ wire = <<>> /\ \A S : ~At(S)
         /\ connected => ~begin /\ out = <<>>
         /\ connected /\ ~givenUp =>
              inSync /\ left = 0 /\ owed = 0 /\ ~open /\ (unacked <=> arrived)
<1>1. told = 0 /\ wire = <<>> /\ todo = <<>>
  BY DEF StreamInv, TypeOK, Linked, Idle
<1>2. \A S : ~At(S)
  BY <1>1 DEF At
<1>3. connected => ~begin /\ out = <<>>
  BY <1>1 DEF StreamInv, Counted, Written
<1>4. connected /\ ~givenUp =>
        inSync /\ left = 0 /\ owed = 0 /\ ~open /\ (unacked <=> arrived)
  BY <1>1, <1>2, <1>3, InBetween, OfNothing
<1> QED
  BY <1>1, <1>2, <1>3, <1>4

LEMMA AckKept == StreamInv /\ Ack => StreamInv'
<1> SUFFICES ASSUME StreamInv, Ack PROVE StreamInv'
  OBVIOUS
<1> USE DEF socket, message
<1>1. /\ told = 0 /\ wire = <<>> /\ ~begin /\ out = <<>> /\ \A S : ~At(S)
      /\ ~givenUp => inSync /\ left = 0 /\ owed = 0 /\ ~open
  BY IdleFacts DEF Ack
<1>2. /\ connected /\ arrived' = FALSE /\ unacked' = FALSE
      /\ UNCHANGED <<socket, begin, count, out, todo, message, left, owed, open, inSync, givenUp>>
  BY DEF Ack
<1>3. TypeOK'
  BY <1>2 DEF StreamInv, TypeOK
<1>4. Linked'
  BY <1>2 DEF StreamInv, Linked
<1>5. Counted'
  BY <1>1, <1>2 DEF StreamInv, Counted, At
<1>6. Written'
  BY <1>1, <1>2 DEF StreamInv, Written, At, Part, Announced, Sending
<1>7. ASSUME ~givenUp PROVE (Readable /\ Agreed)'
  <2>1. Readable'
    BY <1>2, <1>7 DEF StreamInv, Readable, Part
  <2>2. Agreed'
    <3>1. wire' = <<>> /\ out' = <<>> /\ ~begin' /\ owed' # 1 /\ ~open' /\ ~arrived' /\ ~unacked'
      BY <1>1, <1>2, <1>7
    <3>2. ~Announced(wire)' /\ ~Framed(wire)' /\ ~Framed(out)'
      BY <3>1, OfNothing DEF Announced, Framed
    <3>3. ~At({"SendFd"})'
      BY <1>1, <1>2 DEF At
    <3> QED
      BY <3>1, <3>2, <3>3 DEF Agreed
  <2> QED
    BY <2>1, <2>2
<1> QED
  BY <1>2, <1>3, <1>4, <1>5, <1>6, <1>7 DEF StreamInv

LEMMA ReplacedKept == StreamInv /\ Replaced => StreamInv'
<1> SUFFICES ASSUME StreamInv, Replaced PROVE StreamInv'
  OBVIOUS
<1> USE DEF server, message, xrdp
<1>1. wire = <<>> /\ ~begin /\ \A S : ~At(S)
  BY IdleFacts DEF Replaced
<1>2. connected' = FALSE /\ UNCHANGED <<alive, server, todo, message, xrdp, givenUp>>
  BY DEF Replaced
<1>3. TypeOK'
  BY <1>2 DEF StreamInv, TypeOK
<1>4. Linked'
  BY <1>1, <1>2 DEF StreamInv, Linked
<1>5. Counted'
  BY <1>1, <1>2 DEF StreamInv, Counted, At
<1> QED
  BY <1>2, <1>3, <1>4, <1>5 DEF StreamInv

LEMMA ReconnectKept == StreamInv /\ Reconnect => StreamInv'
<1> SUFFICES ASSUME StreamInv, Reconnect PROVE StreamInv'
  OBVIOUS
<1> USE DEF message
<1>1. told = 0 /\ wire = <<>> /\ todo = <<>>
  BY IdleFacts DEF Reconnect, Idle
<1>2. /\ connected' = TRUE /\ alive' = TRUE /\ begin' = FALSE /\ count' = 0 /\ out' = <<>>
      /\ unacked' = FALSE /\ left' = 0 /\ owed' = 0 /\ open' = FALSE /\ inSync' = TRUE
      /\ arrived' = FALSE /\ givenUp' = FALSE
      /\ told' = 0 /\ wire' = <<>> /\ todo' = <<>>
  BY <1>1 DEF Reconnect
<1>3. \A S : ~At(S)'
  BY <1>2 DEF At
<1>4. TypeOK'
  <2>1. out' \in Seq(Orders) /\ wire' \in Seq(Orders)
    BY <1>2, EmptySeq
  <2>2. count' \in 0..6 /\ told' \in 0..6 /\ left' \in 0..6 /\ owed' \in 0..1
    BY <1>2
  <2>3. todo' \in Stages
    BY <1>1, <1>2 DEF StreamInv, TypeOK
  <2> QED
    BY <1>2, <2>1, <2>2, <2>3, Zenon DEF TypeOK
<1>5. Linked' /\ Counted'
  BY <1>2, <1>3 DEF Linked, Counted
<1>6. /\ ~Announced(out)' /\ ~Framed(out)' /\ Part(out)'
      /\ ~Announced(wire)' /\ ~Framed(wire)' /\ Part(wire)'
  BY <1>2, OfNothing DEF Announced, Framed, Part
<1>7. Written'
  BY <1>2, <1>3, <1>6 DEF Written, Sending
<1>8. Readable'
  BY <1>2, <1>6, EmptySeq DEF Readable
<1>9. Agreed'
  BY <1>2, <1>3, <1>6 DEF Agreed
<1> QED
  BY <1>4, <1>5, <1>7, <1>8, <1>9 DEF StreamInv

-----------------------------------------------------------------------------
(* Theorems *)

\* The invariant of the stream holds always.
THEOREM StreamInvariant == Spec => []StreamInv
<1>1. ASSUME StreamInv, [Next]_vars PROVE StreamInv'
  <2>1. CASE Enter
    BY <1>1, <2>1, EnterKept
  <2>2. CASE Step
    BY <1>1, <2>2, StepKept
  <2>3. CASE Send
    BY <1>1, <2>3, SendHeaderKept, SendOrderKept, GiveUpKept, SendBrokenKept DEF Send
  <2>4. CASE Ack
    BY <1>1, <2>4, AckKept
  <2>5. CASE Replaced
    BY <1>1, <2>5, ReplacedKept
  <2>6. CASE Reconnect
    BY <1>1, <2>6, ReconnectKept
  <2>7. CASE UNCHANGED vars
    <3> USE <1>1, <2>7 DEF vars, socket, server, message, xrdp, StreamInv
    <3>1. TypeOK' /\ Linked'
      BY DEF TypeOK, Linked
    <3>2. Counted'
      BY DEF Counted, At
    <3>3. connected => Written'
      BY DEF Written, At, Part, Announced, Sending
    <3>4. connected /\ ~givenUp => Readable' /\ Agreed'
      BY DEF Readable, Agreed, Part, Announced, Framed, At
    <3> QED
      BY <3>1, <3>2, <3>3, <3>4
  <2> QED
    BY <1>1, <2>1, <2>2, <2>3, <2>4, <2>5, <2>6, <2>7 DEF Next
<1> QED
  BY StreamAtInit, <1>1, PTL DEF Spec

\* The variables have their types: messages have at most six orders, and what is
\* left of a handler is an end of it.
THEOREM StreamTypes == Spec => []TypeOK
<1>1. StreamInv => TypeOK
  BY DEF StreamInv
<1> QED
  BY <1>1, StreamInvariant, PTL

\* Until a send is given up, xrdp finds every header, order and descriptor where
\* it expects it, and between handlers nothing is left over.
THEOREM StreamStaysInStep == Spec => []InStep
<1>1. StreamInv => InStep
  <2>1. StreamInv /\ connected /\ ~givenUp => inSync
    BY DEF StreamInv, Readable
  <2> QED
    BY <2>1, IdleFacts DEF InStep
<1> QED
  BY <1>1, StreamInvariant, PTL

\* A frame that the server waits for has reached xrdp, and xrdp has none that
\* the server does not wait for.
THEOREM FramesAlwaysArrive == Spec => []FrameArrives
<1>1. StreamInv => FrameArrives
  BY IdleFacts DEF FrameArrives
<1> QED
  BY <1>1, StreamInvariant, PTL
=============================================================================
