---------------------------- MODULE DesktopProofs ----------------------------
(***************************************************************************)
(* Proofs about Desktop, for every choice of drivers, layouts, slots and   *)
(* pixmaps, and however many clients connect: the pixmaps that the         *)
(* acceleration assistant lends are counted, a helper that runs knows the  *)
(* monitors, the desktop is what its client has asked for, and X clients   *)
(* see its monitors, in each of the three ways of setting outputs.         *)
(***************************************************************************)
EXTENDS Desktop, FiniteSetTheorems, TLAPS

-----------------------------------------------------------------------------
(* The inductive invariants *)

Fields == {"num", "layout", "code", "depth", "cap", "shm", "stride", "told", "assist",
           "helper", "helperTold", "slots"}

\* What the proofs need to know of a connection's fields.
IsCon(c) ==
  /\ DOMAIN c = Fields
  /\ c.num \in Nat
  /\ c.helper \in {"none", "running", "failed", "dead"}
  /\ c.slots \in [Slots -> {None} \cup {<<p>> : p \in Pixmaps}]

\* A helper has been started for this connection.
Assisting(c) == c.assist /\ c.helper \in {"running", "dead"}

\* Only a helper that has been started is told of monitors and lends pixmaps.
Lends(c) ==
  /\ c.assist => c.helper # "none"
  /\ c.helper \in {"running", "dead"} => c.assist
  /\ c.helperTold # None => Assisting(c)
  /\ \A i \in Slots : c.slots[i] # None => Assisting(c)

\* Helpers belong to clients that have connected; the client that there is has
\* started its own.
HelpersKnown ==
  /\ accepted \in Nat
  /\ helpers \subseteq 1..accepted
  /\ con.num \in 0..accepted
  /\ con.num \in helpers => Assisting(con)

CountType == owner \in [Pixmaps -> Nat] /\ refs \in [Pixmaps -> Int]

LendInv ==
  /\ IsCon(con)
  /\ Lends(con)
  /\ HelpersKnown
  /\ CountType
  /\ PixmapsCounted

\* A helper is only started when the session has been, for a client that has
\* described itself, and nobody else resizes the screen.
AssistInv ==
  /\ ~allow
  /\ ~started => ~con.assist /\ con.helper = "none" /\ con.layout = None
  /\ con.helper = "running" => con.layout # None /\ UseAccelAssist(con.code)
  /\ AssistKnowsMonitors

-----------------------------------------------------------------------------
(* Connections *)

\* A new connection lends nothing.
LEMMA NewConFacts ==
  ASSUME NEW n \in Nat
  PROVE  /\ IsCon(NewCon(n))
         /\ Lends(NewCon(n))
         /\ \A p \in Pixmaps : Registered(NewCon(n), p) = {}
BY DEF NewCon, IsCon, Lends, Assisting, Registered, Fields, None

\* What of a connection is not about its assistant may change.
SameLending(c, d) ==
  /\ DOMAIN d = Fields
  /\ d.num = c.num
  /\ d.assist = c.assist
  /\ d.helper = c.helper
  /\ d.helperTold = c.helperTold
  /\ d.slots = c.slots

\* The rest has no say in what it lends.
LEMMA SameLendingFacts ==
  ASSUME NEW c, NEW d, IsCon(c), Lends(c), SameLending(c, d)
  PROVE  IsCon(d) /\ Lends(d)
BY DEF SameLending, IsCon, Lends, Assisting

\* The connection after a message: what is about the memory, and the layout.
Described(c, s, code, depth, l) ==
  [MemoryAllocationComplete(ResizedAreas(c, s, code, depth), s) EXCEPT !.layout = <<l>>]

\* A message leaves what is about the assistant.
LEMMA ResizedFacts ==
  ASSUME NEW c, IsCon(c), NEW s, NEW code, NEW depth, NEW l
  PROVE  /\ SameLending(c, Described(c, s, code, depth, l))
         /\ Described(c, s, code, depth, l).layout = <<l>>
         /\ Described(c, s, code, depth, l).code = code
<1> DEFINE r == ResizedAreas(c, s, code, depth)
           t == MemoryAllocationComplete(r, s)
<1>1. SameLending(c, r) /\ r.code = code
  BY DEF ResizedAreas, IsCon, Fields, SameLending
<1> HIDE DEF r
<1>2. SameLending(c, t) /\ t.code = code
  BY <1>1 DEF MemoryAllocationComplete, Fields, SameLending
<1> HIDE DEF t
<1>3. Described(c, s, code, depth, l) = [t EXCEPT !.layout = <<l>>]
  BY DEF Described, t, r
<1> QED
  BY <1>2, <1>3 DEF Fields, SameLending

\* The end of a client info may start a helper, and tells it of the monitors.
LEMMA HelpedFacts ==
  ASSUME NEW c, IsCon(c), Lends(c), NEW s, NEW ms, NEW d \in Helped(c, s, ms)
  PROVE  /\ IsCon(d)
         /\ Lends(d)
         /\ d.num = c.num /\ d.slots = c.slots /\ d.layout = c.layout /\ d.code = c.code
         /\ Assisting(c) => Assisting(d)
<1>1. CASE ~UseAccelAssist(c.code)
  BY <1>1 DEF Helped
<1>2. CASE UseAccelAssist(c.code)
  <2> DEFINE b == [c EXCEPT !.assist = TRUE]
  <2>1. PICK a \in StartAccelAssist(b) : d = SendAssistMonitors(a, s, ms)
    BY <1>2 DEF Helped
  <2>2. /\ DOMAIN b = Fields
        /\ b.num = c.num /\ b.slots = c.slots /\ b.layout = c.layout /\ b.code = c.code
        /\ b.helper = c.helper /\ b.helperTold = c.helperTold /\ b.assist
    BY DEF IsCon, Fields
  <2> HIDE DEF b
  <2>3. /\ DOMAIN a = Fields
        /\ a.num = c.num /\ a.slots = c.slots /\ a.layout = c.layout /\ a.code = c.code
        /\ a.helperTold = c.helperTold /\ a.assist
        /\ a.helper \in {"running", "dead", "failed"}
        /\ c.helper \in {"running", "dead"} => a.helper = c.helper
    BY <2>1, <2>2 DEF StartAccelAssist, Fields
  <2>4. /\ DOMAIN d = Fields
        /\ d.num = c.num /\ d.slots = c.slots /\ d.layout = c.layout /\ d.code = c.code
        /\ d.assist
        /\ d.helper = a.helper
        /\ a.helper = "failed" => d.helperTold = c.helperTold
    BY <2>1, <2>3 DEF SendAssistMonitors, Fields
  <2> QED
    BY <2>3, <2>4 DEF IsCon, Lends, Assisting
<1> QED
  BY <1>1, <1>2

-----------------------------------------------------------------------------
(* Counting *)

\* A pixmap is lent for finitely many monitors.
LEMMA RegisteredFinite ==
  ASSUME NEW c, NEW p
  PROVE  IsFiniteSet(Registered(c, p)) /\ Cardinality(Registered(c, p)) \in Nat
<1>1. IsFiniteSet(0..15)
  <2>1. 0 \in Int /\ 15 \in Int
    OBVIOUS
  <2> QED
    BY <2>1, FS_Interval
<1>2. Registered(c, p) \in SUBSET (0..15)
  BY DesktopAssumption DEF Registered
<1>3. IsFiniteSet(Registered(c, p))
  BY <1>1, <1>2, FS_Subset
<1> QED
  BY <1>3, FS_CardinalityType

\* Lending a pixmap for a monitor counts it once more, and the one that was lent
\* before once less.
LEMMA LendCounts ==
  ASSUME NEW c, IsCon(c), NEW i \in Slots, NEW p \in Pixmaps, NEW q \in Pixmaps,
         NEW d, d = [c EXCEPT !.slots[i] = <<p>>]
  PROVE  Cardinality(Registered(d, q))
           = Cardinality(Registered(c, q)) + (IF q = p THEN 1 ELSE 0)
               - (IF c.slots[i] = <<q>> THEN 1 ELSE 0)
<1> DEFINE old == Registered(c, q)
           new == Registered(d, q)
<1>1. d.slots = [c.slots EXCEPT ![i] = <<p>>]
  BY DEF IsCon, Fields
<1>2. \A j \in Slots : d.slots[j] = IF j = i THEN <<p>> ELSE c.slots[j]
  BY <1>1 DEF IsCon
<1>3. new = {j \in Slots : IF j = i THEN q = p ELSE c.slots[j] = <<q>>}
  BY <1>2 DEF Registered
<1>4. IsFiniteSet(old) /\ Cardinality(old) \in Nat
  BY RegisteredFinite
<1>5. CASE q = p /\ c.slots[i] = <<q>>
  <2>1. new = old
    BY <1>3, <1>5 DEF Registered
  <2> QED
    BY <2>1, <1>4, <1>5
<1>6. CASE q = p /\ c.slots[i] # <<q>>
  <2>1. new = old \cup {i} /\ i \notin old
    BY <1>3, <1>6 DEF Registered
  <2> QED
    BY <2>1, <1>4, <1>6, FS_AddElement
<1>7. CASE q # p /\ c.slots[i] = <<q>>
  <2>1. new = old \ {i} /\ i \in old
    BY <1>3, <1>7 DEF Registered
  <2> QED
    BY <2>1, <1>4, <1>7, FS_RemoveElement
<1>8. CASE q # p /\ c.slots[i] # <<q>>
  <2>1. new = old
    BY <1>3, <1>8 DEF Registered
  <2> QED
    BY <2>1, <1>4, <1>8
<1> QED
  BY <1>5, <1>6, <1>7, <1>8

\* Nothing is lent by a connection without a helper.
LEMMA NothingLent ==
  ASSUME NEW c, Lends(c), ~Assisting(c), NEW p
  PROVE  Registered(c, p) = {}
BY DEF Lends, Assisting, Registered, None

-----------------------------------------------------------------------------
(* Pixmaps *)

\* The session starts without a helper.
LEMMA LendAtInit == DesktopInit => LendInv
<1> SUFFICES ASSUME DesktopInit PROVE LendInv
  OBVIOUS
<1>1. IsCon(con) /\ Lends(con) /\ \A p \in Pixmaps : Registered(con, p) = {}
  BY NewConFacts DEF DesktopInit, NoCon
<1>2. CountType /\ HelpersKnown
  BY DEF DesktopInit, CountType, HelpersKnown, NoCon, NewCon
<1>3. \A p \in Pixmaps : Cardinality(Registered(con, p)) = 0
  BY <1>1, FS_EmptySet
<1>4. PixmapsCounted
  BY <1>3 DEF DesktopInit, PixmapsCounted
<1> QED
  BY <1>1, <1>2, <1>4 DEF LendInv

\* A step that keeps the pixmaps, the helpers that hold them and what is lent.
LEMMA CountsKept ==
  ASSUME LendInv, IsCon(con'), Lends(con'), con'.slots = con.slots,
         HelpersKnown', UNCHANGED <<owner, refs>>
  PROVE  LendInv'
BY DEF LendInv, CountType, PixmapsCounted, Registered

\* A message of the client.
LEMMA MessageLends ==
  ASSUME LendInv, NEW l, NEW code, NEW depth, ClientInfo(l, code, depth) \/ MonitorUpdate(l)
  PROVE  LendInv'
<1> USE DEF LendInv
<1>1. CASE ClientInfo(l, code, depth)
  <2> DEFINE c == Described(con, l.size, code, depth, l)
  <2>1. SameLending(con, c)
    BY ResizedFacts
  <2>2. IsCon(c) /\ Lends(c)
    BY <2>1, SameLendingFacts
  <2>3. con' \in Helped(c, l.size, monitors')
    BY <1>1 DEF ClientInfo, Described
  <2> HIDE DEF c
  <2>4. /\ IsCon(con') /\ Lends(con')
        /\ con'.slots = con.slots /\ con'.num = con.num
        /\ Assisting(con) => Assisting(con')
    BY <2>1, <2>2, <2>3, HelpedFacts DEF SameLending, Assisting
  <2>5. HelpersKnown'
    <3>1. con'.helper = "running" => Assisting(con')
      BY <2>4 DEF Lends, Assisting
    <3> QED
      BY <1>1, <2>4, <3>1 DEF ClientInfo, HelpersKnown
  <2> QED
    BY <1>1, <2>4, <2>5, CountsKept DEF ClientInfo
<1>2. CASE MonitorUpdate(l)
  <2> DEFINE c == Described(con, l.size, con.code, con.depth, l)
  <2>1. SameLending(con, c)
    BY ResizedFacts
  <2>2. IsCon(c) /\ Lends(c)
    BY <2>1, SameLendingFacts
  <2>3. con' = IF c.assist THEN SendAssistMonitors(c, l.size, monitors') ELSE c
    BY <1>2 DEF MonitorUpdate, Described
  <2> HIDE DEF c
  <2>4. /\ DOMAIN con' = Fields
        /\ con'.num = c.num /\ con'.slots = c.slots
        /\ con'.assist = c.assist /\ con'.helper = c.helper
        /\ con'.helperTold = c.helperTold \/ (c.assist /\ c.helper # "failed")
    BY <2>1, <2>3 DEF SendAssistMonitors, SameLending, Fields
  <2>5. IsCon(con')
    BY <2>2, <2>4 DEF IsCon
  <2>6. Lends(con')
    BY <2>2, <2>4 DEF IsCon, Lends, Assisting
  <2>7. HelpersKnown'
    BY <1>2, <2>1, <2>4 DEF MonitorUpdate, SameLending, HelpersKnown, Assisting
  <2> QED
    BY <1>2, <2>1, <2>4, <2>5, <2>6, <2>7, CountsKept DEF MonitorUpdate, SameLending
<1> QED
  BY <1>1, <1>2

\* A client leaves or is replaced: what its helper had lent is given back.
LEMMA DisconnectLends ==
  ASSUME LendInv, NEW n \in Nat, Disconnect(NewCon(n)), HelpersKnown'
  PROVE  LendInv'
<1> USE DEF LendInv
<1>1. IsCon(con') /\ Lends(con') /\ \A p \in Pixmaps : Registered(con', p) = {}
  BY NewConFacts DEF Disconnect
<1>2. \A p \in Pixmaps :
        /\ refs'[p] = refs[p] - Cardinality(Registered(con, p))
        /\ Cardinality(Registered(con, p)) \in Nat
  <2>1. CASE Assisting(con)
    BY <2>1, RegisteredFinite DEF Disconnect, GiveBack, Assisting
  <2>2. CASE ~Assisting(con)
    <3>1. \A p \in Pixmaps : Cardinality(Registered(con, p)) = 0
      BY <2>2, NothingLent, FS_EmptySet
    <3>2. refs' = refs
      BY <2>2 DEF Disconnect, GiveBack, Assisting
    <3> QED
      BY <3>1, <3>2 DEF CountType
  <2> QED
    BY <2>1, <2>2
<1>3. refs' \in [Pixmaps -> Int]
  <2>1. DOMAIN refs' = Pixmaps /\ refs' = [p \in Pixmaps |-> refs'[p]]
    BY DEF Disconnect, GiveBack, CountType
  <2> QED
    BY <1>2, <2>1 DEF CountType
<1>4. \A p \in Pixmaps : Cardinality(Registered(con', p)) = 0
  BY <1>1, FS_EmptySet
<1>5. PixmapsCounted'
  BY <1>2, <1>4 DEF Disconnect, CountType, PixmapsCounted
<1> QED
  BY <1>1, <1>3, <1>5 DEF Disconnect, CountType

\* A helper creates, frees and lends pixmaps, and dies.
LEMMA HelperLends == ASSUME LendInv, Helper PROVE LendInv'
<1> USE DEF LendInv
<1> PICK n \in helpers :
      \/ HelperDies(n)
      \/ \E p \in Pixmaps :
           \/ HelperCreates(n, p)
           \/ HelperFrees(n, p)
           \/ \E i \in Slots : HelperRegisters(n, p, i)
  BY DEF Helper
<1>1. n \in Nat /\ n # 0
  BY DEF HelpersKnown
<1>2. CASE HelperDies(n)
  <2>1. /\ DOMAIN con' = Fields /\ con'.num = con.num /\ con'.slots = con.slots
        /\ con'.assist = con.assist /\ con'.helperTold = con.helperTold
        /\ con'.helper = IF con.num = n THEN "dead" ELSE con.helper
    BY <1>2 DEF HelperDies, IsCon, Fields
  <2>2. IsCon(con')
    BY <2>1 DEF IsCon
  <2>3. Lends(con')
    BY <1>2, <2>1 DEF HelpersKnown, Lends, Assisting
  <2>4. HelpersKnown'
    BY <1>2, <2>1 DEF HelperDies, HelpersKnown, Assisting
  <2>5. \A p \in Pixmaps : Registered(con', p) = Registered(con, p)
    BY <2>1 DEF Registered
  <2>6. CountType'
    BY <1>2 DEF HelperDies, CountType
  <2>7. \A p \in Pixmaps : Cardinality(Registered(con, p)) \in Nat
    BY RegisteredFinite
  <2>8. PixmapsCounted'
    <3> SUFFICES ASSUME NEW q \in Pixmaps
                 PROVE  refs'[q] = (IF owner'[q] # 0 THEN 1 ELSE 0)
                                     + Cardinality(Registered(con', q))
      BY DEF PixmapsCounted
    <3>1. refs[q] = (IF owner[q] # 0 THEN 1 ELSE 0) + Cardinality(Registered(con, q))
      BY DEF PixmapsCounted
    <3>2. refs[q] \in Int /\ Cardinality(Registered(con', q)) = Cardinality(Registered(con, q))
      BY <2>5 DEF CountType
    <3> QED
      BY <1>1, <1>2, <2>7, <3>1, <3>2 DEF HelperDies
  <2> QED
    BY <2>2, <2>3, <2>4, <2>6, <2>8
<1>3. ASSUME NEW p \in Pixmaps, HelperCreates(n, p) \/ HelperFrees(n, p) PROVE LendInv'
  <2>1. UNCHANGED <<con, helpers, accepted>>
    BY <1>3 DEF HelperCreates, HelperFrees
  <2>2. CountType'
    BY <1>1, <1>3 DEF HelperCreates, HelperFrees, CountType
  <2>3. \A q \in Pixmaps : Cardinality(Registered(con, q)) \in Nat
    BY RegisteredFinite
  <2>4. PixmapsCounted'
    BY <1>1, <1>3, <2>1, <2>3 DEF HelperCreates, HelperFrees, CountType, PixmapsCounted
  <2> QED
    BY <2>1, <2>2, <2>4 DEF HelpersKnown
<1>4. ASSUME NEW p \in Pixmaps, NEW i \in Slots, HelperRegisters(n, p, i) PROVE LendInv'
  <2>1. CASE UNCHANGED <<con, refs>>
    BY <1>4, <2>1, CountsKept DEF HelperRegisters, HelpersKnown
  <2>2. CASE i < Len(con.helperTold) /\ con' = [con EXCEPT !.slots[i] = <<p>>] /\ refs' = Lend(i, p)
    <3>1. con.helperTold # None
      <4>1. i \in Nat
        BY DesktopAssumption
      <4> QED
        BY <2>2, <4>1 DEF None
    <3>2. /\ DOMAIN con' = Fields /\ con'.num = con.num /\ con'.helper = con.helper
          /\ con'.assist = con.assist /\ con'.helperTold = con.helperTold
          /\ con'.slots = [con.slots EXCEPT ![i] = <<p>>]
      BY <2>2 DEF IsCon, Fields
    <3>3. IsCon(con')
      BY <3>2 DEF IsCon
    <3>4. Lends(con')
      BY <3>1, <3>2 DEF Lends, Assisting
    <3>5. \A q \in Pixmaps :
            Cardinality(Registered(con', q))
              = Cardinality(Registered(con, q)) + (IF q = p THEN 1 ELSE 0)
                  - (IF con.slots[i] = <<q>> THEN 1 ELSE 0)
      BY <2>2, LendCounts
    <3>6. \A q \in Pixmaps : Cardinality(Registered(con, q)) \in Nat
      BY RegisteredFinite
    <3>7. UNCHANGED <<helpers, owner, accepted>>
      BY <1>4 DEF HelperRegisters
    <3>8. CountType'
      BY <2>2, <3>7 DEF Lend, CountType
    <3>9. PixmapsCounted'
      <4> SUFFICES ASSUME NEW q \in Pixmaps
                   PROVE  refs'[q] = (IF owner'[q] # 0 THEN 1 ELSE 0)
                                       + Cardinality(Registered(con', q))
        BY DEF PixmapsCounted
      <4>1. refs[q] = (IF owner[q] # 0 THEN 1 ELSE 0) + Cardinality(Registered(con, q))
        BY DEF PixmapsCounted
      <4>2. refs'[q] = refs[q] + (IF q = p THEN 1 ELSE 0)
                         - (IF con.slots[i] = <<q>> THEN 1 ELSE 0)
        BY <2>2 DEF Lend
      <4>3. Cardinality(Registered(con', q))
              = Cardinality(Registered(con, q)) + (IF q = p THEN 1 ELSE 0)
                  - (IF con.slots[i] = <<q>> THEN 1 ELSE 0)
        BY <3>5
      <4> QED
        BY <3>6, <3>7, <4>1, <4>2, <4>3
    <3>10. HelpersKnown'
      BY <3>2, <3>7 DEF HelpersKnown, Assisting
    <3> QED
      BY <3>3, <3>4, <3>8, <3>9, <3>10
  <2> QED
    BY <1>4, <2>1, <2>2 DEF HelperRegisters
<1> QED
  BY <1>2, <1>3, <1>4

\* Every step keeps the counts.
LEMMA LendKept == LendInv /\ [DesktopNext]_allVars => LendInv'
<1> SUFFICES ASSUME LendInv, [DesktopNext]_allVars PROVE LendInv'
  OBVIOUS
<1>1. ASSUME UNCHANGED <<con, accepted, helpers, owner, refs>> PROVE LendInv'
  BY <1>1, CountsKept DEF LendInv, HelpersKnown
<1>2. CASE Start
  BY <1>1, <1>2 DEF Start
<1>3. CASE XResize
  BY <1>1, <1>3 DEF XResize
<1>4. CASE XClient
  BY <1>1, <1>4 DEF XClient, desktopVars
<1>5. CASE Client
  <2>1. CASE Leave
    <3>1. HelpersKnown'
      BY <2>1 DEF Leave, Disconnect, LendInv, HelpersKnown, NoCon, NewCon
    <3> QED
      BY <2>1, <3>1, DisconnectLends DEF Leave, NoCon
  <2>2. CASE Accept
    <3>1. accepted \in Nat
      BY DEF LendInv, HelpersKnown
    <3>2. HelpersKnown'
      BY <2>2 DEF Accept, Disconnect, LendInv, HelpersKnown, NewCon
    <3> QED
      BY <2>2, <3>1, <3>2, DisconnectLends DEF Accept
  <2> QED
    BY <1>5, <2>1, <2>2, MessageLends DEF Client
<1>6. CASE Helper
  BY <1>6, HelperLends
<1>7. CASE UNCHANGED allVars
  BY <1>1, <1>7 DEF allVars, desktopVars
<1> QED
  BY <1>2, <1>3, <1>4, <1>5, <1>6, <1>7 DEF DesktopNext

\* LendInv holds of every pixmap of every helper (module/rdpPutImage.c,
\* rdpShutdownAccelAssist).
THEOREM LendInvariant == DesktopSpec => []LendInv
BY LendAtInit, LendKept, PTL DEF DesktopSpec

\* The count of a pixmap is one for the helper that holds it, and one for each
\* monitor that it is lent for, whoever dies first (rdpPutImage,
\* rdpShutdownAccelAssist).
THEOREM PixmapsStayCounted == DesktopSpec => []PixmapsCounted
<1>1. LendInv => PixmapsCounted
  BY DEF LendInv
<1> QED
  BY <1>1, LendInvariant, PTL

-----------------------------------------------------------------------------
(* What the assistant knows *)

\* What a helper is told of the monitors of a screen.
Told(ms, s) == [i \in DOMAIN WantedRects(ms, s) |-> Mode(WantedRects(ms, s)[i])]

\* A running helper has been told after a client info.
LEMMA HelpedKnows ==
  ASSUME NEW c, IsCon(c), Lends(c), NEW s, NEW ms, NEW d \in Helped(c, s, ms),
         c.helper = "running" => UseAccelAssist(c.code), d.helper = "running"
  PROVE  UseAccelAssist(c.code) /\ d.helperTold = Told(ms, s)
<1>1. UseAccelAssist(c.code)
  BY DEF Helped
<1> DEFINE b == [c EXCEPT !.assist = TRUE]
<1>2. PICK a \in StartAccelAssist(b) : d = SendAssistMonitors(a, s, ms)
  BY <1>1 DEF Helped
<1>3. DOMAIN b = Fields
  BY DEF IsCon, Fields
<1> HIDE DEF b
<1>4. DOMAIN a = Fields
  BY <1>2, <1>3 DEF StartAccelAssist, Fields
<1> QED
  BY <1>1, <1>2, <1>4 DEF SendAssistMonitors, Told, Fields

\* A step that neither starts a helper, nor tells one, nor changes the screen.
LEMMA AssistKept ==
  ASSUME AssistInv, UNCHANGED <<driver, size, monitors, started, allow>>,
         con'.assist = con.assist, con'.layout = con.layout, con'.code = con.code,
         con'.helperTold = con.helperTold, con'.helper \in {con.helper, "dead"},
         ~started => con'.helper = con.helper
  PROVE  AssistInv'
BY DEF AssistInv, AssistKnowsMonitors, Wanted, UseAccelAssist

\* There is nobody to tell at the start.
LEMMA AssistAtInit == DesktopInit => AssistInv
BY DEF DesktopInit, AssistInv, AssistKnowsMonitors, NoCon, NewCon

\* A message resizes the screen, which stays closed to others, and a helper that
\* runs is told.
LEMMA MessageAssists ==
  ASSUME LendInv, AssistInv, NEW l, NEW code, NEW depth,
         ClientInfo(l, code, depth) \/ MonitorUpdate(l)
  PROVE  AssistInv'
<1> USE DEF LendInv
<1>1. size' = l.size
  BY DEF ClientInfo, MonitorUpdate, Resize, ScreenSetSize
<1>2. ~allow'
  BY DEF ClientInfo, MonitorUpdate, Resize, AssistInv, AllowAfter
<1>3. driver' = driver
  BY DEF ClientInfo, MonitorUpdate
<1>4. started' = started /\ started
  <2>1. CASE ClientInfo(l, code, depth)
    BY <2>1 DEF ClientInfo
  <2>2. CASE MonitorUpdate(l) /\ started
    BY <2>2 DEF MonitorUpdate
  <2>3. CASE MonitorUpdate(l) /\ ~started
    BY <2>3 DEF MonitorUpdate, AssistInv
  <2> QED
    BY <2>1, <2>2, <2>3
<1>5. ASSUME con'.helper = "running"
      PROVE  /\ con'.layout # None
             /\ UseAccelAssist(con'.code)
             /\ con'.helperTold = Told(monitors', l.size)
  <2>1. CASE ClientInfo(l, code, depth)
    <3> DEFINE c == Described(con, l.size, code, depth, l)
    <3>1. SameLending(con, c) /\ c.layout = <<l>> /\ c.code = code
      BY ResizedFacts
    <3>2. IsCon(c) /\ Lends(c)
      BY <3>1, SameLendingFacts
    <3>3. con' \in Helped(c, l.size, monitors')
      BY <2>1 DEF ClientInfo, Described
    <3>4. c.helper = "running" => UseAccelAssist(c.code)
      BY <2>1, <3>1 DEF ClientInfo, SameLending, AssistInv
    <3> HIDE DEF c
    <3>5. UseAccelAssist(c.code) /\ con'.helperTold = Told(monitors', l.size)
      BY <1>5, <3>2, <3>3, <3>4, HelpedKnows
    <3>6. con'.layout = c.layout /\ con'.code = c.code
      BY <3>2, <3>3, HelpedFacts
    <3> QED
      BY <3>1, <3>5, <3>6 DEF None
  <2>2. CASE MonitorUpdate(l)
    <3> DEFINE c == Described(con, l.size, con.code, con.depth, l)
    <3>1. SameLending(con, c) /\ c.layout = <<l>> /\ c.code = con.code
      BY ResizedFacts
    <3>2. con' = IF c.assist THEN SendAssistMonitors(c, l.size, monitors') ELSE c
      BY <2>2 DEF MonitorUpdate, Described
    <3> HIDE DEF c
    <3>3. con'.helper = con.helper /\ con'.layout = <<l>> /\ con'.code = con.code
      BY <3>1, <3>2 DEF SendAssistMonitors, SameLending, Fields
    <3>4. c.assist /\ c.helper = "running"
      BY <1>5, <3>1, <3>3 DEF Lends, SameLending
    <3>5. con'.helperTold = Told(monitors', l.size)
      BY <3>1, <3>2, <3>4 DEF SendAssistMonitors, SameLending, Told, Fields
    <3> QED
      BY <1>5, <3>3, <3>5 DEF AssistInv, None
  <2> QED
    BY <2>1, <2>2
<1> QED
  BY <1>1, <1>2, <1>3, <1>4, <1>5
     DEF AssistInv, AssistKnowsMonitors, UseAccelAssist, Wanted, Told

\* Every step keeps what the assistant knows.
LEMMA AssistStep == LendInv /\ AssistInv /\ [DesktopNext]_allVars => AssistInv'
<1> SUFFICES ASSUME LendInv, AssistInv, [DesktopNext]_allVars PROVE AssistInv'
  OBVIOUS
<1>1. CASE Start
  BY <1>1 DEF Start, Resize, AssistInv, AssistKnowsMonitors, AllowAfter
<1>2. CASE XResize
  BY <1>2, AssistKept DEF XResize, AssistInv
<1>3. CASE XClient
  <2>1. UNCHANGED <<driver, size, monitors>>
    BY <1>3 DEF XClient, SelectInput, WindowGoes, ScriptRuns
  <2> QED
    BY <1>3, <2>1, AssistKept DEF XClient, desktopVars
<1>4. CASE Leave \/ Accept
  <2>1. con'.helper = "none" /\ ~con'.assist /\ con'.layout = None
    BY <1>4 DEF Leave, Accept, Disconnect, NoCon, NewCon
  <2> QED
    BY <1>4, <2>1 DEF Leave, Accept, Disconnect, AssistInv, AssistKnowsMonitors
<1>5. CASE Client
  BY <1>4, <1>5, MessageAssists DEF Client
<1>6. CASE Helper
  <2>1. /\ UNCHANGED <<driver, size, monitors, started, allow>>
        /\ con'.assist = con.assist /\ con'.layout = con.layout /\ con'.code = con.code
        /\ con'.helperTold = con.helperTold
        /\ con'.helper = con.helper
              \/ (con'.helper = "dead" /\ con.num \in helpers)
    BY <1>6 DEF Helper, HelperDies, HelperCreates, HelperFrees, HelperRegisters, outputVars,
                LendInv, IsCon, Fields
  <2>2. con.num \in helpers => started
    BY DEF LendInv, HelpersKnown, Assisting, AssistInv
  <2> QED
    BY <2>1, <2>2, AssistKept
<1>7. CASE UNCHANGED allVars
  BY <1>7, AssistKept DEF allVars, outputVars, desktopVars
<1> QED
  BY <1>1, <1>2, <1>3, <1>5, <1>6, <1>7 DEF DesktopNext

\* A helper that runs knows the monitors, after failed attempts to start it and
\* after every change of the layout (rdpSendAccelAssistMonitors).
THEOREM AssistStaysInformed == DesktopSpec => []AssistKnowsMonitors
<1>1. AssistInv => AssistKnowsMonitors
  BY DEF AssistInv
<1> QED
  BY <1>1, AssistAtInit, AssistStep, LendInvariant, PTL DEF DesktopSpec

-----------------------------------------------------------------------------
(* Numbers *)

\* A set of naturals has a least number: the sets of the numbers up to each of
\* them are finite, and one of these holds no other.
LEMMA LeastNatural ==
  ASSUME NEW T \in SUBSET Nat, T # {}
  PROVE  \E n \in T : \A m \in T : n <= m
<1> DEFINE R == StrictSubsetOrdering(Nat)
           upTo == {0..n : n \in T}
<1>1. IsWellFoundedOn(R, FiniteSubsetsOf(Nat))
  BY FS_StrictSubsetOrderingWellFounded
<1>2. upTo \subseteq FiniteSubsetsOf(Nat)
  <2>1. 0 \in Int
    OBVIOUS
  <2>2. \A n \in T : IsFiniteSet(0..n)
    BY <2>1, FS_Interval
  <2> QED
    BY <2>2 DEF FiniteSubsetsOf
<1>3. upTo # {}
  OBVIOUS
<1> HIDE DEF R, upTo
<1>4. PICK s \in upTo : \A t \in upTo : ~ (<<t, s>> \in R)
  BY <1>1, <1>2, <1>3, WFMin
<1>5. PICK n \in T : s = 0..n
  BY <1>4 DEF upTo
<1>6. ASSUME NEW m \in T, m < n PROVE FALSE
  <2> DEFINE pair == <<0..m, 0..n>>
  <2>1. 0..m \in upTo
    BY DEF upTo
  <2>2. pair \in (SUBSET Nat) \X (SUBSET Nat) /\ pair[1] = 0..m /\ pair[2] = 0..n
    OBVIOUS
  <2>3. 0..m \subseteq 0..n /\ 0..m # 0..n
    BY <1>6
  <2>4. pair \in R
    BY <2>2, <2>3 DEF R, StrictSubsetOrdering
  <2> QED
    BY <1>4, <1>5, <2>1, <2>4
<1> QED
  BY <1>6

\* A set of positions has a last one.
LEMMA LastPosition ==
  ASSUME NEW n \in Nat, NEW S \in SUBSET (1..n), S # {}
  PROVE  \E i \in S : \A j \in S : j <= i
<1> DEFINE back == {n - i : i \in S}
<1>1. back \in SUBSET Nat /\ back # {}
  <2>1. \A i \in S : n - i \in Nat
    OBVIOUS
  <2> QED
    BY <2>1
<1>2. PICK k \in back : \A m \in back : k <= m
  <2> HIDE DEF back
  <2> QED
    BY <1>1, LeastNatural
<1>3. PICK i \in S : k = n - i
  BY <1>2
<1>4. ASSUME NEW j \in S PROVE j <= i
  <2>1. n - i <= n - j
    BY <1>2, <1>3
  <2> QED
    BY <2>1
<1> QED
  BY <1>4

\* Of numbers in a row one is the least: if not of the first k of them, for the
\* least such k, then it is of those before, or the last of them is less.
LEMMA LeastInRow ==
  ASSUME NEW n \in Nat \ {0}, NEW f \in [1..n -> Int]
  PROVE  \E i \in 1..n : \A j \in 1..n : f[i] <= f[j]
<1> DEFINE Has(k) == \E i \in 1..k : \A j \in 1..k : f[i] <= f[j]
           Bad    == {k \in 1..n : ~Has(k)}
<1>1. CASE Bad = {}
  <2>1. n \in 1..n
    OBVIOUS
  <2> HIDE DEF Has
  <2>2. Has(n)
    BY <1>1, <2>1
  <2> QED
    BY <2>2 DEF Has
<1>2. CASE Bad # {}
  <2>1. Bad \in SUBSET Nat
    OBVIOUS
  <2>2. PICK k \in Bad : \A m \in Bad : k <= m
    <3> HIDE DEF Bad
    <3> QED
      BY <1>2, <2>1, LeastNatural
  <2> HIDE DEF Has
  <2>0. k \in 1..n /\ ~Has(k)
    BY <2>2
  <2>3. k # 1
    <3>1. 1 \in 1..1 /\ \A j \in 1..1 : j = 1
      OBVIOUS
    <3>2. f[1] \in Int /\ f[1] <= f[1]
      OBVIOUS
    <3>3. Has(1)
      BY <3>1, <3>2 DEF Has
    <3> QED
      BY <2>0, <3>3
  <2>4. k - 1 \in 1..n /\ Has(k - 1)
    <3>1. k - 1 \in 1..n /\ ~ (k <= k - 1)
      BY <2>0, <2>3
    <3> QED
      BY <2>2, <3>1
  <2>5. PICK i \in 1..(k - 1) : \A j \in 1..(k - 1) : f[i] <= f[j]
    BY <2>4 DEF Has
  <2>6. k \in 1..n /\ f[k] \in Int /\ f[i] \in Int /\ i \in 1..k /\ k \in 1..k
    BY <2>0, <2>4, <2>5
  <2>7. \A j \in 1..k : j \in 1..(k - 1) \/ j = k
    BY <2>6
  <2>8. CASE f[i] <= f[k]
    <3>1. \A j \in 1..k : f[i] <= f[j]
      BY <2>5, <2>7, <2>8
    <3> QED
      BY <2>0, <2>6, <3>1 DEF Has
  <2>9. CASE f[k] <= f[i]
    <3>1. \A j \in 1..k : f[k] <= f[j]
      <4> TAKE j \in 1..k
      <4>1. j \in 1..n /\ f[j] \in Int
        BY <2>6
      <4>2. CASE j = k
        BY <2>6, <4>2
      <4>3. CASE j # k
        <5>1. f[i] <= f[j]
          BY <2>5, <2>7, <4>3
        <5> QED
          BY <2>6, <2>9, <4>1, <5>1
      <4> QED
        BY <4>2, <4>3
    <3> QED
      BY <2>0, <2>6, <3>1 DEF Has
  <2> QED
    BY <2>6, <2>8, <2>9
<1> QED
  BY <1>1, <1>2

\* The largest and the smallest of two numbers.
LEMMA MaxOfTwo ==
  ASSUME NEW a \in Int, NEW b \in Int
  PROVE  Max({a, b}) = IF a >= b THEN a ELSE b
<1>1. \E x \in {a, b} : \A y \in {a, b} : x >= y
  OBVIOUS
<1>2. Max({a, b}) \in {a, b} /\ \A y \in {a, b} : Max({a, b}) >= y
  BY <1>1 DEF Max
<1> QED
  BY <1>2

\* The least number of a row is one of it.
LEMMA LeastValue ==
  ASSUME NEW n \in Nat \ {0}, NEW f \in [1..n -> Int]
  PROVE  /\ Min({f[i] : i \in 1..n}) \in Int
         /\ \E i \in 1..n : Min({f[j] : j \in 1..n}) = f[i]
         /\ \A i \in 1..n : Min({f[j] : j \in 1..n}) <= f[i]
<1> DEFINE S == {f[i] : i \in 1..n}
<1>1. PICK i \in 1..n : \A j \in 1..n : f[i] <= f[j]
  BY LeastInRow
<1>2. \E x \in S : \A y \in S : x <= y
  BY <1>1
<1>3. Min(S) \in S /\ \A y \in S : Min(S) <= y
  BY <1>2 DEF Min
<1> QED
  BY <1>3

\* A number that is rounded up to a multiple gets no smaller.
LEMMA AlignedFacts ==
  ASSUME NEW s \in Spans, NEW a \in Nat \ {0}
  PROVE  /\ Aligned(s, a) \in Spans
         /\ \A i \in {1, 2} : s[i] <= Aligned(s, a)[i]
<1>1. ASSUME NEW n \in Nat
      PROVE  /\ ((n + a - 1) \div a) * a \in Nat
             /\ n <= ((n + a - 1) \div a) * a
  <2> DEFINE m == n + a - 1
             q == m \div a
  <2>1. m \in Nat
    OBVIOUS
  <2>2. q \in Nat /\ m < q * a + a
    <3> HIDE DEF m
    <3> QED
      BY <2>1, Z3
  <2> HIDE DEF q
  <2>3. q * a \in Nat
    BY <2>2
  <2>4. n <= q * a
    BY <2>2, <2>3
  <2> QED
    BY <2>3, <2>4 DEF q
<1>2. s[1] \in Nat /\ s[2] \in Nat
  BY DEF Spans
<1> QED
  BY <1>1, <1>2 DEF Aligned, Spans

-----------------------------------------------------------------------------
(* Monitors *)

\* The monitors that there are: no more than there is room for.
IsMonitors(ms) == ms \in Seq(Monitor) /\ Len(ms) <= MaxMonitors

\* A monitor that is moved.
Moved(m, x, y) ==
  [m EXCEPT !.left = @ - x, !.right = @ - x, !.top = @ - y, !.bottom = @ - y]

\* It stays one.
LEMMA MovedFacts ==
  ASSUME NEW m \in Monitor, NEW x \in Int, NEW y \in Int
  PROVE  /\ Moved(m, x, y) \in Monitor
         /\ Moved(m, x, y).left = m.left - x /\ Moved(m, x, y).right = m.right - x
         /\ Moved(m, x, y).top = m.top - y /\ Moved(m, x, y).bottom = m.bottom - y
         /\ Moved(m, x, y).primary = m.primary
<1>1. /\ DOMAIN Moved(m, x, y) = {"left", "top", "right", "bottom", "primary"}
      /\ Moved(m, x, y).left = m.left - x /\ Moved(m, x, y).right = m.right - x
      /\ Moved(m, x, y).top = m.top - y /\ Moved(m, x, y).bottom = m.bottom - y
  BY DEF Moved, Monitor
<1>2. Moved(m, x, y).primary = m.primary
  BY DEF Moved, Monitor
<1>3. /\ m.left - x \in Int /\ m.right - x \in Int
      /\ m.top - y \in Int /\ m.bottom - y \in Int
  BY DEF Monitor
<1>4. m.primary \in BOOLEAN
  BY DEF Monitor
<1>5. Moved(m, x, y) \in Monitor
  BY <1>1, <1>2, <1>3, <1>4 DEF Moved, Monitor
<1> QED
  BY <1>1, <1>2, <1>5

\* Monitors that lie to each other as others do, and inside a size.
SameShape(new, old) ==
  \E x, y \in Int :
    \A i \in DOMAIN old :
      /\ new[i].left = old[i].left - x
      /\ new[i].right = old[i].right - x
      /\ new[i].top = old[i].top - y
      /\ new[i].bottom = old[i].bottom - y

Inside(ms, s) ==
  \A i \in DOMAIN ms :
    /\ ms[i].left >= 0 /\ ms[i].right < s[1]
    /\ ms[i].top >= 0 /\ ms[i].bottom < s[2]

\* The monitors of a layout, moved, lie to each other as before, with none left
\* of or above the screen, and inside its size
\* (rdpClientConProcessClientInfoMonitors).
LEMMA ShiftedFacts ==
  ASSUME NEW l \in Layouts, NEW ms, ms = l.monitors
  PROVE  /\ IsMonitors(Shifted(ms))
         /\ Len(Shifted(ms)) = Len(ms)
         /\ DOMAIN Shifted(ms) = DOMAIN ms
         /\ SameShape(Shifted(ms), ms)
         /\ Inside(Shifted(ms), l.size)
<1> DEFINE n == Len(ms)
           x == Min({ms[i].left : i \in DOMAIN ms})
           y == Min({ms[i].top : i \in DOMAIN ms})
<1>1. /\ n \in Nat /\ n <= MaxMonitors /\ DOMAIN ms = 1..n
      /\ \A i \in 1..n : ms[i] \in Monitor
      /\ \A i, j \in 1..n : Reaches(ms[i], ms[j], l.size)
  BY DesktopAssumption
<1>2. Shifted(ms) = [i \in 1..n |-> Moved(ms[i], x, y)]
  BY <1>1 DEF Shifted, Moved
<1>3. ASSUME n # 0
      PROVE  /\ x \in Int /\ y \in Int
             /\ \A i \in 1..n : x <= ms[i].left /\ y <= ms[i].top
             /\ \E i \in 1..n : x = ms[i].left
             /\ \E i \in 1..n : y = ms[i].top
  <2> DEFINE f == [i \in 1..n |-> ms[i].left]
             g == [i \in 1..n |-> ms[i].top]
  <2>1. f \in [1..n -> Int] /\ g \in [1..n -> Int] /\ n \in Nat \ {0}
    BY <1>1, <1>3 DEF Monitor
  <2>2. x = Min({f[i] : i \in 1..n}) /\ y = Min({g[i] : i \in 1..n})
    <3>1. {ms[i].left : i \in DOMAIN ms} = {f[i] : i \in 1..n}
      BY <1>1
    <3>2. {ms[i].top : i \in DOMAIN ms} = {g[i] : i \in 1..n}
      BY <1>1
    <3> QED
      BY <3>1, <3>2
  <2>3. /\ Min({f[i] : i \in 1..n}) \in Int
        /\ \E i \in 1..n : Min({f[j] : j \in 1..n}) = f[i]
        /\ \A i \in 1..n : Min({f[j] : j \in 1..n}) <= f[i]
    <3> HIDE DEF f, n
    <3> QED
      BY <2>1, LeastValue
  <2>4. /\ Min({g[i] : i \in 1..n}) \in Int
        /\ \E i \in 1..n : Min({g[j] : j \in 1..n}) = g[i]
        /\ \A i \in 1..n : Min({g[j] : j \in 1..n}) <= g[i]
    <3> HIDE DEF g, n
    <3> QED
      BY <2>1, LeastValue
  <2> HIDE DEF n, x, y
  <2> QED
    BY <2>2, <2>3, <2>4
<1> HIDE DEF n, x, y
<1>4. ASSUME NEW i \in 1..n
      PROVE  /\ x \in Int /\ y \in Int
             /\ Shifted(ms)[i] \in Monitor
             /\ Shifted(ms)[i].left = ms[i].left - x
             /\ Shifted(ms)[i].right = ms[i].right - x
             /\ Shifted(ms)[i].top = ms[i].top - y
             /\ Shifted(ms)[i].bottom = ms[i].bottom - y
             /\ Shifted(ms)[i].primary = ms[i].primary
  <2>1. ms[i] \in Monitor /\ x \in Int /\ y \in Int
    BY <1>1, <1>3
  <2>2. Shifted(ms)[i] = Moved(ms[i], x, y)
    BY <1>2
  <2> DEFINE m == ms[i]
  <2> HIDE DEF m
  <2>3. /\ m \in Monitor
        /\ Shifted(ms)[i] = Moved(m, x, y)
    BY <2>1, <2>2 DEF m
  <2>4. /\ Moved(m, x, y) \in Monitor
        /\ Moved(m, x, y).left = m.left - x /\ Moved(m, x, y).right = m.right - x
        /\ Moved(m, x, y).top = m.top - y /\ Moved(m, x, y).bottom = m.bottom - y
        /\ Moved(m, x, y).primary = m.primary
    BY <2>1, <2>3, MovedFacts
  <2> QED
    BY <2>1, <2>3, <2>4 DEF m
<1>5. /\ DOMAIN Shifted(ms) = 1..n
      /\ Shifted(ms) \in Seq(Monitor)
      /\ Len(Shifted(ms)) = n
  <2>1. DOMAIN Shifted(ms) = 1..n /\ Shifted(ms) = [i \in 1..n |-> Shifted(ms)[i]]
    BY <1>2
  <2>2. Shifted(ms) \in Seq(Monitor)
    BY <1>1, <1>4, <2>1
  <2> QED
    BY <1>1, <2>1, <2>2
<1>6. ASSUME NEW i \in 1..n
      PROVE  /\ Shifted(ms)[i].left >= 0 /\ Shifted(ms)[i].right < l.size[1]
             /\ Shifted(ms)[i].top >= 0 /\ Shifted(ms)[i].bottom < l.size[2]
  <2>1. n # 0
    BY <1>1
  <2>2. PICK j \in 1..n : x = ms[j].left
    BY <1>3, <2>1
  <2>3. PICK k \in 1..n : y = ms[k].top
    BY <1>3, <2>1
  <2>4. ms[i] \in Monitor /\ x <= ms[i].left /\ y <= ms[i].top
    BY <1>1, <1>3, <2>1
  <2>5. ms[i].right - x < l.size[1] /\ ms[i].bottom - y < l.size[2]
    BY <1>1, <2>2, <2>3 DEF Reaches
  <2> QED
    BY <1>4, <2>4, <2>5 DEF Monitor
<1>7. SameShape(Shifted(ms), ms)
  <2>1. CASE n = 0
    BY <1>1, <2>1 DEF SameShape
  <2>2. CASE n # 0
    <3>1. x \in Int /\ y \in Int
      BY <1>3, <2>2
    <3>2. \A i \in DOMAIN ms :
            /\ Shifted(ms)[i].left = ms[i].left - x
            /\ Shifted(ms)[i].right = ms[i].right - x
            /\ Shifted(ms)[i].top = ms[i].top - y
            /\ Shifted(ms)[i].bottom = ms[i].bottom - y
      BY <1>1, <1>4
    <3> QED
      BY <3>1, <3>2 DEF SameShape
  <2> QED
    BY <2>1, <2>2
<1>8. IsMonitors(Shifted(ms)) /\ Len(Shifted(ms)) = Len(ms) /\ DOMAIN Shifted(ms) = DOMAIN ms
  BY <1>1, <1>5 DEF IsMonitors, n
<1>9. Inside(Shifted(ms), l.size)
  BY <1>5, <1>6 DEF Inside
<1> QED
  BY <1>7, <1>8, <1>9

\* A rectangle of the screen, or none.
Quads  == Int \X Int \X Int \X Int
Places == {None} \cup Quads

\* There is a rectangle to show for each monitor, and always one.
LEMMA WantedFacts ==
  ASSUME NEW ms, IsMonitors(ms), NEW s \in Spans
  PROVE  /\ WantedRects(ms, s) \in Seq(Quads)
         /\ Len(WantedRects(ms, s)) \in 1..MaxMonitors
         /\ Len(WantedRects(ms, s)) = IF ms = <<>> THEN 1 ELSE Len(ms)
<1>1. MaxMonitors \in Nat /\ 1 <= MaxMonitors
  BY DesktopAssumption
<1>2. CASE ms = <<>>
  <2>1. <<0, 0, s[1], s[2]>> \in Quads
    BY DEF Spans, Quads
  <2>2. WantedRects(ms, s) = <<<<0, 0, s[1], s[2]>>>>
    BY <1>2 DEF WantedRects
  <2> DEFINE r == <<0, 0, s[1], s[2]>>
  <2>3. r \in Quads /\ WantedRects(ms, s) = <<r>>
    BY <2>1, <2>2
  <2> HIDE DEF r
  <2>4. <<r>> \in Seq(Quads) /\ Len(<<r>>) = 1
    BY <2>3
  <2> DEFINE q == <<r>>
  <2> HIDE DEF q
  <2>5. q \in Seq(Quads) /\ Len(q) = 1 /\ WantedRects(ms, s) = q
    BY <2>3, <2>4 DEF q
  <2>6. Len(WantedRects(ms, s)) = 1 /\ 1 \in 1..MaxMonitors
    BY <1>1, <2>5
  <2> QED
    BY <1>2, <2>5, <2>6, Zenon
<1>3. CASE ms # <<>>
  <2>1. ms \in Seq(Monitor) /\ Len(ms) \in Nat /\ Len(ms) # 0 /\ DOMAIN ms = 1..Len(ms)
    BY <1>3 DEF IsMonitors
  <2>2. \A i \in 1..Len(ms) : Shown(ms[i]) \in Quads
    <3> TAKE i \in 1..Len(ms)
    <3>1. ms[i] \in Monitor
      BY <2>1
    <3> QED
      BY <3>1 DEF Shown, Monitor, Quads
  <2>3. WantedRects(ms, s) = [i \in 1..Len(ms) |-> Shown(ms[i])]
    BY <1>3, <2>1 DEF WantedRects
  <2>4. WantedRects(ms, s) \in Seq(Quads) /\ Len(WantedRects(ms, s)) = Len(ms)
    BY <2>1, <2>2, <2>3
  <2> QED
    BY <1>1, <1>3, <2>1, <2>4 DEF IsMonitors
<1> QED
  BY <1>2, <1>3

-----------------------------------------------------------------------------
(* Outputs of RandR *)

\* A sequence, whatever is in it.
Listed(q) == Len(q) \in Nat /\ q = [i \in 1..Len(q) |-> q[i]]

\* A sequence that has another element in a place.
Put(q, i, x) == [q EXCEPT ![i] = x]

\* The others stay.
LEMMA PutFacts ==
  ASSUME NEW q, Listed(q), NEW i \in 1..Len(q), NEW x
  PROVE  /\ Listed(Put(q, i, x))
         /\ Len(Put(q, i, x)) = Len(q)
         /\ \A j \in 1..Len(q) : Put(q, i, x)[j] = IF j = i THEN x ELSE q[j]
<1> DEFINE n == Len(q)
           f == [j \in 1..n |-> IF j = i THEN x ELSE q[j]]
<1>1. n \in Nat
  BY DEF Listed
<1>2. Put(q, i, x) = f
  BY DEF Listed, Put
<1> HIDE DEF n
<1>3. Len(f) = n /\ Listed(f)
  BY <1>1 DEF Listed
<1> QED
  BY <1>2, <1>3 DEF n

\* A sequence that has been made longer: the new elements are at its end.
LEMMA GrownFacts ==
  ASSUME NEW q, Listed(q), NEW n \in Nat, NEW new
  PROVE  /\ Listed(Grown(q, n, new))
         /\ Len(Grown(q, n, new)) = IF n >= Len(q) THEN n ELSE Len(q)
         /\ \A i \in 1..Len(Grown(q, n, new)) :
              Grown(q, n, new)[i] = IF i <= Len(q) THEN q[i] ELSE new
<1> DEFINE m == IF n >= Len(q) THEN n ELSE Len(q)
<1>1. Len(q) \in Nat /\ m \in Nat
  BY DEF Listed
<1>2. Max({n, Len(q)}) = m
  BY <1>1, MaxOfTwo
<1>3. Grown(q, n, new) = [i \in 1..m |-> IF i <= Len(q) THEN q[i] ELSE new]
  BY <1>2 DEF Grown
<1> HIDE DEF m
<1>4. Listed(Grown(q, n, new)) /\ Len(Grown(q, n, new)) = m
  BY <1>1, <1>3 DEF Listed
<1> QED
  BY <1>3, <1>4 DEF m

\* The crtcs and outputs of a screen: an output has a crtc, and a crtc that has no
\* output shows nothing.
IsRR(r) ==
  /\ DOMAIN r = {"crtcs", "outputs", "primary"}
  /\ Listed(r.crtcs) /\ Listed(r.outputs)
  /\ Len(r.outputs) <= Len(r.crtcs) /\ Len(r.crtcs) <= MaxMonitors
  /\ \A i \in 1..Len(r.crtcs) : i > Len(r.outputs) => r.crtcs[i] = None

\* Crtcs are added up to that many (rdpRRAddCrtc).
LEMMA AddCrtcsFacts ==
  ASSUME NEW r, IsRR(r), NEW n \in 0..MaxMonitors
  PROVE  /\ IsRR(AddCrtcs(r, n))
         /\ n <= Len(AddCrtcs(r, n).crtcs)
         /\ AddCrtcs(r, n).outputs = r.outputs
<1> DEFINE d == AddCrtcs(r, n)
<1>1. /\ DOMAIN d = {"crtcs", "outputs", "primary"}
      /\ d.outputs = r.outputs
      /\ d.crtcs = Grown(r.crtcs, n, None)
  BY DEF AddCrtcs, IsRR
<1>2. /\ MaxMonitors \in Nat /\ n \in Nat /\ n <= MaxMonitors
      /\ Len(r.crtcs) \in Nat /\ Len(r.outputs) \in Nat
      /\ Len(r.outputs) <= Len(r.crtcs) /\ Len(r.crtcs) <= MaxMonitors
  BY DesktopAssumption DEF IsRR, Listed
<1>3. Listed(r.crtcs) /\ Listed(r.outputs)
  BY DEF IsRR
<1>4. /\ Listed(d.crtcs)
      /\ Len(d.crtcs) = IF n >= Len(r.crtcs) THEN n ELSE Len(r.crtcs)
      /\ \A i \in 1..Len(d.crtcs) :
           d.crtcs[i] = IF i <= Len(r.crtcs) THEN r.crtcs[i] ELSE None
  BY <1>1, <1>2, <1>3, GrownFacts
<1> HIDE DEF d
<1>5. \A i \in 1..Len(d.crtcs) : i > Len(d.outputs) => d.crtcs[i] = None
  BY <1>1, <1>2, <1>4 DEF IsRR
<1>6. Len(d.outputs) <= Len(d.crtcs) /\ Len(d.crtcs) <= MaxMonitors /\ n <= Len(d.crtcs)
  BY <1>1, <1>2, <1>4
<1>7. IsRR(d)
  BY <1>1, <1>3, <1>4, <1>5, <1>6 DEF IsRR
<1> QED
  BY <1>1, <1>6, <1>7 DEF d

\* Outputs are added up to that many (rdpRRAddOutput).
LEMMA AddOutputsFacts ==
  ASSUME NEW r, IsRR(r), NEW n \in 0..Len(r.crtcs)
  PROVE  /\ IsRR(AddOutputs(r, n))
         /\ n <= Len(AddOutputs(r, n).outputs)
         /\ AddOutputs(r, n).crtcs = r.crtcs
<1> DEFINE d == AddOutputs(r, n)
<1>1. /\ DOMAIN d = {"crtcs", "outputs", "primary"}
      /\ d.crtcs = r.crtcs
      /\ d.outputs = Grown(r.outputs, n, NoOutput)
  BY DEF AddOutputs, IsRR
<1>2. /\ MaxMonitors \in Nat
      /\ Len(r.crtcs) \in Nat /\ Len(r.outputs) \in Nat
      /\ Len(r.outputs) <= Len(r.crtcs) /\ Len(r.crtcs) <= MaxMonitors
  BY DesktopAssumption DEF IsRR, Listed
<1>3. Listed(r.crtcs) /\ Listed(r.outputs) /\ n \in Nat /\ n <= Len(r.crtcs)
  BY <1>2 DEF IsRR
<1>4. /\ Listed(d.outputs)
      /\ Len(d.outputs) = IF n >= Len(r.outputs) THEN n ELSE Len(r.outputs)
  BY <1>1, <1>3, GrownFacts
<1> HIDE DEF d
<1>5. \A i \in 1..Len(d.crtcs) : i > Len(d.outputs) => d.crtcs[i] = None
  BY <1>1, <1>2, <1>3, <1>4 DEF IsRR
<1>6. Len(d.outputs) <= Len(d.crtcs) /\ Len(d.crtcs) <= MaxMonitors /\ n <= Len(d.outputs)
  BY <1>1, <1>2, <1>3, <1>4
<1>7. IsRR(d)
  BY <1>1, <1>3, <1>4, <1>5, <1>6 DEF IsRR
<1> QED
  BY <1>1, <1>6, <1>7 DEF d

\* An output that shows a rectangle.
ShowingOutput(rect) == [mode |-> Mode(rect), attached |-> TRUE, connected |-> TRUE]

\* An output after that many calls of its connection, and of its disconnection.
Connecting(o, rect, done) ==
  [mode |-> IF done >= 2 THEN Mode(rect) ELSE o.mode,
   attached |-> done >= 3 \/ o.attached,
   connected |-> done >= 4 \/ o.connected]

Disconnecting(o, done) ==
  [mode |-> IF done >= 1 THEN None ELSE o.mode,
   attached |-> done < 2 /\ o.attached,
   connected |-> done < 3 /\ o.connected]

\* Both change one output and its crtc.
LEMMA ConnectFacts ==
  ASSUME NEW r, IsRR(r), NEW i, NEW rect, NEW done \in Nat
  PROVE  /\ DOMAIN ConnectOutput(r, i, rect, done) = {"crtcs", "outputs", "primary"}
         /\ ConnectOutput(r, i, rect, done).outputs
              = Put(r.outputs, i, Connecting(r.outputs[i], rect, done))
         /\ ConnectOutput(r, i, rect, done).crtcs
              = Put(r.crtcs, i, IF done >= 6 THEN rect ELSE r.crtcs[i])
BY DEF ConnectOutput, IsRR, Connecting, Put

\* ... and so does a disconnection.
LEMMA DisconnectFacts ==
  ASSUME NEW r, IsRR(r), NEW i, NEW done \in Nat
  PROVE  /\ DOMAIN DisconnectOutput(r, i, done) = {"crtcs", "outputs", "primary"}
         /\ DisconnectOutput(r, i, done).outputs
              = Put(r.outputs, i, Disconnecting(r.outputs[i], done))
         /\ DisconnectOutput(r, i, done).crtcs
              = Put(r.crtcs, i, IF done >= 3 THEN None ELSE r.crtcs[i])
BY DEF DisconnectOutput, IsRR, Disconnecting, Put

\* All calls made, the output shows its rectangle, or nothing.
LEMMA AllCallsMade ==
  ASSUME NEW o, NEW rect
  PROVE  Connecting(o, rect, 6) = ShowingOutput(rect) /\ Disconnecting(o, 3) = NoOutput
<1>1. 6 >= 2 /\ 6 >= 3 /\ 6 >= 4 /\ 3 >= 1 /\ ~ (3 < 2) /\ ~ (3 < 3)
  OBVIOUS
<1> QED
  BY <1>1, Zenon DEF Connecting, Disconnecting, ShowingOutput, NoOutput

\* After its update an output shows its rectangle, or nothing
\* (rdpRRConnectOutput, rdpRRDisconnectOutput).
LEMMA UpdateOutputFacts ==
  ASSUME NEW r, IsRR(r), NEW i \in 1..Len(r.outputs), NEW shown, NEW ms
  PROVE  /\ UpdateOutput(r, i, shown, ms).crtcs[i]
              = IF i <= Len(shown) THEN shown[i] ELSE None
         /\ UpdateOutput(r, i, shown, ms).outputs[i]
              = IF i <= Len(shown) THEN ShowingOutput(shown[i]) ELSE NoOutput
         /\ i <= Len(shown) /\ i \in Flagged(ms) => UpdateOutput(r, i, shown, ms).primary = i
<1>1. /\ i \in DOMAIN r.outputs /\ i \in DOMAIN r.crtcs
      /\ 6 \in Nat /\ 3 \in Nat /\ 6 >= 6 /\ 3 >= 3
  BY DEF IsRR, Listed
<1>2. CASE i <= Len(shown)
  <2> DEFINE c == ConnectOutput(r, i, shown[i], 6)
  <2>1. /\ DOMAIN c = {"crtcs", "outputs", "primary"}
        /\ c.outputs = Put(r.outputs, i, Connecting(r.outputs[i], shown[i], 6))
        /\ c.crtcs = Put(r.crtcs, i, IF 6 >= 6 THEN shown[i] ELSE r.crtcs[i])
    BY <1>1, ConnectFacts
  <2> HIDE DEF c
  <2>2. c.crtcs[i] = shown[i] /\ c.outputs[i] = ShowingOutput(shown[i])
    BY <1>1, <2>1, AllCallsMade DEF Put
  <2>3. /\ SetPrimary(c, i, ms).crtcs = c.crtcs
        /\ SetPrimary(c, i, ms).outputs = c.outputs
        /\ i \in Flagged(ms) => SetPrimary(c, i, ms).primary = i
    BY <2>1 DEF SetPrimary
  <2>4. UpdateOutput(r, i, shown, ms) = SetPrimary(c, i, ms)
    BY <1>2 DEF UpdateOutput, c
  <2> QED
    BY <1>2, <2>2, <2>3, <2>4
<1>3. CASE ~ (i <= Len(shown))
  <2> DEFINE c == DisconnectOutput(r, i, 3)
  <2>1. /\ c.outputs = Put(r.outputs, i, Disconnecting(r.outputs[i], 3))
        /\ c.crtcs = Put(r.crtcs, i, IF 3 >= 3 THEN None ELSE r.crtcs[i])
    BY <1>1, DisconnectFacts
  <2> HIDE DEF c
  <2>2. c.crtcs[i] = None /\ c.outputs[i] = NoOutput
    BY <1>1, <2>1, AllCallsMade DEF Put
  <2>3. UpdateOutput(r, i, shown, ms) = c
    BY <1>3 DEF UpdateOutput, c
  <2> QED
    BY <1>3, <2>2, <2>3
<1> QED
  BY <1>2, <1>3

\* A change of one output that has a crtc.
OneChanged(r, d, i) ==
  /\ DOMAIN d = {"crtcs", "outputs", "primary"}
  /\ \E x, y : d.outputs = Put(r.outputs, i, x) /\ d.crtcs = Put(r.crtcs, i, y)

\* It adds nothing.
LEMMA OneChangedFacts ==
  ASSUME NEW r, IsRR(r), NEW i \in 1..Len(r.outputs), NEW d, OneChanged(r, d, i)
  PROVE  IsRR(d)
<1> PICK x, y : d.outputs = Put(r.outputs, i, x) /\ d.crtcs = Put(r.crtcs, i, y)
  BY DEF OneChanged
<1>1. /\ Listed(r.outputs) /\ Listed(r.crtcs)
      /\ Len(r.outputs) \in Nat /\ Len(r.crtcs) \in Nat
      /\ Len(r.outputs) <= Len(r.crtcs) /\ Len(r.crtcs) <= MaxMonitors
  BY DEF IsRR, Listed
<1>2. i \in 1..Len(r.crtcs)
  BY <1>1
<1>3. Listed(d.outputs) /\ Len(d.outputs) = Len(r.outputs)
  BY <1>1, PutFacts
<1>4. /\ Listed(d.crtcs) /\ Len(d.crtcs) = Len(r.crtcs)
      /\ \A j \in 1..Len(r.crtcs) : d.crtcs[j] = IF j = i THEN y ELSE r.crtcs[j]
  BY <1>1, <1>2, PutFacts
<1>5. \A j \in 1..Len(d.crtcs) : j > Len(d.outputs) => d.crtcs[j] = None
  BY <1>1, <1>3, <1>4 DEF IsRR
<1> QED
  BY <1>1, <1>3, <1>4, <1>5 DEF IsRR, OneChanged

\* An update that fails adds nothing.
LEMMA StoppedFacts ==
  ASSUME NEW r, IsRR(r), NEW i \in 1..Len(r.outputs), NEW shown, NEW d \in StoppedAt(r, shown, i)
  PROVE  IsRR(d)
<1>1. CASE i <= Len(shown)
  <2>1. PICK done \in 0..5 : d = ConnectOutput(r, i, shown[i], done)
    BY <1>1 DEF StoppedAt
  <2>2. OneChanged(r, d, i)
    BY <2>1, ConnectFacts DEF OneChanged
  <2> QED
    BY <2>2, OneChangedFacts
<1>2. CASE ~ (i <= Len(shown))
  <2>1. PICK done \in 0..2 : d = DisconnectOutput(r, i, done)
    BY <1>2 DEF StoppedAt
  <2>2. OneChanged(r, d, i)
    BY <2>1, DisconnectFacts DEF OneChanged
  <2> QED
    BY <2>2, OneChangedFacts
<1> QED
  BY <1>1, <1>2

\* After an update the first outputs show their rectangles, or nothing, and the
\* others what they have shown; the primary one is the last that is flagged.
LEMMA UpdatedFacts ==
  ASSUME NEW r, IsRR(r), NEW shown, NEW ms, NEW n \in 0..Len(r.outputs)
  PROVE  LET d == Updated(r, shown, ms, n)
         IN /\ IsRR(d)
            /\ Len(d.outputs) = Len(r.outputs) /\ Len(d.crtcs) = Len(r.crtcs)
            /\ \A i \in 1..n : /\ d.crtcs[i] = IF i <= Len(shown) THEN shown[i] ELSE None
                               /\ d.outputs[i] = IF i <= Len(shown) THEN ShowingOutput(shown[i])
                                                                    ELSE NoOutput
            /\ (/\ Flagged(ms) \subseteq 1..n /\ Flagged(ms) # {}
                /\ \A i \in Flagged(ms) : i <= Len(shown))
                 => d.primary \in Flagged(ms)
<1> DEFINE d == Updated(r, shown, ms, n)
           flagged == Flagged(ms) \cap 1..n
<1>1. /\ Listed(r.outputs) /\ Listed(r.crtcs)
      /\ Len(r.outputs) \in Nat /\ Len(r.crtcs) \in Nat /\ n \in Nat
      /\ Len(r.outputs) <= Len(r.crtcs) /\ Len(r.crtcs) <= MaxMonitors
      /\ DOMAIN r.outputs = 1..Len(r.outputs) /\ DOMAIN r.crtcs = 1..Len(r.crtcs)
      /\ n <= Len(r.outputs) /\ n <= Len(r.crtcs)
  BY DEF IsRR, Listed
<1>2. /\ DOMAIN d = {"crtcs", "outputs", "primary"}
      /\ d.crtcs = [i \in 1..Len(r.crtcs) |-> IF i <= n THEN UpdateOutput(r, i, shown, ms).crtcs[i]
                                                        ELSE r.crtcs[i]]
      /\ d.outputs = [i \in 1..Len(r.outputs) |->
                        IF i <= n THEN UpdateOutput(r, i, shown, ms).outputs[i] ELSE r.outputs[i]]
      /\ flagged # {} => d.primary = UpdateOutput(r, Max(flagged), shown, ms).primary
  BY <1>1 DEF Updated
<1> HIDE DEF d
<1>3. Listed(d.outputs) /\ Len(d.outputs) = Len(r.outputs)
  BY <1>1, <1>2 DEF Listed
<1>4. Listed(d.crtcs) /\ Len(d.crtcs) = Len(r.crtcs)
  BY <1>1, <1>2 DEF Listed
<1>5. \A i \in 1..n : /\ d.crtcs[i] = IF i <= Len(shown) THEN shown[i] ELSE None
                      /\ d.outputs[i] = IF i <= Len(shown) THEN ShowingOutput(shown[i])
                                                           ELSE NoOutput
  <2> TAKE i \in 1..n
  <2>1. i \in 1..Len(r.outputs) /\ i \in 1..Len(r.crtcs) /\ i <= n
    BY <1>1
  <2>2. /\ d.crtcs[i] = UpdateOutput(r, i, shown, ms).crtcs[i]
        /\ d.outputs[i] = UpdateOutput(r, i, shown, ms).outputs[i]
    BY <1>2, <2>1
  <2> QED
    BY <2>1, <2>2, UpdateOutputFacts
<1>6. \A i \in 1..Len(d.crtcs) : i > Len(d.outputs) => d.crtcs[i] = None
  <2> TAKE i \in 1..Len(d.crtcs)
  <2> SUFFICES ASSUME i > Len(d.outputs) PROVE d.crtcs[i] = None
    OBVIOUS
  <2>1. i \in 1..Len(r.crtcs) /\ i > Len(r.outputs) /\ ~ (i <= n)
    BY <1>1, <1>3, <1>4
  <2>2. d.crtcs[i] = r.crtcs[i]
    BY <1>2, <2>1
  <2> QED
    BY <2>1, <2>2 DEF IsRR
<1>7. IsRR(d)
  BY <1>1, <1>2, <1>3, <1>4, <1>6 DEF IsRR
<1>8. ASSUME Flagged(ms) \subseteq 1..n, Flagged(ms) # {},
             \A i \in Flagged(ms) : i <= Len(shown)
      PROVE  d.primary \in Flagged(ms)
  <2>1. flagged = Flagged(ms) /\ flagged \in SUBSET (1..n) /\ flagged # {}
    BY <1>8
  <2> HIDE DEF flagged
  <2>2. \E i \in flagged : \A j \in flagged : j <= i
    BY <1>1, <2>1, LastPosition
  <2>3. \E i \in flagged : \A j \in flagged : i >= j
    <3>1. PICK i \in flagged : \A j \in flagged : j <= i
      BY <2>2
    <3>2. \A j \in flagged : i >= j
      BY <1>1, <2>1, <3>1
    <3> QED
      BY <3>2
  <2>4. Max(flagged) \in flagged
    BY <2>3 DEF Max
  <2> DEFINE i == Max(flagged)
  <2> HIDE DEF i
  <2>5. i \in 1..Len(r.outputs) /\ i <= Len(shown) /\ i \in Flagged(ms)
    <3>1. i \in Flagged(ms) /\ i \in 1..n
      BY <2>1, <2>4 DEF i
    <3> QED
      BY <1>1, <1>8, <3>1
  <2>6. d.primary = UpdateOutput(r, i, shown, ms).primary
    BY <1>2, <2>1 DEF i
  <2>7. UpdateOutput(r, i, shown, ms).primary = i
    BY <2>5, UpdateOutputFacts
  <2> QED
    BY <2>5, <2>6, <2>7
<1> QED
  BY <1>3, <1>4, <1>5, <1>7, <1>8 DEF d

\* The outputs of a screen show these rectangles, of these monitors.
RRShows(r, shown, ms) ==
  /\ \A i \in DOMAIN shown : r.outputs[i] = ShowingOutput(shown[i]) /\ r.crtcs[i] = shown[i]
  /\ \A i \in DOMAIN r.outputs \ DOMAIN shown : r.outputs[i] = NoOutput
  /\ \A i \in DOMAIN r.crtcs \ DOMAIN shown : r.crtcs[i] = None
  /\ Flagged(ms) # {} => r.primary \in Flagged(ms)

\* Adding crtcs and outputs may fail on the way.
LEMMA AddFailedFacts ==
  ASSUME NEW r, IsRR(r), NEW n \in 1..MaxMonitors, NEW d \in AddFailed(r, n)
  PROVE  IsRR(d)
<1>1. MaxMonitors \in Nat /\ Len(r.crtcs) \in Nat /\ Len(r.outputs) \in Nat
  BY DesktopAssumption DEF IsRR, Listed
<1>2. CASE \E i \in Len(r.crtcs)..(n - 1) : d = AddCrtcs(r, i)
  <2>1. PICK i \in Len(r.crtcs)..(n - 1) : d = AddCrtcs(r, i)
    BY <1>2
  <2>2. i \in 0..MaxMonitors
    BY <1>1
  <2> QED
    BY <2>1, <2>2, AddCrtcsFacts
<1>3. CASE Len(r.outputs) < n /\ \E i \in Len(r.outputs)..n : d = AddOutputs(AddCrtcs(r, n), i)
  <2> DEFINE a == AddCrtcs(r, n)
  <2>1. PICK i \in Len(r.outputs)..n : d = AddOutputs(a, i)
    BY <1>3
  <2>2. n \in 0..MaxMonitors
    BY <1>1
  <2>3. IsRR(a) /\ n <= Len(a.crtcs)
    BY <2>2, AddCrtcsFacts
  <2> HIDE DEF a
  <2>4. i \in 0..Len(a.crtcs)
    <3>1. Len(a.crtcs) \in Nat
      BY <2>3 DEF IsRR, Listed
    <3> QED
      BY <1>1, <2>3, <3>1
  <2> QED
    BY <2>1, <2>3, <2>4, AddOutputsFacts
<1> QED
  BY <1>2, <1>3 DEF AddFailed

\* An update of the outputs of RandR shows the rectangles, unless it has failed
\* (rdpRRSetRdpOutputs).
LEMMA RRSetFacts ==
  ASSUME IsRR(rr), NEW shown, Len(shown) \in 1..MaxMonitors, DOMAIN shown = 1..Len(shown),
         NEW ms, DOMAIN ms = {} \/ DOMAIN ms = DOMAIN shown, RRSetRdpOutputs(shown, ms)
  PROVE  /\ IsRR(rr')
         /\ failed' \in BOOLEAN
         /\ ~failed' => RRShows(rr', shown, ms)
<1> DEFINE n     == Len(shown)
           grown == AddCrtcs(rr, n)
           added == AddOutputs(grown, n)
           all   == IF Len(added.crtcs) < Len(added.outputs) THEN Len(added.crtcs)
                                                             ELSE Len(added.outputs)
<1>1. MaxMonitors \in Nat /\ n \in 0..MaxMonitors /\ n \in Nat /\ 1 <= n
  BY DesktopAssumption
<1>2. \/ rr' = Updated(added, shown, ms, all) /\ failed' = FALSE
      \/ /\ rr' \in AddFailed(rr, n)
                      \cup UNION {StoppedAt(Updated(added, shown, ms, i - 1), shown, i) : i \in 1..all}
         /\ failed' = TRUE
  BY DEF RRSetRdpOutputs
<1> HIDE DEF n, all, added, grown
<1>3. IsRR(grown) /\ n <= Len(grown.crtcs)
  BY <1>1, AddCrtcsFacts DEF grown
<1>4. n \in 0..Len(grown.crtcs)
  BY <1>1, <1>3 DEF IsRR, Listed
<1>5. IsRR(added) /\ n <= Len(added.outputs)
  BY <1>3, <1>4, AddOutputsFacts DEF added
<1>6. /\ Len(added.outputs) \in Nat /\ Len(added.crtcs) \in Nat
      /\ Len(added.outputs) <= Len(added.crtcs)
  BY <1>5 DEF IsRR, Listed
<1>7. all = Len(added.outputs) /\ all \in 0..Len(added.outputs) /\ n <= all
  BY <1>5, <1>6 DEF all
<1>8. CASE rr' = Updated(added, shown, ms, all) /\ failed' = FALSE
  <2> DEFINE d == Updated(added, shown, ms, all)
  <2>1. /\ IsRR(d)
        /\ Len(d.outputs) = Len(added.outputs)
        /\ \A i \in 1..all : /\ d.crtcs[i] = IF i <= n THEN shown[i] ELSE None
                             /\ d.outputs[i] = IF i <= n THEN ShowingOutput(shown[i])
                                                         ELSE NoOutput
        /\ (/\ Flagged(ms) \subseteq 1..all /\ Flagged(ms) # {}
            /\ \A i \in Flagged(ms) : i <= n) => d.primary \in Flagged(ms)
    BY <1>5, <1>7, UpdatedFacts DEF n
  <2> HIDE DEF d
  <2>2. /\ DOMAIN d.outputs = 1..all
        /\ Len(d.crtcs) \in Nat /\ DOMAIN d.crtcs = 1..Len(d.crtcs) /\ all <= Len(d.crtcs)
    BY <1>7, <2>1 DEF IsRR, Listed
  <2>3. \A i \in 1..n : i \in 1..all /\ i <= n
    BY <1>1, <1>6, <1>7
  <2>4. \A i \in DOMAIN shown : d.outputs[i] = ShowingOutput(shown[i]) /\ d.crtcs[i] = shown[i]
    BY <2>1, <2>3 DEF n
  <2>5. \A i \in DOMAIN d.outputs \ DOMAIN shown : d.outputs[i] = NoOutput
    <3> TAKE i \in DOMAIN d.outputs \ DOMAIN shown
    <3>1. i \in 1..all /\ ~ (i <= n)
      BY <1>1, <1>6, <1>7, <2>2 DEF n
    <3> QED
      BY <2>1, <3>1
  <2>6. \A i \in DOMAIN d.crtcs \ DOMAIN shown : d.crtcs[i] = None
    <3> TAKE i \in DOMAIN d.crtcs \ DOMAIN shown
    <3>1. i \in 1..Len(d.crtcs) /\ ~ (i <= n)
      BY <1>1, <2>2 DEF n
    <3>2. CASE i <= all
      <4>1. i \in 1..all
        BY <1>6, <1>7, <2>2, <3>1, <3>2
      <4> QED
        BY <2>1, <3>1, <4>1
    <3>3. CASE ~ (i <= all)
      <4>1. i > Len(d.outputs)
        BY <1>6, <1>7, <2>1, <2>2, <3>1, <3>3
      <4> QED
        BY <2>1, <3>1, <4>1 DEF IsRR
    <3> QED
      BY <3>2, <3>3
  <2>7. Flagged(ms) # {} => d.primary \in Flagged(ms)
    <3> SUFFICES ASSUME Flagged(ms) # {} PROVE d.primary \in Flagged(ms)
      OBVIOUS
    <3>1. Flagged(ms) \subseteq 1..n
      BY DEF Flagged, n
    <3> QED
      BY <2>1, <2>3, <3>1
  <2>8. RRShows(d, shown, ms)
    BY <2>4, <2>5, <2>6, <2>7 DEF RRShows
  <2>9. rr' = d
    BY <1>8 DEF d
  <2> QED
    BY <1>8, <2>1, <2>8, <2>9
<1>9. CASE rr' \in AddFailed(rr, n) /\ failed' = TRUE
  BY <1>1, <1>9, AddFailedFacts DEF n
<1>10. ASSUME NEW i \in 1..all, rr' \in StoppedAt(Updated(added, shown, ms, i - 1), shown, i),
              failed' = TRUE
       PROVE  IsRR(rr')
  <2>1. i - 1 \in 0..Len(added.outputs) /\ i \in 1..Len(added.outputs)
    BY <1>6, <1>7
  <2> DEFINE d == Updated(added, shown, ms, i - 1)
  <2>2. IsRR(d) /\ Len(d.outputs) = Len(added.outputs)
    BY <1>5, <2>1, UpdatedFacts
  <2>3. i \in 1..Len(d.outputs) /\ rr' \in StoppedAt(d, shown, i)
    BY <1>10, <2>1, <2>2
  <2> HIDE DEF d
  <2> QED
    BY <2>2, <2>3, StoppedFacts
<1>11. CASE /\ \E i \in 1..all : rr' \in StoppedAt(Updated(added, shown, ms, i - 1), shown, i)
            /\ failed' = TRUE
  BY <1>10, <1>11
<1> QED
  BY <1>2, <1>8, <1>9, <1>11

-----------------------------------------------------------------------------
(* Outputs of the extension *)

\* What a client knows is in sequences.
IsKnown(k) == k.crtcs \in Seq(Quads) /\ k.outputs \in Seq(Int)

\* What a client has been told, of what it wants to be told, is as it is.
ClientKnows(m, k, screen, crtcs) ==
  /\ "screen" \in m /\ k.screen # None => k.screen = screen
  /\ "crtc" \in m /\ k.crtcs # None => IsPrefix(crtcs, k.crtcs)
  /\ "output" \in m /\ k.outputs # None => {Output(i) : i \in DOMAIN crtcs} \subseteq ToSet(k.outputs)

\* The primary output is one that there is.
PrimaryIsOutput(l) == l.primary \in {Output(i) : i \in DOMAIN l.crtcs} \cup {0}

ExtensionType ==
  /\ lrr.crtcs \in Seq(Quads)
  /\ PrimaryIsOutput(lrr)
  /\ interested \in [XClients -> Masks \cup {{}}]
  /\ DOMAIN knows = XClients
  /\ \A x \in XClients : IsKnown(knows[x])

\* The new is in front of what is left of the old.
LEMMA OverlaidFacts ==
  ASSUME NEW S, NEW old \in Seq(S), NEW new \in Seq(S)
  PROVE  /\ Overlaid(old, new) \in Seq(S)
         /\ IsPrefix(new, Overlaid(old, new))
         /\ \A i \in DOMAIN new : new[i] \in ToSet(Overlaid(old, new))
<1> DEFINE t == SubSeq(old, Len(new) + 1, Len(old))
<1>1. t \in Seq(S) /\ Overlaid(old, new) = new \o t
  BY DEF Overlaid
<1> HIDE DEF t
<1>2. /\ new \o t \in Seq(S)
      /\ Len(new) \in Nat /\ Len(t) \in Nat
      /\ Len(new \o t) = Len(new) + Len(t)
      /\ \A i \in 1..Len(new) : (new \o t)[i] = new[i]
  BY <1>1
<1>3. IsPrefix(new, new \o t)
  BY <1>1, <1>2 DEF IsPrefix
<1>4. \A i \in DOMAIN new : i \in DOMAIN (new \o t) /\ (new \o t)[i] = new[i]
  BY <1>2
<1> QED
  BY <1>1, <1>2, <1>3, <1>4 DEF ToSet

\* A client that is told knows (LRRDeliverScreenEvent, LRRDeliverCrtcEvent,
\* LRRDeliverOutputEvent).
LEMMA DeliveredFacts ==
  ASSUME NEW x, IsKnown(knows[x]), NEW s, NEW crtcs \in Seq(Quads)
  PROVE  /\ IsKnown(Delivered(x, s, crtcs))
         /\ ClientKnows(interested[x], Delivered(x, s, crtcs), s, crtcs)
<1> DEFINE k    == knows[x]
           outs == [i \in DOMAIN crtcs |-> Output(i)]
           d    == Delivered(x, s, crtcs)
<1>1. outs \in Seq(Int) /\ DOMAIN outs = DOMAIN crtcs /\ \A i \in DOMAIN crtcs : outs[i] = Output(i)
  <2>1. /\ Len(crtcs) \in Nat /\ DOMAIN crtcs = 1..Len(crtcs)
        /\ \A i \in 1..Len(crtcs) : Output(i) \in Int
    BY DEF Output, LRRMax
  <2> QED
    BY <2>1
<1>2. /\ d.screen = IF "screen" \in interested[x] THEN s ELSE k.screen
      /\ d.crtcs = IF "crtc" \in interested[x] THEN Overlaid(k.crtcs, crtcs) ELSE k.crtcs
      /\ d.outputs = IF "output" \in interested[x] THEN Overlaid(k.outputs, outs) ELSE k.outputs
  BY DEF Delivered
<1>3. k.crtcs \in Seq(Quads) /\ k.outputs \in Seq(Int)
  BY DEF IsKnown
<1> HIDE DEF k, outs, d
<1>4. /\ Overlaid(k.crtcs, crtcs) \in Seq(Quads)
      /\ IsPrefix(crtcs, Overlaid(k.crtcs, crtcs))
  BY <1>3, OverlaidFacts
<1>5. /\ Overlaid(k.outputs, outs) \in Seq(Int)
      /\ \A i \in DOMAIN outs : outs[i] \in ToSet(Overlaid(k.outputs, outs))
  BY <1>1, <1>3, OverlaidFacts
<1>6. {Output(i) : i \in DOMAIN crtcs} \subseteq ToSet(Overlaid(k.outputs, outs))
  BY <1>1, <1>5
<1>7. IsKnown(d)
  BY <1>2, <1>3, <1>4, <1>5 DEF IsKnown
<1>8. ClientKnows(interested[x], d, s, crtcs)
  BY <1>2, <1>4, <1>6 DEF ClientKnows
<1> QED
  BY <1>7, <1>8 DEF d

\* There is room for all crtcs.
LEMMA AtMostMaxFacts ==
  ASSUME NEW S, NEW q \in Seq(S), Len(q) <= MaxMonitors
  PROVE  AtMostMax(q) = q
<1>1. Len(q) \in Nat /\ Len(q) <= LRRMax /\ LRRMax \in Nat
  BY DesktopAssumption DEF LRRMax
<1>2. CASE Len(q) < LRRMax
  BY <1>2 DEF AtMostMax
<1>3. CASE ~ (Len(q) < LRRMax)
  <2>1. Len(q) = LRRMax
    BY <1>1, <1>3
  <2> QED
    BY <1>3, <2>1 DEF AtMostMax
<1> QED
  BY <1>2, <1>3

\* The last monitor that is flagged is one of them.
LEMMA LastFlaggedFacts ==
  ASSUME NEW ms, IsMonitors(ms)
  PROVE  LastFlagged(ms) \in {Output(i) : i \in DOMAIN ms} \cup {0}
<1>1. CASE Flagged(ms) = {}
  BY <1>1 DEF LastFlagged
<1>2. CASE Flagged(ms) # {}
  <2> DEFINE F == Flagged(ms)
  <2>1. Len(ms) \in Nat /\ F \in SUBSET (1..Len(ms)) /\ F # {} /\ DOMAIN ms = 1..Len(ms)
    BY <1>2 DEF Flagged, IsMonitors
  <2>2. LastFlagged(ms) = Output(CHOOSE i \in F : \A j \in F : j <= i)
    BY <1>2 DEF LastFlagged
  <2> HIDE DEF F
  <2>3. \E i \in F : \A j \in F : j <= i
    BY <2>1, LastPosition
  <2>4. (CHOOSE i \in F : \A j \in F : j <= i) \in F
    BY <2>3
  <2> QED
    BY <2>1, <2>2, <2>4
<1> QED
  BY <1>1, <1>2

\* An update of the extension shows the rectangles, and all clients know
\* (rdpLRRSetRdpOutputs).
LEMMA LRRSetFacts ==
  ASSUME ExtensionType, NEW ms, IsMonitors(ms), NEW s \in Spans,
         LRRSetRdpOutputs(WantedRects(ms, s), ms)
  PROVE  /\ ExtensionType'
         /\ lrr'.crtcs = WantedRects(ms, s)
         /\ \A x \in XClients : ClientKnows(interested'[x], knows'[x], root', lrr'.crtcs)
         /\ failed' = FALSE
<1> DEFINE crtcs == WantedRects(ms, s)
<1>1. /\ crtcs \in Seq(Quads) /\ Len(crtcs) \in 1..MaxMonitors
      /\ Len(crtcs) = IF ms = <<>> THEN 1 ELSE Len(ms)
  BY WantedFacts
<1> HIDE DEF crtcs
<1>2. Len(crtcs) \in Nat /\ Len(crtcs) <= MaxMonitors
  BY <1>1, DesktopAssumption
<1>3. AtMostMax(crtcs) = crtcs
  BY <1>1, <1>2, AtMostMaxFacts
<1>4. AtMostMax(ms) = ms
  BY AtMostMaxFacts DEF IsMonitors
<1>5. /\ lrr' = [crtcs |-> crtcs, primary |-> LastFlagged(ms)]
      /\ knows' = [x \in XClients |->
                     IF window[x] THEN Delivered(x, root', crtcs) ELSE knows[x]]
      /\ interested' = [x \in XClients |-> IF window[x] THEN interested[x] ELSE {}]
      /\ failed' = FALSE
  BY <1>3, <1>4 DEF LRRSetRdpOutputs, ToldCrtcs, crtcs
<1>6. ASSUME NEW x \in XClients
      PROVE  /\ IsKnown(knows'[x])
             /\ ClientKnows(interested'[x], knows'[x], root', crtcs)
  <2>1. IsKnown(knows[x])
    BY DEF ExtensionType
  <2>2. CASE window[x]
    BY <1>1, <1>5, <2>1, <2>2, DeliveredFacts
  <2>3. CASE ~window[x]
    BY <1>5, <2>1, <2>3 DEF ClientKnows
  <2> QED
    BY <2>2, <2>3
<1>7. DOMAIN ms \subseteq DOMAIN crtcs
  <2>1. ms \in Seq(Monitor)
    BY DEF IsMonitors
  <2>2. DOMAIN crtcs = 1..Len(crtcs)
    BY <1>1
  <2>3. CASE ms = <<>>
    BY <2>3
  <2>4. CASE ms # <<>>
    BY <1>1, <2>1, <2>2, <2>4
  <2> QED
    BY <2>3, <2>4
<1>8. PrimaryIsOutput(lrr')
  BY <1>5, <1>7, LastFlaggedFacts DEF PrimaryIsOutput
<1>9. interested' \in [XClients -> Masks \cup {{}}]
  BY <1>5 DEF ExtensionType
<1>10. lrr'.crtcs = crtcs
  BY <1>5
<1>11. DOMAIN knows' = XClients
  BY <1>5
<1>12. ExtensionType'
  BY <1>1, <1>6, <1>8, <1>9, <1>10, <1>11 DEF ExtensionType
<1> QED
  BY <1>5, <1>6, <1>10, <1>12 DEF crtcs

-----------------------------------------------------------------------------
(* Outputs that scripts set *)

\* For each output a place, or none, or what a script that was cut short does.
CommandLists == [1..GridMax -> Places \cup {Kept, Astray}]

GridType ==
  /\ DOMAIN grid = {"outputs", "file", "scripts"}
  /\ grid.outputs \in CommandLists /\ grid.file \in CommandLists
  /\ grid.scripts \in Seq(CommandLists)

\* The only script that waits does what is in the file, whichever it reads; when
\* none waits the outputs show what was to be shown, if it was written completely.
GridShows(g, shown) ==
  IF g.scripts = <<>> THEN g.file = Commands(shown) => g.outputs = Commands(shown)
                      ELSE g.scripts = <<g.file>>

\* Two scripts have been waiting together, or at most one waits.
OneWaits == ~raced => Len(grid.scripts) <= 1

\* Each output has its command.
LEMMA CommandsFacts ==
  ASSUME NEW shown \in Seq(Quads)
  PROVE  /\ Commands(shown) \in CommandLists
         /\ \A i \in 1..GridMax :
              Commands(shown)[i] = IF i \in DOMAIN shown THEN shown[i] ELSE None
         /\ \A file \in Written(shown) : file \in CommandLists
         /\ \A outputs \in CommandLists : SetBy(outputs, Commands(shown)) = Commands(shown)
<1>1. GridMax \in Nat /\ Len(shown) \in Nat /\ DOMAIN shown = 1..Len(shown)
  BY OutputsAssumption
<1>2. \A i \in 1..GridMax : i <= Len(shown) <=> i \in DOMAIN shown
  BY <1>1
<1>3. \A i \in DOMAIN shown : shown[i] \in Quads
  BY <1>1
<1>4. \A i \in 1..GridMax : /\ Commands(shown)[i] = IF i \in DOMAIN shown THEN shown[i] ELSE None
                            /\ Commands(shown)[i] \in Places
  BY <1>2, <1>3 DEF Commands, Places
<1>5. Commands(shown) \in CommandLists
  BY <1>4 DEF Commands, CommandLists
<1>6. ASSUME NEW file \in CutShort(shown) PROVE file \in CommandLists
  <2>1. PICK k \in 1..GridMax, half \in {Kept, Astray} :
          file = [i \in 1..GridMax |-> CASE i < k -> Commands(shown)[i]
                                         [] i = k -> half
                                         [] OTHER -> Kept]
    BY DEF CutShort
  <2>2. \A i \in 1..GridMax : file[i] \in {Commands(shown)[i], half, Kept}
    BY <2>1
  <2>3. DOMAIN file = 1..GridMax /\ file = [i \in 1..GridMax |-> file[i]]
    BY <2>1
  <2>4. \A i \in 1..GridMax : file[i] \in Places \cup {Kept, Astray}
    BY <1>4, <2>2
  <2> QED
    BY <2>3, <2>4 DEF CommandLists
<1>7. Kept \notin Places
  <2>1. Len(Kept) = 1 /\ Len(None) = 0 /\ \A r \in Quads : Len(r) = 4
    BY DEF Kept, None, Quads
  <2> QED
    BY <2>1 DEF Places
<1>8. ASSUME NEW outputs \in CommandLists PROVE SetBy(outputs, Commands(shown)) = Commands(shown)
  <2>1. DOMAIN outputs = 1..GridMax /\ DOMAIN Commands(shown) = 1..GridMax
    BY DEF CommandLists, Commands
  <2>2. \A i \in 1..GridMax : Commands(shown)[i] # Kept
    BY <1>4, <1>7
  <2>3. SetBy(outputs, Commands(shown)) = [i \in 1..GridMax |-> Commands(shown)[i]]
    BY <2>1, <2>2 DEF SetBy
  <2>4. Commands(shown) = [i \in 1..GridMax |-> Commands(shown)[i]]
    BY <1>5 DEF CommandLists
  <2> QED
    BY <2>3, <2>4
<1> QED
  BY <1>4, <1>5, <1>6, <1>8 DEF Written

\* An update writes a script, which waits, unless it fails
\* (rdpRandRGridSetRdpOutputs).
LEMMA GridSetFacts ==
  ASSUME GridType, OneWaits, raced \in BOOLEAN, NEW shown \in Seq(Quads),
         GridSetRdpOutputs(shown)
  PROVE  /\ GridType' /\ OneWaits' /\ raced' \in BOOLEAN /\ failed' \in BOOLEAN
         /\ Len(grid'.scripts) <= Len(grid.scripts) + 1
         /\ ~failed' => grid'.file \in Written(shown)
         /\ ~raced' /\ ~failed' => GridShows(grid', shown)
<1>1. /\ \A c \in Written(shown) : c \in CommandLists
      /\ grid.file \in CommandLists
  BY CommandsFacts DEF GridType
<1>2. grid.scripts \in Seq(CommandLists) /\ Len(grid.scripts) \in Nat
  BY DEF GridType
<1>3. ASSUME NEW c \in Written(shown),
             grid' = [grid EXCEPT !.file = c, !.scripts = Append(@, c)],
             failed' = FALSE,
             raced' = (grid.scripts # <<>>)
      PROVE  /\ GridType' /\ OneWaits' /\ raced' \in BOOLEAN /\ failed' \in BOOLEAN
             /\ Len(grid'.scripts) <= Len(grid.scripts) + 1
             /\ grid'.file \in Written(shown)
             /\ ~raced' => GridShows(grid', shown)
  <2>1. /\ DOMAIN grid' = {"outputs", "file", "scripts"}
        /\ grid'.outputs = grid.outputs
        /\ grid'.file = c
        /\ grid'.scripts = Append(grid.scripts, c)
    BY <1>3 DEF GridType
  <2>2. /\ grid'.scripts \in Seq(CommandLists)
        /\ Len(grid'.scripts) = Len(grid.scripts) + 1
    BY <1>1, <1>2, <2>1
  <2>3. GridType'
    BY <1>1, <2>1, <2>2 DEF GridType
  <2>4. ASSUME ~raced' PROVE grid.scripts = <<>>
    BY <1>3, <2>4
  <2>5. ASSUME ~raced' PROVE grid'.scripts = <<c>> /\ Len(grid'.scripts) <= 1
    <3>1. Append(<<>>, c) = <<c>> /\ Len(<<c>>) <= 1
      OBVIOUS
    <3> QED
      BY <2>1, <2>4, <2>5, <3>1
  <2>6. ASSUME ~raced' PROVE GridShows(grid', shown)
    <3>1. <<c>> # <<>>
      OBVIOUS
    <3> QED
      BY <2>1, <2>5, <2>6, <3>1 DEF GridShows
  <2>7. OneWaits'
    BY <2>5, Zenon DEF OneWaits
  <2>8. Len(grid'.scripts) <= Len(grid.scripts) + 1
    BY <1>2, <2>2
  <2>9. raced' \in BOOLEAN /\ failed' \in BOOLEAN
    BY <1>3, Zenon
  <2> QED
    BY <2>1, <2>3, <2>6, <2>7, <2>8, <2>9, Zenon
<1>4. ASSUME NEW c \in Written(shown) \cup {grid.file},
             grid' = [grid EXCEPT !.file = c],
             failed' = TRUE,
             UNCHANGED raced
      PROVE  /\ GridType' /\ OneWaits' /\ raced' \in BOOLEAN /\ failed' \in BOOLEAN
             /\ Len(grid'.scripts) <= Len(grid.scripts) + 1
  <2>1. /\ DOMAIN grid' = {"outputs", "file", "scripts"}
        /\ grid'.outputs = grid.outputs
        /\ grid'.file = c
        /\ grid'.scripts = grid.scripts
    BY <1>4 DEF GridType
  <2>2. GridType'
    BY <1>1, <2>1 DEF GridType
  <2> QED
    BY <1>2, <1>4, <2>1, <2>2 DEF OneWaits
<1> QED
  BY <1>3, <1>4, Zenon DEF GridSetRdpOutputs

\* A script that runs sets what it reads, and waits no longer.
LEMMA ScriptFacts ==
  ASSUME GridType, OneWaits, ScriptRuns
  PROVE  /\ GridType' /\ OneWaits'
         /\ Len(grid'.scripts) <= Len(grid.scripts)
         /\ grid'.file = grid.file
         /\ \A shown \in Seq(Quads) :
              ~raced /\ GridShows(grid, shown) => GridShows(grid', shown)
<1> PICK i \in DOMAIN grid.scripts :
      /\ \E commands \in {grid.scripts[i], grid.file} :
           grid' = [grid EXCEPT !.outputs = SetBy(@, commands), !.scripts = RemoveAt(@, i)]
      /\ UNCHANGED raced
  BY DEF ScriptRuns
<1> PICK commands \in {grid.scripts[i], grid.file} :
      grid' = [grid EXCEPT !.outputs = SetBy(@, commands), !.scripts = RemoveAt(@, i)]
  OBVIOUS
<1> DEFINE q == grid.scripts
<1>1. q \in Seq(CommandLists) /\ Len(q) \in Nat /\ i \in 1..Len(q)
  BY DEF GridType
<1>2. /\ DOMAIN grid' = {"outputs", "file", "scripts"}
      /\ grid'.outputs = SetBy(grid.outputs, commands)
      /\ grid'.file = grid.file
      /\ grid'.scripts = RemoveAt(q, i)
  BY DEF GridType
<1>3. commands \in CommandLists
  <2>1. q[i] \in CommandLists
    BY <1>1
  <2> QED
    BY <2>1 DEF GridType
<1> HIDE DEF q
<1>4. RemoveAt(q, i) \in Seq(CommandLists) /\ Len(RemoveAt(q, i)) = Len(q) - 1
  <2> DEFINE a == SubSeq(q, 1, i - 1)
             b == SubSeq(q, i + 1, Len(q))
  <2>1. a \in Seq(CommandLists) /\ Len(a) = i - 1
    BY <1>1
  <2>2. b \in Seq(CommandLists) /\ Len(b) = Len(q) - i
    BY <1>1
  <2>3. RemoveAt(q, i) = a \o b
    BY DEF RemoveAt
  <2> HIDE DEF a, b
  <2> QED
    BY <1>1, <2>1, <2>2, <2>3
<1>5. GridType'
  <2>1. SetBy(grid.outputs, commands) \in CommandLists
    BY <1>3 DEF GridType, CommandLists, SetBy
  <2> QED
    BY <1>2, <1>4, <2>1 DEF GridType
<1>6. Len(grid'.scripts) <= Len(grid.scripts)
  BY <1>1, <1>2, <1>4 DEF q
<1>7. OneWaits'
  BY <1>1, <1>2, <1>4 DEF OneWaits, q
<1>8. ASSUME NEW shown \in Seq(Quads), ~raced, GridShows(grid, shown)
      PROVE  GridShows(grid', shown)
  <2>1. q # <<>>
    BY <1>1
  <2>2. q = <<grid.file>>
    BY <1>8, <2>1 DEF GridShows, q
  <2>3. commands = grid.file
    <3>1. q[i] = grid.file
      BY <1>1, <2>2
    <3> QED
      BY <3>1 DEF q
  <2>4. RemoveAt(q, i) = <<>>
    <3>1. Len(q) = 1
      BY <2>2
    <3> QED
      BY <1>4, <3>1
  <2>5. SetBy(grid.outputs, Commands(shown)) = Commands(shown)
    BY CommandsFacts DEF GridType
  <2> QED
    BY <1>2, <2>3, <2>4, <2>5 DEF GridShows
<1> QED
  BY <1>2, <1>5, <1>6, <1>7, <1>8

-----------------------------------------------------------------------------
(* Outputs of any driver *)

\* The outputs have their types, and no more scripts wait than are allowed to.
OutputsType ==
  /\ IsRR(rr) /\ ExtensionType /\ GridType
  /\ OneWaits
  /\ Len(grid.scripts) <= MaxScripts
  /\ raced \in BOOLEAN /\ failed \in BOOLEAN

\* The outputs show the monitors, and X clients know them.
OutputsFollow ==
  /\ driver \in {"plain", "glamor"} /\ ~failed => RRShows(rr, Wanted, monitors)
  /\ driver = "nvidia" /\ ~failed => lrr.crtcs = Wanted
  /\ driver = "nvidia" =>
       \A x \in XClients : ClientKnows(interested[x], knows[x], root, lrr.crtcs)
  /\ driver = "grid" /\ ~failed => grid.file \in Written(Wanted)
  /\ driver = "grid" /\ ~failed /\ ~raced => GridShows(grid, Wanted)

\* The size, the root window and the monitors.
ScreenInv ==
  /\ driver \in Drivers
  /\ size \in Spans /\ root \in Spans
  /\ torn \/ root = size
  /\ IsMonitors(monitors)

\* After an update the outputs follow the new size and the new monitors.
LEMMA SetRdpOutputsFacts ==
  ASSUME OutputsType, driver \in Drivers, driver' = driver,
         NEW s \in Spans, size' = s, NEW ms, IsMonitors(ms), monitors' = ms,
         Len(grid.scripts) < MaxScripts \/ driver # "grid",
         SetRdpOutputs(s, ms)
  PROVE  OutputsType' /\ OutputsFollow'
<1> DEFINE shown == WantedRects(ms, s)
<1>1. /\ shown \in Seq(Quads) /\ Len(shown) \in 1..MaxMonitors
      /\ Len(shown) = IF ms = <<>> THEN 1 ELSE Len(ms)
  BY WantedFacts
<1>2. Wanted' = shown
  BY DEF Wanted
<1> HIDE DEF shown
<1>3. CASE driver = "grid"
  <2>1. GridSetRdpOutputs(shown) /\ UNCHANGED <<rr, lrr, knows, interested>>
    BY <1>3 DEF SetRdpOutputs, shown
  <2>2. /\ GridType' /\ OneWaits' /\ raced' \in BOOLEAN /\ failed' \in BOOLEAN
        /\ Len(grid'.scripts) <= Len(grid.scripts) + 1
        /\ ~failed' => grid'.file \in Written(shown)
        /\ ~raced' /\ ~failed' => GridShows(grid', shown)
    BY <1>1, <2>1, GridSetFacts DEF OutputsType
  <2>3. Len(grid'.scripts) <= MaxScripts
    <3>1. Len(grid.scripts) \in Nat /\ Len(grid'.scripts) \in Nat /\ MaxScripts \in Nat
      BY <2>2, DesktopAssumption DEF OutputsType, GridType
    <3> QED
      BY <1>3, <2>2, <3>1
  <2>4. IsRR(rr') /\ ExtensionType'
    BY <2>1 DEF OutputsType, ExtensionType
  <2>5. OutputsType'
    BY <2>2, <2>3, <2>4 DEF OutputsType
  <2>6. OutputsFollow'
    BY <1>2, <1>3, <2>2 DEF OutputsFollow
  <2> QED
    BY <2>5, <2>6
<1>4. CASE driver = "nvidia"
  <2>1. LRRSetRdpOutputs(shown, ms) /\ UNCHANGED <<rr, grid, raced>>
    BY <1>4 DEF SetRdpOutputs, shown
  <2>2. /\ ExtensionType'
        /\ lrr'.crtcs = shown
        /\ \A x \in XClients : ClientKnows(interested'[x], knows'[x], root', lrr'.crtcs)
        /\ failed' = FALSE
    BY <2>1, LRRSetFacts DEF OutputsType, shown
  <2>3. OutputsType'
    BY <2>1, <2>2 DEF OutputsType, GridType, OneWaits
  <2>4. OutputsFollow'
    BY <1>2, <1>4, <2>2 DEF OutputsFollow
  <2> QED
    BY <2>3, <2>4
<1>5. CASE driver \in {"plain", "glamor"}
  <2>1. RRSetRdpOutputs(shown, ms) /\ UNCHANGED <<lrr, knows, interested, grid, raced>>
    BY <1>5 DEF SetRdpOutputs, shown
  <2>2. DOMAIN shown = 1..Len(shown) /\ (DOMAIN ms = {} \/ DOMAIN ms = DOMAIN shown)
    <3>1. DOMAIN shown = 1..Len(shown)
      <4>1. shown \in Seq(Quads)
        BY <1>1
      <4> QED
        BY <4>1
    <3>2. ms \in Seq(Monitor)
      BY DEF IsMonitors
    <3>3. CASE ms = <<>>
      BY <3>1, <3>3
    <3>4. CASE ms # <<>>
      BY <1>1, <3>1, <3>2, <3>4
    <3> QED
      BY <3>3, <3>4
  <2>3. /\ IsRR(rr') /\ failed' \in BOOLEAN
        /\ ~failed' => RRShows(rr', shown, ms)
    BY <1>1, <2>1, <2>2, RRSetFacts DEF OutputsType
  <2>4. OutputsType'
    BY <2>1, <2>3 DEF OutputsType, ExtensionType, GridType, OneWaits
  <2>5. OutputsFollow'
    BY <1>2, <1>5, <2>3 DEF OutputsFollow
  <2> QED
    BY <2>4, <2>5
<1> QED
  BY <1>3, <1>4, <1>5, OutputsAssumption

-----------------------------------------------------------------------------
(* The screen and the connection *)

\* The capture and the memory have the size of the screen, and the client has
\* been told.
Sized(c, s) ==
  /\ c.cap = CaptureSize(s, c.code)
  /\ c.shm = ShmBytes(s, c.code, c.depth)
  /\ c.stride = StrideBytes(c.code, c.depth)
  /\ c.told = CASE c.code = "rfx"  -> Aligned(s, 64)
                [] c.code = "h264" -> Aligned(s, 16)
                [] OTHER           -> s

\* The screen is as the client has described it.
LayoutInv ==
  con.layout # None =>
    \E l \in Layouts :
      /\ con.layout = <<l>>
      /\ size = l.size
      /\ monitors = Shifted(l.monitors)
      /\ Sized(con, l.size)
      /\ con.depth \in Depths

\* Clients have numbers, and pixmaps belong to helpers that are there.
NumbersInv ==
  /\ accepted \in 0..MaxCons
  /\ con.num \in {0, accepted}
  /\ \A p \in Pixmaps : owner[p] \in helpers \cup {0}
  /\ started \in BOOLEAN /\ allow \in BOOLEAN /\ torn \in BOOLEAN
  /\ ~started => monitors = <<>>

DesktopInv == ScreenInv /\ OutputsType /\ OutputsFollow /\ LayoutInv /\ NumbersInv

\* The session starts without outputs.
LEMMA DesktopAtInit == DesktopInit => DesktopInv
<1> SUFFICES ASSUME DesktopInit PROVE DesktopInv
  OBVIOUS
<1>1. <<>> \in Seq(Quads) /\ <<>> \in Seq(Int) /\ <<>> \in Seq(CommandLists) /\ <<>> \in Seq(Monitor)
  OBVIOUS
<1>2. /\ MaxMonitors \in Nat /\ MaxScripts \in Nat /\ MaxCons \in Nat
      /\ Len(<<>>) = 0 /\ DOMAIN <<>> = 1..0
  BY DesktopAssumption
<1>3. ScreenInv
  <2>1. size \in Spans /\ root = size /\ driver \in Drivers
    BY DesktopAssumption DEF DesktopInit
  <2>2. IsMonitors(monitors)
    BY <1>1, <1>2 DEF DesktopInit, IsMonitors
  <2> QED
    BY <2>1, <2>2 DEF ScreenInv
<1>4. IsRR(rr)
  <2>1. Listed(<<>>)
    BY DEF Listed
  <2>2. /\ DOMAIN rr = {"crtcs", "outputs", "primary"}
        /\ rr.crtcs = <<>> /\ rr.outputs = <<>>
    BY DEF DesktopInit
  <2>3. \A i \in 1..0 : FALSE
    OBVIOUS
  <2> QED
    BY <1>2, <2>1, <2>2, <2>3 DEF IsRR
<1>5. ExtensionType
  <2>1. /\ lrr.crtcs = <<>> /\ lrr.primary = 0
        /\ interested = [x \in XClients |-> {}]
        /\ knows = [x \in XClients |-> Untold]
    BY DEF DesktopInit
  <2>2. IsKnown(Untold)
    BY <1>1 DEF IsKnown, Untold, None
  <2> QED
    BY <1>1, <2>1, <2>2 DEF ExtensionType, PrimaryIsOutput
<1>6. GridType /\ grid.scripts = <<>>
  <2>1. AllOff \in CommandLists
    BY DEF AllOff, CommandLists, Places
  <2>2. grid = [outputs |-> AllOff, file |-> AllOff, scripts |-> <<>>]
    BY DEF DesktopInit
  <2> QED
    BY <1>1, <2>1, <2>2 DEF GridType
<1>7. OutputsType
  <2>1. Len(grid.scripts) = 0
    BY <1>2, <1>6
  <2>2. OneWaits /\ Len(grid.scripts) <= MaxScripts
    BY <1>2, <2>1 DEF OneWaits
  <2>3. raced \in BOOLEAN /\ failed \in BOOLEAN
    BY DEF DesktopInit
  <2> QED
    BY <1>4, <1>5, <1>6, <2>2, <2>3 DEF OutputsType
<1>8. OutputsFollow
  BY DEF DesktopInit, OutputsFollow, ClientKnows
<1>9. LayoutInv
  BY DEF DesktopInit, LayoutInv, NoCon, NewCon
<1>10. NumbersInv
  <2>1. /\ accepted = 0 /\ con.num = 0 /\ monitors = <<>>
        /\ \A p \in Pixmaps : owner[p] = 0
    BY DEF DesktopInit, NoCon, NewCon
  <2>2. started \in BOOLEAN /\ allow \in BOOLEAN /\ torn \in BOOLEAN
    BY DEF DesktopInit
  <2> QED
    BY <1>2, <2>1, <2>2 DEF NumbersInv
<1> QED
  BY <1>3, <1>7, <1>8, <1>9, <1>10 DEF DesktopInv

\* A resize leaves the screen torn or of the new size.
LEMMA ResizeFacts ==
  ASSUME NEW s \in Spans, ScreenInv, allow \in BOOLEAN, torn \in BOOLEAN, Resize(s)
  PROVE  /\ size' = s
         /\ root' \in Spans
         /\ torn' \/ root' = s
         /\ allow' \in BOOLEAN /\ torn' \in BOOLEAN
<1>1. CASE s = size
  BY <1>1 DEF Resize, ScreenInv
<1>2. CASE s # size /\ root' = s /\ torn' = FALSE
  BY <1>2 DEF Resize, ScreenSetSize, AllowAfter
<1>3. CASE s # size /\ root' = root /\ torn' = TRUE
  BY <1>3 DEF Resize, ScreenSetSize, AllowAfter, ScreenInv
<1> QED
  BY <1>1, <1>2, <1>3 DEF Resize, ScreenSetSize

\* What of a connection is about its memory.
SameSize(c, d) ==
  /\ d.layout = c.layout /\ d.code = c.code /\ d.depth = c.depth
  /\ d.cap = c.cap /\ d.shm = c.shm /\ d.stride = c.stride /\ d.told = c.told

\* A message gives the connection the new size.
LEMMA DescribedSized ==
  ASSUME NEW c, IsCon(c), NEW s, NEW code, NEW depth, NEW l
  PROVE  /\ Sized(Described(c, s, code, depth, l), s)
         /\ Described(c, s, code, depth, l).depth = depth
<1> DEFINE r == ResizedAreas(c, s, code, depth)
           t == MemoryAllocationComplete(r, s)
           told == CASE code = "rfx"  -> Aligned(s, 64)
                     [] code = "h264" -> Aligned(s, 16)
                     [] OTHER         -> s
<1>1. /\ DOMAIN r = Fields /\ r.code = code /\ r.depth = depth
      /\ r.cap = CaptureSize(s, code) /\ r.shm = ShmBytes(s, code, depth)
      /\ r.stride = StrideBytes(code, depth)
  BY DEF ResizedAreas, IsCon, Fields, AllocateSharedMemory
<1>2. t = [r EXCEPT !.told = told]
  BY <1>1 DEF MemoryAllocationComplete
<1> HIDE DEF r, told
<1>3. /\ DOMAIN t = Fields /\ t.code = code /\ t.depth = depth /\ t.told = told
      /\ t.cap = CaptureSize(s, code) /\ t.shm = ShmBytes(s, code, depth)
      /\ t.stride = StrideBytes(code, depth)
  BY <1>1, <1>2 DEF Fields
<1> HIDE DEF t
<1>4. Described(c, s, code, depth, l) = [t EXCEPT !.layout = <<l>>]
  BY DEF Described, t, r
<1> DEFINE d == Described(c, s, code, depth, l)
<1>5. /\ d.code = code /\ d.depth = depth /\ d.told = told
      /\ d.cap = CaptureSize(s, code) /\ d.shm = ShmBytes(s, code, depth)
      /\ d.stride = StrideBytes(code, depth)
  BY <1>3, <1>4 DEF Fields
<1> HIDE DEF d
<1>6. Sized(d, s)
  BY <1>5 DEF Sized, told
<1> QED
  BY <1>5, <1>6 DEF d

\* Telling the assistant has no say in the size.
LEMMA SendKeepsSize ==
  ASSUME NEW c, DOMAIN c = Fields, NEW s, NEW ms
  PROVE  SameSize(c, SendAssistMonitors(c, s, ms))
BY DEF SendAssistMonitors, SameSize, Fields

\* ... nor has starting it.
LEMMA HelpedKeepsSize ==
  ASSUME NEW c, IsCon(c), NEW s, NEW ms, NEW d \in Helped(c, s, ms)
  PROVE  SameSize(c, d)
<1>1. CASE ~UseAccelAssist(c.code)
  BY <1>1 DEF Helped, SameSize
<1>2. CASE UseAccelAssist(c.code)
  <2> DEFINE b == [c EXCEPT !.assist = TRUE]
  <2>1. PICK a \in StartAccelAssist(b) : d = SendAssistMonitors(a, s, ms)
    BY <1>2 DEF Helped
  <2>2. DOMAIN b = Fields /\ SameSize(c, b)
    BY DEF IsCon, Fields, SameSize
  <2> HIDE DEF b
  <2>3. DOMAIN a = Fields /\ SameSize(b, a)
    BY <2>1, <2>2 DEF StartAccelAssist, Fields, SameSize
  <2>4. SameSize(a, d)
    BY <2>1, <2>3, SendKeepsSize
  <2> QED
    BY <2>2, <2>3, <2>4 DEF SameSize
<1> QED
  BY <1>1, <1>2

\* Where the size is the same, so is what the client was told.
LEMMA SameSizeFacts ==
  ASSUME NEW c, NEW d, SameSize(c, d), NEW s, Sized(c, s)
  PROVE  Sized(d, s)
BY DEF SameSize, Sized

\* A message gives the session its layout.
LEMMA MessageFollows ==
  ASSUME LendInv, AssistInv, DesktopInv, NEW l \in Layouts, NEW code, NEW depth,
         (ClientInfo(l, code, depth) /\ depth \in Depths) \/ MonitorUpdate(l), Len(grid.scripts) < MaxScripts
  PROVE  DesktopInv'
<1> USE DEF DesktopInv
<1>1. /\ Resize(l.size) /\ ClientInfoMonitors(l)
      /\ UNCHANGED <<driver, started, accepted, owner>>
  BY DEF ClientInfo, MonitorUpdate
<1>2. l.size \in Spans
  BY DesktopAssumption
<1>3. /\ size' = l.size
      /\ root' \in Spans
      /\ torn' \/ root' = l.size
      /\ allow' \in BOOLEAN /\ torn' \in BOOLEAN
  BY <1>1, <1>2, ResizeFacts DEF NumbersInv
<1>4. IsMonitors(Shifted(l.monitors))
  BY ShiftedFacts
<1>5. monitors' = Shifted(l.monitors) /\ SetRdpOutputs(l.size, Shifted(l.monitors))
  BY <1>1 DEF ClientInfoMonitors
<1>6. ScreenInv'
  BY <1>1, <1>2, <1>3, <1>4, <1>5 DEF ScreenInv
<1>7. OutputsType' /\ OutputsFollow'
  BY <1>1, <1>2, <1>3, <1>4, <1>5, SetRdpOutputsFacts DEF ScreenInv
<1>8. /\ con'.layout = <<l>> /\ Sized(con', l.size) /\ con'.depth \in Depths
      /\ con'.num = con.num
      /\ started
      /\ helpers \subseteq helpers'
  <2>1. CASE ClientInfo(l, code, depth) /\ depth \in Depths
    <3> DEFINE c == Described(con, l.size, code, depth, l)
    <3>1. SameLending(con, c) /\ c.layout = <<l>>
      BY ResizedFacts DEF LendInv
    <3>2. IsCon(c) /\ Lends(c) /\ Sized(c, l.size) /\ c.depth = depth
      BY <3>1, SameLendingFacts, DescribedSized DEF LendInv
    <3>3. con' \in Helped(c, l.size, monitors')
      BY <2>1 DEF ClientInfo, Described
    <3> HIDE DEF c
    <3>4. SameSize(c, con') /\ con'.num = c.num
      BY <3>2, <3>3, HelpedKeepsSize, HelpedFacts
    <3>5. Sized(con', l.size)
      BY <3>2, <3>4, SameSizeFacts
    <3>6. started /\ helpers \subseteq helpers'
      BY <2>1 DEF ClientInfo
    <3> QED
      BY <2>1, <3>1, <3>2, <3>4, <3>5, <3>6 DEF SameSize, SameLending
  <2>2. CASE MonitorUpdate(l)
    <3> DEFINE c == Described(con, l.size, con.code, con.depth, l)
    <3>1. SameLending(con, c) /\ c.layout = <<l>>
      BY ResizedFacts DEF LendInv
    <3>2. DOMAIN c = Fields /\ Sized(c, l.size) /\ c.depth = con.depth
      BY <3>1, DescribedSized DEF LendInv, SameLending
    <3>3. con' = IF c.assist THEN SendAssistMonitors(c, l.size, monitors') ELSE c
      BY <2>2 DEF MonitorUpdate, Described
    <3> HIDE DEF c
    <3>4. SameSize(c, con') /\ con'.num = c.num
      BY <3>2, <3>3, SendKeepsSize DEF SendAssistMonitors, Fields, SameSize
    <3>5. Sized(con', l.size)
      BY <3>2, <3>4, SameSizeFacts
    <3>6. started /\ helpers \subseteq helpers'
      BY <2>2 DEF MonitorUpdate, AssistInv
    <3>7. con.depth \in Depths
      BY <2>2 DEF MonitorUpdate, LayoutInv
    <3> QED
      BY <3>1, <3>2, <3>7, <3>4, <3>5, <3>6 DEF SameSize, SameLending
  <2> QED
    BY <2>1, <2>2
<1>9. LayoutInv'
  BY <1>3, <1>5, <1>8 DEF LayoutInv
<1>10. NumbersInv'
  <2>1. started' \in BOOLEAN /\ started'
    BY <1>1, <1>8 DEF NumbersInv
  <2>2. accepted' = accepted /\ con'.num = con.num /\ owner' = owner
    BY <1>1, <1>8
  <2>3. \A p \in Pixmaps : owner'[p] \in helpers' \cup {0}
    BY <1>8, <2>2 DEF NumbersInv
  <2> QED
    BY <1>3, <2>1, <2>2, <2>3 DEF NumbersInv
<1> QED
  BY <1>6, <1>7, <1>9, <1>10

\* A step that leaves the screen and its outputs.
LEMMA OutputsKept ==
  ASSUME ScreenInv, OutputsType, OutputsFollow, UNCHANGED outputVars, torn' = torn
  PROVE  ScreenInv' /\ OutputsType' /\ OutputsFollow'
<1>1. ScreenInv'
  BY DEF ScreenInv, outputVars
<1>2. OutputsType'
  BY DEF OutputsType, ExtensionType, GridType, OneWaits, outputVars
<1>3. OutputsFollow'
  BY DEF OutputsFollow, Wanted, outputVars
<1> QED
  BY <1>1, <1>2, <1>3

\* The start sets the outputs of the screen.
LEMMA StartFollows ==
  ASSUME AssistInv, DesktopInv, Start
  PROVE  DesktopInv'
<1> USE DEF DesktopInv
<1>1. /\ ~started /\ started' = TRUE
      /\ UNCHANGED <<driver, monitors, window, con, accepted, helpers, owner, refs>>
  BY DEF Start
<1>2. monitors = <<>> /\ con.layout = None
  BY <1>1 DEF NumbersInv, AssistInv
<1>3. /\ size' \in Spans /\ root' \in Spans
      /\ torn' \/ root' = size'
      /\ allow' \in BOOLEAN /\ torn' \in BOOLEAN
  <2>1. CASE driver \in {"plain", "glamor"}
    <3>1. PICK s \in StartSizes : Resize(s)
      BY <2>1 DEF Start
    <3>2. s \in Spans
      BY DesktopAssumption
    <3> QED
      BY <3>1, <3>2, ResizeFacts DEF NumbersInv
  <2>2. CASE driver \notin {"plain", "glamor"}
    BY <2>2 DEF Start, ScreenInv, NumbersInv
  <2> QED
    BY <2>1, <2>2
<1>4. ScreenInv'
  BY <1>1, <1>3 DEF ScreenInv
<1>5. OutputsType' /\ OutputsFollow'
  <2>1. CASE driver = "grid"
    <3>1. UNCHANGED <<rr, failed, lrr, interested, knows, grid, raced, size, root, torn>>
      BY <2>1 DEF Start
    <3>2. UNCHANGED outputVars
      BY <1>1, <3>1 DEF outputVars
    <3> QED
      BY <3>1, <3>2, OutputsKept
  <2>2. CASE driver # "grid"
    <3>1. SetRdpOutputs(size', <<>>)
      BY <2>2 DEF Start
    <3>2. IsMonitors(<<>>)
      BY <1>2 DEF ScreenInv
    <3> DEFINE s == size'
    <3>3. s \in Spans /\ size' = s /\ monitors' = <<>> /\ driver \in Drivers
      BY <1>1, <1>2, <1>3 DEF ScreenInv
    <3>4. SetRdpOutputs(s, <<>>)
      BY <3>1
    <3> HIDE DEF s
    <3> QED
      BY <1>1, <2>2, <3>2, <3>3, <3>4, SetRdpOutputsFacts
  <2> QED
    BY <2>1, <2>2
<1>6. LayoutInv'
  BY <1>1, <1>2 DEF LayoutInv
<1>7. NumbersInv'
  BY <1>1, <1>3 DEF NumbersInv
<1> QED
  BY <1>4, <1>5, <1>6, <1>7

\* X clients ask and go, and scripts run.
LEMMA XClientFollows ==
  ASSUME DesktopInv, XClient
  PROVE  DesktopInv'
<1> USE DEF DesktopInv
<1>1. UNCHANGED <<driver, size, root, monitors, rr, failed, lrr, raced>> /\ UNCHANGED desktopVars
  BY DEF XClient, SelectInput, WindowGoes, ScriptRuns
<1>2. ScreenInv' /\ LayoutInv' /\ NumbersInv'
  BY <1>1 DEF ScreenInv, LayoutInv, NumbersInv, desktopVars
<1>3. ASSUME NEW x \in XClients, SelectInput(x) \/ WindowGoes(x)
      PROVE  OutputsType' /\ OutputsFollow'
  <2>1. grid' = grid
    BY <1>3 DEF SelectInput, WindowGoes
  <2>2. interested' \in [XClients -> Masks \cup {{}}]
    BY <1>3 DEF SelectInput, WindowGoes, OutputsType, ExtensionType
  <2>3. /\ DOMAIN knows' = XClients
        /\ \A y \in XClients :
             \/ knows'[y] = Untold
             \/ knows'[y] = knows[y] /\ interested'[y] \in {interested[y], {}}
    <3>1. CASE SelectInput(x)
      BY <3>1 DEF SelectInput, OutputsType, ExtensionType
    <3>2. CASE WindowGoes(x)
      BY <3>2 DEF WindowGoes, OutputsType, ExtensionType
    <3> QED
      BY <1>3, <3>1, <3>2
  <2>4. IsKnown(Untold)
    <3>1. <<>> \in Seq(Quads) /\ <<>> \in Seq(Int)
      OBVIOUS
    <3> QED
      BY <3>1 DEF IsKnown, Untold, None
  <2>5. ExtensionType'
    BY <1>1, <2>2, <2>3, <2>4 DEF OutputsType, ExtensionType
  <2>6. \A y \in XClients :
          ClientKnows(interested[y], knows[y], root, lrr.crtcs)
            => ClientKnows(interested'[y], knows'[y], root', lrr'.crtcs)
    BY <1>1, <2>3 DEF ClientKnows, Untold
  <2>7. OutputsType'
    BY <1>1, <2>1, <2>5 DEF OutputsType, GridType, OneWaits
  <2>8. OutputsFollow'
    BY <1>1, <2>1, <2>6 DEF OutputsFollow, Wanted
  <2> QED
    BY <2>7, <2>8
<1>4. CASE ScriptRuns
  <2>1. UNCHANGED <<interested, window, knows>>
    BY <1>4 DEF ScriptRuns
  <2>2. /\ GridType' /\ OneWaits'
        /\ Len(grid'.scripts) <= Len(grid.scripts)
        /\ grid'.file = grid.file
        /\ \A shown \in Seq(Quads) :
             ~raced /\ GridShows(grid, shown) => GridShows(grid', shown)
    BY <1>4, ScriptFacts DEF OutputsType
  <2>3. Len(grid'.scripts) <= MaxScripts
    <3>1. Len(grid.scripts) \in Nat /\ Len(grid'.scripts) \in Nat /\ MaxScripts \in Nat
      BY <2>2, DesktopAssumption DEF OutputsType, GridType
    <3>2. Len(grid.scripts) <= MaxScripts
      BY DEF OutputsType
    <3> QED
      BY <2>2, <3>1, <3>2
  <2>4. ExtensionType'
    BY <1>1, <2>1 DEF OutputsType, ExtensionType
  <2>5. OutputsType'
    BY <1>1, <2>2, <2>3, <2>4 DEF OutputsType
  <2>6. OutputsFollow'
    <3>1. Wanted \in Seq(Quads) /\ Wanted' = Wanted
      BY <1>1, WantedFacts DEF ScreenInv, Wanted
    <3> QED
      BY <1>1, <2>1, <2>2, <3>1 DEF OutputsFollow
  <2> QED
    BY <1>2, <2>5, <2>6
<1> QED
  BY <1>2, <1>3, <1>4 DEF XClient

\* Every step keeps the desktop.
LEMMA DesktopKept ==
  LendInv /\ AssistInv /\ DesktopInv /\ [DesktopNext]_allVars => DesktopInv'
<1> SUFFICES ASSUME LendInv, AssistInv, DesktopInv, [DesktopNext]_allVars PROVE DesktopInv'
  OBVIOUS
<1>1. CASE Start
  BY <1>1, StartFollows
<1>2. CASE XResize
  <2>1. UNCHANGED outputVars /\ UNCHANGED desktopVars
    BY <1>2 DEF XResize, AssistInv, outputVars, desktopVars
  <2> QED
    BY <2>1, OutputsKept DEF DesktopInv, LayoutInv, NumbersInv, outputVars, desktopVars
<1>3. CASE XClient
  BY <1>3, XClientFollows
<1>4. CASE Leave \/ Accept
  <2>1. UNCHANGED outputVars /\ UNCHANGED <<started, allow, torn, helpers, owner>>
    BY <1>4 DEF Leave, Accept, Disconnect
  <2>2. con'.layout = None
    BY <1>4 DEF Leave, Accept, Disconnect, NoCon, NewCon
  <2>3. accepted' \in 0..MaxCons /\ con'.num \in {0, accepted'}
    <3>1. accepted \in Nat /\ accepted <= MaxCons /\ MaxCons \in Nat
      BY DesktopAssumption DEF DesktopInv, NumbersInv
    <3>2. CASE Leave
      BY <3>1, <3>2 DEF Leave, Disconnect, NoCon, NewCon
    <3>3. CASE Accept
      <4>1. accepted' = accepted + 1 /\ con'.num = accepted + 1 /\ accepted < MaxCons
        BY <3>3 DEF Accept, Disconnect, NewCon
      <4> QED
        BY <3>1, <4>1
    <3> QED
      BY <1>4, <3>2, <3>3
  <2>4. NumbersInv'
    BY <2>1, <2>3 DEF DesktopInv, NumbersInv, outputVars
  <2> QED
    BY <2>1, <2>2, <2>4, OutputsKept DEF DesktopInv, LayoutInv
<1>5. CASE Client
  <2>1. ASSUME NEW l \in Layouts, Len(grid.scripts) < MaxScripts, MonitorUpdate(l)
        PROVE  DesktopInv'
    BY <2>1, MessageFollows
  <2>2. ASSUME NEW l \in Layouts, Len(grid.scripts) < MaxScripts,
               NEW code \in Codes, NEW depth \in Depths, ClientInfo(l, code, depth)
        PROVE  DesktopInv'
    BY <2>2, MessageFollows
  <2> QED
    BY <1>4, <1>5, <2>1, <2>2 DEF Client
<1>6. CASE Helper
  <2>1. /\ UNCHANGED outputVars
        /\ UNCHANGED <<started, allow, torn, accepted>>
        /\ SameSize(con, con') /\ con'.num = con.num
    BY <1>6 DEF Helper, HelperDies, HelperCreates, HelperFrees, HelperRegisters,
                LendInv, IsCon, Fields, SameSize
  <2>2. \A p \in Pixmaps : owner'[p] \in helpers' \cup {0}
    <3>1. \A p \in Pixmaps : owner[p] \in helpers \cup {0}
      BY DEF DesktopInv, NumbersInv
    <3>2. DOMAIN owner = Pixmaps
      BY DEF LendInv, CountType
    <3> QED
      BY <1>6, <3>1, <3>2 DEF Helper, HelperDies, HelperCreates, HelperFrees, HelperRegisters
  <2>3. NumbersInv'
    BY <2>1, <2>2 DEF DesktopInv, NumbersInv, outputVars
  <2>4. LayoutInv'
    <3> SUFFICES ASSUME con'.layout # None
                 PROVE  \E l \in Layouts :
                          /\ con'.layout = <<l>>
                          /\ size' = l.size
                          /\ monitors' = Shifted(l.monitors)
                          /\ Sized(con', l.size)
                          /\ con'.depth \in Depths
      BY DEF LayoutInv
    <3>1. PICK l \in Layouts :
            /\ con.layout = <<l>>
            /\ size = l.size
            /\ monitors = Shifted(l.monitors)
            /\ Sized(con, l.size)
            /\ con.depth \in Depths
      BY <2>1 DEF DesktopInv, LayoutInv, SameSize
    <3>2. Sized(con', l.size)
      BY <2>1, <3>1, SameSizeFacts
    <3> QED
      BY <2>1, <3>1, <3>2 DEF SameSize, outputVars
  <2> QED
    BY <2>1, <2>3, <2>4, OutputsKept DEF DesktopInv
<1>7. CASE UNCHANGED allVars
  <2>1. UNCHANGED outputVars /\ UNCHANGED desktopVars
    BY <1>7 DEF allVars
  <2> QED
    BY <2>1, OutputsKept DEF DesktopInv, LayoutInv, NumbersInv, outputVars, desktopVars
<1> QED
  BY <1>1, <1>2, <1>3, <1>5, <1>6, <1>7 DEF DesktopNext

\* The desktop, its outputs and its connection are kept together.
THEOREM DesktopInvariant == DesktopSpec => []DesktopInv
<1>1. DesktopSpec => []AssistInv
  BY AssistAtInit, AssistStep, LendInvariant, PTL DEF DesktopSpec
<1> QED
  BY <1>1, DesktopAtInit, DesktopKept, LendInvariant, PTL DEF DesktopSpec

\* The variables of the desktop keep their types: connections are numbered one
\* after another, pixmaps belong to helpers that are there and are counted, and no
\* more outputs are created than there is room for (module/rdpRandR.c,
\* module/rdpClientCon.c).
THEOREM DesktopTypes == DesktopSpec => []DesktopTypeOK
<1>1. LendInv /\ DesktopInv => DesktopTypeOK
  <2> SUFFICES ASSUME LendInv, DesktopInv PROVE DesktopTypeOK
    OBVIOUS
  <2>1. driver \in Drivers /\ size \in Spans /\ root \in Spans
    BY DEF DesktopInv, ScreenInv
  <2>2. /\ started \in BOOLEAN /\ allow \in BOOLEAN /\ torn \in BOOLEAN /\ failed \in BOOLEAN
    BY DEF DesktopInv, NumbersInv, OutputsType
  <2>3. accepted \in 0..MaxCons /\ con.num \in {0, accepted}
    BY DEF DesktopInv, NumbersInv
  <2>4. /\ con.helper \in {"none", "running", "failed", "dead"}
        /\ con.helper \in {"running", "dead"} => con.assist
        /\ helpers \subseteq 1..accepted
    BY DEF LendInv, IsCon, Lends, HelpersKnown
  <2>5. \A p \in Pixmaps : owner[p] \in helpers \cup {0} /\ refs[p] \in Nat
    <3> TAKE p \in Pixmaps
    <3>1. owner[p] \in helpers \cup {0}
      BY DEF DesktopInv, NumbersInv
    <3>2. Cardinality(Registered(con, p)) \in Nat
      BY RegisteredFinite
    <3>3. refs[p] = (IF owner[p] # 0 THEN 1 ELSE 0) + Cardinality(Registered(con, p))
      BY DEF LendInv, PixmapsCounted
    <3>4. refs[p] \in Nat
      BY <3>2, <3>3
    <3> QED
      BY <3>1, <3>4
  <2>6. Len(rr.outputs) \in 0..MaxMonitors /\ Len(rr.crtcs) \in 0..MaxMonitors
    <3>1. IsRR(rr) /\ MaxMonitors \in Nat
      BY DesktopAssumption DEF DesktopInv, OutputsType
    <3> QED
      BY <3>1 DEF IsRR, Listed
  <2>7. \A x \in XClients : interested[x] \in Masks \cup {{}}
    BY DEF DesktopInv, OutputsType, ExtensionType
  <2>8. Len(grid.scripts) <= MaxScripts
    BY DEF DesktopInv, OutputsType
  <2> QED
    BY <2>1, <2>2, <2>3, <2>4, <2>5, <2>6, <2>7, <2>8 DEF DesktopTypeOK
<1> QED
  BY <1>1, LendInvariant, DesktopInvariant, PTL

-----------------------------------------------------------------------------
(* What clients see *)

\* A size that is rounded up, or not, for the capture, and for the client, holds
\* the size, and the memory the capture.
LEMMA SizedFacts ==
  ASSUME NEW c, NEW s \in Spans, Sized(c, s), c.depth \in Depths
  PROVE  /\ \A i \in {1, 2} : c.cap[i] >= s[i] /\ c.told[i] >= c.cap[i]
         /\ c.code = "h264" => c.shm >= c.cap[1] * c.cap[2] * 2
         /\ c.code # "h264" /\ c.stride <= c.depth.Bpp =>
              c.shm >= c.cap[1] * c.cap[2] * c.stride
<1>1. 64 \in Nat \ {0} /\ 16 \in Nat \ {0}
  OBVIOUS
<1>2. /\ Aligned(s, 64) \in Spans /\ Aligned(s, 16) \in Spans
      /\ \A i \in {1, 2} : s[i] <= Aligned(s, 64)[i] /\ s[i] <= Aligned(s, 16)[i]
  BY <1>1, AlignedFacts
<1>3. /\ c.cap \in {s, Aligned(s, 64)} /\ c.cap \in Spans
      /\ c.code = "rfx" => c.cap = Aligned(s, 64) /\ c.told = Aligned(s, 64)
      /\ c.code = "h264" => c.cap = s /\ c.told = Aligned(s, 16)
      /\ c.code \notin {"rfx", "h264"} => c.cap = s /\ c.told = s
  BY <1>2 DEF Sized, CaptureSize
<1>4. ASSUME NEW i \in {1, 2}
      PROVE  c.cap[i] >= s[i] /\ c.told[i] >= c.cap[i]
  <2>1. s[i] \in Nat /\ Aligned(s, 64)[i] \in Nat /\ Aligned(s, 16)[i] \in Nat
    BY <1>2 DEF Spans
  <2> QED
    BY <1>2, <1>3, <2>1
<1> DEFINE area == c.cap[1] * c.cap[2]
<1>5. area \in Nat
  <2>1. c.cap[1] \in Nat /\ c.cap[2] \in Nat
    BY <1>3 DEF Spans
  <2> QED
    BY <2>1
<1>6. c.shm = area * (IF c.code = "h264" THEN 2 ELSE c.depth.Bpp)
  BY DEF Sized, ShmBytes
<1>7. c.depth.Bpp \in {1, 2, 4} /\ c.depth.format \in {0, 1, 2, 4}
  BY DesktopAssumption
<1>8. c.stride \in {1, 2, 4}
  BY <1>7 DEF Sized, StrideBytes
<1> HIDE DEF area
<1>9. c.code = "h264" => c.shm >= area * 2
  BY <1>5, <1>6
<1>10. ASSUME c.code # "h264", c.stride <= c.depth.Bpp PROVE c.shm >= area * c.stride
  <2> DEFINE b == c.depth.Bpp
             r == c.stride
  <2>1. b \in {1, 2, 4} /\ r \in {1, 2, 4} /\ r <= b /\ c.shm = area * b
    BY <1>6, <1>7, <1>8, <1>10
  <2> HIDE DEF b, r
  <2>2. c.shm >= area * r
    BY <1>5, <2>1
  <2> QED
    BY <2>2 DEF r
<1> QED
  BY <1>4, <1>9, <1>10 DEF area

\* The desktop is what its client last asked for, whatever the session did before,
\* and the memory holds the capture when the client's format is no wider than its
\* pixels (rdpClientConResizeAllMemoryAreas, rdpClientConProcessClientInfoMonitors).
THEOREM DesktopAlwaysFollows == DesktopSpec => []DesktopFollows
<1>1. DesktopInv => DesktopFollows
  <2> SUFFICES ASSUME DesktopInv, con.layout # None PROVE DesktopFollows
    BY DEF DesktopFollows
  <2>1. PICK l \in Layouts :
          /\ con.layout = <<l>>
          /\ size = l.size
          /\ monitors = Shifted(l.monitors)
          /\ Sized(con, l.size)
          /\ con.depth \in Depths
    BY DEF DesktopInv, LayoutInv
  <2>2. con.layout[1] = l
    BY <2>1
  <2>3. l.size \in Spans /\ \A i \in DOMAIN l.monitors : l.monitors[i] \in Monitor
    BY DesktopAssumption
  <2> DEFINE ms == l.monitors
  <2>4. /\ Len(monitors) = Len(ms) /\ DOMAIN monitors = DOMAIN ms
        /\ SameShape(monitors, ms) /\ Inside(monitors, l.size)
    BY <2>1, ShiftedFacts
  <2>5. PICK x \in Int, y \in Int :
          \A i \in DOMAIN ms :
            /\ monitors[i].left = ms[i].left - x
            /\ monitors[i].right = ms[i].right - x
            /\ monitors[i].top = ms[i].top - y
            /\ monitors[i].bottom = ms[i].bottom - y
    BY <2>4 DEF SameShape
  <2>6. \A i \in DOMAIN ms : /\ ms[i].left \in Int /\ ms[i].right \in Int
                             /\ ms[i].top \in Int /\ ms[i].bottom \in Int
    BY <2>3 DEF Monitor
  <2>7. \A i, j \in DOMAIN monitors :
          /\ monitors[i].left - monitors[j].left = ms[i].left - ms[j].left
          /\ monitors[i].right - monitors[j].left = ms[i].right - ms[j].left
          /\ monitors[i].top - monitors[j].top = ms[i].top - ms[j].top
          /\ monitors[i].bottom - monitors[j].top = ms[i].bottom - ms[j].top
    <3> TAKE i, j \in DOMAIN monitors
    <3>1. i \in DOMAIN ms /\ j \in DOMAIN ms
      BY <2>4
    <3>2. /\ monitors[i].left = ms[i].left - x /\ monitors[j].left = ms[j].left - x
          /\ monitors[i].right = ms[i].right - x
          /\ monitors[i].top = ms[i].top - y /\ monitors[j].top = ms[j].top - y
          /\ monitors[i].bottom = ms[i].bottom - y
      BY <2>5, <3>1
    <3> QED
      BY <2>6, <3>1, <3>2
  <2>8. \A i \in DOMAIN monitors :
          /\ monitors[i].left >= 0 /\ monitors[i].right < size[1]
          /\ monitors[i].top >= 0 /\ monitors[i].bottom < size[2]
    BY <2>1, <2>4 DEF Inside
  <2>9. /\ \A i \in {1, 2} : con.cap[i] >= size[i] /\ con.told[i] >= con.cap[i]
        /\ con.code = "h264" => con.shm >= con.cap[1] * con.cap[2] * 2
        /\ con.code # "h264" /\ con.stride <= con.depth.Bpp =>
             con.shm >= con.cap[1] * con.cap[2] * con.stride
    BY <2>1, <2>3, SizedFacts
  <2>10. size = l.size /\ (torn \/ root = size)
    BY <2>1 DEF DesktopInv, ScreenInv
  <2>11. Len(monitors) = Len(l.monitors)
    BY <2>4
  <2> QED
    BY <2>2, <2>7, <2>8, <2>9, <2>10, <2>11 DEF DesktopFollows
<1> QED
  BY <1>1, DesktopInvariant, PTL

\* X clients see the monitors that there are, whatever has failed before, whichever
\* driver shows them, and after every sequence of layouts, where a script shows
\* them if it has been written completely (rdpRRSetRdpOutputs,
\* rdpLRRSetRdpOutputs, rdpRandRGridSetRdpOutputs).
THEOREM OutputsAlwaysShow == DesktopSpec => []OutputsShowMonitors
<1>1. DesktopInv => OutputsShowMonitors
  <2> SUFFICES ASSUME DesktopInv, ~failed PROVE OutputsShowMonitors
    BY DEF OutputsShowMonitors
  <2>1. driver \in {"plain", "glamor", "nvidia", "grid"} /\ OutputsFollow
    BY OutputsAssumption DEF DesktopInv, ScreenInv
  <2>2. Wanted \in Seq(Quads)
    BY WantedFacts DEF DesktopInv, ScreenInv, Wanted
  <2>3. CASE driver = "nvidia"
    BY <2>1, <2>3 DEF OutputsFollow, OutputsShowMonitors
  <2>4. CASE driver = "grid"
    <3>1. ASSUME grid.file = Commands(Wanted), grid.scripts = <<>>, ~raced,
                 NEW i \in DOMAIN grid.outputs
          PROVE  grid.outputs[i] = IF i \in DOMAIN Wanted THEN Wanted[i] ELSE None
      <4>1. grid.outputs = Commands(Wanted)
        BY <2>1, <2>4, <3>1 DEF OutputsFollow, GridShows
      <4>2. i \in 1..GridMax
        BY <3>1 DEF DesktopInv, OutputsType, GridType, CommandLists
      <4> QED
        BY <2>2, <4>1, <4>2, CommandsFacts
    <3>2. grid.file \in Written(Wanted)
      BY <2>1, <2>4 DEF OutputsFollow
    <3> QED
      BY <2>4, <3>1, <3>2 DEF OutputsShowMonitors
  <2>5. CASE driver \in {"plain", "glamor"}
    <3>1. RRShows(rr, Wanted, monitors)
      BY <2>1, <2>5 DEF OutputsFollow
    <3> QED
      BY <2>5, <3>1 DEF RRShows, ShowingOutput, OutputsShowMonitors
  <2> QED
    BY <2>1, <2>3, <2>4, <2>5
<1> QED
  BY <1>1, DesktopInvariant, PTL

\* What an output, its crtc and its mode say of each other.
OutputsLinked ==
  \A o \in ScreenResources.outputs :
    LET info == OutputInfo(o)
    IN /\ info.crtc \in ScreenResources.crtcs
       /\ CrtcInfo(info.crtc).output = o
       /\ CrtcInfo(info.crtc).mode = info.mode
       /\ [id |-> info.mode, span |-> Mode(CrtcInfo(info.crtc).rect)] \in ScreenResources.modes

\* The identifiers lead from one to the other.
LEMMA Linked == ASSUME ExtensionType PROVE OutputsLinked
<1>1. Len(lrr.crtcs) \in Nat /\ DOMAIN lrr.crtcs = 1..Len(lrr.crtcs)
  BY DEF ExtensionType
<1>2. ASSUME NEW o \in ScreenResources.outputs
      PROVE  LET info == OutputInfo(o)
             IN /\ info.crtc \in ScreenResources.crtcs
                /\ CrtcInfo(info.crtc).output = o
                /\ CrtcInfo(info.crtc).mode = info.mode
                /\ [id |-> info.mode, span |-> Mode(CrtcInfo(info.crtc).rect)]
                     \in ScreenResources.modes
  <2>1. PICK i \in DOMAIN lrr.crtcs : o = Output(i)
    BY <1>2 DEF ScreenResources
  <2>2. i \in Int
    BY <1>1
  <2>3. /\ Output2Crtc(o) = i /\ Output2Mode(o) = ModeId(i)
        /\ Crtc(i) = i /\ Crtc2Output(i) = o /\ Crtc2Mode(i) = ModeId(i)
    BY <2>1, <2>2 DEF Output, Output2Crtc, Output2Mode, ModeId, Crtc, Crtc2Output, Crtc2Mode, LRRMax
  <2>4. OutputInfo(o).crtc = i /\ OutputInfo(o).mode = ModeId(i)
    BY <2>3 DEF OutputInfo
  <2>5. /\ CrtcInfo(i).rect = lrr.crtcs[i] /\ CrtcInfo(i).mode = ModeId(i)
        /\ CrtcInfo(i).output = o
    BY <2>3 DEF CrtcInfo
  <2>6. i \in ScreenResources.crtcs
    BY <2>1, <2>3 DEF ScreenResources
  <2>7. [id |-> ModeId(i), span |-> Mode(lrr.crtcs[i])] \in ScreenResources.modes
    BY <2>1 DEF ScreenResources
  <2> QED
    BY <2>4, <2>5, <2>6, <2>7
<1> QED
  BY <1>2 DEF OutputsLinked

\* X clients of the extension that have been told know the screen, the crtcs and
\* the outputs, and the answers to their questions agree (rdpLRRSetRdpOutputs,
\* ProcLRRGetOutputInfo, ProcLRRGetCrtcInfo).
THEOREM ClientsAlwaysKnow == DesktopSpec => []ClientsKnowOutputs
<1>1. DesktopInv => ClientsKnowOutputs
  <2> SUFFICES ASSUME DesktopInv, driver = "nvidia" PROVE ClientsKnowOutputs
    BY DEF ClientsKnowOutputs
  <2>1. ExtensionType
    BY DEF DesktopInv, OutputsType
  <2>2. \A x \in XClients : ClientKnows(interested[x], knows[x], root, lrr.crtcs)
    BY DEF DesktopInv, OutputsFollow
  <2>3. ScreenResources.outputs = {Output(i) : i \in DOMAIN lrr.crtcs}
    BY DEF ScreenResources
  <2>4. \A x \in XClients :
          LET m == interested[x]
              k == knows[x]
          IN /\ "screen" \in m /\ k.screen # None => k.screen = root
             /\ "crtc" \in m /\ k.crtcs # None => IsPrefix(lrr.crtcs, k.crtcs)
             /\ "output" \in m /\ k.outputs # None
                  => ScreenResources.outputs \subseteq ToSet(k.outputs)
    BY <2>2, <2>3 DEF ClientKnows
  <2>5. OutputsLinked
    BY <2>1, Linked
  <2>6. OutputPrimary \in ScreenResources.outputs \cup {0}
    BY <2>1, <2>3 DEF ExtensionType, PrimaryIsOutput, OutputPrimary
  <2> QED
    BY <2>4, <2>5, <2>6 DEF ClientsKnowOutputs, OutputsLinked
<1> QED
  BY <1>1, DesktopInvariant, PTL

=============================================================================
