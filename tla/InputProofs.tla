----------------------------- MODULE InputProofs -----------------------------
(***************************************************************************)
(* Proofs about Input and Keyboard.                                        *)
(*                                                                         *)
(* Both devices fold the events of a queue.  A fold is a run here: a row   *)
(* of values of which each follows from the one before by a function.      *)
(*                                                                         *)
(* The keyboard needs another run: what the server will have heard when    *)
(* it has handled the messages that wait, as if it processed the queue     *)
(* after each of them.  That agrees with the client after every step, and  *)
(* is what the server has when no message waits.                           *)
(***************************************************************************)
EXTENDS Input, FiniteSetTheorems, SequenceTheorems, WellFoundedInduction, TLAPS

(* Numbers *)

\* A set of naturals has a least number: the sets of the numbers up to each of
\* them are finite, and one of these holds no other.
LEMMA LeastNatural ==
  ASSUME NEW T \in SUBSET Nat, T # {}
  PROVE  \E n \in T : \A m \in T : n <= m
<1> DEFINE R == StrictSubsetOrdering(Nat)
           upTo == {0..n : n \in T}
<1>1. IsWellFoundedOn(R, FiniteSubsetsOf(Nat))
  BY FS_StrictSubsetOrderingWellFounded
<1>2. upTo \subseteq FiniteSubsetsOf(Nat)
  <2>1. 0 \in Int
    OBVIOUS
  <2>2. \A n \in T : IsFiniteSet(0..n)
    BY <2>1, FS_Interval
  <2> QED
    BY <2>2 DEF FiniteSubsetsOf
<1>3. upTo # {}
  OBVIOUS
<1> HIDE DEF R, upTo
<1>4. PICK s \in upTo : \A t \in upTo : ~ (<<t, s>> \in R)
  BY <1>1, <1>2, <1>3, WFMin
<1>5. PICK n \in T : s = 0..n
  BY <1>4 DEF upTo
<1>6. ASSUME NEW m \in T, m < n PROVE FALSE
  <2> DEFINE pair == <<0..m, 0..n>>
  <2>1. 0..m \in upTo
    BY DEF upTo
  <2>2. pair \in (SUBSET Nat) \X (SUBSET Nat) /\ pair[1] = 0..m /\ pair[2] = 0..n
    OBVIOUS
  <2>3. 0..m \subseteq 0..n /\ 0..m # 0..n
    BY <1>6
  <2>4. pair \in R
    BY <2>2, <2>3 DEF R, StrictSubsetOrdering
  <2> QED
    BY <1>4, <1>5, <2>1, <2>4
<1> QED
  BY <1>6

\* What holds of zero, and of a number when it holds of the one before, holds of
\* all numbers of a row.
LEMMA Induction ==
  ASSUME NEW n \in Nat, NEW S, 0 \in S,
         \A k \in 1..n : k - 1 \in S => k \in S
  PROVE  \A k \in 0..n : k \in S
<1> DEFINE bad == {k \in 0..n : k \notin S}
<1>1. SUFFICES ASSUME bad # {} PROVE FALSE
  OBVIOUS
<1>2. bad \in SUBSET Nat
  OBVIOUS
<1> HIDE DEF bad
<1>3. PICK k \in bad : \A m \in bad : k <= m
  BY <1>1, <1>2, LeastNatural
<1>4. k \in 1..n /\ k - 1 \in 0..n /\ ~(k <= k - 1)
  BY DEF bad
<1>5. k - 1 \in S
  BY <1>3, <1>4 DEF bad
<1> QED
  BY <1>4, <1>5 DEF bad

\* Positions have a last one, which is the greatest.
LEMMA MaxFacts ==
  ASSUME NEW n \in Nat, NEW S \in SUBSET (1..n), S # {}
  PROVE  Max(S) \in S /\ \A j \in S : j <= Max(S)
<1> DEFINE back == {n - i : i \in S}
<1>1. back \in SUBSET Nat /\ back # {}
  <2>1. \A i \in S : n - i \in Nat
    OBVIOUS
  <2> QED
    BY <2>1
<1>2. PICK k \in back : \A m \in back : k <= m
  <2> HIDE DEF back
  <2> QED
    BY <1>1, LeastNatural
<1>3. PICK i \in S : k = n - i
  BY <1>2
<1>4. ASSUME NEW j \in S PROVE i >= j
  <2>1. n - i <= n - j
    BY <1>2, <1>3
  <2> QED
    BY <2>1
<1>5. Max(S) \in S /\ \A j \in S : Max(S) >= j
  BY <1>4 DEF Max
<1> QED
  BY <1>5

\* The first numbers of a row.
LEMMA RowFacts ==
  ASSUME NEW n \in Nat, NEW k \in 1..n
  PROVE  k \in 0..n /\ k \in Nat \ {0} /\ 1..k \in SUBSET (1..n) /\ 1..k # {}
<1>1. k \in 0..n /\ k \in Nat \ {0}
  OBVIOUS
<1>2. k \in 1..k /\ \A i \in 1..k : i \in 1..n
  OBVIOUS
<1> QED
  BY <1>1, <1>2

\* The greatest number of a row that has no gaps.
LEMMA MaxOfRow ==
  ASSUME NEW k \in Nat \ {0}
  PROVE  Max(1..k) = k /\ (1..k) \ {k} = 1..(k - 1)
<1>1. k \in 1..k /\ 1..k \in SUBSET (1..k) /\ 1..k # {}
  OBVIOUS
<1>2. Max(1..k) \in 1..k /\ \A j \in 1..k : j <= Max(1..k)
  BY <1>1, MaxFacts
<1> QED
  BY <1>1, <1>2

-----------------------------------------------------------------------------
(* Runs *)

\* A row of values from x to v, of which each follows from the one before and
\* from an item of q.
IsRun(K, F, x, q, v) ==
  \E f \in [0..Len(q) -> K] :
    /\ f[0] = x
    /\ f[Len(q)] = v
    /\ \A k \in 1..Len(q) : f[k] = F[<<f[k - 1], q[k]>>]

\* What a fold over the items of a set asks of the function that it chooses.
Folds(g, K, F, x, q, n) ==
  /\ g \in [SUBSET (1..n) -> K]
  /\ \A s \in SUBSET (1..n) :
       g[s] = IF s = {} THEN x ELSE F[<<g[s \ {Max(s)}], q[Max(s)]>>]

\* There is such a function, for one more item at a time.
LEMMA FoldExists ==
  ASSUME NEW K, NEW E, NEW F \in [K \X E -> K], NEW x \in K, NEW q \in Seq(E)
  PROVE  \E g : Folds(g, K, F, x, q, Len(q))
<1> DEFINE S == {k \in 0..Len(q) : \E g : Folds(g, K, F, x, q, k)}
<1>1. Len(q) \in Nat
  OBVIOUS
<1>2. 0 \in S
  <2>1. Folds([s \in SUBSET (1..0) |-> x], K, F, x, q, 0)
    BY DEF Folds
  <2> QED
    BY <1>1, <2>1
<1>3. ASSUME NEW k \in 1..Len(q), k - 1 \in S PROVE k \in S
  <2>1. PICK g : Folds(g, K, F, x, q, k - 1)
    BY <1>3
  <2> DEFINE h == [s \in SUBSET (1..k) |->
                     IF k \in s THEN F[<<g[s \ {k}], q[k]>>] ELSE g[s]]
  <2>2. k \in Nat \ {0} /\ k - 1 \in Nat /\ q[k] \in E
    OBVIOUS
  <2>3. \A s \in SUBSET (1..k) : s \ {k} \in SUBSET (1..(k - 1))
    BY <2>2
  <2>4. \A s \in SUBSET (1..k) : k \notin s => s \in SUBSET (1..(k - 1))
    BY <2>2
  <2>5. \A s \in SUBSET (1..(k - 1)) : g[s] \in K
    BY <2>1 DEF Folds
  <2>6. h \in [SUBSET (1..k) -> K]
    BY <2>2, <2>3, <2>4, <2>5
  <2>7. ASSUME NEW s \in SUBSET (1..k)
        PROVE  h[s] = IF s = {} THEN x ELSE F[<<h[s \ {Max(s)}], q[Max(s)]>>]
    <3>1. CASE k \in s
      <4>1. Max(s) \in s /\ \A j \in s : j <= Max(s)
        BY <2>2, <3>1, MaxFacts
      <4>2. Max(s) = k
        <5>1. k <= Max(s) /\ Max(s) \in 1..k
          BY <3>1, <4>1
        <5> QED
          BY <2>2, <5>1
      <4>3. s \ {k} \in SUBSET (1..k) /\ k \notin s \ {k}
        OBVIOUS
      <4> QED
        BY <3>1, <4>2, <4>3
    <3>2. CASE k \notin s
      <4>1. s \in SUBSET (1..(k - 1))
        BY <2>4, <3>2
      <4>2. g[s] = IF s = {} THEN x ELSE F[<<g[s \ {Max(s)}], q[Max(s)]>>]
        BY <2>1, <4>1 DEF Folds
      <4>3. s \ {Max(s)} \in SUBSET (1..k) /\ k \notin s \ {Max(s)}
        BY <3>2
      <4> QED
        BY <3>2, <4>2, <4>3
    <3> QED
      BY <3>1, <3>2
  <2> HIDE DEF h
  <2>8. Folds(h, K, F, x, q, k)
    BY <2>6, <2>7 DEF Folds
  <2> QED
    BY <2>8
<1> HIDE DEF S
<1>4. \A k \in 1..Len(q) : k - 1 \in S => k \in S
  BY <1>3
<1>5. Len(q) \in S
  <2>1. \A k \in 0..Len(q) : k \in S
    BY <1>1, <1>2, <1>4, Induction
  <2> QED
    BY <1>1, <2>1
<1> QED
  BY <1>5 DEF S

\* A fold over items that stay in their set is a run: the values that it gives
\* the first items.
LEMMA FoldRuns ==
  ASSUME NEW K, NEW E, NEW F \in [K \X E -> K], NEW x \in K, NEW q \in Seq(E),
         NEW g, Folds(g, K, F, x, q, Len(q))
  PROVE  IsRun(K, F, x, q, g[1..Len(q)])
<1> DEFINE f == [k \in 0..Len(q) |-> g[1..k]]
<1>1. Len(q) \in Nat
  OBVIOUS
<1>2. \A k \in 0..Len(q) : 1..k \in SUBSET (1..Len(q))
  BY <1>1
<1>3. f \in [0..Len(q) -> K]
  BY <1>2 DEF Folds
<1>4. f[0] = x
  <2>1. 0 \in 0..Len(q) /\ 1..0 = {}
    BY <1>1
  <2> QED
    BY <1>2, <2>1 DEF Folds
<1>5. ASSUME NEW k \in 1..Len(q) PROVE f[k] = F[<<f[k - 1], q[k]>>]
  <2>1. k \in Nat \ {0} /\ k - 1 \in 0..Len(q) /\ k \in 0..Len(q)
    <3> HIDE DEF f
    <3> QED
      BY <1>1
  <2>2. Max(1..k) = k /\ (1..k) \ {k} = 1..(k - 1) /\ 1..k # {}
    BY <2>1, MaxOfRow
  <2>3. g[1..k] = F[<<g[(1..k) \ {Max(1..k)}], q[Max(1..k)]>>]
    BY <1>2, <2>1, <2>2 DEF Folds
  <2> QED
    BY <2>1, <2>2, <2>3
<1>6. f[Len(q)] = g[1..Len(q)]
  BY <1>1
<1> QED
  BY <1>3, <1>4, <1>5, <1>6 DEF IsRun

\* A run over the same items comes to the same value.
LEMMA RunUnique ==
  ASSUME NEW K, NEW F, NEW x, NEW q, Len(q) \in Nat, NEW v, NEW w,
         IsRun(K, F, x, q, v), IsRun(K, F, x, q, w)
  PROVE  v = w
<1>1. PICK f \in [0..Len(q) -> K] :
        /\ f[0] = x /\ f[Len(q)] = v
        /\ \A k \in 1..Len(q) : f[k] = F[<<f[k - 1], q[k]>>]
  BY DEF IsRun
<1>2. PICK g \in [0..Len(q) -> K] :
        /\ g[0] = x /\ g[Len(q)] = w
        /\ \A k \in 1..Len(q) : g[k] = F[<<g[k - 1], q[k]>>]
  BY DEF IsRun
<1> DEFINE S == {k \in 0..Len(q) : f[k] = g[k]}
<1>3. 0 \in S
  BY <1>1, <1>2
<1>4. ASSUME NEW k \in 1..Len(q), k - 1 \in S PROVE k \in S
  <2>1. f[k - 1] = g[k - 1] /\ k \in 0..Len(q)
    BY <1>4
  <2>2. f[k] = g[k]
    <3> HIDE DEF S
    <3> QED
      BY <1>1, <1>2, <2>1
  <2> QED
    BY <2>1, <2>2
<1> HIDE DEF S
<1>5. \A k \in 1..Len(q) : k - 1 \in S => k \in S
  BY <1>4
<1>6. \A k \in 0..Len(q) : k \in S
  BY <1>3, <1>5, Induction
<1>7. Len(q) \in S
  BY <1>6
<1> QED
  BY <1>1, <1>2, <1>7 DEF S

\* What holds of the first value, and of the next when it holds of one, holds of
\* the last.
LEMMA RunKeeps ==
  ASSUME NEW K, NEW F, NEW x, NEW q, Len(q) \in Nat, NEW v, IsRun(K, F, x, q, v),
         NEW P, x \in P,
         \A y \in K, k \in 1..Len(q) : y \in P => F[<<y, q[k]>>] \in P
  PROVE  v \in P
<1>1. PICK f \in [0..Len(q) -> K] :
        /\ f[0] = x /\ f[Len(q)] = v
        /\ \A k \in 1..Len(q) : f[k] = F[<<f[k - 1], q[k]>>]
  BY DEF IsRun
<1> DEFINE S == {k \in 0..Len(q) : f[k] \in P}
<1>2. 0 \in S
  BY <1>1
<1>3. ASSUME NEW k \in 1..Len(q), k - 1 \in S PROVE k \in S
  <2>1. k \in 0..Len(q) /\ k - 1 \in 0..Len(q) /\ f[k - 1] \in P
    BY <1>3
  <2>2. f[k - 1] \in K
    BY <2>1
  <2>3. f[k] \in P
    <3> HIDE DEF S
    <3> QED
      BY <1>1, <2>1, <2>2
  <2> QED
    BY <2>1, <2>3
<1> HIDE DEF S
<1>4. \A k \in 1..Len(q) : k - 1 \in S => k \in S
  BY <1>3
<1>5. \A k \in 0..Len(q) : k \in S
  BY <1>2, <1>4, Induction
<1>6. Len(q) \in S
  BY <1>5
<1> QED
  BY <1>1, <1>6 DEF S

\* What relates two values at first, and the next ones when it relates two, relates
\* the last.
LEMMA RunsRelate ==
  ASSUME NEW K, NEW L, NEW F, NEW G, NEW x, NEW y, NEW q, Len(q) \in Nat, NEW v, NEW w,
         IsRun(K, F, x, q, v), IsRun(L, G, y, q, w),
         NEW R, <<x, y>> \in R,
         \A a \in K, b \in L, k \in 1..Len(q) :
           <<a, b>> \in R => <<F[<<a, q[k]>>], G[<<b, q[k]>>]>> \in R
  PROVE  <<v, w>> \in R
<1>1. PICK f \in [0..Len(q) -> K] :
        /\ f[0] = x /\ f[Len(q)] = v
        /\ \A k \in 1..Len(q) : f[k] = F[<<f[k - 1], q[k]>>]
  BY DEF IsRun
<1>2. PICK g \in [0..Len(q) -> L] :
        /\ g[0] = y /\ g[Len(q)] = w
        /\ \A k \in 1..Len(q) : g[k] = G[<<g[k - 1], q[k]>>]
  BY DEF IsRun
<1> DEFINE S == {k \in 0..Len(q) : <<f[k], g[k]>> \in R}
<1>3. 0 \in S
  BY <1>1, <1>2
<1>4. ASSUME NEW k \in 1..Len(q), k - 1 \in S PROVE k \in S
  <2>1. k \in 0..Len(q) /\ k - 1 \in 0..Len(q) /\ <<f[k - 1], g[k - 1]>> \in R
    BY <1>4
  <2>2. f[k - 1] \in K /\ g[k - 1] \in L
    BY <2>1
  <2>3. <<f[k], g[k]>> \in R
    <3> HIDE DEF S
    <3> QED
      BY <1>1, <1>2, <2>1, <2>2
  <2> QED
    BY <2>1, <2>3
<1> HIDE DEF S
<1>5. \A k \in 1..Len(q) : k - 1 \in S => k \in S
  BY <1>4
<1>6. \A k \in 0..Len(q) : k \in S
  BY <1>3, <1>5, Induction
<1>7. Len(q) \in S
  BY <1>6
<1> QED
  BY <1>1, <1>2, <1>7 DEF S

\* A run over no items stays where it is.
LEMMA RunEmpty ==
  ASSUME NEW K, NEW F, NEW x, NEW v, IsRun(K, F, x, <<>>, v)
  PROVE  v = x
BY DEF IsRun

\* A run over two rows of items is a run over the first, then one over the second.
LEMMA RunConcat ==
  ASSUME NEW K, NEW E, NEW F, NEW x, NEW q \in Seq(E), NEW r \in Seq(E), NEW v, NEW w,
         IsRun(K, F, x, q, v), IsRun(K, F, x, q \o r, w)
  PROVE  IsRun(K, F, v, r, w)
<1>1. /\ Len(q) \in Nat /\ Len(r) \in Nat /\ Len(q \o r) = Len(q) + Len(r)
      /\ \A k \in 1..Len(q) : (q \o r)[k] = q[k]
      /\ \A k \in 1..Len(r) : (q \o r)[Len(q) + k] = r[k]
  OBVIOUS
<1> DEFINE n == Len(q)
           m == Len(r)
           s == q \o r
<1> HIDE DEF n, m, s
<1>2. PICK f \in [0..(n + m) -> K] :
        /\ f[0] = x /\ f[n + m] = w
        /\ \A k \in 1..(n + m) : f[k] = F[<<f[k - 1], s[k]>>]
  BY <1>1 DEF IsRun, n, m, s
<1>3. n \in Nat /\ m \in Nat
  BY <1>1 DEF n, m
<1>4. IsRun(K, F, x, q, f[n])
  <2> DEFINE g == [k \in 0..n |-> f[k]]
  <2>1. g \in [0..n -> K] /\ g[0] = x /\ g[n] = f[n]
    BY <1>2, <1>3
  <2>2. ASSUME NEW k \in 1..n PROVE g[k] = F[<<g[k - 1], q[k]>>]
    <3>1. k \in 1..(n + m) /\ k \in 0..n /\ k - 1 \in 0..n
      BY <1>3
    <3>2. s[k] = q[k]
      BY <1>1 DEF n, s
    <3> QED
      BY <1>2, <3>1, <3>2
  <2> HIDE DEF g
  <2> QED
    BY <2>1, <2>2 DEF IsRun, n
<1>5. f[n] = v
  BY <1>1, <1>4, RunUnique
<1> DEFINE h == [k \in 0..m |-> f[n + k]]
<1>6. h \in [0..m -> K] /\ h[0] = v /\ h[m] = w
  BY <1>2, <1>3, <1>5
<1>7. ASSUME NEW k \in 1..m PROVE h[k] = F[<<h[k - 1], r[k]>>]
  <2>1. n + k \in 1..(n + m) /\ k \in 0..m /\ k - 1 \in 0..m /\ (n + k) - 1 = n + (k - 1)
    BY <1>3
  <2>2. s[n + k] = r[k]
    BY <1>1 DEF n, m, s
  <2>3. f[n + k] = F[<<f[(n + k) - 1], s[n + k]>>]
    BY <1>2, <2>1
  <2>4. h[k] = f[n + k] /\ h[k - 1] = f[n + (k - 1)]
    BY <2>1
  <2> QED
    BY <2>1, <2>2, <2>3, <2>4
<1> HIDE DEF h
<1> QED
  BY <1>6, <1>7 DEF IsRun, m

\* A run over one item is one step.
LEMMA RunOne ==
  ASSUME NEW K, NEW F, NEW x, NEW e, NEW v, IsRun(K, F, x, <<e>>, v)
  PROVE  v = F[<<x, e>>]
<1>1. Len(<<e>>) = 1 /\ <<e>>[1] = e
  OBVIOUS
<1> DEFINE q == <<e>>
<1> HIDE DEF q
<1>2. IsRun(K, F, x, q, v) /\ Len(q) = 1 /\ q[1] = e
  BY <1>1 DEF q
<1>3. PICK f \in [0..1 -> K] : f[0] = x /\ f[1] = v /\ f[1] = F[<<f[1 - 1], q[1]>>]
  BY <1>2 DEF IsRun
<1> QED
  BY <1>2, <1>3

-----------------------------------------------------------------------------
(* The runs of the two devices *)

AllEvents == Events \cup PointerEvents
Sprites   == [buttons : SUBSET Buttons, at : Nat \X Nat]
Keyboards == {x \in [held : SUBSET XKeys, locked : SUBSET XLocks, unlocking : SUBSET XLocks] :
                x.unlocking \subseteq x.held \cap x.locked}
Queues    == [queue : Seq(AllEvents), posted : SUBSET XKeys]

\* ProcessPointer on a screen of size z.
ProcessAt(z, s, e) ==
  CASE "motion" \in DOMAIN e -> [s EXCEPT !.at = OnScreen(e.motion, z)]
    [] "button" \in DOMAIN e -> [s EXCEPT !.buttons = IF e.down THEN @ \cup {e.button}
                                                                ELSE @ \ {e.button}]
    [] OTHER                 -> s

\* The sprite after the events of q.
After(z, s, q) == FoldLeft(LAMBDA t, e : ProcessAt(z, t, e), s, q)

PointerStep(z) == [p \in Sprites \X AllEvents |-> ProcessAt(z, p[1], p[2])]
KeyStep        == [p \in Keyboards \X AllEvents |-> ProcessEvent(p[1], p[2])]
PostStep       == [p \in Queues \X Events |-> PostEvent(p[1], p[2])]

\* The sprite stays on the screen.
LEMMA OnScreenFacts ==
  ASSUME NEW s \in Sizes, NEW p \in Nat \X Nat
  PROVE  OnScreen(p, s) \in Nat \X Nat /\ \A i \in 1..2 : OnScreen(p, s)[i] < s[i]
<1>1. /\ s[1] \in Nat /\ s[2] \in Nat /\ s[1] >= 2 /\ s[2] >= 2
      /\ p[1] \in Nat /\ p[2] \in Nat
  BY InputAssumption
<1>2. OnScreen(p, s) = <<AtMost(p[1], s[1] - 1), AtMost(p[2], s[2] - 1)>>
  BY DEF OnScreen
<1>3. /\ AtMost(p[1], s[1] - 1) \in Nat /\ AtMost(p[1], s[1] - 1) < s[1]
      /\ AtMost(p[2], s[2] - 1) \in Nat /\ AtMost(p[2], s[2] - 1) < s[2]
  BY <1>1 DEF AtMost
<1> QED
  BY <1>2, <1>3

\* An event leaves a sprite a sprite.
LEMMA PointerStepType ==
  ASSUME NEW z \in Sizes
  PROVE  PointerStep(z) \in [Sprites \X AllEvents -> Sprites]
<1> SUFFICES ASSUME NEW s \in Sprites, NEW e \in AllEvents
             PROVE  ProcessAt(z, s, e) \in Sprites
  BY DEF PointerStep
<1>1. CASE "motion" \in DOMAIN e
  <2>1. e.motion \in Nat \X Nat
    BY <1>1 DEF AllEvents, Events, PointerEvents
  <2>2. OnScreen(e.motion, z) \in Nat \X Nat
    BY <2>1, OnScreenFacts
  <2>3. "button" \notin DOMAIN e
    BY <1>1 DEF AllEvents, Events, PointerEvents
  <2>4. ProcessAt(z, s, e) = [s EXCEPT !.at = OnScreen(e.motion, z)]
    BY <1>1, <2>3 DEF ProcessAt
  <2> QED
    BY <2>2, <2>4 DEF Sprites
<1>2. CASE "button" \in DOMAIN e
  <2>1. e.button \in Buttons /\ "motion" \notin DOMAIN e
    BY <1>2 DEF AllEvents, Events, PointerEvents
  <2> QED
    BY <1>2, <2>1 DEF ProcessAt, Sprites
<1>3. CASE "motion" \notin DOMAIN e /\ "button" \notin DOMAIN e
  BY <1>3 DEF ProcessAt
<1> QED
  BY <1>1, <1>2, <1>3

\* Processing a queue is a run of the sprite.
LEMMA PointerRuns ==
  ASSUME NEW z \in Sizes, NEW x \in Sprites, NEW q \in Seq(AllEvents)
  PROVE  IsRun(Sprites, PointerStep(z), x, q, After(z, x, q))
<1> DEFINE IsFold(g) == g = [t \in SUBSET (DOMAIN q) |->
                               IF t = {} THEN x ELSE ProcessAt(z, g[t \ {Max(t)}], q[Max(t)])]
           h         == CHOOSE g : IsFold(g)
<1>1. After(z, x, q) = h[DOMAIN q]
  BY DEF After, FoldLeft, MapThenFoldSet
<1>2. PointerStep(z) \in [Sprites \X AllEvents -> Sprites]
  BY PointerStepType
<1>3. DOMAIN q = 1..Len(q) /\ Len(q) \in Nat
  OBVIOUS
<1>4. PICK g : Folds(g, Sprites, PointerStep(z), x, q, Len(q))
  BY <1>2, FoldExists
<1>5. ASSUME NEW t \in SUBSET (1..Len(q)), t # {}
      PROVE  g[t] = ProcessAt(z, g[t \ {Max(t)}], q[Max(t)])
  <2>1. g[t] = PointerStep(z)[<<g[t \ {Max(t)}], q[Max(t)]>>] /\ g[t \ {Max(t)}] \in Sprites
    BY <1>4, <1>5 DEF Folds
  <2>2. q[Max(t)] \in AllEvents
    <3>1. Max(t) \in t
      BY <1>3, <1>5, MaxFacts
    <3>2. Max(t) \in DOMAIN q
      BY <1>3, <3>1
    <3> QED
      BY <3>2
  <2> QED
    BY <2>1, <2>2 DEF PointerStep
<1>6. IsFold(g)
  BY <1>3, <1>4, <1>5 DEF Folds
<1>7. h = [t \in SUBSET (DOMAIN q) |-> IF t = {} THEN x ELSE ProcessAt(z, h[t \ {Max(t)}], q[Max(t)])]
  <2> HIDE DEF IsFold
  <2>1. IsFold(h)
    BY <1>6
  <2> QED
    BY <2>1 DEF IsFold
<1> HIDE DEF h, IsFold
<1> DEFINE S == {k \in 0..Len(q) : h[1..k] = g[1..k]}
<1>8. 0 \in S
  <2>1. 1..0 = {} /\ 0 \in 0..Len(q) /\ {} \in SUBSET (1..Len(q))
    BY <1>3
  <2>2. g[{}] = x
    BY <1>4, <2>1 DEF Folds
  <2>3. h[{}] = x
    BY <1>3, <1>7, <2>1
  <2> QED
    BY <2>1, <2>2, <2>3
<1>9. ASSUME NEW k \in 1..Len(q), k - 1 \in S PROVE k \in S
  <2>1. k \in 0..Len(q) /\ k \in Nat \ {0} /\ 1..k \in SUBSET (1..Len(q)) /\ 1..k # {}
    BY <1>3, RowFacts
  <2>2. Max(1..k) = k /\ (1..k) \ {k} = 1..(k - 1)
    BY <2>1, MaxOfRow
  <2>3. h[1..k] = ProcessAt(z, h[1..(k - 1)], q[k])
    BY <1>3, <1>7, <2>1, <2>2
  <2>4. g[1..k] = ProcessAt(z, g[1..(k - 1)], q[k])
    BY <1>5, <2>1, <2>2
  <2> QED
    BY <1>9, <2>1, <2>3, <2>4
<1> HIDE DEF S
<1>10. \A k \in 1..Len(q) : k - 1 \in S => k \in S
  BY <1>9
<1>11. Len(q) \in S
  <2>1. \A k \in 0..Len(q) : k \in S
    BY <1>3, <1>8, <1>10, Induction
  <2> QED
    BY <1>3, <2>1
<1>12. h[DOMAIN q] = g[1..Len(q)]
  BY <1>3, <1>11 DEF S
<1>13. IsRun(Sprites, PointerStep(z), x, q, g[1..Len(q)])
  BY <1>2, <1>4, FoldRuns
<1> QED
  BY <1>1, <1>12, <1>13

\* An event leaves a keyboard a keyboard.
LEMMA KeyStepType == KeyStep \in [Keyboards \X AllEvents -> Keyboards]
<1> SUFFICES ASSUME NEW x \in Keyboards, NEW e \in AllEvents
             PROVE  ProcessEvent(x, e) \in Keyboards
  BY DEF KeyStep
<1>1. CASE "key" \in DOMAIN e
  <2>1. e.key \in XKeys
    BY <1>1 DEF AllEvents, Events, PointerEvents
  <2>2. e.key \notin x.held => KeyDown(x, e.key) \in Keyboards
    BY <2>1 DEF KeyDown, Keyboards
  <2>3. KeyUp(x, e.key) \in Keyboards
    BY <2>1 DEF KeyUp, Keyboards
  <2> QED
    BY <1>1, <2>2, <2>3 DEF ProcessEvent
<1>2. CASE "key" \notin DOMAIN e
  BY <1>2 DEF ProcessEvent
<1> QED
  BY <1>1, <1>2

\* Processing a queue is a run of the keyboard.
LEMMA KeyRuns ==
  ASSUME NEW x \in Keyboards, NEW q \in Seq(AllEvents)
  PROVE  IsRun(Keyboards, KeyStep, x, q, FoldLeft(ProcessEvent, x, q))
<1> DEFINE IsFold(g) == g = [t \in SUBSET (DOMAIN q) |->
                               IF t = {} THEN x ELSE ProcessEvent(g[t \ {Max(t)}], q[Max(t)])]
           h         == CHOOSE g : IsFold(g)
<1>1. FoldLeft(ProcessEvent, x, q) = h[DOMAIN q]
  BY DEF FoldLeft, MapThenFoldSet
<1>2. KeyStep \in [Keyboards \X AllEvents -> Keyboards]
  BY KeyStepType
<1>3. DOMAIN q = 1..Len(q) /\ Len(q) \in Nat
  OBVIOUS
<1>4. PICK g : Folds(g, Keyboards, KeyStep, x, q, Len(q))
  BY <1>2, FoldExists
<1>5. ASSUME NEW t \in SUBSET (1..Len(q)), t # {}
      PROVE  g[t] = ProcessEvent(g[t \ {Max(t)}], q[Max(t)])
  <2>1. g[t] = KeyStep[<<g[t \ {Max(t)}], q[Max(t)]>>] /\ g[t \ {Max(t)}] \in Keyboards
    BY <1>4, <1>5 DEF Folds
  <2>2. q[Max(t)] \in AllEvents
    <3>1. Max(t) \in t
      BY <1>3, <1>5, MaxFacts
    <3>2. Max(t) \in DOMAIN q
      BY <1>3, <3>1
    <3> QED
      BY <3>2
  <2> QED
    BY <2>1, <2>2 DEF KeyStep
<1>6. IsFold(g)
  BY <1>3, <1>4, <1>5 DEF Folds
<1>7. h = [t \in SUBSET (DOMAIN q) |-> IF t = {} THEN x ELSE ProcessEvent(h[t \ {Max(t)}], q[Max(t)])]
  <2> HIDE DEF IsFold
  <2>1. IsFold(h)
    BY <1>6
  <2> QED
    BY <2>1 DEF IsFold
<1> HIDE DEF h, IsFold
<1> DEFINE S == {k \in 0..Len(q) : h[1..k] = g[1..k]}
<1>8. 0 \in S
  <2>1. 1..0 = {} /\ 0 \in 0..Len(q) /\ {} \in SUBSET (1..Len(q))
    BY <1>3
  <2>2. g[{}] = x
    BY <1>4, <2>1 DEF Folds
  <2>3. h[{}] = x
    BY <1>3, <1>7, <2>1
  <2> QED
    BY <2>1, <2>2, <2>3
<1>9. ASSUME NEW k \in 1..Len(q), k - 1 \in S PROVE k \in S
  <2>1. k \in 0..Len(q) /\ k \in Nat \ {0} /\ 1..k \in SUBSET (1..Len(q)) /\ 1..k # {}
    BY <1>3, RowFacts
  <2>2. Max(1..k) = k /\ (1..k) \ {k} = 1..(k - 1)
    BY <2>1, MaxOfRow
  <2>3. h[1..k] = ProcessEvent(h[1..(k - 1)], q[k])
    BY <1>3, <1>7, <2>1, <2>2
  <2>4. g[1..k] = ProcessEvent(g[1..(k - 1)], q[k])
    BY <1>5, <2>1, <2>2
  <2> QED
    BY <1>9, <2>1, <2>3, <2>4
<1> HIDE DEF S
<1>10. \A k \in 1..Len(q) : k - 1 \in S => k \in S
  BY <1>9
<1>11. Len(q) \in S
  <2>1. \A k \in 0..Len(q) : k \in S
    BY <1>3, <1>8, <1>10, Induction
  <2> QED
    BY <1>3, <2>1
<1>12. h[DOMAIN q] = g[1..Len(q)]
  BY <1>3, <1>11 DEF S
<1>13. IsRun(Keyboards, KeyStep, x, q, g[1..Len(q)])
  BY <1>2, <1>4, FoldRuns
<1> QED
  BY <1>1, <1>12, <1>13

\* A key that is posted leaves the queue a queue.
LEMMA PostStepType == PostStep \in [Queues \X Events -> Queues]
<1> SUFFICES ASSUME NEW q \in Queues, NEW e \in Events
             PROVE  PostEvent(q, e) \in Queues
  BY DEF PostStep
<1>1. e.key \in XKeys /\ e \in AllEvents /\ e.down \in BOOLEAN
  BY DEF Events, AllEvents
<1>2. q.queue \in Seq(AllEvents) /\ q.posted \in SUBSET XKeys
  BY DEF Queues
<1>3. Append(q.queue, e) \in Seq(AllEvents)
  BY <1>1, <1>2
<1> QED
  BY <1>1, <1>2, <1>3 DEF PostEvent, Queues

\* Posting keys is a run of the queue.
LEMMA PostRuns ==
  ASSUME NEW x \in Queues, NEW q \in Seq(Events)
  PROVE  IsRun(Queues, PostStep, x, q, FoldLeft(PostEvent, x, q))
<1> DEFINE IsFold(g) == g = [t \in SUBSET (DOMAIN q) |->
                               IF t = {} THEN x ELSE PostEvent(g[t \ {Max(t)}], q[Max(t)])]
           h         == CHOOSE g : IsFold(g)
<1>1. FoldLeft(PostEvent, x, q) = h[DOMAIN q]
  BY DEF FoldLeft, MapThenFoldSet
<1>2. PostStep \in [Queues \X Events -> Queues]
  BY PostStepType
<1>3. DOMAIN q = 1..Len(q) /\ Len(q) \in Nat
  OBVIOUS
<1>4. PICK g : Folds(g, Queues, PostStep, x, q, Len(q))
  BY <1>2, FoldExists
<1>5. ASSUME NEW t \in SUBSET (1..Len(q)), t # {}
      PROVE  g[t] = PostEvent(g[t \ {Max(t)}], q[Max(t)])
  <2>1. g[t] = PostStep[<<g[t \ {Max(t)}], q[Max(t)]>>] /\ g[t \ {Max(t)}] \in Queues
    BY <1>4, <1>5 DEF Folds
  <2>2. q[Max(t)] \in Events
    <3>1. Max(t) \in t
      BY <1>3, <1>5, MaxFacts
    <3>2. Max(t) \in DOMAIN q
      BY <1>3, <3>1
    <3> QED
      BY <3>2
  <2> QED
    BY <2>1, <2>2 DEF PostStep
<1>6. IsFold(g)
  BY <1>3, <1>4, <1>5 DEF Folds
<1>7. h = [t \in SUBSET (DOMAIN q) |-> IF t = {} THEN x ELSE PostEvent(h[t \ {Max(t)}], q[Max(t)])]
  <2> HIDE DEF IsFold
  <2>1. IsFold(h)
    BY <1>6
  <2> QED
    BY <2>1 DEF IsFold
<1> HIDE DEF h, IsFold
<1> DEFINE S == {k \in 0..Len(q) : h[1..k] = g[1..k]}
<1>8. 0 \in S
  <2>1. 1..0 = {} /\ 0 \in 0..Len(q) /\ {} \in SUBSET (1..Len(q))
    BY <1>3
  <2>2. g[{}] = x
    BY <1>4, <2>1 DEF Folds
  <2>3. h[{}] = x
    BY <1>3, <1>7, <2>1
  <2> QED
    BY <2>1, <2>2, <2>3
<1>9. ASSUME NEW k \in 1..Len(q), k - 1 \in S PROVE k \in S
  <2>1. k \in 0..Len(q) /\ k \in Nat \ {0} /\ 1..k \in SUBSET (1..Len(q)) /\ 1..k # {}
    BY <1>3, RowFacts
  <2>2. Max(1..k) = k /\ (1..k) \ {k} = 1..(k - 1)
    BY <2>1, MaxOfRow
  <2>3. h[1..k] = PostEvent(h[1..(k - 1)], q[k])
    BY <1>3, <1>7, <2>1, <2>2
  <2>4. g[1..k] = PostEvent(g[1..(k - 1)], q[k])
    BY <1>5, <2>1, <2>2
  <2> QED
    BY <1>9, <2>1, <2>3, <2>4
<1> HIDE DEF S
<1>10. \A k \in 1..Len(q) : k - 1 \in S => k \in S
  BY <1>9
<1>11. Len(q) \in S
  <2>1. \A k \in 0..Len(q) : k \in S
    BY <1>3, <1>8, <1>10, Induction
  <2> QED
    BY <1>3, <2>1
<1>12. h[DOMAIN q] = g[1..Len(q)]
  BY <1>3, <1>11 DEF S
<1>13. IsRun(Queues, PostStep, x, q, g[1..Len(q)])
  BY <1>2, <1>4, FoldRuns
<1> QED
  BY <1>1, <1>12, <1>13

-----------------------------------------------------------------------------
(* The reports of the pointer driver *)

\* A set of one event, or none, in a row.
LEMMA SetToSeqFacts ==
  ASSUME NEW e
  PROVE  SetToSeq({}) = <<>> /\ SetToSeq({e}) = <<e>>
<1>1. Cardinality({}) = 0 /\ Cardinality({e}) = 1
  BY FS_EmptySet, FS_Singleton
<1>2. SetToSeq({}) = <<>>
  <2>1. <<>> \in [1..0 -> {}] /\ IsInjective(<<>>)
    BY DEF IsInjective
  <2>2. \A f \in [1..0 -> {}] : f = <<>>
    OBVIOUS
  <2> QED
    BY <1>1, <2>1, <2>2 DEF SetToSeq
<1>3. SetToSeq({e}) = <<e>>
  <2>1. <<e>> \in [1..1 -> {e}] /\ IsInjective(<<e>>)
    BY DEF IsInjective
  <2>2. \A f \in [1..1 -> {e}] : f = <<e>>
    OBVIOUS
  <2> QED
    BY <1>1, <2>1, <2>2 DEF SetToSeq
<1> QED
  BY <1>2, <1>3

\* What happens to a motion: it is queued, or lost.
MotionStep(place) ==
  /\ pointer' = [pointer EXCEPT !.at = place]
  /\ astray' = astray
  /\ \/ /\ place = pointer.at
        /\ queue' = queue /\ aside' = aside
     \/ /\ place # pointer.at
        /\ queue' = Append(queue, [motion |-> place]) /\ aside' = FALSE
     \/ /\ place # pointer.at
        /\ queue' = queue /\ aside' = TRUE

\* The driver reports a motion.
LEMMA MotionReported ==
  ASSUME queue \in Seq(AllEvents), NEW place \in Nat \X Nat, NEW at,
         pointer \in [mask : SUBSET Buttons, at : Nat \X Nat],
         PtrAddEvent([pointer EXCEPT !.at = place], at)
  PROVE  MotionStep(place)
<1> USE DEF MotionStep
<1> DEFINE p      == [pointer EXCEPT !.at = place]
           e      == [motion |-> place]
           events == Reports(p, at)
<1>1. p.at = place /\ p.mask = pointer.mask
  OBVIOUS
<1>2. events = IF place = pointer.at THEN {} ELSE {e}
  BY <1>1 DEF Reports
<1>3. "motion" \in DOMAIN e /\ "button" \notin DOMAIN e
  OBVIOUS
<1>4. queue \o <<>> = queue /\ queue \o <<e>> = Append(queue, e)
  <2> HIDE DEF e
  <2> QED
    OBVIOUS
<1> HIDE DEF e, events, p
<1>5. PICK lost \in SUBSET events :
        /\ queue' = queue \o SetToSeq(events \ lost)
        /\ pointer' = p
        /\ astray' = (astray \ ButtonsOf(events)) \cup ButtonsOf(lost)
        /\ aside' = IF Motions(events) = {} THEN aside ELSE Motions(lost) # {}
  BY DEF PtrAddEvent, Reported, events, p
<1>6. ButtonsOf(events) = {} /\ ButtonsOf(lost) = {}
  BY <1>2, <1>3 DEF ButtonsOf
<1>7. astray' = astray
  BY <1>5, <1>6
<1>8. CASE place = pointer.at
  <2>1. events = {} /\ lost = {}
    BY <1>2, <1>8
  <2>2. events \ lost = {} /\ Motions(events) = {}
    BY <2>1 DEF Motions
  <2> QED
    BY <1>4, <1>5, <1>7, <1>8, <2>2, SetToSeqFacts DEF p
<1>9. CASE place # pointer.at /\ lost = {}
  <2>1. events \ lost = {e} /\ Motions(events) = {e} /\ Motions(lost) = {}
    BY <1>2, <1>3, <1>9 DEF Motions
  <2>2. aside' = FALSE /\ queue' = Append(queue, e)
    BY <1>4, <1>5, <2>1, SetToSeqFacts
  <2> QED
    BY <1>5, <1>7, <1>9, <2>2 DEF p, e
<1>10. CASE place # pointer.at /\ lost # {}
  <2>1. lost = {e}
    BY <1>2, <1>10
  <2>2. events \ lost = {} /\ Motions(events) = {e} /\ Motions(lost) = {e}
    BY <1>2, <1>3, <1>10, <2>1 DEF Motions
  <2>3. aside' = TRUE /\ queue' = queue
    BY <1>4, <1>5, <2>2, SetToSeqFacts
  <2> QED
    BY <1>5, <1>7, <1>10, <2>3 DEF p
<1> QED
  BY <1>8, <1>9, <1>10

\* What is queued for a button that has changed.
ButtonEvent(b, m, at) ==
  [button |-> b, down |-> b \in m, at |-> IF aside THEN Nowhere ELSE Bound(at)]

\* What happens to a button: it is queued, or lost.
ButtonStep(b, m, at) ==
  /\ pointer' = [pointer EXCEPT !.mask = m]
  /\ aside' = aside
  /\ \/ /\ m = pointer.mask
        /\ queue' = queue /\ astray' = astray
     \/ /\ m # pointer.mask
        /\ queue' = Append(queue, ButtonEvent(b, m, at)) /\ astray' = astray \ {b}
     \/ /\ m # pointer.mask
        /\ queue' = queue /\ astray' = astray \cup {b}

\* The driver reports a button.
LEMMA ButtonReported ==
  ASSUME queue \in Seq(AllEvents), NEW at, NEW b, NEW m,
         pointer \in [mask : SUBSET Buttons, at : Nat \X Nat],
         m = pointer.mask \cup {b} \/ m = pointer.mask \ {b},
         PtrAddEvent([pointer EXCEPT !.mask = m], at)
  PROVE  ButtonStep(b, m, at)
<1> USE DEF ButtonStep
<1> DEFINE p       == [pointer EXCEPT !.mask = m]
           e       == ButtonEvent(b, m, at)
           events  == Reports(p, at)
           changed == (m \ pointer.mask) \cup (pointer.mask \ m)
<1>1. p.at = pointer.at /\ p.mask = m
  OBVIOUS
<1>2. changed = IF m = pointer.mask THEN {} ELSE {b}
  OBVIOUS
<1>3. events = {ButtonEvent(c, m, at) : c \in changed}
  BY <1>1 DEF Reports, ButtonEvent
<1>4. "motion" \notin DOMAIN e /\ "button" \in DOMAIN e /\ e.button = b
  BY DEF ButtonEvent
<1>5. queue \o <<>> = queue /\ queue \o <<e>> = Append(queue, e)
  <2> HIDE DEF e
  <2> QED
    OBVIOUS
<1>6. events = IF m = pointer.mask THEN {} ELSE {e}
  BY <1>2, <1>3
<1> HIDE DEF e, events, p, changed
<1>7. PICK lost \in SUBSET events :
        /\ queue' = queue \o SetToSeq(events \ lost)
        /\ pointer' = p
        /\ astray' = (astray \ ButtonsOf(events)) \cup ButtonsOf(lost)
        /\ aside' = IF Motions(events) = {} THEN aside ELSE Motions(lost) # {}
  BY DEF PtrAddEvent, Reported, events, p
<1>8. aside' = aside
  <2>1. Motions(events) = {}
    BY <1>4, <1>6 DEF Motions
  <2> QED
    BY <1>7, <2>1
<1>9. CASE m = pointer.mask
  <2>1. events = {} /\ lost = {}
    BY <1>6, <1>9
  <2>2. events \ lost = {} /\ ButtonsOf(events) = {} /\ ButtonsOf(lost) = {}
    BY <2>1 DEF ButtonsOf
  <2>3. queue' = queue /\ astray' = astray
    BY <1>5, <1>7, <2>2, SetToSeqFacts
  <2> QED
    BY <1>7, <1>8, <1>9, <2>3 DEF p
<1>10. CASE m # pointer.mask /\ lost = {}
  <2>1. events \ lost = {e} /\ ButtonsOf(events) = {b} /\ ButtonsOf(lost) = {}
    BY <1>4, <1>6, <1>10 DEF ButtonsOf
  <2>2. queue' = Append(queue, e) /\ astray' = astray \ {b}
    BY <1>5, <1>7, <2>1, SetToSeqFacts
  <2> QED
    BY <1>7, <1>8, <1>10, <2>2 DEF p, e
<1>11. CASE m # pointer.mask /\ lost # {}
  <2>1. lost = {e}
    BY <1>6, <1>11
  <2>2. events \ lost = {} /\ ButtonsOf(events) = {b} /\ ButtonsOf(lost) = {b}
    BY <1>4, <1>6, <1>11, <2>1 DEF ButtonsOf
  <2>3. queue' = queue /\ astray' = astray \cup {b}
    BY <1>5, <1>7, <2>2, SetToSeqFacts
  <2> QED
    BY <1>7, <1>8, <1>11, <2>3 DEF p
<1> QED
  BY <1>9, <1>10, <1>11

-----------------------------------------------------------------------------
(* The sprite after the events of a queue *)

\* The sprite after no event, and after one more.
LEMMA AfterAppend ==
  ASSUME NEW z \in Sizes, NEW s \in Sprites, NEW q \in Seq(AllEvents), NEW e \in AllEvents
  PROVE  /\ After(z, s, q) \in Sprites
         /\ After(z, s, <<>>) = s
         /\ After(z, s, Append(q, e)) = ProcessAt(z, After(z, s, q), e)
<1> DEFINE F == PointerStep(z)
<1>1. F \in [Sprites \X AllEvents -> Sprites]
  BY PointerStepType
<1>2. <<>> \in Seq(AllEvents) /\ <<e>> \in Seq(AllEvents) /\ Append(q, e) = q \o <<e>>
      /\ Len(q) \in Nat /\ \A k \in 1..Len(q) : q[k] \in AllEvents
  <2> HIDE DEF F
  <2> QED
    OBVIOUS
<1>3. q \o <<e>> \in Seq(AllEvents)
  BY <1>2
<1>4. IsRun(Sprites, F, s, <<>>, After(z, s, <<>>))
  BY <1>2, PointerRuns
<1>5. IsRun(Sprites, F, s, q, After(z, s, q))
  BY PointerRuns
<1>6. IsRun(Sprites, F, s, q \o <<e>>, After(z, s, q \o <<e>>))
  BY <1>3, PointerRuns
<1>7. After(z, s, q) \in Sprites
  <2>1. \A y \in Sprites, k \in 1..Len(q) : y \in Sprites => F[<<y, q[k]>>] \in Sprites
    <3> HIDE DEF F
    <3> QED
      BY <1>1, <1>2
  <2> HIDE DEF F
  <2> QED
    BY <1>2, <1>5, <2>1, RunKeeps
<1>8. After(z, s, <<>>) = s
  BY <1>4, RunEmpty
<1>9. After(z, s, q \o <<e>>) = F[<<After(z, s, q), e>>]
  <2>1. IsRun(Sprites, F, After(z, s, q), <<e>>, After(z, s, q \o <<e>>))
    <3> DEFINE v == After(z, s, q)
               w == After(z, s, q \o <<e>>)
               r == <<e>>
    <3>1. /\ r \in Seq(AllEvents) /\ IsRun(Sprites, F, s, q, v)
          /\ IsRun(Sprites, F, s, q \o r, w)
      BY <1>2, <1>5, <1>6
    <3> HIDE DEF v, w, r, F
    <3>2. IsRun(Sprites, F, v, r, w)
      BY <3>1, RunConcat
    <3> QED
      BY <3>2 DEF v, w, r
  <2> QED
    BY <2>1, RunOne
<1>10. F[<<After(z, s, q), e>>] = ProcessAt(z, After(z, s, q), e)
  BY <1>7 DEF PointerStep
<1> QED
  BY <1>2, <1>7, <1>8, <1>9, <1>10

\* Keys leave the sprite alone.
LEMMA AfterKeys ==
  ASSUME NEW z \in Sizes, NEW s \in Sprites, NEW q \in Seq(AllEvents), NEW r \in Seq(Events)
  PROVE  After(z, s, q \o r) = After(z, s, q)
<1> DEFINE F == PointerStep(z)
           v == After(z, s, q)
           w == After(z, s, q \o r)
<1>1. v \in Sprites
  <2>1. [key |-> "pause", down |-> TRUE] \in AllEvents
    BY DEF AllEvents, Events, XKeys
  <2> QED
    BY <2>1, AfterAppend
<1>2. r \in Seq(AllEvents) /\ Len(r) \in Nat /\ \A k \in 1..Len(r) : r[k] \in Events
  BY DEF AllEvents
<1>3. q \o r \in Seq(AllEvents)
  BY <1>2
<1>4. IsRun(Sprites, F, s, q, v) /\ IsRun(Sprites, F, s, q \o r, w)
  BY <1>3, PointerRuns
<1> HIDE DEF v, w
<1>5. IsRun(Sprites, F, v, r, w)
  BY <1>2, <1>4, RunConcat
<1>6. ASSUME NEW y \in Sprites, NEW k \in 1..Len(r), y \in {v} PROVE F[<<y, r[k]>>] \in {v}
  <2>1. r[k] \in AllEvents /\ "motion" \notin DOMAIN r[k] /\ "button" \notin DOMAIN r[k]
    BY <1>2 DEF AllEvents, Events
  <2>2. F[<<y, r[k]>>] = ProcessAt(z, y, r[k])
    BY <2>1 DEF PointerStep
  <2> QED
    BY <1>6, <2>1, <2>2 DEF ProcessAt
<1> HIDE DEF F
<1>7. w \in {v}
  <2> DEFINE P == {v}
  <2>1. \A y \in Sprites, k \in 1..Len(r) : y \in P => F[<<y, r[k]>>] \in P
    BY <1>6
  <2>2. v \in P
    OBVIOUS
  <2>3. Len(r) \in Nat
    BY <1>2
  <2> HIDE DEF P
  <2>4. w \in P
    BY <1>5, <2>1, <2>2, <2>3, RunKeeps
  <2> QED
    BY <2>4 DEF P
<1> QED
  BY <1>7 DEF v, w

\* Another size of the screen moves the sprite onto it, before the events or
\* after them, when the motions among them are on the screen.
LEMMA AfterResize ==
  ASSUME NEW z \in Sizes, NEW y \in Sizes, NEW s \in Sprites, NEW q \in Seq(AllEvents),
         \A i \in DOMAIN q : "motion" \in DOMAIN q[i] => OnScreen(q[i].motion, z) = q[i].motion
  PROVE  LET t == [s EXCEPT !.at = OnScreen(@, y)]
         IN /\ After(y, t, q).buttons = After(z, s, q).buttons
            /\ After(y, t, q).at = OnScreen(After(z, s, q).at, y)
<1> DEFINE t == [s EXCEPT !.at = OnScreen(@, y)]
           F == PointerStep(z)
           G == PointerStep(y)
           R == {p \in Sprites \X Sprites :
                   p[2].buttons = p[1].buttons /\ p[2].at = OnScreen(p[1].at, y)}
<1>1. /\ OnScreen(s.at, y) \in Nat \X Nat
      /\ t \in Sprites /\ <<s, t>> \in R
  BY OnScreenFacts DEF Sprites
<1>2. IsRun(Sprites, F, s, q, After(z, s, q)) /\ IsRun(Sprites, G, t, q, After(y, t, q))
  BY <1>1, PointerRuns
<1>3. DOMAIN q = 1..Len(q) /\ Len(q) \in Nat /\ \A k \in 1..Len(q) : q[k] \in AllEvents
  OBVIOUS
<1>4. ASSUME NEW a \in Sprites, NEW b \in Sprites, NEW k \in 1..Len(q), <<a, b>> \in R
      PROVE  <<F[<<a, q[k]>>], G[<<b, q[k]>>]>> \in R
  <2> DEFINE e == q[k]
  <2>1. e \in AllEvents /\ ("motion" \in DOMAIN e => OnScreen(e.motion, z) = e.motion)
    BY <1>3
  <2> HIDE DEF e
  <2>2. F[<<a, e>>] = ProcessAt(z, a, e) /\ G[<<b, e>>] = ProcessAt(y, b, e)
    BY <2>1 DEF PointerStep
  <2>3. F[<<a, e>>] \in Sprites /\ G[<<b, e>>] \in Sprites
    <3>1. F \in [Sprites \X AllEvents -> Sprites] /\ G \in [Sprites \X AllEvents -> Sprites]
      BY PointerStepType
    <3> HIDE DEF F, G
    <3> QED
      BY <2>1, <3>1
  <2>4. b.buttons = a.buttons /\ b.at = OnScreen(a.at, y)
    BY <1>4
  <2>5. CASE "motion" \in DOMAIN e
    <3>1. "button" \notin DOMAIN e
      <4>1. e \in Events \/ e \in PointerEvents
        BY <2>1 DEF AllEvents
      <4> HIDE DEF F, G, R, t
      <4> QED
        BY <2>5, <4>1 DEF Events, PointerEvents
    <3>2. /\ F[<<a, e>>] = [a EXCEPT !.at = OnScreen(e.motion, z)]
          /\ G[<<b, e>>] = [b EXCEPT !.at = OnScreen(e.motion, y)]
      BY <2>2, <2>5, <3>1 DEF ProcessAt
    <3>3. /\ F[<<a, e>>].at = e.motion /\ F[<<a, e>>].buttons = a.buttons
          /\ G[<<b, e>>].at = OnScreen(e.motion, y) /\ G[<<b, e>>].buttons = b.buttons
      BY <2>1, <2>5, <3>2 DEF Sprites
    <3> HIDE DEF F, G
    <3> QED
      BY <2>3, <2>4, <3>3 DEF e
  <2>6. CASE "motion" \notin DOMAIN e
    <3>1. F[<<a, e>>].at = a.at /\ G[<<b, e>>].at = b.at
      BY <2>2, <2>6 DEF ProcessAt, Sprites
    <3>2. F[<<a, e>>].buttons = G[<<b, e>>].buttons
      BY <2>2, <2>4, <2>6 DEF ProcessAt, Sprites
    <3> HIDE DEF F, G
    <3> QED
      BY <2>3, <2>4, <3>1, <3>2 DEF e
  <2> QED
    BY <2>5, <2>6
<1> DEFINE v == After(z, s, q)
           w == After(y, t, q)
<1> HIDE DEF F, G, R, t, v, w
<1>5. <<v, w>> \in R
  BY <1>1, <1>2, <1>3, <1>4, RunsRelate DEF v, w
<1> QED
  BY <1>5 DEF R, t, v, w

\* The sprite is on the screen after the events of a queue.
LEMMA AfterOnScreen ==
  ASSUME NEW z \in Sizes, NEW s \in Sprites, \A i \in 1..2 : s.at[i] < z[i],
         NEW q \in Seq(AllEvents)
  PROVE  After(z, s, q) \in Sprites /\ \A i \in 1..2 : After(z, s, q).at[i] < z[i]
<1> DEFINE F == PointerStep(z)
           P == {y \in Sprites : \A i \in 1..2 : y.at[i] < z[i]}
           v == After(z, s, q)
<1>1. IsRun(Sprites, F, s, q, v) /\ F \in [Sprites \X AllEvents -> Sprites]
  BY PointerRuns, PointerStepType
<1>2. Len(q) \in Nat /\ \A k \in 1..Len(q) : q[k] \in AllEvents
  OBVIOUS
<1>3. ASSUME NEW y \in Sprites, NEW e \in AllEvents, y \in P PROVE F[<<y, e>>] \in P
  <2>1. F[<<y, e>>] = ProcessAt(z, y, e) /\ F[<<y, e>>] \in Sprites
    BY <1>1 DEF PointerStep
  <2>2. CASE "motion" \in DOMAIN e
    <3>1. e.motion \in Nat \X Nat /\ "button" \notin DOMAIN e
      BY <2>2 DEF AllEvents, Events, PointerEvents
    <3>2. ProcessAt(z, y, e).at = OnScreen(e.motion, z)
      BY <2>2, <3>1 DEF ProcessAt, Sprites
    <3>3. \A i \in 1..2 : OnScreen(e.motion, z)[i] < z[i]
      BY <3>1, OnScreenFacts
    <3> QED
      BY <2>1, <3>2, <3>3
  <2>3. CASE "motion" \notin DOMAIN e
    <3>1. ProcessAt(z, y, e).at = y.at
      BY <2>3 DEF ProcessAt, Sprites
    <3> QED
      BY <1>3, <2>1, <3>1
  <2> QED
    BY <2>2, <2>3
<1>4. s \in P
  OBVIOUS
<1>5. \A y \in Sprites, k \in 1..Len(q) : y \in P => F[<<y, q[k]>>] \in P
  BY <1>2, <1>3
<1> HIDE DEF F, P, v
<1>6. v \in P
  BY <1>1, <1>2, <1>4, <1>5, RunKeeps
<1> QED
  BY <1>6 DEF P, v

-----------------------------------------------------------------------------
(* The keyboard after the events of a queue, and the queue after a post *)

\* The keyboard stays a keyboard.
LEMMA KeysType ==
  ASSUME NEW x \in Keyboards, NEW q \in Seq(AllEvents)
  PROVE  FoldLeft(ProcessEvent, x, q) \in Keyboards
<1> DEFINE v == FoldLeft(ProcessEvent, x, q)
<1>1. IsRun(Keyboards, KeyStep, x, q, v) /\ KeyStep \in [Keyboards \X AllEvents -> Keyboards]
  BY KeyRuns, KeyStepType
<1>2. Len(q) \in Nat /\ \A k \in 1..Len(q) : q[k] \in AllEvents
  OBVIOUS
<1>3. \A y \in Keyboards, k \in 1..Len(q) : y \in Keyboards => KeyStep[<<y, q[k]>>] \in Keyboards
  BY <1>1, <1>2
<1> HIDE DEF v
<1>4. v \in Keyboards
  BY <1>1, <1>2, <1>3, RunKeeps
<1> QED
  BY <1>4 DEF v

\* Posting puts keys at the end of the queue.
LEMMA PostFacts ==
  ASSUME queue \in Seq(AllEvents), posted \in SUBSET XKeys, NEW events \in Seq(Events), Post(events)
  PROVE  /\ posted' \in SUBSET XKeys
         /\ \E r \in Seq(Events) : queue' = queue \o r
<1> DEFINE x == [queue |-> queue, posted |-> posted]
           v == FoldLeft(PostEvent, x, events)
           P == {y \in Queues : \E r \in Seq(Events) : y.queue = queue \o r}
<1>1. queue' = v.queue /\ posted' = v.posted
  BY DEF Post
<1>2. x \in Queues
  BY DEF Queues
<1>3. /\ IsRun(Queues, PostStep, x, events, v)
      /\ PostStep \in [Queues \X Events -> Queues]
  BY <1>2, PostRuns, PostStepType
<1>4. Len(events) \in Nat /\ \A k \in 1..Len(events) : events[k] \in Events
  OBVIOUS
<1>5. x \in P
  <2>1. <<>> \in Seq(Events) /\ queue = queue \o <<>> /\ x.queue = queue
    OBVIOUS
  <2> HIDE DEF x
  <2> QED
    BY <1>2, <2>1
<1>6. ASSUME NEW y \in Queues, NEW e \in Events, y \in P PROVE PostStep[<<y, e>>] \in P
  <2>1. PICK r \in Seq(Events) : y.queue = queue \o r
    BY <1>6
  <2>2. PostStep[<<y, e>>] = PostEvent(y, e) /\ PostStep[<<y, e>>] \in Queues
    BY <1>3 DEF PostStep
  <2>3. Append(r, e) \in Seq(Events) /\ queue \o Append(r, e) = Append(queue \o r, e)
    <3> HIDE DEF P
    <3>1. r \in Seq(AllEvents) /\ e \in AllEvents
      BY DEF AllEvents
    <3> QED
      BY <3>1
  <2>4. PostEvent(y, e).queue = queue \o r \/ PostEvent(y, e).queue = queue \o Append(r, e)
    BY <2>1, <2>3 DEF PostEvent
  <2> QED
    BY <2>2, <2>3, <2>4
<1>7. \A y \in Queues, k \in 1..Len(events) : y \in P => PostStep[<<y, events[k]>>] \in P
  BY <1>4, <1>6
<1> HIDE DEF x, v, P
<1>8. v \in P
  BY <1>3, <1>4, <1>5, <1>7, RunKeeps
<1> QED
  BY <1>1, <1>8 DEF P, Queues

-----------------------------------------------------------------------------
(* Types *)

\* A place that is bound is on the screen.
LEMMA BoundFacts ==
  ASSUME size \in Sizes, NEW p \in Nat \X Nat
  PROVE  Bound(p) \in Nat \X Nat /\ OnScreen(Bound(p), size) = Bound(p)
<1>1. /\ size[1] \in Nat /\ size[2] \in Nat /\ size[1] >= 2 /\ size[2] >= 2
      /\ p[1] \in Nat /\ p[2] \in Nat
  BY InputAssumption
<1> DEFINE a == AtMost(p[1], size[1] - 2)
           b == AtMost(p[2], size[2] - 2)
<1>2. Bound(p) = <<a, b>>
  BY DEF Bound
<1>3. /\ a \in Nat /\ AtMost(a, size[1] - 1) = a
      /\ b \in Nat /\ AtMost(b, size[2] - 1) = b
  BY <1>1 DEF AtMost
<1> HIDE DEF a, b
<1>4. OnScreen(<<a, b>>, size) = <<AtMost(a, size[1] - 1), AtMost(b, size[2] - 1)>>
  BY DEF OnScreen
<1> QED
  BY <1>2, <1>3, <1>4

\* What the types say of the variables of the two drivers.
LEMMA TypeFacts ==
  ASSUME InputTypeOK
  PROVE  /\ size \in Sizes /\ sprite \in Sprites /\ \A i \in 1..2 : sprite.at[i] < size[i]
         /\ queue \in Seq(AllEvents) /\ xkb \in Keyboards /\ posted \in SUBSET XKeys
         /\ pointer \in [mask : SUBSET Buttons, at : Nat \X Nat]
         /\ mouse \in [held : SUBSET Buttons, at : Places \cup {Nowhere}]
         /\ astray \in SUBSET Buttons /\ aside \in BOOLEAN
         /\ msgs \in Seq(Messages \cup PointerMessages)
         /\ handled \in 0..ChecksPerWakeup /\ ChecksPerWakeup \in 1..2
<1>1. xkb \in Keyboards
  BY DEF InputTypeOK, KeyboardTypeOK, Keyboards
<1>2. sprite \in Sprites /\ queue \in Seq(AllEvents)
  BY DEF InputTypeOK, Sprites, AllEvents
<1>3. posted \in SUBSET XKeys /\ handled \in 0..ChecksPerWakeup
  BY DEF InputTypeOK, KeyboardTypeOK
<1> QED
  BY <1>1, <1>2, <1>3, KeyboardAssumption DEF InputTypeOK

\* The messages of the two devices.
LEMMA MessageFacts ==
  ASSUME NEW m \in Messages \cup PointerMessages
  PROVE  /\ "move" \in DOMAIN m => /\ m.move \in Places
                                   /\ {"button", "wheel", "key", "sync", "layout"} \cap DOMAIN m = {}
         /\ "button" \in DOMAIN m => /\ m.button \in Buttons /\ m.down \in BOOLEAN /\ m.at \in Places
                                     /\ {"move", "wheel", "key", "sync", "layout"} \cap DOMAIN m = {}
         /\ "wheel" \in DOMAIN m => /\ m.wheel \in Deltas /\ m.vertical \in BOOLEAN
                                    /\ {"move", "button", "key", "sync", "layout"} \cap DOMAIN m = {}
         /\ "key" \in DOMAIN m => /\ m \in Events
                                  /\ {"move", "button", "wheel", "sync", "layout"} \cap DOMAIN m = {}
         /\ "sync" \in DOMAIN m => /\ m.sync \in SUBSET Locks
                                   /\ {"move", "button", "wheel", "key", "layout"} \cap DOMAIN m = {}
         /\ "layout" \in DOMAIN m => {"move", "button", "wheel", "key", "sync"} \cap DOMAIN m = {}
BY DEF Messages, Events, PointerMessages, Layout

\* The events of a key, and of a synchronisation.
LEMMA KeyEventsType ==
  ASSUME NEW d, NEW l, NEW e \in Events
  PROVE  SyncEvents(d, l) \in Seq(Events) /\ AddEvents(d, e) \in Seq(Events)
<1>1. \A k \in XKeys : Down(k) \in Events /\ Up(k) \in Events
  BY DEF Events, Down, Up
<1>2. "caps" \in XKeys /\ "num" \in XKeys /\ "scroll" \in XKeys
  BY DEF XKeys, Keys, Locks, XLocks
<1>3. \A different : \A k \in XKeys : Toggle(different, k) \in Seq(Events)
  BY <1>1 DEF Toggle
<1>4. SyncEvents(d, l) \in Seq(Events)
  <2> DEFINE different == (Current(d) \ l) \cup (l \ Current(d))
             a == Toggle(different, "caps")
             b == Toggle(different, "num")
             c == Toggle(different, "scroll")
             u == <<Up("caps"), Up("num"), Up("scroll")>>
  <2>1. a \in Seq(Events) /\ b \in Seq(Events) /\ c \in Seq(Events) /\ u \in Seq(Events)
    BY <1>1, <1>2, <1>3
  <2>2. SyncEvents(d, l) = u \o a \o b \o c
    BY DEF SyncEvents
  <2> HIDE DEF a, b, c, u
  <2> QED
    BY <2>1, <2>2
<1>5. AddEvents(d, e) \in Seq(Events)
  <2>1. e.key \in XKeys
    BY DEF Events
  <2>2. /\ <<>> \in Seq(Events) /\ <<e>> \in Seq(Events)
        /\ Frees(e.key) \o Pushes(e.key) \in Seq(Events)
    BY <1>1, <2>1 DEF Frees, Pushes
  <2> QED
    BY <2>2 DEF AddEvents
<1> QED
  BY <1>4, <1>5

\* What the driver knows after a synchronisation, and after a key.
LEMMA DriverTypes ==
  ASSUME NEW d \in [skip : BOOLEAN, scrollDown : BOOLEAN, scrollState : BOOLEAN, tabDown : BOOLEAN],
         NEW l
  PROVE  /\ SyncDriver(d, l) \in [skip : BOOLEAN, scrollDown : BOOLEAN,
                                  scrollState : BOOLEAN, tabDown : BOOLEAN]
         /\ \A e \in Events :
              AddDriver(d, e) \in [skip : BOOLEAN, scrollDown : BOOLEAN,
                                   scrollState : BOOLEAN, tabDown : BOOLEAN]
<1>1. ("scroll" \in l) \in BOOLEAN
  OBVIOUS
<1>2. SyncDriver(d, l) \in [skip : BOOLEAN, scrollDown : BOOLEAN, scrollState : BOOLEAN, tabDown : BOOLEAN]
  BY <1>1 DEF SyncDriver
<1>3. ASSUME NEW e \in Events
      PROVE  AddDriver(d, e) \in [skip : BOOLEAN, scrollDown : BOOLEAN,
                                  scrollState : BOOLEAN, tabDown : BOOLEAN]
  <2>1. e.down \in BOOLEAN /\ d.scrollState \in BOOLEAN
    BY DEF Events
  <2> QED
    BY <2>1 DEF AddDriver, TabDown
<1> QED
  BY <1>2, <1>3

\* What a message of the keyboard does to the variables of its driver.
LEMMA KeyboardTypes ==
  ASSUME InputTypeOK, InputKeyboard
  PROVE  /\ KeyboardTypeOK'
         /\ msgs # <<>> /\ msgs' = Tail(msgs)
         /\ {"move", "button", "wheel"} \cap DOMAIN Head(msgs) = {}
         /\ handled < ChecksPerWakeup /\ handled' = handled + 1
         /\ \E r \in Seq(Events) : queue' = queue \o r
<1> DEFINE m == Head(msgs)
<1>1. /\ KeyboardTypeOK /\ queue \in Seq(AllEvents) /\ posted \in SUBSET XKeys
      /\ msgs # <<>> /\ m \in Messages \cup PointerMessages
      /\ handled \in Nat /\ ChecksPerWakeup \in Nat /\ handled < ChecksPerWakeup
  BY TypeFacts DEF InputTypeOK, InputKeyboard
<1>2. handled' = handled + 1 /\ handled' \in 0..ChecksPerWakeup
      /\ msgs' = Tail(msgs) /\ client' = client
  BY <1>1 DEF InputKeyboard
<1>3. \A l : clean' = CleanSync => clean' \in BOOLEAN
  BY DEF CleanSync
<1> HIDE DEF m
<1>4. CASE "sync" \in DOMAIN m /\ KbdSync(m.sync)
  <2>1. m.sync \in SUBSET Locks
    BY <1>1, <1>4, MessageFacts
  <2>2. Post(SyncEvents(driver, m.sync)) /\ SyncEvents(driver, m.sync) \in Seq(Events)
    <3>1. Down("tab") \in Events
      BY DEF Events, Down, XKeys, Keys
    <3> QED
      BY <1>4, <3>1, KeyEventsType DEF KbdSync
  <2>3. /\ posted' \in SUBSET XKeys
        /\ \E r \in Seq(Events) : queue' = queue \o r
    BY <1>1, <2>2, PostFacts
  <2>4. driver' \in [skip : BOOLEAN, scrollDown : BOOLEAN, scrollState : BOOLEAN, tabDown : BOOLEAN]
    BY <1>1, <1>4, DriverTypes DEF KbdSync, KeyboardTypeOK
  <2>5. flags' \in SUBSET Locks /\ owned' = TRUE /\ completed' = completed /\ xkb' = xkb
    BY <1>4, <2>1 DEF KbdSync
  <2>6. clean' \in BOOLEAN
    BY <1>4 DEF KbdSync, CleanSync
  <2>7. KeyboardTypeOK'
    BY <1>1, <1>2, <2>3, <2>4, <2>5, <2>6 DEF KeyboardTypeOK
  <2>8. {"move", "button", "wheel"} \cap DOMAIN m = {}
    BY <1>1, <1>4, MessageFacts
  <2> QED
    BY <1>1, <1>2, <2>3, <2>7, <2>8 DEF m
<1>5. CASE "layout" \in DOMAIN m /\ LoadLayout
  <2>1. KeyboardTypeOK'
    BY <1>1, <1>2, <1>5 DEF LoadLayout, KeyboardTypeOK, NoKeys
  <2>2. <<>> \in Seq(Events) /\ queue' = queue \o <<>>
    BY <1>1, <1>5 DEF LoadLayout
  <2>3. {"move", "button", "wheel"} \cap DOMAIN m = {}
    BY <1>1, <1>5, MessageFacts
  <2> QED
    BY <1>1, <1>2, <2>1, <2>2, <2>3 DEF m
<1>6. CASE "key" \in DOMAIN m /\ KbdAddEvent(m)
  <2> DEFINE deferred == ~completed /\ m.down
             d        == IF deferred THEN SyncDriver(driver, flags) ELSE driver
             before   == IF deferred THEN SyncEvents(driver, flags) ELSE <<>>
             all      == before \o AddEvents(d, m)
  <2>1. m \in Events
    BY <1>1, <1>6, MessageFacts
  <2>2. /\ completed' = (completed \/ m.down)
        /\ clean' = IF deferred THEN clean /\ CleanSync ELSE clean
        /\ driver' = AddDriver(d, m)
        /\ Post(all)
        /\ UNCHANGED <<flags, xkb, owned>>
    BY <1>6 DEF KbdAddEvent
  <2>3. d \in [skip : BOOLEAN, scrollDown : BOOLEAN, scrollState : BOOLEAN, tabDown : BOOLEAN]
    BY <1>1, <2>1, DriverTypes DEF KeyboardTypeOK
  <2>4. before \in Seq(Events) /\ AddEvents(d, m) \in Seq(Events)
    BY <2>1, KeyEventsType
  <2>5. clean' \in BOOLEAN /\ completed' \in BOOLEAN
    BY <1>1, <2>1, <2>2 DEF CleanSync, KeyboardTypeOK, Events
  <2> HIDE DEF d, before, deferred
  <2>6. all \in Seq(Events)
    BY <2>4
  <2> HIDE DEF all
  <2>7. /\ posted' \in SUBSET XKeys
        /\ \E r \in Seq(Events) : queue' = queue \o r
    BY <1>1, <2>2, <2>6, PostFacts
  <2>8. AddDriver(d, m) \in [skip : BOOLEAN, scrollDown : BOOLEAN, scrollState : BOOLEAN, tabDown : BOOLEAN]
    BY <2>1, <2>3, DriverTypes
  <2>9. KeyboardTypeOK'
    BY <1>1, <1>2, <2>2, <2>5, <2>7, <2>8 DEF KeyboardTypeOK
  <2>10. {"move", "button", "wheel"} \cap DOMAIN m = {}
    BY <1>1, <1>6, MessageFacts
  <2> QED
    BY <1>1, <1>2, <2>7, <2>9, <2>10 DEF m
<1> QED
  BY <1>4, <1>5, <1>6 DEF InputKeyboard, m

\* The messages that a keyboard user sends, or a client that connects.
LEMMA UserTypes ==
  ASSUME InputTypeOK, User \/ Connect
  PROVE  /\ KeyboardTypeOK'
         /\ queue' = queue
         /\ \E ms \in Seq(Messages) :
              \/ User /\ msgs' = msgs \o ms /\ handled' = handled
              \/ Connect /\ msgs' = ms /\ handled' = handled + 1 /\ handled < ChecksPerWakeup
<1>1. KeyboardTypeOK /\ Typed \subseteq Keys /\ handled \in Nat /\ ChecksPerWakeup \in Nat
  BY TypeFacts, KeyboardAssumption DEF InputTypeOK
<1>2. /\ \A k \in XKeys : Down(k) \in Messages /\ Up(k) \in Messages
      /\ \A l \in SUBSET Locks : Sync(l) \in Messages
      /\ Layout \in Messages
  BY DEF Messages, Events, Down, Up, Sync
<1>3. Typed \subseteq XKeys /\ {"num", "pause", "tab"} \subseteq XKeys
  BY <1>1 DEF XKeys, Keys, Locks, XLocks
<1>4. \A l \in SUBSET (Locks \cap Typed) : SyncMsgs(l) \subseteq Seq(Messages)
  BY <1>2, <1>3 DEF SyncMsgs
<1>5. ASSUME NEW ms \in Seq(Messages), NEW c \in [held : SUBSET Keys, locks : SUBSET Locks],
             client' = c, SendMsgs(ms)
      PROVE  KeyboardTypeOK' /\ queue' = queue /\ msgs' = msgs \o ms /\ handled' = handled
  BY <1>1, <1>5 DEF SendMsgs, server, KeyboardTypeOK
<1>6. CASE \E k \in Typed : Press(k)
  <2>1. PICK k \in Typed : Press(k)
    BY <1>6
  <2>2. Pushes(k) \in Seq(Messages)
    BY <1>2, <1>3 DEF Pushes
  <2>3. client' \in [held : SUBSET Keys, locks : SUBSET Locks]
    BY <1>1, <2>1 DEF Press, KeyboardTypeOK
  <2>4. SendMsgs(Pushes(k))
    BY <2>1 DEF Press
  <2> QED
    BY <1>5, <1>6, <2>2, <2>3, <2>4 DEF User
<1>7. CASE \E k \in Typed : Repeat(k)
  <2>1. PICK k \in Typed : Repeat(k)
    BY <1>7
  <2>2. Pushes(k) \in Seq(Messages)
    BY <1>2, <1>3 DEF Pushes
  <2>3. client' \in [held : SUBSET Keys, locks : SUBSET Locks] /\ SendMsgs(Pushes(k))
    BY <1>1, <2>1 DEF Repeat, KeyboardTypeOK
  <2> QED
    BY <1>5, <1>7, <2>2, <2>3 DEF User
<1>8. CASE \E k \in Typed : Release(k)
  <2>1. PICK k \in Typed : Release(k)
    BY <1>8
  <2>2. Frees(k) \in Seq(Messages)
    BY <1>2, <1>3 DEF Frees
  <2>3. client' \in [held : SUBSET Keys, locks : SUBSET Locks] /\ SendMsgs(Frees(k))
    BY <1>1, <2>1 DEF Release, KeyboardTypeOK
  <2> QED
    BY <1>5, <1>8, <2>2, <2>3 DEF User
<1>9. CASE PressPause
  <2>1. <<Down("pause"), Down("num"), Up("pause"), Up("num")>> \in Seq(Messages)
    BY <1>2, <1>3
  <2>2. client' \in [held : SUBSET Keys, locks : SUBSET Locks]
    BY <1>1, <1>9 DEF PressPause, KeyboardTypeOK
  <2> QED
    <3>1. SendMsgs(<<Down("pause"), Down("num"), Up("pause"), Up("num")>>) /\ User
      BY <1>9 DEF PressPause, User
    <3> QED
      BY <1>5, <2>1, <2>2, <3>1
<1>10. CASE Focus
  <2>1. PICK l \in SUBSET (Locks \cap Typed) : \E ms \in SyncMsgs(l) :
          client' = [client EXCEPT !.locks = l] /\ SendMsgs(ms)
    BY <1>10 DEF Focus
  <2>2. PICK ms \in SyncMsgs(l) : client' = [client EXCEPT !.locks = l] /\ SendMsgs(ms)
    BY <2>1
  <2>3. client' \in [held : SUBSET Keys, locks : SUBSET Locks]
    BY <1>1, <2>1 DEF KeyboardTypeOK
  <2> QED
    BY <1>4, <1>5, <1>10, <2>2, <2>3 DEF User
<1>11. CASE Connect
  <2>1. PICK l \in SUBSET (Locks \cap Typed) : \E ms \in SyncMsgs(l) :
          /\ client' = [held |-> {}, locks |-> l]
          /\ msgs' \in {<<Layout>> \o ms, ms \o <<Layout>>}
    BY <1>11 DEF Connect
  <2>2. msgs' \in Seq(Messages)
    <3> DEFINE layout == <<Layout>>
    <3>1. layout \in Seq(Messages)
      BY <1>2
    <3>2. PICK ms \in SyncMsgs(l) : msgs' = layout \o ms \/ msgs' = ms \o layout
      BY <2>1
    <3>3. ms \in Seq(Messages)
      BY <1>4, <3>2
    <3> HIDE DEF layout
    <3>4. layout \o ms \in Seq(Messages) /\ ms \o layout \in Seq(Messages)
      BY <3>1, <3>3
    <3> QED
      BY <3>2, <3>4
  <2>3. client' \in [held : SUBSET Keys, locks : SUBSET Locks]
    BY <2>1
  <2>4. /\ handled' = handled + 1 /\ handled < ChecksPerWakeup /\ handled' \in 0..ChecksPerWakeup
        /\ owned' = FALSE /\ queue' = queue
    BY <1>1, <1>11 DEF Connect, server
  <2>5. KeyboardTypeOK'
    BY <1>1, <1>11, <2>3, <2>4 DEF Connect, server, KeyboardTypeOK
  <2> QED
    BY <1>11, <2>2, <2>4, <2>5
<1> QED
  BY <1>6, <1>7, <1>8, <1>9, <1>10, <1>11 DEF User

\* What a message of the mouse does.
MouseStep(m) ==
  \/ /\ "move" \in DOMAIN m /\ m.move \in Nat \X Nat
     /\ MotionStep(Bound(m.move))
  \/ /\ "button" \in DOMAIN m /\ m.button \in Buttons /\ m.at \in Nat \X Nat
     /\ IF m.down THEN ButtonStep(m.button, pointer.mask \cup {m.button}, m.at)
                  ELSE ButtonStep(m.button, pointer.mask \ {m.button}, m.at)
  \/ /\ "wheel" \in DOMAIN m /\ m.wheel \in Deltas /\ m.vertical \in BOOLEAN
     /\ PtrAddScrollEvent(m)

\* A message of the mouse is a motion, a button or a turn of a wheel.
LEMMA MouseFacts ==
  ASSUME InputTypeOK, InputMouse
  PROVE  /\ msgs # <<>> /\ msgs' = Tail(msgs)
         /\ handled < ChecksPerWakeup /\ handled' = handled + 1
         /\ Head(msgs) \in Messages \cup PointerMessages
         /\ MouseStep(Head(msgs))
         /\ UNCHANGED <<mouse, sprite, size, device>>
<1> DEFINE m == Head(msgs)
<1>1. /\ queue \in Seq(AllEvents) /\ size \in Sizes
      /\ pointer \in [mask : SUBSET Buttons, at : Nat \X Nat]
      /\ msgs # <<>> /\ m \in Messages \cup PointerMessages
      /\ msgs' = Tail(msgs) /\ handled < ChecksPerWakeup /\ handled' = handled + 1
      /\ UNCHANGED <<mouse, sprite, size, device>>
  BY TypeFacts DEF InputMouse
<1>2. \/ "move" \in DOMAIN m   /\ PtrAddEvent([pointer EXCEPT !.at = Bound(m.move)], m.move)
      \/ "button" \in DOMAIN m /\ m.down
           /\ PtrAddEvent([pointer EXCEPT !.mask = @ \cup {m.button}], m.at)
      \/ "button" \in DOMAIN m /\ ~m.down
           /\ PtrAddEvent([pointer EXCEPT !.mask = @ \ {m.button}], m.at)
      \/ "wheel" \in DOMAIN m  /\ PtrAddScrollEvent(m)
  BY DEF InputMouse
<1> HIDE DEF m
<1>3. CASE "move" \in DOMAIN m /\ PtrAddEvent([pointer EXCEPT !.at = Bound(m.move)], m.move)
  <2>1. m.move \in Nat \X Nat
    BY <1>1, <1>3, MessageFacts, InputAssumption
  <2>2. Bound(m.move) \in Nat \X Nat
    BY <1>1, <2>1, BoundFacts
  <2>3. MotionStep(Bound(m.move))
    BY <1>1, <1>3, <2>2, MotionReported
  <2> QED
    BY <1>1, <1>3, <2>1, <2>3 DEF MouseStep, m
<1>4. CASE "button" \in DOMAIN m /\ m.down
             /\ PtrAddEvent([pointer EXCEPT !.mask = @ \cup {m.button}], m.at)
  <2>1. m.button \in Buttons /\ m.at \in Nat \X Nat
    BY <1>1, <1>4, MessageFacts, InputAssumption
  <2>2. PtrAddEvent([pointer EXCEPT !.mask = pointer.mask \cup {m.button}], m.at)
    BY <1>4
  <2>3. ButtonStep(m.button, pointer.mask \cup {m.button}, m.at)
    BY <1>1, <2>2, ButtonReported
  <2> QED
    BY <1>1, <1>4, <2>1, <2>3 DEF MouseStep, m
<1>5. CASE "button" \in DOMAIN m /\ ~m.down
             /\ PtrAddEvent([pointer EXCEPT !.mask = @ \ {m.button}], m.at)
  <2>1. m.button \in Buttons /\ m.at \in Nat \X Nat
    BY <1>1, <1>5, MessageFacts, InputAssumption
  <2>2. PtrAddEvent([pointer EXCEPT !.mask = pointer.mask \ {m.button}], m.at)
    BY <1>5
  <2>3. ButtonStep(m.button, pointer.mask \ {m.button}, m.at)
    BY <1>1, <2>2, ButtonReported
  <2> QED
    BY <1>1, <1>5, <2>1, <2>3 DEF MouseStep, m
<1>6. CASE "wheel" \in DOMAIN m /\ PtrAddScrollEvent(m)
  <2>1. m.wheel \in Deltas /\ m.vertical \in BOOLEAN
    BY <1>1, <1>6, MessageFacts
  <2> QED
    BY <1>1, <1>6, <2>1 DEF MouseStep, m
<1> QED
  BY <1>2, <1>3, <1>4, <1>5, <1>6

\* How far a wheel scrolls: in its own direction, and at least one step.
LEMMA ScaledFacts ==
  ASSUME NEW d \in Int \ {0}
  PROVE  /\ Scaled(d) \in Int /\ Scaled(d) # 0
         /\ Scaled(d) > 0 <=> d > 0
<1>1. CASE d > 0
  <2>1. Quotient(d, 10) = d \div 10
    BY <1>1 DEF Quotient
  <2>2. d \div 10 \in Int /\ d \div 10 >= 0
    BY <1>1
  <2> QED
    BY <1>1, <2>1, <2>2 DEF Scaled
<1>2. CASE d < 0
  <2>1. Quotient(d, 10) = -((-d) \div 10)
    BY <1>2 DEF Quotient
  <2>2. (-d) \div 10 \in Int /\ (-d) \div 10 >= 0
    BY <1>2
  <2> QED
    BY <1>2, <2>1, <2>2 DEF Scaled
<1> QED
  BY <1>1, <1>2

\* The event of a turn.
ScrollEvent(m) ==
  [scroll |-> IF m.vertical THEN -Scaled(m.wheel) ELSE Scaled(m.wheel),
   of |-> m.wheel, vertical |-> m.vertical]

\* The events that a message of the mouse puts into the queue.
LEMMA MouseEvents ==
  ASSUME InputTypeOK, NEW m, MouseStep(m)
  PROVE  /\ queue' \in Seq(AllEvents)
         /\ pointer' \in [mask : SUBSET Buttons, at : Nat \X Nat]
         /\ astray' \in SUBSET Buttons /\ aside' \in BOOLEAN
<1>1. /\ queue \in Seq(AllEvents) /\ size \in Sizes
      /\ pointer \in [mask : SUBSET Buttons, at : Nat \X Nat]
      /\ astray \in SUBSET Buttons /\ aside \in BOOLEAN
  BY TypeFacts
<1>2. CASE "move" \in DOMAIN m /\ m.move \in Nat \X Nat /\ MotionStep(Bound(m.move))
  <2>1. Bound(m.move) \in Nat \X Nat
    BY <1>1, <1>2, BoundFacts
  <2> DEFINE e == [motion |-> Bound(m.move)]
  <2>2. e \in AllEvents
    BY <2>1 DEF AllEvents, PointerEvents
  <2>3. queue' \in Seq(AllEvents)
    <3>1. queue' = Append(queue, e) \/ queue' = queue
      BY <1>2 DEF MotionStep
    <3> HIDE DEF e
    <3> QED
      BY <1>1, <2>2, <3>1
  <2> QED
    BY <1>1, <1>2, <2>1, <2>3 DEF MotionStep
<1>3. ASSUME NEW b \in Buttons, NEW k, k = pointer.mask \cup {b} \/ k = pointer.mask \ {b},
             NEW at \in Nat \X Nat, ButtonStep(b, k, at)
      PROVE  /\ queue' \in Seq(AllEvents)
             /\ pointer' \in [mask : SUBSET Buttons, at : Nat \X Nat]
             /\ astray' \in SUBSET Buttons /\ aside' \in BOOLEAN
  <2>1. Bound(at) \in Nat \X Nat
    BY <1>1, BoundFacts
  <2>2. ButtonEvent(b, k, at) \in AllEvents
    <3>1. (b \in k) \in BOOLEAN
      OBVIOUS
    <3> QED
      BY <2>1, <3>1 DEF ButtonEvent, AllEvents, PointerEvents
  <2>3. queue' \in Seq(AllEvents)
    BY <1>1, <1>3, <2>2 DEF ButtonStep
  <2>4. k \in SUBSET Buttons
    BY <1>1, <1>3
  <2> QED
    BY <1>1, <1>3, <2>3, <2>4 DEF ButtonStep
<1>4. CASE "wheel" \in DOMAIN m /\ m.wheel \in Deltas /\ m.vertical \in BOOLEAN /\ PtrAddScrollEvent(m)
  <2>1. Scaled(m.wheel) \in Int
    BY <1>4, InputAssumption, ScaledFacts
  <2>2. ScrollEvent(m) \in AllEvents
    BY <1>4, <2>1 DEF ScrollEvent, AllEvents, PointerEvents
  <2>3. /\ queue' = Append(queue, ScrollEvent(m))
        /\ UNCHANGED <<pointer, astray, aside>>
    BY <1>4 DEF PtrAddScrollEvent, ScrollEvent
  <2> QED
    BY <1>1, <2>2, <2>3
<1> QED
  BY <1>2, <1>3, <1>4 DEF MouseStep

\* The types hold at first.
LEMMA TypesAtInit == InputInit => InputTypeOK
<1> SUFFICES ASSUME InputInit PROVE InputTypeOK
  OBVIOUS
<1>1. KeyboardTypeOK
  <2>1. 0 \in 0..ChecksPerWakeup
    BY KeyboardAssumption
  <2> QED
    BY <2>1 DEF InputInit, Init, KeyboardTypeOK, NoKeys
<1>2. msgs \in Seq(Messages \cup PointerMessages) /\ queue \in Seq(Events \cup PointerEvents)
  BY DEF InputInit, Init
<1>3. /\ size \in Sizes /\ device \in {"keys", "mouse"}
      /\ size[1] \in Nat /\ size[2] \in Nat /\ size[1] >= 2 /\ size[2] >= 2
  BY InputAssumption DEF InputInit
<1>4. /\ size[1] \div 2 \in Nat /\ size[1] \div 2 < size[1]
      /\ size[2] \div 2 \in Nat /\ size[2] \div 2 < size[2]
  BY <1>3
<1>5. sprite = [buttons |-> {}, at |-> <<size[1] \div 2, size[2] \div 2>>]
  BY DEF InputInit
<1>6. sprite \in [buttons : SUBSET Buttons, at : Nat \X Nat] /\ \A i \in 1..2 : sprite.at[i] < size[i]
  BY <1>4, <1>5
<1>7. /\ mouse \in [held : SUBSET Buttons, at : Places \cup {Nowhere}]
      /\ pointer \in [mask : SUBSET Buttons, at : Nat \X Nat]
      /\ astray \in SUBSET Buttons
      /\ aside \in BOOLEAN
  BY DEF InputInit
<1> QED
  BY <1>1, <1>2, <1>3, <1>6, <1>7 DEF InputTypeOK

\* One more message that is handled.
LEMMA HandledType ==
  ASSUME InputTypeOK, handled < ChecksPerWakeup, handled' = handled + 1
  PROVE  handled' \in 0..ChecksPerWakeup
BY TypeFacts

\* Messages that are taken from the socket, or put into it.
LEMMA SocketTypes ==
  ASSUME InputTypeOK
  PROVE  /\ msgs # <<>> => Tail(msgs) \in Seq(Messages \cup PointerMessages)
         /\ \A ms \in Seq(Messages \cup PointerMessages) :
              msgs \o ms \in Seq(Messages \cup PointerMessages)
         /\ Seq(Messages) \subseteq Seq(Messages \cup PointerMessages)
BY TypeFacts

\* The pointer's half of the types.
PointerTypeOK ==
  /\ device \in {"keys", "mouse"}
  /\ mouse \in [held : SUBSET Buttons, at : Places \cup {Nowhere}]
  /\ pointer \in [mask : SUBSET Buttons, at : Nat \X Nat]
  /\ sprite \in Sprites
  /\ \A i \in 1..2 : sprite.at[i] < size[i]
  /\ size \in Sizes
  /\ astray \in SUBSET Buttons
  /\ aside \in BOOLEAN

\* A message that a user sends with the mouse.
LEMMA SendTypes ==
  ASSUME InputTypeOK, NEW m \in PointerMessages, SendPointer(<<m>>),
         mouse' \in [held : SUBSET Buttons, at : Places \cup {Nowhere}]
  PROVE  InputTypeOK' /\ msgs' = Append(msgs, m)
<1> DEFINE ms == <<m>>
<1>1. /\ msgs' = msgs \o ms /\ msgs \o ms = Append(msgs, m)
      /\ ms \in Seq(Messages \cup PointerMessages)
  <2>1. msgs \in Seq(Messages \cup PointerMessages)
    BY TypeFacts
  <2> QED
    BY <2>1 DEF SendPointer, SendMsgs
<1> HIDE DEF ms
<1>2. msgs' \in Seq(Messages \cup PointerMessages)
  BY <1>1, SocketTypes
<1>3. UNCHANGED <<client, handled, completed, flags, driver, queue, posted, xkb, owned, clean,
                  device, pointer, sprite, size, astray, aside>>
  BY DEF SendPointer, SendMsgs, server
<1>4. KeyboardTypeOK'
  BY <1>3 DEF InputTypeOK, KeyboardTypeOK
<1> QED
  BY <1>1, <1>2, <1>3, <1>4 DEF InputTypeOK

\* Who holds a button has pointed somewhere.
HasPointed == mouse.held # {} => mouse.at # Nowhere

\* A step changes the mouse as its user does, or leaves it.
LEMMA MouseChanges ==
  ASSUME [InputNext]_inputVars
  PROVE  \/ UNCHANGED mouse
         \/ mouse' = [held |-> {}, at |-> Nowhere]
         \/ \E p \in Places : mouse' = [mouse EXCEPT !.at = p]
         \/ \E b \in Buttons : mouse.at # Nowhere /\ mouse' = [mouse EXCEPT !.held = @ \cup {b}]
         \/ \E b \in mouse.held : mouse' = [mouse EXCEPT !.held = @ \ {b}]
<1>1. ASSUME Type \/ InputMouse \/ ProcessEvents \/ Warp \/ Resize
             \/ (InputKeyboard /\ UNCHANGED pointerVars)
      PROVE  UNCHANGED mouse
  BY <1>1 DEF Type, InputMouse, ProcessEvents, Warp, Resize, pointerVars
<1>2. TakeOver => mouse' = [held |-> {}, at |-> Nowhere]
  BY DEF TakeOver
<1>3. ASSUME NEW p \in Places, Move(p) PROVE mouse' = [mouse EXCEPT !.at = p]
  BY <1>3 DEF Move
<1>4. ASSUME NEW b \in Buttons, Push(b)
      PROVE  mouse.at # Nowhere /\ mouse' = [mouse EXCEPT !.held = @ \cup {b}]
  BY <1>4 DEF Push
<1>5. ASSUME NEW b \in Buttons, LetGo(b)
      PROVE  b \in mouse.held /\ mouse' = [mouse EXCEPT !.held = @ \ {b}]
  BY <1>5 DEF LetGo
<1>6. ASSUME NEW d \in Deltas, Wheel(d) PROVE UNCHANGED mouse
  BY <1>6 DEF Wheel
<1>7. UNCHANGED inputVars => UNCHANGED mouse
  BY DEF inputVars, pointerVars
<1> QED
  BY <1>1, <1>2, <1>3, <1>4, <1>5, <1>6, <1>7 DEF InputNext

\* Who holds a button still has pointed somewhere after a step.
LEMMA PointedKept == InputTypeOK /\ HasPointed /\ [InputNext]_inputVars => HasPointed'
<1> SUFFICES ASSUME InputTypeOK, HasPointed, [InputNext]_inputVars PROVE HasPointed'
  OBVIOUS
<1>1. mouse \in [held : SUBSET Buttons, at : Places \cup {Nowhere}]
  BY TypeFacts
<1>2. \A p \in Places : p # Nowhere
  BY InputAssumption DEF Nowhere
<1> QED
  BY <1>1, <1>2, MouseChanges DEF HasPointed

\* The types hold after every step.
LEMMA TypesKept == InputTypeOK /\ HasPointed /\ [InputNext]_inputVars => InputTypeOK'
<1> SUFFICES ASSUME InputTypeOK, HasPointed, [InputNext]_inputVars PROVE InputTypeOK'
  OBVIOUS
<1>0. /\ PointerTypeOK /\ KeyboardTypeOK /\ queue \in Seq(AllEvents)
      /\ msgs \in Seq(Messages \cup PointerMessages)
  BY TypeFacts DEF PointerTypeOK, InputTypeOK
<1>1. SUFFICES /\ PointerTypeOK' /\ KeyboardTypeOK' /\ queue' \in Seq(AllEvents)
               /\ msgs' \in Seq(Messages \cup PointerMessages)
  BY DEF PointerTypeOK, InputTypeOK, AllEvents, Sprites
<1>2. CASE Type
  <2>1. User /\ UNCHANGED pointerVars
    BY <1>2 DEF Type
  <2>2. PICK ms \in Seq(Messages) :
          \/ User /\ msgs' = msgs \o ms
          \/ Connect /\ msgs' = ms
    BY <2>1, UserTypes
  <2>3. msgs' \in Seq(Messages \cup PointerMessages)
    BY <2>2, SocketTypes
  <2>4. KeyboardTypeOK' /\ queue' = queue
    BY <2>1, UserTypes
  <2>5. PointerTypeOK'
    BY <1>0, <2>1 DEF PointerTypeOK, pointerVars
  <2> QED
    BY <1>0, <2>3, <2>4, <2>5
<1>3. CASE TakeOver
  <2>1. Connect /\ UNCHANGED <<device, pointer, sprite, size, aside>>
        /\ mouse' = [held |-> {}, at |-> Nowhere] /\ astray' = astray \cup pointer.mask
    BY <1>3 DEF TakeOver
  <2>2. PICK ms \in Seq(Messages) :
          \/ User /\ msgs' = msgs \o ms
          \/ Connect /\ msgs' = ms
    BY <2>1, UserTypes
  <2>3. msgs' \in Seq(Messages \cup PointerMessages)
    BY <2>2, SocketTypes
  <2>4. KeyboardTypeOK' /\ queue' = queue
    BY <2>1, UserTypes
  <2>5. PointerTypeOK'
    BY <1>0, <2>1 DEF PointerTypeOK
  <2> QED
    BY <1>0, <2>3, <2>4, <2>5
<1>4. ASSUME NEW p \in Places, Move(p) PROVE InputTypeOK'
  <2>1. [move |-> p] \in PointerMessages /\ SendPointer(<<[move |-> p]>>)
    BY <1>4 DEF PointerMessages, Move
  <2>2. mouse' \in [held : SUBSET Buttons, at : Places \cup {Nowhere}]
    BY <1>0, <1>4 DEF Move, PointerTypeOK
  <2> QED
    BY <2>1, <2>2, SendTypes
<1>5. ASSUME NEW b \in Buttons, Push(b) \/ LetGo(b) PROVE InputTypeOK'
  <2> DEFINE m == [button |-> b, down |-> b \notin mouse.held, at |-> mouse.at]
  <2>1. SendPointer(<<m>>)
    BY <1>5 DEF Push, LetGo
  <2>2. mouse' \in [held : SUBSET Buttons, at : Places \cup {Nowhere}]
    BY <1>0, <1>5 DEF Push, LetGo, PointerTypeOK
  <2>3. mouse.at \in Places
    BY <1>0, <1>5 DEF Push, LetGo, PointerTypeOK, HasPointed
  <2>4. m \in PointerMessages
    BY <2>3 DEF PointerMessages
  <2> QED
    BY <2>1, <2>2, <2>4, SendTypes
<1>6. ASSUME NEW d \in Deltas, Wheel(d) PROVE InputTypeOK'
  <2>1. PICK v \in BOOLEAN : SendPointer(<<[wheel |-> d, vertical |-> v]>>)
    BY <1>6 DEF Wheel
  <2>2. mouse' \in [held : SUBSET Buttons, at : Places \cup {Nowhere}]
    BY <1>0, <1>6 DEF Wheel, PointerTypeOK
  <2>3. [wheel |-> d, vertical |-> v] \in PointerMessages
    BY DEF PointerMessages
  <2> QED
    BY <2>1, <2>2, <2>3, SendTypes
<1>7. CASE InputKeyboard /\ UNCHANGED pointerVars
  <2>1. /\ KeyboardTypeOK' /\ msgs # <<>> /\ msgs' = Tail(msgs)
        /\ \E r \in Seq(Events) : queue' = queue \o r
    BY <1>7, KeyboardTypes
  <2>2. queue' \in Seq(AllEvents)
    <3>1. Seq(Events) \subseteq Seq(AllEvents)
      BY DEF AllEvents
    <3> QED
      BY <1>0, <2>1, <3>1
  <2>3. PointerTypeOK'
    BY <1>0, <1>7 DEF PointerTypeOK, pointerVars
  <2> QED
    BY <2>1, <2>2, <2>3, SocketTypes
<1>8. CASE InputMouse
  <2>1. /\ msgs # <<>> /\ msgs' = Tail(msgs) /\ handled < ChecksPerWakeup /\ handled' = handled + 1
        /\ MouseStep(Head(msgs)) /\ UNCHANGED <<mouse, sprite, size, device>>
    BY <1>8, MouseFacts
  <2>2. handled' \in 0..ChecksPerWakeup
    BY <2>1, HandledType
  <2>3. UNCHANGED <<client, completed, flags, driver, posted, xkb, owned, clean>>
    BY <1>8 DEF InputMouse
  <2>4. KeyboardTypeOK'
    BY <1>0, <2>2, <2>3 DEF KeyboardTypeOK
  <2>5. /\ queue' \in Seq(AllEvents)
        /\ pointer' \in [mask : SUBSET Buttons, at : Nat \X Nat]
        /\ astray' \in SUBSET Buttons /\ aside' \in BOOLEAN
    BY <2>1, MouseEvents
  <2>6. PointerTypeOK'
    BY <1>0, <2>1, <2>5 DEF PointerTypeOK
  <2> QED
    BY <2>1, <2>4, <2>5, <2>6, SocketTypes
<1>9. CASE ProcessEvents
  <2>1. /\ handled' = 0 /\ xkb' = FoldLeft(ProcessEvent, xkb, queue) /\ queue' = <<>>
        /\ UNCHANGED <<client, msgs, completed, flags, driver, posted, owned, clean>>
        /\ UNCHANGED <<device, mouse, pointer, size, astray, aside>>
    BY <1>9 DEF ProcessEvents, ProcessInputEvents
  <2>2. sprite' = After(size, sprite, queue)
    BY <1>9 DEF ProcessEvents, FoldLeft, MapThenFoldSet, ProcessPointer, After, ProcessAt
  <2>3. sprite' \in Sprites /\ \A i \in 1..2 : sprite'.at[i] < size[i]
    BY <1>0, <2>2, AfterOnScreen DEF PointerTypeOK
  <2>4. xkb' \in Keyboards /\ 0 \in 0..ChecksPerWakeup
    BY <1>0, <2>1, TypeFacts, KeysType, KeyboardAssumption
  <2>5. KeyboardTypeOK'
    BY <1>0, <2>1, <2>4 DEF KeyboardTypeOK, Keyboards
  <2>6. PointerTypeOK'
    BY <1>0, <2>1, <2>3 DEF PointerTypeOK
  <2> QED
    BY <1>0, <2>1, <2>5, <2>6
<1>10. CASE Warp
  <2>1. UNCHANGED vars /\ UNCHANGED <<device, mouse, pointer, size, astray>>
    BY <1>10 DEF Warp
  <2>2. PICK p \in Places :
          /\ \A i \in 1..2 : p[i] < size[i]
          /\ sprite' = [sprite EXCEPT !.at = p]
          /\ aside' = (aside \/ p # sprite.at)
    BY <1>10 DEF Warp
  <2>3. sprite' \in Sprites /\ sprite'.at = p
    BY <1>0, <2>2, InputAssumption DEF PointerTypeOK, Sprites
  <2>4. PointerTypeOK'
    BY <1>0, <2>1, <2>2, <2>3 DEF PointerTypeOK
  <2> QED
    BY <1>0, <2>1, <2>4 DEF vars, KeyboardTypeOK
<1>11. CASE Resize
  <2>1. /\ handled < ChecksPerWakeup /\ handled' = handled + 1 /\ aside' = TRUE
        /\ UNCHANGED <<client, msgs, completed, flags, driver, queue, posted, xkb, owned, clean,
                       device, mouse, pointer, astray>>
    BY <1>11 DEF Resize
  <2>2. size' \in Sizes /\ sprite' = [sprite EXCEPT !.at = OnScreen(@, size')]
    BY <1>11 DEF Resize
  <2>3. OnScreen(sprite.at, size') \in Nat \X Nat /\ \A i \in 1..2 : OnScreen(sprite.at, size')[i] < size'[i]
    BY <1>0, <2>2, OnScreenFacts DEF PointerTypeOK, Sprites
  <2>4. sprite' \in Sprites /\ sprite'.at = OnScreen(sprite.at, size')
    BY <1>0, <2>2, <2>3 DEF PointerTypeOK, Sprites
  <2>5. PointerTypeOK'
    BY <1>0, <2>1, <2>2, <2>3, <2>4 DEF PointerTypeOK
  <2>6. handled' \in 0..ChecksPerWakeup
    BY <2>1, HandledType
  <2>7. KeyboardTypeOK'
    BY <1>0, <2>1, <2>6 DEF KeyboardTypeOK
  <2> QED
    BY <1>0, <2>1, <2>5, <2>7
<1>12. CASE UNCHANGED inputVars
  BY <1>0, <1>12 DEF inputVars, vars, pointerVars, PointerTypeOK, KeyboardTypeOK
<1>13. InputTypeOK' => PointerTypeOK' /\ KeyboardTypeOK' /\ queue' \in Seq(AllEvents)
                       /\ msgs' \in Seq(Messages \cup PointerMessages)
  BY DEF InputTypeOK, PointerTypeOK, Sprites, AllEvents
<1> QED
  BY <1>2, <1>3, <1>4, <1>5, <1>6, <1>7, <1>8, <1>9, <1>10, <1>11, <1>12, <1>13 DEF InputNext

\* The variables of both drivers always have their types, a lock goes off only
\* with its key down, and the sprite never leaves the screen.
THEOREM InputTypes == InputSpec => []InputTypeOK
<1>1. InputInit => InputTypeOK /\ HasPointed
  BY TypesAtInit DEF InputInit, HasPointed
<1>2. InputTypeOK /\ HasPointed /\ [InputNext]_inputVars => (InputTypeOK /\ HasPointed)'
  BY TypesKept, PointedKept
<1> QED
  BY <1>1, <1>2, PTL DEF InputSpec

-----------------------------------------------------------------------------
(* The steps, as the pointer sees them. *)

\* A message that is not about the pointer.
OfKeyboard(m) == {"move", "button", "wheel"} \cap DOMAIN m = {}

\* One more message of the socket is handled.
Handles ==
  /\ msgs # <<>> /\ msgs' = Tail(msgs)
  /\ handled < ChecksPerWakeup /\ handled' = handled + 1
  /\ UNCHANGED <<mouse, sprite, size>>

KeysReported ==
  /\ Handles
  /\ OfKeyboard(Head(msgs))
  /\ \E r \in Seq(Events) : queue' = queue \o r
  /\ UNCHANGED <<pointer, astray, aside>>

MouseReported ==
  /\ Handles
  /\ Head(msgs) \in Messages \cup PointerMessages
  /\ MouseStep(Head(msgs))

QueueProcessed ==
  /\ handled' = 0 /\ queue' = <<>> /\ sprite' = After(size, sprite, queue)
  /\ UNCHANGED <<msgs, mouse, pointer, size, astray, aside>>

SpriteMoved ==
  /\ handled = 0 /\ handled' = 0
  /\ sprite'.buttons = sprite.buttons
  /\ aside' \/ (sprite'.at = sprite.at /\ aside' = aside)
  /\ UNCHANGED <<msgs, queue, mouse, pointer, size, astray>>

ScreenResized ==
  /\ handled < ChecksPerWakeup /\ handled' = handled + 1 /\ aside' = TRUE
  /\ size' \in Sizes /\ sprite' = [sprite EXCEPT !.at = OnScreen(@, size')]
  /\ UNCHANGED <<msgs, queue, mouse, pointer, astray>>

ClientReplaced ==
  /\ handled < ChecksPerWakeup /\ handled' = handled + 1
  /\ msgs' \in Seq(Messages)
  /\ mouse' = [held |-> {}, at |-> Nowhere] /\ astray' = astray \cup pointer.mask
  /\ UNCHANGED <<queue, pointer, sprite, size, aside>>

UserSends ==
  /\ UNCHANGED <<handled, queue, pointer, sprite, size, astray, aside>>
  /\ \/ /\ \E ms \in Seq(Messages) : msgs' = msgs \o ms
        /\ UNCHANGED mouse
     \/ \E p \in Places :
          msgs' = Append(msgs, [move |-> p]) /\ mouse' = [mouse EXCEPT !.at = p]
     \/ \E b \in Buttons :
          /\ mouse.at \in Places
          /\ msgs' = Append(msgs, [button |-> b, down |-> b \notin mouse.held, at |-> mouse.at])
          /\ mouse' = [mouse EXCEPT !.held = IF b \in @ THEN @ \ {b} ELSE @ \cup {b}]
     \/ \E d \in Deltas, v \in BOOLEAN :
          msgs' = Append(msgs, [wheel |-> d, vertical |-> v]) /\ UNCHANGED mouse
     \/ UNCHANGED <<msgs, mouse>>

\* A message that the mouse sends goes to the end of the socket.
LEMMA SendAppends ==
  ASSUME InputTypeOK, NEW m, SendPointer(<<m>>)
  PROVE  /\ msgs' = Append(msgs, m)
         /\ UNCHANGED <<handled, queue, pointer, sprite, size, astray, aside>>
<1>1. msgs \in Seq(Messages \cup PointerMessages)
  BY TypeFacts
<1>2. msgs' = msgs \o <<m>>
  BY DEF SendPointer, SendMsgs
<1>3. UNCHANGED <<handled, queue, pointer, sprite, size, astray, aside>>
  BY DEF SendPointer, SendMsgs, server
<1> QED
  BY <1>1, <1>2, <1>3

\* Every step is one of these.
LEMMA PointerSteps ==
  ASSUME InputTypeOK, HasPointed, [InputNext]_inputVars
  PROVE  \/ KeysReported \/ MouseReported \/ QueueProcessed \/ SpriteMoved
         \/ ScreenResized \/ ClientReplaced \/ UserSends
<1>0. /\ handled \in Nat
      /\ mouse \in [held : SUBSET Buttons, at : Places \cup {Nowhere}]
      /\ sprite \in Sprites
  BY TypeFacts
<1>1. ASSUME Type PROVE UserSends
  <2>1. User /\ UNCHANGED pointerVars
    BY <1>1 DEF Type
  <2>2. handled' = handled
    BY <2>1 DEF User, Press, Repeat, Release, PressPause, Focus, SendMsgs
  <2>3. PICK ms \in Seq(Messages) : msgs' = msgs \o ms
    BY <1>0, <2>1, <2>2, UserTypes
  <2>4. queue' = queue
    BY <2>1, UserTypes
  <2> QED
    BY <2>1, <2>2, <2>3, <2>4 DEF UserSends, pointerVars
<1>2. ASSUME TakeOver PROVE ClientReplaced
  <2>1. Connect /\ UNCHANGED <<pointer, sprite, size, aside>>
        /\ mouse' = [held |-> {}, at |-> Nowhere] /\ astray' = astray \cup pointer.mask
    BY <1>2 DEF TakeOver
  <2>2. handled' = handled + 1 /\ handled < ChecksPerWakeup
    BY <2>1 DEF Connect
  <2>3. queue' = queue /\ msgs' \in Seq(Messages)
    BY <1>0, <2>1, <2>2, UserTypes
  <2> QED
    BY <2>1, <2>2, <2>3 DEF ClientReplaced
<1>3. ASSUME NEW p \in Places, Move(p) PROVE UserSends
  <2> DEFINE m == [move |-> p]
  <2>1. SendPointer(<<m>>) /\ mouse' = [mouse EXCEPT !.at = p]
    BY <1>3 DEF Move
  <2>2. /\ msgs' = Append(msgs, m)
        /\ UNCHANGED <<handled, queue, pointer, sprite, size, astray, aside>>
    BY <2>1, SendAppends
  <2> QED
    BY <2>1, <2>2 DEF UserSends
<1>4. ASSUME NEW b \in Buttons, Push(b) \/ LetGo(b) PROVE UserSends
  <2> DEFINE m == [button |-> b, down |-> b \notin mouse.held, at |-> mouse.at]
  <2>1. SendPointer(<<m>>) /\ mouse.at \in Places
    BY <1>0, <1>4 DEF Push, LetGo, HasPointed
  <2>2. mouse' = [mouse EXCEPT !.held = IF b \in @ THEN @ \ {b} ELSE @ \cup {b}]
    BY <1>0, <1>4 DEF Push, LetGo
  <2>3. /\ msgs' = Append(msgs, m)
        /\ UNCHANGED <<handled, queue, pointer, sprite, size, astray, aside>>
    BY <2>1, SendAppends
  <2> QED
    BY <2>1, <2>2, <2>3 DEF UserSends
<1>5. ASSUME NEW d \in Deltas, Wheel(d) PROVE UserSends
  <2>1. PICK v \in BOOLEAN : SendPointer(<<[wheel |-> d, vertical |-> v]>>)
    BY <1>5 DEF Wheel
  <2>2. UNCHANGED mouse
    BY <1>5 DEF Wheel
  <2>3. /\ msgs' = Append(msgs, [wheel |-> d, vertical |-> v])
        /\ UNCHANGED <<handled, queue, pointer, sprite, size, astray, aside>>
    BY <2>1, SendAppends
  <2> QED
    BY <2>2, <2>3 DEF UserSends
<1>6. ASSUME InputKeyboard, UNCHANGED pointerVars PROVE KeysReported
  <2>1. /\ msgs # <<>> /\ msgs' = Tail(msgs)
        /\ {"move", "button", "wheel"} \cap DOMAIN Head(msgs) = {}
        /\ handled < ChecksPerWakeup /\ handled' = handled + 1
        /\ \E r \in Seq(Events) : queue' = queue \o r
    BY <1>6, KeyboardTypes
  <2>2. UNCHANGED <<mouse, sprite, size, pointer, astray, aside>>
    BY <1>6 DEF pointerVars
  <2> QED
    BY <2>1, <2>2 DEF KeysReported, Handles, OfKeyboard
<1>7. ASSUME InputMouse PROVE MouseReported
  BY <1>7, MouseFacts DEF MouseReported, Handles
<1>8. ASSUME ProcessEvents PROVE QueueProcessed
  <2>1. sprite' = After(size, sprite, queue)
    BY <1>8 DEF ProcessEvents, FoldLeft, MapThenFoldSet, ProcessPointer, After, ProcessAt
  <2> QED
    BY <1>8, <2>1 DEF ProcessEvents, ProcessInputEvents, QueueProcessed
<1>9. ASSUME Warp PROVE SpriteMoved
  <2>1. PICK p \in Places : sprite' = [sprite EXCEPT !.at = p] /\ aside' = (aside \/ p # sprite.at)
    BY <1>9 DEF Warp
  <2>2. sprite'.buttons = sprite.buttons /\ sprite'.at = p
    BY <1>0, <2>1 DEF Sprites
  <2>3. aside' \/ (sprite'.at = sprite.at /\ aside' = aside)
    <3>1. CASE p = sprite.at
      <4>1. aside' = aside
        BY <2>1, <3>1, TypeFacts
      <4> QED
        BY <2>2, <3>1, <4>1
    <3>2. CASE p # sprite.at
      BY <2>1, <3>2
    <3> QED
      BY <3>1, <3>2
  <2>4. /\ handled = 0 /\ handled' = handled
        /\ UNCHANGED <<msgs, queue, mouse, pointer, size, astray>>
    BY <1>9 DEF Warp, vars
  <2> QED
    BY <2>2, <2>3, <2>4 DEF SpriteMoved
<1>10. ASSUME Resize PROVE ScreenResized
  BY <1>10 DEF Resize, ScreenResized
<1>11. ASSUME UNCHANGED inputVars PROVE UserSends
  BY <1>11 DEF inputVars, vars, pointerVars, UserSends
<1> QED
  BY <1>1, <1>2, <1>3, <1>4, <1>5, <1>6, <1>7, <1>8, <1>9, <1>10, <1>11 DEF InputNext

-----------------------------------------------------------------------------
(* The sprite follows the pointer. *)

\* A place that an event names is on a screen of size z.
Inside(e, z) ==
  /\ "motion" \in DOMAIN e => OnScreen(e.motion, z) = e.motion
  /\ "button" \in DOMAIN e /\ e.at # Nowhere => OnScreen(e.at, z) = e.at

\* Nothing waits in the queue when the server has processed it, and what a first
\* check has put there is on the screen: a second one may change the screen, but
\* there is no third before the queue is processed.
QueueInv ==
  /\ handled = 0 => queue = <<>>
  /\ handled <= 1 => \A i \in DOMAIN queue : Inside(queue[i], size)

\* What the mouse queues is on the screen.
LEMMA MouseInside ==
  ASSUME InputTypeOK, NEW m, MouseStep(m)
  PROVE  queue' = queue \/ \E e \in AllEvents : queue' = Append(queue, e) /\ Inside(e, size)
<1>1. size \in Sizes /\ Nowhere \notin Nat \X Nat
  BY TypeFacts DEF Nowhere
<1>2. ASSUME "move" \in DOMAIN m, m.move \in Nat \X Nat, MotionStep(Bound(m.move)), queue' # queue
      PROVE  \E e \in AllEvents : queue' = Append(queue, e) /\ Inside(e, size)
  <2> DEFINE e == [motion |-> Bound(m.move)]
  <2>1. Bound(m.move) \in Nat \X Nat /\ OnScreen(Bound(m.move), size) = Bound(m.move)
    BY <1>1, <1>2, BoundFacts
  <2>2. e \in AllEvents /\ Inside(e, size)
    BY <2>1 DEF AllEvents, PointerEvents, Inside
  <2>3. queue' = Append(queue, e)
    BY <1>2 DEF MotionStep
  <2> QED
    BY <2>2, <2>3
<1>3. ASSUME NEW b \in Buttons, NEW k, NEW at \in Nat \X Nat, ButtonStep(b, k, at), queue' # queue
      PROVE  \E e \in AllEvents : queue' = Append(queue, e) /\ Inside(e, size)
  <2> DEFINE e == ButtonEvent(b, k, at)
  <2>1. Bound(at) \in Nat \X Nat /\ OnScreen(Bound(at), size) = Bound(at)
    BY <1>1, BoundFacts
  <2>2. e.at = Nowhere \/ e.at = Bound(at)
    BY DEF ButtonEvent
  <2>3. e \in AllEvents
    BY <2>1 DEF ButtonEvent, AllEvents, PointerEvents
  <2>4. Inside(e, size)
    BY <2>1, <2>2 DEF ButtonEvent, Inside
  <2>5. queue' = Append(queue, e)
    BY <1>3 DEF ButtonStep
  <2> QED
    BY <2>3, <2>4, <2>5
<1>4. ASSUME "wheel" \in DOMAIN m, m.wheel \in Deltas, m.vertical \in BOOLEAN, PtrAddScrollEvent(m)
      PROVE  \E e \in AllEvents : queue' = Append(queue, e) /\ Inside(e, size)
  <2>1. Scaled(m.wheel) \in Int
    BY <1>4, InputAssumption, ScaledFacts
  <2>2. ScrollEvent(m) \in AllEvents /\ Inside(ScrollEvent(m), size)
    BY <1>4, <2>1 DEF ScrollEvent, AllEvents, PointerEvents, Inside
  <2>3. queue' = Append(queue, ScrollEvent(m))
    BY <1>4 DEF PtrAddScrollEvent, ScrollEvent
  <2> QED
    BY <2>2, <2>3
<1> QED
  BY <1>2, <1>3, <1>4 DEF MouseStep

\* The queue stays so.
LEMMA QueueKept ==
  ASSUME InputTypeOK, HasPointed, QueueInv, [InputNext]_inputVars
  PROVE  QueueInv'
<1>0. handled \in Nat /\ queue \in Seq(AllEvents) /\ ChecksPerWakeup \in 1..2
  BY TypeFacts
<1>1. ASSUME KeysReported PROVE QueueInv'
  <2>1. PICK r \in Seq(Events) : queue' = queue \o r
    BY <1>1 DEF KeysReported
  <2>2. handled' = handled + 1 /\ size' = size
    BY <1>1 DEF KeysReported, Handles
  <2>3. \A i \in DOMAIN queue' : Inside(queue'[i], size) \/ (i \in DOMAIN queue /\ queue'[i] = queue[i])
    <3>1. \A i \in DOMAIN queue' : queue'[i] \in Events \/ (i \in DOMAIN queue /\ queue'[i] = queue[i])
      BY <1>0, <2>1
    <3>2. \A e \in Events : Inside(e, size)
      BY DEF Events, Inside
    <3> QED
      BY <3>1, <3>2
  <2> QED
    BY <1>0, <2>2, <2>3 DEF QueueInv
<1>2. ASSUME MouseReported PROVE QueueInv'
  <2>1. handled' = handled + 1 /\ size' = size /\ MouseStep(Head(msgs))
    BY <1>2 DEF MouseReported, Handles
  <2>2. CASE queue' = queue
    BY <1>0, <2>1, <2>2 DEF QueueInv
  <2>3. CASE queue' # queue
    <3>1. PICK e \in AllEvents : queue' = Append(queue, e) /\ Inside(e, size)
      BY <2>1, <2>3, MouseInside
    <3>2. \A i \in DOMAIN queue' : queue'[i] = e \/ (i \in DOMAIN queue /\ queue'[i] = queue[i])
      BY <1>0, <3>1
    <3> QED
      BY <1>0, <2>1, <3>1, <3>2 DEF QueueInv
  <2> QED
    BY <2>2, <2>3
<1>3. QueueProcessed => QueueInv'
  BY DEF QueueProcessed, QueueInv
<1>4. SpriteMoved => QueueInv'
  BY DEF SpriteMoved, QueueInv
<1>5. ASSUME ScreenResized PROVE QueueInv'
  <2>1. handled' = handled + 1 /\ queue' = queue
    BY <1>5 DEF ScreenResized
  <2>2. CASE handled = 0
    BY <2>1, <2>2 DEF QueueInv
  <2>3. CASE handled # 0
    BY <1>0, <2>1, <2>3 DEF QueueInv
  <2> QED
    BY <2>2, <2>3
<1>6. ClientReplaced => QueueInv'
  BY <1>0 DEF ClientReplaced, QueueInv
<1>7. UserSends => QueueInv'
  BY DEF UserSends, QueueInv
<1> QED
  BY <1>1, <1>2, <1>3, <1>4, <1>5, <1>6, <1>7, PointerSteps

\* The buttons of the sprite are those that the driver has reported, and it is
\* where the driver has put it, once the queue is processed.
SpriteInv ==
  /\ After(size, sprite, queue).buttons \ astray = pointer.mask \ astray
  /\ ~aside => After(size, sprite, queue).at = OnScreen(pointer.at, size)

\* The sprite follows what the mouse reports.
LEMMA MouseMoves ==
  ASSUME InputTypeOK, SpriteInv, NEW m, MouseStep(m), UNCHANGED <<sprite, size>>
  PROVE  SpriteInv'
<1> DEFINE s == After(size, sprite, queue)
<1>1. /\ size \in Sizes /\ sprite \in Sprites /\ queue \in Seq(AllEvents)
      /\ pointer \in [mask : SUBSET Buttons, at : Nat \X Nat]
      /\ astray \in SUBSET Buttons /\ aside \in BOOLEAN
  BY TypeFacts
<1>2. s \in Sprites
  <2> DEFINE e == [motion |-> <<0, 0>>]
  <2>1. e \in AllEvents
    BY DEF AllEvents, PointerEvents
  <2> HIDE DEF e
  <2> QED
    BY <1>1, <2>1, AfterAppend
<1>3. ASSUME queue' = queue, NEW p, pointer' = p, p.mask \ astray' = pointer.mask \ astray',
             astray \subseteq astray', aside' \/ (aside' = aside /\ p.at = pointer.at)
      PROVE  SpriteInv'
  BY <1>3 DEF SpriteInv
<1>4. ASSUME "move" \in DOMAIN m, m.move \in Nat \X Nat, MotionStep(Bound(m.move)) PROVE SpriteInv'
  <2> DEFINE e == [motion |-> Bound(m.move)]
  <2>1. Bound(m.move) \in Nat \X Nat /\ OnScreen(Bound(m.move), size) = Bound(m.move)
    BY <1>1, <1>4, BoundFacts
  <2>2. e \in AllEvents
    BY <2>1 DEF AllEvents, PointerEvents
  <2>3. pointer' = [pointer EXCEPT !.at = Bound(m.move)] /\ astray' = astray
    BY <1>4 DEF MotionStep
  <2>4. CASE queue' = Append(queue, e)
    <3>1. ProcessAt(size, s, e) = [s EXCEPT !.at = OnScreen(Bound(m.move), size)]
      BY DEF ProcessAt
    <3> HIDE DEF e
    <3>2. After(size, sprite, queue') = ProcessAt(size, s, e)
      BY <1>1, <2>2, <2>4, AfterAppend
    <3>3. /\ After(size, sprite, queue').buttons = s.buttons
          /\ After(size, sprite, queue').at = OnScreen(pointer'.at, size')
      BY <1>1, <1>2, <2>3, <3>1, <3>2 DEF Sprites
    <3>4. pointer'.mask = pointer.mask
      BY <1>1, <2>3
    <3> QED
      BY <2>3, <3>3, <3>4 DEF SpriteInv
  <2>5. CASE queue' = queue
    <3>1. pointer'.mask = pointer.mask
      BY <1>1, <2>3
    <3>2. aside' \/ (aside' = aside /\ pointer'.at = pointer.at)
      BY <1>1, <1>4, <2>3, <2>5 DEF MotionStep
    <3> QED
      BY <1>3, <2>3, <2>5, <3>1, <3>2
  <2> QED
    BY <1>4, <2>4, <2>5 DEF MotionStep
<1>5. ASSUME NEW b \in Buttons, NEW k, k = pointer.mask \cup {b} \/ k = pointer.mask \ {b},
             NEW at \in Nat \X Nat, ButtonStep(b, k, at)
      PROVE  SpriteInv'
  <2> DEFINE e == ButtonEvent(b, k, at)
  <2>1. Bound(at) \in Nat \X Nat
    BY <1>1, BoundFacts
  <2>2. e \in AllEvents
    BY <2>1 DEF ButtonEvent, AllEvents, PointerEvents
  <2>3. pointer'.mask = k /\ pointer'.at = pointer.at /\ aside' = aside
    BY <1>1, <1>5 DEF ButtonStep
  <2>4. CASE queue' = Append(queue, e) /\ astray' = astray \ {b}
    <3>1. ProcessAt(size, s, e) =
            [s EXCEPT !.buttons = IF b \in k THEN @ \cup {b} ELSE @ \ {b}]
      BY DEF ProcessAt, ButtonEvent
    <3> HIDE DEF e
    <3>2. After(size, sprite, queue') = ProcessAt(size, s, e)
      BY <1>1, <2>2, <2>4, AfterAppend
    <3>3. /\ After(size, sprite, queue').buttons =
               IF b \in k THEN s.buttons \cup {b} ELSE s.buttons \ {b}
          /\ After(size, sprite, queue').at = s.at
      BY <1>2, <3>1, <3>2 DEF Sprites
    <3>4. After(size, sprite, queue').buttons \ astray' = k \ astray'
      <4>1. s.buttons \ astray = pointer.mask \ astray
        BY DEF SpriteInv
      <4> QED
        BY <1>5, <2>4, <3>3, <4>1
    <3>5. ~aside' => After(size, sprite, queue').at = OnScreen(pointer'.at, size)
      BY <2>3, <3>3 DEF SpriteInv
    <3> QED
      BY <2>3, <3>4, <3>5 DEF SpriteInv
  <2>5. CASE queue' = queue /\ k = pointer.mask /\ astray' = astray
    BY <2>3, <2>5 DEF SpriteInv
  <2>6. CASE queue' = queue /\ astray' = astray \cup {b}
    BY <1>3, <1>5, <2>3, <2>6
  <2> QED
    BY <1>5, <2>4, <2>5, <2>6 DEF ButtonStep
<1>6. ASSUME "wheel" \in DOMAIN m, m.wheel \in Deltas, m.vertical \in BOOLEAN, PtrAddScrollEvent(m)
      PROVE  SpriteInv'
  <2>1. Scaled(m.wheel) \in Int
    BY <1>6, InputAssumption, ScaledFacts
  <2>2. ScrollEvent(m) \in AllEvents /\ ProcessAt(size, s, ScrollEvent(m)) = s
    BY <1>6, <2>1 DEF ScrollEvent, AllEvents, PointerEvents, ProcessAt
  <2>3. queue' = Append(queue, ScrollEvent(m)) /\ UNCHANGED <<pointer, astray, aside>>
    BY <1>6 DEF PtrAddScrollEvent, ScrollEvent
  <2>4. After(size, sprite, queue') = s
    BY <1>1, <2>2, <2>3, AfterAppend
  <2> QED
    BY <2>3, <2>4 DEF SpriteInv
<1> QED
  BY <1>4, <1>5, <1>6 DEF MouseStep

\* The sprite still follows after a step.
LEMMA SpriteKept ==
  ASSUME InputTypeOK, HasPointed, QueueInv, SpriteInv, [InputNext]_inputVars
  PROVE  SpriteInv'
<1>0. /\ size \in Sizes /\ sprite \in Sprites /\ queue \in Seq(AllEvents)
      /\ pointer \in [mask : SUBSET Buttons, at : Nat \X Nat]
      /\ astray \in SUBSET Buttons /\ handled \in Nat /\ ChecksPerWakeup \in 1..2
  BY TypeFacts
<1>1. size' \in Sizes /\ sprite' \in Sprites
  BY TypesKept DEF InputTypeOK, Sprites
<1>2. AllEvents # {}
  <2>1. [motion |-> <<0, 0>>] \in AllEvents
    BY DEF AllEvents, PointerEvents
  <2> QED
    BY <2>1
<1>3. ASSUME KeysReported PROVE SpriteInv'
  <2>1. PICK r \in Seq(Events) : queue' = queue \o r
    BY <1>3 DEF KeysReported
  <2>2. UNCHANGED <<size, sprite, pointer, astray, aside>>
    BY <1>3 DEF KeysReported, Handles
  <2>3. After(size, sprite, queue') = After(size, sprite, queue)
    BY <1>0, <2>1, AfterKeys
  <2> QED
    BY <2>2, <2>3 DEF SpriteInv
<1>4. ASSUME MouseReported PROVE SpriteInv'
  BY <1>4, MouseMoves DEF MouseReported, Handles
<1>5. ASSUME QueueProcessed PROVE SpriteInv'
  <2>1. /\ queue' = <<>> /\ sprite' = After(size, sprite, queue)
        /\ UNCHANGED <<pointer, size, astray, aside>>
    BY <1>5 DEF QueueProcessed
  <2>2. After(size, sprite', queue') = sprite'
    BY <1>0, <1>1, <1>2, <2>1, AfterAppend
  <2> QED
    BY <2>1, <2>2 DEF SpriteInv
<1>6. ASSUME SpriteMoved PROVE SpriteInv'
  <2>1. queue = <<>> /\ queue' = <<>>
    BY <1>6 DEF SpriteMoved, QueueInv
  <2>2. After(size, sprite, queue) = sprite /\ After(size, sprite', queue') = sprite'
    BY <1>0, <1>1, <1>2, <2>1, AfterAppend
  <2>3. /\ sprite'.buttons = sprite.buttons
        /\ aside' \/ (sprite'.at = sprite.at /\ aside' = aside)
        /\ UNCHANGED <<pointer, size, astray>>
    BY <1>6 DEF SpriteMoved
  <2> QED
    BY <2>2, <2>3 DEF SpriteInv
<1>7. ASSUME ScreenResized PROVE SpriteInv'
  <2>1. /\ aside' = TRUE /\ sprite' = [sprite EXCEPT !.at = OnScreen(@, size')]
        /\ handled < ChecksPerWakeup /\ UNCHANGED <<queue, pointer, astray>>
    BY <1>7 DEF ScreenResized
  <2>2. \A i \in DOMAIN queue : "motion" \in DOMAIN queue[i] => OnScreen(queue[i].motion, size) = queue[i].motion
    BY <1>0, <2>1 DEF QueueInv, Inside
  <2>3. After(size', sprite', queue).buttons = After(size, sprite, queue).buttons
    BY <1>0, <1>1, <2>1, <2>2, AfterResize
  <2> QED
    BY <2>1, <2>3 DEF SpriteInv
<1>8. ASSUME ClientReplaced PROVE SpriteInv'
  <2>1. astray' = astray \cup pointer.mask /\ UNCHANGED <<queue, pointer, sprite, size, aside>>
    BY <1>8 DEF ClientReplaced
  <2> QED
    BY <2>1 DEF SpriteInv
<1>9. ASSUME UserSends PROVE SpriteInv'
  BY <1>9 DEF UserSends, SpriteInv
<1> QED
  BY <1>3, <1>4, <1>5, <1>6, <1>7, <1>8, <1>9, PointerSteps

-----------------------------------------------------------------------------
(* Where the user pointed. *)

\* The places that the driver has put the pointer at, as far as it knows.
Standing == {p \in Nat \X Nat : ~aside => pointer.at = Bound(p)}

\* The place p is where the last of the first n messages moves to, and one of P
\* when none of them moves.
Placed(q, n, p, P) ==
  /\ \A i \in 1..n :
       "move" \in DOMAIN q[i] /\ (\A j \in (i + 1)..n : "move" \notin DOMAIN q[j])
         => q[i].move = p
  /\ (\A i \in 1..n : "move" \notin DOMAIN q[i]) => p \in P

\* The mouse pointed there when the button moved, and it points there now.
PlaceInv ==
  /\ \A i \in DOMAIN msgs : "button" \in DOMAIN msgs[i] => Placed(msgs, i, msgs[i].at, Standing)
  /\ mouse.at # Nowhere => Placed(msgs, Len(msgs), mouse.at, Standing)

\* Of a row of messages, the first is handled.
LEMMA PlacedTail ==
  ASSUME NEW M, NEW q \in Seq(M), q # <<>>, NEW n \in 1..Len(q), NEW p, NEW P, Placed(q, n, p, P),
         NEW R, "move" \in DOMAIN Head(q) => Head(q).move \in R,
         "move" \notin DOMAIN Head(q) => P \subseteq R
  PROVE  Placed(Tail(q), n - 1, p, R)
<1> DEFINE t == Tail(q)
<1>1. \A i \in 1..(n - 1) : t[i] = q[i + 1]
  OBVIOUS
<1>2. Head(q) = q[1] /\ 1 \in 1..n
  OBVIOUS
<1> HIDE DEF t
<1>3. ASSUME NEW i \in 1..(n - 1), "move" \in DOMAIN t[i],
             \A j \in (i + 1)..(n - 1) : "move" \notin DOMAIN t[j]
      PROVE  t[i].move = p
  <2>1. i + 1 \in 1..n /\ \A j \in (i + 2)..n : j - 1 \in (i + 1)..(n - 1) /\ t[j - 1] = q[j]
    BY <1>1
  <2>2. \A j \in (i + 2)..n : "move" \notin DOMAIN q[j]
    BY <1>3, <2>1
  <2>3. (i + 1) + 1 = i + 2
    OBVIOUS
  <2> QED
    BY <1>1, <1>3, <2>1, <2>2, <2>3 DEF Placed
<1>4. ASSUME \A i \in 1..(n - 1) : "move" \notin DOMAIN t[i]
      PROVE  p \in R
  <2>1. \A j \in 2..n : "move" \notin DOMAIN q[j]
    <3>1. \A j \in 2..n : j - 1 \in 1..(n - 1) /\ t[j - 1] = q[j]
      BY <1>1
    <3> QED
      BY <1>4, <3>1
  <2>2. CASE "move" \in DOMAIN q[1]
    <3>1. q[1].move = p
      BY <1>2, <2>1, <2>2 DEF Placed
    <3> QED
      BY <1>2, <2>2, <3>1
  <2>3. CASE "move" \notin DOMAIN q[1]
    <3>1. \A j \in 1..n : "move" \notin DOMAIN q[j]
      BY <2>1, <2>3
    <3> QED
      BY <1>2, <2>3, <3>1 DEF Placed
  <2> QED
    BY <2>2, <2>3
<1> QED
  BY <1>3, <1>4 DEF Placed, t

\* More messages after those, of which none moves, and one that does.
LEMMA PlacedMore ==
  ASSUME NEW M, NEW q \in Seq(M), NEW ms \in Seq(M), NEW p, NEW P
  PROVE  /\ \A n \in 0..Len(q) : Placed(q, n, p, P) => Placed(q \o ms, n, p, P)
         /\ (\A i \in DOMAIN ms : "move" \notin DOMAIN ms[i]) /\ Placed(q, Len(q), p, P)
              => \A n \in Len(q)..Len(q \o ms) : Placed(q \o ms, n, p, P)
         /\ \A m : "move" \in DOMAIN m /\ m.move = p => Placed(Append(q, m), Len(q) + 1, p, P)
<1>1. ASSUME NEW n \in 0..Len(q), Placed(q, n, p, P) PROVE Placed(q \o ms, n, p, P)
  <2> DEFINE r == q \o ms
  <2>1. \A i \in 1..n : r[i] = q[i]
    OBVIOUS
  <2> HIDE DEF r
  <2>2. ASSUME NEW i \in 1..n, "move" \in DOMAIN r[i],
               \A j \in (i + 1)..n : "move" \notin DOMAIN r[j]
        PROVE  r[i].move = p
    <3>1. \A j \in (i + 1)..n : r[j] = q[j]
      BY <2>1
    <3> QED
      BY <1>1, <2>1, <2>2, <3>1 DEF Placed
  <2>3. (\A i \in 1..n : "move" \notin DOMAIN r[i]) => p \in P
    BY <1>1, <2>1 DEF Placed
  <2> QED
    BY <2>2, <2>3 DEF Placed, r
<1>2. ASSUME \A i \in DOMAIN ms : "move" \notin DOMAIN ms[i], Placed(q, Len(q), p, P),
             NEW n \in Len(q)..Len(q \o ms)
      PROVE  Placed(q \o ms, n, p, P)
  <2> DEFINE r == q \o ms
  <2>1. \A i \in 1..Len(q) : r[i] = q[i]
    OBVIOUS
  <2>2. \A i \in (Len(q) + 1)..n : "move" \notin DOMAIN r[i]
    <3>1. \A i \in (Len(q) + 1)..n : i - Len(q) \in DOMAIN ms /\ r[i] = ms[i - Len(q)]
      OBVIOUS
    <3> QED
      BY <1>2, <3>1
  <2> HIDE DEF r
  <2>3. ASSUME NEW i \in 1..n, "move" \in DOMAIN r[i],
               \A j \in (i + 1)..n : "move" \notin DOMAIN r[j]
        PROVE  r[i].move = p
    <3>1. i \in 1..Len(q)
      BY <2>2, <2>3
    <3>2. \A j \in (i + 1)..Len(q) : j \in (i + 1)..n /\ r[j] = q[j]
      BY <2>1
    <3> QED
      BY <1>2, <2>1, <2>3, <3>1, <3>2 DEF Placed
  <2>4. (\A i \in 1..n : "move" \notin DOMAIN r[i]) => p \in P
    <3>1. \A i \in 1..Len(q) : i \in 1..n
      OBVIOUS
    <3> QED
      BY <1>2, <2>1, <3>1 DEF Placed
  <2> QED
    BY <2>3, <2>4 DEF Placed, r
<1>3. ASSUME NEW m, "move" \in DOMAIN m, m.move = p
      PROVE  Placed(Append(q, m), Len(q) + 1, p, P)
  <2> DEFINE r == Append(q, m)
             n == Len(q) + 1
  <2>1. r[n] = m /\ n \in Nat \ {0}
    OBVIOUS
  <2> HIDE DEF r, n
  <2>2. \A i \in 1..n : i # n => n \in (i + 1)..n
    BY <2>1
  <2>3. Placed(r, n, p, P)
    BY <1>3, <2>1, <2>2 DEF Placed
  <2> QED
    BY <2>3 DEF r, n
<1> QED
  BY <1>1, <1>2, <1>3

\* A place that is one of more places.
LEMMA PlacedIn ==
  ASSUME NEW q, NEW n, NEW p, NEW P, NEW R, Placed(q, n, p, P), P \subseteq R
  PROVE  Placed(q, n, p, R)
BY DEF Placed

\* The messages that wait keep their places when one is handled ...
LEMMA PlaceHandled ==
  ASSUME InputTypeOK, PlaceInv, Handles,
         "move" \in DOMAIN Head(msgs) => Head(msgs).move \in Standing',
         "move" \notin DOMAIN Head(msgs) => Standing \subseteq Standing'
  PROVE  PlaceInv'
<1>1. msgs \in Seq(Messages \cup PointerMessages) /\ msgs # <<>> /\ msgs' = Tail(msgs) /\ mouse' = mouse
  BY TypeFacts DEF Handles
<1>2. ASSUME NEW n \in 1..Len(msgs), NEW p, Placed(msgs, n, p, Standing)
      PROVE  Placed(msgs', n - 1, p, Standing')
  BY <1>1, <1>2, PlacedTail
<1>3. Len(msgs') = Len(msgs) - 1 /\ Len(msgs) \in 1..Len(msgs)
  BY <1>1
<1>4. \A i \in DOMAIN msgs' : i + 1 \in 1..Len(msgs) /\ (i + 1) - 1 = i /\ msgs'[i] = msgs[i + 1]
  BY <1>1
<1>5. ASSUME NEW i \in DOMAIN msgs', "button" \in DOMAIN msgs'[i]
      PROVE  Placed(msgs', i, msgs'[i].at, Standing')
  <2>1. Placed(msgs, i + 1, msgs[i + 1].at, Standing)
    BY <1>1, <1>4, <1>5 DEF PlaceInv
  <2> QED
    BY <1>2, <1>4, <2>1
<1>6. mouse'.at # Nowhere => Placed(msgs', Len(msgs'), mouse'.at, Standing')
  BY <1>1, <1>2, <1>3 DEF PlaceInv
<1> QED
  BY <1>5, <1>6 DEF PlaceInv

\* ... when messages follow that do not move, with a click at the mouse ...
LEMMA PlaceSent ==
  ASSUME InputTypeOK, PlaceInv, NEW ms \in Seq(Messages \cup PointerMessages),
         msgs' = msgs \o ms, mouse'.at = mouse.at, Standing' = Standing,
         \A i \in DOMAIN ms : /\ "move" \notin DOMAIN ms[i]
                              /\ "button" \in DOMAIN ms[i] => mouse.at # Nowhere /\ ms[i].at = mouse.at
  PROVE  PlaceInv'
<1>1. msgs \in Seq(Messages \cup PointerMessages)
  BY TypeFacts
<1>2. /\ \A i \in DOMAIN msgs : i \in DOMAIN msgs' /\ msgs'[i] = msgs[i] /\ i \in 0..Len(msgs)
      /\ \A i \in DOMAIN msgs' \ DOMAIN msgs :
           /\ i - Len(msgs) \in DOMAIN ms /\ msgs'[i] = ms[i - Len(msgs)]
           /\ i \in Len(msgs)..Len(msgs')
      /\ Len(msgs') \in Len(msgs)..Len(msgs')
  BY <1>1
<1>3. mouse.at # Nowhere => \A n \in Len(msgs)..Len(msgs') : Placed(msgs', n, mouse.at, Standing)
  BY <1>1, PlacedMore DEF PlaceInv
<1>4. ASSUME NEW i \in DOMAIN msgs', "button" \in DOMAIN msgs'[i]
      PROVE  Placed(msgs', i, msgs'[i].at, Standing)
  <2>1. CASE i \in DOMAIN msgs
    <3>1. Placed(msgs, i, msgs[i].at, Standing)
      BY <1>2, <1>4, <2>1 DEF PlaceInv
    <3> QED
      BY <1>1, <1>2, <2>1, <3>1, PlacedMore
  <2>2. CASE i \notin DOMAIN msgs
    BY <1>2, <1>3, <1>4, <2>2
  <2> QED
    BY <2>1, <2>2
<1> QED
  BY <1>2, <1>3, <1>4 DEF PlaceInv

\* ... and when the mouse moves.
LEMMA PlaceMoved ==
  ASSUME InputTypeOK, PlaceInv, NEW p \in Places,
         msgs' = Append(msgs, [move |-> p]), mouse'.at = p, Standing' = Standing
  PROVE  PlaceInv'
<1> DEFINE m == [move |-> p]
<1>1. msgs \in Seq(Messages \cup PointerMessages) /\ m \in Messages \cup PointerMessages
  BY TypeFacts DEF PointerMessages
<1>2. "move" \in DOMAIN m /\ m.move = p /\ "button" \notin DOMAIN m /\ msgs' = Append(msgs, m)
  OBVIOUS
<1> HIDE DEF m
<1> DEFINE ms == <<m>>
<1>3. ms \in Seq(Messages \cup PointerMessages) /\ Append(msgs, m) = msgs \o ms
  BY <1>1
<1> HIDE DEF ms
<1>4. Len(msgs') = Len(msgs) + 1
  BY <1>1, <1>2
<1>5. Placed(msgs', Len(msgs'), p, Standing)
  BY <1>1, <1>2, <1>4, PlacedMore
<1>6. \A i \in DOMAIN msgs' : msgs'[i] = m \/ (i \in DOMAIN msgs /\ msgs'[i] = msgs[i] /\ i \in 0..Len(msgs))
  BY <1>1, <1>2
<1>7. ASSUME NEW i \in DOMAIN msgs', "button" \in DOMAIN msgs'[i]
      PROVE  Placed(msgs', i, msgs'[i].at, Standing)
  <2>1. i \in DOMAIN msgs /\ msgs'[i] = msgs[i] /\ i \in 0..Len(msgs)
    BY <1>2, <1>6, <1>7
  <2>2. Placed(msgs, i, msgs[i].at, Standing)
    BY <1>7, <2>1 DEF PlaceInv
  <2> QED
    BY <1>1, <1>2, <1>3, <2>1, <2>2, PlacedMore
<1> QED
  BY <1>5, <1>7 DEF PlaceInv

\* The messages of the keyboard neither move nor click.
LEMMA NotOfMouse ==
  ASSUME NEW m \in Messages
  PROVE  "move" \notin DOMAIN m /\ "button" \notin DOMAIN m
BY DEF Messages, Events, Layout

\* The places stay right after every step.
LEMMA PlaceKept ==
  ASSUME InputTypeOK, HasPointed, PlaceInv, [InputNext]_inputVars
  PROVE  PlaceInv'
<1>0. /\ size \in Sizes /\ msgs \in Seq(Messages \cup PointerMessages)
      /\ pointer \in [mask : SUBSET Buttons, at : Nat \X Nat]
      /\ mouse \in [held : SUBSET Buttons, at : Places \cup {Nowhere}]
  BY TypeFacts
<1>1. /\ pointer'.at = pointer.at /\ aside' = aside /\ size' = size => Standing' = Standing
      /\ aside' => Standing \subseteq Standing'
  BY DEF Standing, Bound
<1>2. ASSUME KeysReported PROVE PlaceInv'
  <2>1. Handles /\ "move" \notin DOMAIN Head(msgs) /\ Standing' = Standing
    BY <1>1, <1>2 DEF KeysReported, Handles, OfKeyboard
  <2> QED
    BY <2>1, PlaceHandled
<1>3. ASSUME MouseReported PROVE PlaceInv'
  <2> DEFINE m == Head(msgs)
  <2>1. Handles /\ MouseStep(m) /\ m \in Messages \cup PointerMessages /\ size' = size
    BY <1>3 DEF MouseReported, Handles
  <2>2. CASE "move" \in DOMAIN m /\ m.move \in Nat \X Nat /\ MotionStep(Bound(m.move))
    <3>1. aside' \/ pointer'.at = Bound(m.move)
      BY <1>0, <2>2 DEF MotionStep
    <3>2. m.move \in Standing'
      BY <2>1, <2>2, <3>1 DEF Standing, Bound
    <3> QED
      BY <2>1, <2>2, <3>2, PlaceHandled
  <2>3. CASE "move" \notin DOMAIN m /\ pointer'.at = pointer.at /\ aside' = aside
    BY <1>1, <2>1, <2>3, PlaceHandled
  <2>4. ASSUME NEW b, NEW k, NEW at, ButtonStep(b, k, at)
        PROVE  pointer'.at = pointer.at /\ aside' = aside
    BY <1>0, <2>4 DEF ButtonStep
  <2>5. ASSUME "button" \in DOMAIN m \/ "wheel" \in DOMAIN m PROVE "move" \notin DOMAIN m
    BY <2>1, <2>5, MessageFacts
  <2> QED
    BY <2>1, <2>2, <2>3, <2>4, <2>5 DEF MouseStep, PtrAddScrollEvent
<1>4. ASSUME QueueProcessed \/ SpriteMoved \/ ScreenResized PROVE PlaceInv'
  <2>1. UNCHANGED <<msgs, mouse>>
    BY <1>4 DEF QueueProcessed, SpriteMoved, ScreenResized
  <2>2. Standing \subseteq Standing'
    BY <1>1, <1>4 DEF QueueProcessed, SpriteMoved, ScreenResized
  <2> QED
    BY <2>1, <2>2, PlacedIn DEF PlaceInv
<1>5. ASSUME ClientReplaced PROVE PlaceInv'
  <2>1. msgs' \in Seq(Messages) /\ mouse'.at = Nowhere
    BY <1>5 DEF ClientReplaced
  <2>2. \A i \in DOMAIN msgs' : "button" \notin DOMAIN msgs'[i]
    BY <2>1, NotOfMouse
  <2> QED
    BY <2>1, <2>2 DEF PlaceInv
<1>6. ASSUME UserSends PROVE PlaceInv'
  <2>1. Standing' = Standing
    BY <1>1, <1>6 DEF UserSends
  <2>2. ASSUME NEW ms \in Seq(Messages), msgs' = msgs \o ms, UNCHANGED mouse PROVE PlaceInv'
    <3>1. ms \in Seq(Messages \cup PointerMessages)
      BY <1>0, <2>2
    <3>2. \A i \in DOMAIN ms : "move" \notin DOMAIN ms[i] /\ "button" \notin DOMAIN ms[i]
      BY <2>2, NotOfMouse
    <3> QED
      BY <2>1, <2>2, <3>1, <3>2, PlaceSent
  <2>3. ASSUME NEW p \in Places, msgs' = Append(msgs, [move |-> p]), mouse' = [mouse EXCEPT !.at = p]
        PROVE  PlaceInv'
    <3>1. mouse'.at = p
      BY <1>0, <2>3
    <3> QED
      BY <2>1, <2>3, <3>1, PlaceMoved
  <2>4. ASSUME NEW m \in PointerMessages, msgs' = Append(msgs, m), mouse'.at = mouse.at,
               "move" \notin DOMAIN m,
               "button" \in DOMAIN m => mouse.at # Nowhere /\ m.at = mouse.at
        PROVE  PlaceInv'
    <3> DEFINE ms == <<m>>
    <3>1. ms \in Seq(Messages \cup PointerMessages) /\ msgs' = msgs \o ms
      BY <1>0, <2>4
    <3>2. \A i \in DOMAIN ms : ms[i] = m
      OBVIOUS
    <3> HIDE DEF ms
    <3> QED
      BY <2>1, <2>4, <3>1, <3>2, PlaceSent
  <2>5. ASSUME NEW b \in Buttons, mouse.at \in Places,
               msgs' = Append(msgs, [button |-> b, down |-> b \notin mouse.held, at |-> mouse.at]),
               mouse' = [mouse EXCEPT !.held = IF b \in @ THEN @ \ {b} ELSE @ \cup {b}]
        PROVE  PlaceInv'
    <3> DEFINE m == [button |-> b, down |-> b \notin mouse.held, at |-> mouse.at]
    <3>1. m \in PointerMessages /\ "move" \notin DOMAIN m /\ m.at = mouse.at
      BY <2>5 DEF PointerMessages
    <3>2. mouse'.at = mouse.at /\ mouse.at # Nowhere
      BY <1>0, <2>5, InputAssumption DEF Nowhere
    <3> HIDE DEF m
    <3>3. msgs' = Append(msgs, m)
      BY <2>5 DEF m
    <3> QED
      BY <2>4, <3>1, <3>2, <3>3
  <2>6. ASSUME NEW d \in Deltas, NEW v \in BOOLEAN,
               msgs' = Append(msgs, [wheel |-> d, vertical |-> v]), UNCHANGED mouse
        PROVE  PlaceInv'
    <3>1. /\ [wheel |-> d, vertical |-> v] \in PointerMessages
          /\ {"move", "button"} \cap DOMAIN [wheel |-> d, vertical |-> v] = {}
      BY DEF PointerMessages
    <3> QED
      BY <2>4, <2>6, <3>1
  <2>7. UNCHANGED <<msgs, mouse>> => PlaceInv'
    BY <2>1 DEF PlaceInv
  <2> QED
    BY <1>6, <2>2, <2>3, <2>5, <2>6, <2>7 DEF UserSends
<1> QED
  BY <1>2, <1>3, <1>4, <1>5, <1>6, PointerSteps

-----------------------------------------------------------------------------
(* Presses land where the user pointed, and wheels turn as he turns them. *)

IsPress(e) == "button" \in DOMAIN e /\ e.down /\ e.at # Nowhere

\* From a sprite s, the presses of q land where they should.
PressesAt(z, s, q) ==
  \A i \in DOMAIN q : IsPress(q[i]) => After(z, s, SubSeq(q, 1, i)).at = OnScreen(q[i].at, z)

ScrollsAlong(e) ==
  "scroll" \in DOMAIN e =>
    LET steps == IF e.vertical THEN -e.scroll ELSE e.scroll
    IN (steps > 0 <=> e.of > 0) /\ steps # 0

PressesInv ==
  /\ PressesAt(size, sprite, queue)
  /\ \A i \in DOMAIN queue : ScrollsAlong(queue[i])

\* The first events of a longer queue.
LEMMA FirstEvents ==
  ASSUME NEW q \in Seq(AllEvents), NEW r \in Seq(AllEvents), NEW i \in 1..Len(q)
  PROVE  /\ SubSeq(q, 1, i) \in Seq(AllEvents) /\ SubSeq(q, 1, Len(q)) = q
         /\ SubSeq(q \o r, 1, i) = SubSeq(q, 1, i)
<1>1. SubSeq(q, 1, i) \in Seq(AllEvents) /\ Len(SubSeq(q, 1, i)) = i
      /\ \A j \in 1..i : SubSeq(q, 1, i)[j] = q[j]
  BY SubSeqProperties
<1>2. q \o r \in Seq(AllEvents) /\ Len(q \o r) = Len(q) + Len(r) /\ \A j \in 1..i : (q \o r)[j] = q[j]
  OBVIOUS
<1>3. SubSeq(q \o r, 1, i) \in Seq(AllEvents) /\ Len(SubSeq(q \o r, 1, i)) = i
      /\ \A j \in 1..i : SubSeq(q \o r, 1, i)[j] = (q \o r)[j]
  <2>1. i \in 1..Len(q \o r)
    BY <1>2
  <2> QED
    BY <1>2, <2>1, SubSeqProperties
<1>4. SubSeq(q \o r, 1, i) = SubSeq(q, 1, i)
  BY <1>1, <1>2, <1>3, SeqEqual
<1>5. SubSeq(q, 1, Len(q)) = q
  <2>1. Len(q) \in 1..Len(q) /\ 1 \in 1..Len(q) + 1
    OBVIOUS
  <2>2. /\ SubSeq(q, 1, Len(q)) \in Seq(AllEvents) /\ Len(SubSeq(q, 1, Len(q))) = Len(q)
        /\ \A j \in 1..Len(q) : SubSeq(q, 1, Len(q))[j] = q[j]
    BY <2>1, SubSeqProperties
  <2> QED
    BY <2>2, SeqEqual
<1> QED
  BY <1>1, <1>4, <1>5

\* One more event, which lands where it should if it is a press.
LEMMA PressesAppend ==
  ASSUME NEW z, NEW s, NEW q \in Seq(AllEvents), NEW e \in AllEvents, PressesAt(z, s, q),
         IsPress(e) => After(z, s, Append(q, e)).at = OnScreen(e.at, z)
  PROVE  PressesAt(z, s, Append(q, e))
<1> DEFINE r == <<e>>
           t == Append(q, e)
<1>1. t = q \o r /\ r \in Seq(AllEvents) /\ t \in Seq(AllEvents) /\ Len(t) = Len(q) + 1 /\ t[Len(t)] = e
      /\ \A i \in 1..Len(q) : t[i] = q[i]
  OBVIOUS
<1> HIDE DEF r, t
<1>2. ASSUME NEW i \in DOMAIN t, IsPress(t[i])
      PROVE  After(z, s, SubSeq(t, 1, i)).at = OnScreen(t[i].at, z)
  <2>1. CASE i = Len(t)
    <3>1. SubSeq(t, 1, i) = t
      BY <1>1, <2>1, FirstEvents
    <3> QED
      BY <1>1, <1>2, <2>1, <3>1 DEF t
  <2>2. CASE i # Len(t)
    <3>1. i \in 1..Len(q)
      BY <1>1, <2>2
    <3>2. SubSeq(t, 1, i) = SubSeq(q, 1, i)
      BY <1>1, <3>1, FirstEvents
    <3>3. i \in DOMAIN q /\ t[i] = q[i]
      BY <1>1, <3>1
    <3>4. After(z, s, SubSeq(q, 1, i)).at = OnScreen(q[i].at, z)
      BY <1>2, <3>3 DEF PressesAt, IsPress
    <3> QED
      BY <3>2, <3>3, <3>4
  <2> QED
    BY <2>1, <2>2
<1>3. PressesAt(z, s, t)
  BY <1>2 DEF PressesAt
<1> QED
  BY <1>3 DEF t

\* More keys.
LEMMA PressesKeys ==
  ASSUME NEW z, NEW s, NEW q \in Seq(AllEvents), NEW r \in Seq(Events), PressesAt(z, s, q)
  PROVE  PressesAt(z, s, q \o r)
<1> DEFINE t == q \o r
<1>1. /\ r \in Seq(AllEvents) /\ \A i \in 1..Len(q) : t[i] = q[i]
      /\ \A i \in DOMAIN t : i \in 1..Len(q) \/ t[i] \in Events
  BY DEF AllEvents
<1>2. \A i \in 1..Len(q) : SubSeq(t, 1, i) = SubSeq(q, 1, i)
  BY <1>1, FirstEvents
<1>3. \A e \in Events : ~IsPress(e)
  BY DEF Events, IsPress
<1>4. \A i \in 1..Len(q) : i \in DOMAIN q
  OBVIOUS
<1> HIDE DEF t
<1>5. ASSUME NEW i \in DOMAIN t, IsPress(t[i])
      PROVE  After(z, s, SubSeq(t, 1, i)).at = OnScreen(t[i].at, z)
  <2>1. i \in 1..Len(q)
    BY <1>1, <1>3, <1>5
  <2>2. t[i] = q[i] /\ i \in DOMAIN q /\ SubSeq(t, 1, i) = SubSeq(q, 1, i)
    BY <1>1, <1>2, <1>4, <2>1
  <2>3. After(z, s, SubSeq(q, 1, i)).at = OnScreen(q[i].at, z)
    BY <1>5, <2>2 DEF PressesAt, IsPress
  <2> QED
    BY <2>2, <2>3
<1>6. PressesAt(z, s, t)
  BY <1>5 DEF PressesAt
<1> QED
  BY <1>6 DEF t

\* Another size of the screen, when the events are on the one before.
LEMMA PressesResize ==
  ASSUME NEW z \in Sizes, NEW y \in Sizes, NEW s \in Sprites, NEW q \in Seq(AllEvents),
         PressesAt(z, s, q), \A i \in DOMAIN q : Inside(q[i], z),
         NEW t, t = [s EXCEPT !.at = OnScreen(@, y)]
  PROVE  PressesAt(y, t, q)
<1>1. ASSUME NEW i \in DOMAIN q, IsPress(q[i])
      PROVE  After(y, t, SubSeq(q, 1, i)).at = OnScreen(q[i].at, y)
  <2> DEFINE r == SubSeq(q, 1, i)
  <2>1. /\ r \in Seq(AllEvents) /\ Len(r) = i /\ \A j \in 1..i : r[j] = q[j]
    BY SubSeqProperties
  <2> HIDE DEF r
  <2>2. \A j \in DOMAIN r : "motion" \in DOMAIN r[j] => OnScreen(r[j].motion, z) = r[j].motion
    BY <2>1 DEF Inside
  <2>3. After(y, t, r).at = OnScreen(After(z, s, r).at, y)
    BY <2>1, <2>2, AfterResize
  <2>4. After(z, s, r).at = q[i].at
    BY <1>1 DEF PressesAt, r, Inside, IsPress
  <2> QED
    BY <2>3, <2>4 DEF r
<1> QED
  BY <1>1 DEF PressesAt

\* The pointer is where the mouse was when the button of the next message moved.
LEMMA HeadPlaced ==
  ASSUME InputTypeOK, PlaceInv, msgs # <<>>, "button" \in DOMAIN Head(msgs), ~aside
  PROVE  pointer.at = Bound(Head(msgs).at)
<1>1. /\ msgs \in Seq(Messages \cup PointerMessages) /\ Head(msgs) = msgs[1] /\ 1 \in DOMAIN msgs
      /\ Head(msgs) \in Messages \cup PointerMessages
  BY TypeFacts
<1>2. "move" \notin DOMAIN msgs[1]
  BY <1>1, MessageFacts
<1>3. Placed(msgs, 1, msgs[1].at, Standing)
  BY <1>1 DEF PlaceInv
<1>4. \A i \in 1..1 : i = 1
  OBVIOUS
<1> QED
  BY <1>1, <1>2, <1>3, <1>4 DEF Placed, Standing

\* What the mouse queues lands where it should.
LEMMA MousePresses ==
  ASSUME InputTypeOK, SpriteInv, PressesInv, NEW m, MouseStep(m), UNCHANGED <<sprite, size>>,
         "button" \in DOMAIN m /\ ~aside => pointer.at = Bound(m.at)
  PROVE  PressesInv'
<1> DEFINE s == After(size, sprite, queue)
<1>1. /\ size \in Sizes /\ sprite \in Sprites /\ queue \in Seq(AllEvents)
      /\ pointer \in [mask : SUBSET Buttons, at : Nat \X Nat] /\ aside \in BOOLEAN
  BY TypeFacts
<1>2. ASSUME NEW e \in AllEvents, queue' = Append(queue, e), ScrollsAlong(e),
             IsPress(e) => ProcessAt(size, s, e).at = OnScreen(e.at, size)
      PROVE  PressesInv'
  <2>1. After(size, sprite, Append(queue, e)) = ProcessAt(size, s, e)
    BY <1>1, AfterAppend
  <2>2. IsPress(e) => After(size, sprite, Append(queue, e)).at = OnScreen(e.at, size)
    BY <1>2, <2>1
  <2>3. PressesAt(size, sprite, Append(queue, e))
    BY <1>1, <2>2, PressesAppend DEF PressesInv
  <2>4. PressesAt(size', sprite', queue')
    BY <1>2, <2>3
  <2>5. \A i \in DOMAIN queue' : queue'[i] = e \/ (i \in DOMAIN queue /\ queue'[i] = queue[i])
    BY <1>1, <1>2
  <2>6. \A i \in DOMAIN queue' : ScrollsAlong(queue'[i])
    <3>1. ASSUME NEW i \in DOMAIN queue' PROVE ScrollsAlong(queue'[i])
      <4>1. CASE queue'[i] = e
        BY <1>2, <4>1
      <4>2. CASE i \in DOMAIN queue /\ queue'[i] = queue[i]
        <5>1. ScrollsAlong(queue[i])
          BY <4>2 DEF PressesInv
        <5> QED
          BY <4>2, <5>1
      <4> QED
        BY <2>5, <4>1, <4>2
    <3> QED
      BY <3>1
  <2> QED
    BY <2>4, <2>6 DEF PressesInv
<1>3. ASSUME queue' = queue PROVE PressesInv'
  BY <1>3 DEF PressesInv
<1>4. ASSUME "move" \in DOMAIN m, m.move \in Nat \X Nat, MotionStep(Bound(m.move)), queue' # queue
      PROVE  PressesInv'
  <2> DEFINE e == [motion |-> Bound(m.move)]
  <2>1. Bound(m.move) \in Nat \X Nat
    BY <1>1, <1>4, BoundFacts
  <2>2. e \in AllEvents /\ ~IsPress(e) /\ ScrollsAlong(e)
    BY <2>1 DEF AllEvents, PointerEvents, IsPress, ScrollsAlong
  <2>3. queue' = Append(queue, e)
    BY <1>4 DEF MotionStep
  <2> HIDE DEF e
  <2> QED
    BY <1>2, <2>2, <2>3
<1>5. ASSUME NEW k, "button" \in DOMAIN m, m.at \in Nat \X Nat, m.button \in Buttons,
             ButtonStep(m.button, k, m.at), queue' # queue
      PROVE  PressesInv'
  <2> DEFINE e == ButtonEvent(m.button, k, m.at)
  <2>1. Bound(m.at) \in Nat \X Nat /\ OnScreen(Bound(m.at), size) = Bound(m.at)
    BY <1>1, <1>5, BoundFacts
  <2>2. e \in AllEvents /\ ScrollsAlong(e)
    BY <1>5, <2>1 DEF ButtonEvent, AllEvents, PointerEvents, ScrollsAlong
  <2>3. queue' = Append(queue, e)
    BY <1>5 DEF ButtonStep
  <2>4. ASSUME IsPress(e) PROVE ProcessAt(size, s, e).at = OnScreen(e.at, size)
    <3>1. ~aside /\ e.at = Bound(m.at)
      BY <2>4 DEF IsPress, ButtonEvent
    <3>2. s.at = OnScreen(pointer.at, size) /\ pointer.at = Bound(m.at)
      BY <1>5, <3>1 DEF SpriteInv
    <3>3. ProcessAt(size, s, e) =
            [s EXCEPT !.buttons = IF m.button \in k THEN @ \cup {m.button} ELSE @ \ {m.button}]
      BY DEF ProcessAt, ButtonEvent
    <3>4. s \in Sprites
      BY <1>1, <2>2, AfterAppend
    <3>5. ProcessAt(size, s, e).at = s.at
      BY <3>3, <3>4 DEF Sprites
    <3> QED
      BY <3>1, <3>2, <3>5
  <2> HIDE DEF e
  <2> QED
    BY <1>2, <2>2, <2>3, <2>4
<1>6. ASSUME "wheel" \in DOMAIN m, m.wheel \in Deltas, m.vertical \in BOOLEAN, PtrAddScrollEvent(m)
      PROVE  PressesInv'
  <2> DEFINE e == ScrollEvent(m)
  <2>1. Scaled(m.wheel) \in Int /\ Scaled(m.wheel) # 0 /\ (Scaled(m.wheel) > 0 <=> m.wheel > 0)
    BY <1>6, InputAssumption, ScaledFacts
  <2>2. e \in AllEvents /\ ~IsPress(e)
    BY <1>6, <2>1 DEF ScrollEvent, AllEvents, PointerEvents, IsPress
  <2>3. ScrollsAlong(e)
    <3>1. (IF e.vertical THEN -e.scroll ELSE e.scroll) = Scaled(m.wheel) /\ e.of = m.wheel
      BY <2>1 DEF ScrollEvent
    <3> QED
      BY <2>1, <3>1 DEF ScrollsAlong
  <2>4. queue' = Append(queue, e)
    BY <1>6 DEF PtrAddScrollEvent, ScrollEvent
  <2> HIDE DEF e
  <2> QED
    BY <1>2, <2>2, <2>3, <2>4
<1> QED
  BY <1>3, <1>4, <1>5, <1>6 DEF MouseStep

\* Presses still land, and wheels still turn, after every step.
LEMMA PressesKept ==
  ASSUME InputTypeOK, HasPointed, QueueInv, SpriteInv, PlaceInv, PressesInv, [InputNext]_inputVars
  PROVE  PressesInv'
<1>0. /\ size \in Sizes /\ sprite \in Sprites /\ queue \in Seq(AllEvents)
      /\ handled \in Nat /\ ChecksPerWakeup \in 1..2
  BY TypeFacts
<1>1. ASSUME KeysReported PROVE PressesInv'
  <2>1. PICK r \in Seq(Events) : queue' = queue \o r
    BY <1>1 DEF KeysReported
  <2>2. UNCHANGED <<sprite, size>>
    BY <1>1 DEF KeysReported, Handles
  <2>3. PressesAt(size, sprite, queue')
    BY <1>0, <2>1, PressesKeys DEF PressesInv
  <2>4. \A i \in DOMAIN queue' : queue'[i] \in Events \/ (i \in DOMAIN queue /\ queue'[i] = queue[i])
    BY <1>0, <2>1
  <2>5. \A e \in Events : ScrollsAlong(e)
    BY DEF Events, ScrollsAlong
  <2>6. ASSUME NEW i \in DOMAIN queue' PROVE ScrollsAlong(queue'[i])
    <3>1. CASE queue'[i] \in Events
      BY <2>5, <3>1
    <3>2. CASE i \in DOMAIN queue /\ queue'[i] = queue[i]
      <4>1. ScrollsAlong(queue[i])
        BY <3>2 DEF PressesInv
      <4> QED
        BY <3>2, <4>1
    <3> QED
      BY <2>4, <3>1, <3>2
  <2> QED
    BY <2>2, <2>3, <2>6 DEF PressesInv
<1>2. ASSUME MouseReported PROVE PressesInv'
  <2>1. MouseStep(Head(msgs)) /\ msgs # <<>> /\ UNCHANGED <<sprite, size>>
    BY <1>2 DEF MouseReported, Handles
  <2> QED
    BY <2>1, HeadPlaced, MousePresses
<1>3. ASSUME QueueProcessed \/ SpriteMoved PROVE PressesInv'
  <2>1. queue' = <<>>
    BY <1>3 DEF QueueProcessed, SpriteMoved, QueueInv
  <2> QED
    BY <2>1 DEF PressesInv, PressesAt
<1>4. ASSUME ScreenResized PROVE PressesInv'
  <2>1. /\ handled < ChecksPerWakeup /\ size' \in Sizes /\ queue' = queue
        /\ sprite' = [sprite EXCEPT !.at = OnScreen(@, size')]
    BY <1>4 DEF ScreenResized
  <2>2. \A i \in DOMAIN queue : Inside(queue[i], size)
    BY <1>0, <2>1 DEF QueueInv
  <2>3. PressesAt(size', sprite', queue)
    BY <1>0, <2>1, <2>2, PressesResize DEF PressesInv
  <2> QED
    BY <2>1, <2>3 DEF PressesInv
<1>5. ASSUME ClientReplaced \/ UserSends PROVE PressesInv'
  <2>1. UNCHANGED <<queue, sprite, size>>
    BY <1>5 DEF ClientReplaced, UserSends
  <2> QED
    BY <2>1 DEF PressesInv
<1> QED
  BY <1>1, <1>2, <1>3, <1>4, <1>5, PointerSteps

-----------------------------------------------------------------------------
(* The buttons that the user holds. *)

About(m, b) == "button" \in DOMAIN m /\ m.button = b

\* The button b is in H, for the user, as the last message about it says, or as
\* it is in P, for the driver, when there is none and it has not gone astray.
Follows(q, b, H, P, A) ==
  /\ \A i \in 1..Len(q) :
       About(q[i], b) /\ (\A j \in (i + 1)..Len(q) : ~About(q[j], b)) => (q[i].down <=> b \in H)
  /\ (\A i \in 1..Len(q) : ~About(q[i], b)) => b \in A \/ (b \in P <=> b \in H)

HeldInv == \A b \in Buttons : Follows(msgs, b, mouse.held, pointer.mask, astray)

\* The first message is handled ...
LEMMA FollowsTail ==
  ASSUME NEW M, NEW q \in Seq(M), q # <<>>, NEW b, NEW H, NEW P, NEW A, Follows(q, b, H, P, A),
         NEW R, NEW B,
         About(Head(q), b) => b \in B \/ (b \in R <=> Head(q).down),
         ~About(Head(q), b) => (b \in A => b \in B) /\ (b \in R <=> b \in P)
  PROVE  Follows(Tail(q), b, H, R, B)
<1> DEFINE t == Tail(q)
           n == Len(q)
<1>1. /\ n \in Nat \ {0} /\ Len(t) = n - 1 /\ Head(q) = q[1] /\ 1 \in 1..n
      /\ \A i \in 1..(n - 1) : t[i] = q[i + 1]
      /\ \A j \in 2..n : t[j - 1] = q[j]
  OBVIOUS
<1>2. /\ \A i \in 1..n : About(q[i], b) /\ (\A j \in (i + 1)..n : ~About(q[j], b))
                           => (q[i].down <=> b \in H)
      /\ (\A i \in 1..n : ~About(q[i], b)) => b \in A \/ (b \in P <=> b \in H)
  BY DEF Follows
<1> HIDE DEF t, n
<1>3. ASSUME NEW i \in 1..(n - 1), About(t[i], b),
             \A j \in (i + 1)..(n - 1) : ~About(t[j], b)
      PROVE  t[i].down <=> b \in H
  <2>1. /\ i + 1 \in 1..n
        /\ \A j \in (i + 2)..n : j - 1 \in (i + 1)..(n - 1) /\ j \in 2..n
        /\ (i + 1) + 1 = i + 2
    BY <1>1
  <2>2. \A j \in (i + 2)..n : ~About(q[j], b)
    <3>1. ASSUME NEW j \in (i + 2)..n PROVE ~About(q[j], b)
      <4>1. t[j - 1] = q[j] /\ ~About(t[j - 1], b)
        BY <1>1, <1>3, <2>1
      <4> QED
        BY <4>1
    <3> QED
      BY <3>1
  <2>3. t[i] = q[i + 1]
    BY <1>1
  <2>4. About(q[i + 1], b)
    BY <1>3, <2>3
  <2>5. q[i + 1].down <=> b \in H
    BY <1>2, <2>1, <2>2, <2>4
  <2> QED
    BY <2>3, <2>5
<1>4. ASSUME \A i \in 1..(n - 1) : ~About(t[i], b)
      PROVE  b \in B \/ (b \in R <=> b \in H)
  <2>1. ASSUME NEW j \in 2..n PROVE ~About(q[j], b)
    <3>1. j - 1 \in 1..(n - 1)
      BY <1>1
    <3>2. t[j - 1] = q[j] /\ ~About(t[j - 1], b)
      BY <1>1, <1>4, <3>1
    <3> QED
      BY <3>2
  <2>2. CASE About(q[1], b)
    <3>1. \A j \in (1 + 1)..n : ~About(q[j], b)
      BY <2>1
    <3>2. q[1].down <=> b \in H
      BY <1>1, <1>2, <2>2, <3>1
    <3>3. b \in B \/ (b \in R <=> q[1].down)
      BY <1>1, <2>2
    <3> QED
      BY <3>2, <3>3
  <2>3. CASE ~About(q[1], b)
    <3>1. \A j \in 1..n : j = 1 \/ j \in 2..n
      BY <1>1
    <3>2. \A j \in 1..n : ~About(q[j], b)
      BY <2>1, <2>3, <3>1
    <3>3. b \in A \/ (b \in P <=> b \in H)
      BY <1>2, <3>2
    <3>4. (b \in A => b \in B) /\ (b \in R <=> b \in P)
      BY <1>1, <2>3
    <3> QED
      BY <3>3, <3>4
  <2> QED
    BY <2>2, <2>3
<1>5. Follows(t, b, H, R, B)
  BY <1>1, <1>3, <1>4 DEF Follows
<1> QED
  BY <1>5 DEF t

\* ... others are sent, that are not about the button ...
LEMMA FollowsMore ==
  ASSUME NEW M, NEW q \in Seq(M), NEW ms \in Seq(M), NEW b, NEW H, NEW P, NEW A,
         Follows(q, b, H, P, A), \A i \in 1..Len(ms) : ~About(ms[i], b)
  PROVE  Follows(q \o ms, b, H, P, A)
<1> DEFINE r == q \o ms
           n == Len(q)
           k == Len(r)
<1>1. /\ n \in Nat /\ k \in Nat /\ n <= k
      /\ \A i \in 1..n : r[i] = q[i]
      /\ \A i \in (n + 1)..k : i - n \in 1..Len(ms) /\ r[i] = ms[i - n]
  OBVIOUS
<1>2. /\ \A i \in 1..n : About(q[i], b) /\ (\A j \in (i + 1)..n : ~About(q[j], b))
                           => (q[i].down <=> b \in H)
      /\ (\A i \in 1..n : ~About(q[i], b)) => b \in A \/ (b \in P <=> b \in H)
  BY DEF Follows
<1> HIDE DEF n, r, k
<1>3. ASSUME NEW i \in (n + 1)..k PROVE ~About(r[i], b)
  <2>1. r[i] = ms[i - n] /\ i - n \in 1..Len(ms)
    BY <1>1
  <2>2. ~About(ms[i - n], b)
    BY <2>1
  <2> QED
    BY <2>1, <2>2
<1>4. ASSUME NEW i \in 1..k, About(r[i], b), \A j \in (i + 1)..k : ~About(r[j], b)
      PROVE  r[i].down <=> b \in H
  <2>1. i \in 1..n \/ i \in (n + 1)..k
    BY <1>1
  <2>2. i \in 1..n /\ r[i] = q[i]
    BY <1>1, <1>3, <1>4, <2>1
  <2>3. ASSUME NEW j \in (i + 1)..n PROVE ~About(q[j], b)
    <3>1. j \in (i + 1)..k /\ j \in 1..n
      BY <1>1, <2>2
    <3>2. ~About(r[j], b) /\ r[j] = q[j]
      BY <1>1, <1>4, <3>1
    <3> QED
      BY <3>2
  <2>4. About(q[i], b)
    BY <1>4, <2>2
  <2>5. q[i].down <=> b \in H
    BY <1>2, <2>2, <2>3, <2>4
  <2> QED
    BY <2>2, <2>5
<1>5. ASSUME \A i \in 1..k : ~About(r[i], b)
      PROVE  b \in A \/ (b \in P <=> b \in H)
  <2>1. ASSUME NEW i \in 1..n PROVE ~About(q[i], b)
    <3>1. i \in 1..k /\ r[i] = q[i]
      BY <1>1
    <3>2. ~About(r[i], b)
      BY <1>5, <3>1
    <3> QED
      BY <3>1, <3>2
  <2> QED
    BY <1>2, <2>1
<1>6. Follows(r, b, H, P, A)
  BY <1>4, <1>5 DEF Follows, k
<1> QED
  BY <1>6 DEF r

\* ... or one that is.
LEMMA FollowsLast ==
  ASSUME NEW M, NEW q \in Seq(M), NEW m, NEW b, NEW H, NEW P, NEW A,
         About(m, b), m.down <=> b \in H
  PROVE  Follows(Append(q, m), b, H, P, A)
<1> DEFINE r == Append(q, m)
           n == Len(r)
<1>1. n \in Nat \ {0} /\ r[n] = m /\ n \in 1..n
  OBVIOUS
<1> HIDE DEF n, r
<1>2. About(r[n], b) /\ (r[n].down <=> b \in H)
  BY <1>1
<1>3. ASSUME NEW i \in 1..n, \A j \in (i + 1)..n : ~About(r[j], b)
      PROVE  r[i].down <=> b \in H
  <2>1. i = n
    <3>1. i # n => n \in (i + 1)..n
      BY <1>1
    <3> QED
      BY <1>2, <1>3, <3>1
  <2> QED
    BY <1>2, <2>1
<1>4. Follows(r, b, H, P, A)
  BY <1>1, <1>2, <1>3 DEF Follows, n
<1> QED
  BY <1>4 DEF r

\* What the driver knows of a button when it handles a message.
LEMMA MouseHolds ==
  ASSUME InputTypeOK, NEW m, MouseStep(m), m \in Messages \cup PointerMessages, NEW b \in Buttons
  PROVE  /\ About(m, b) => b \in astray' \/ (b \in pointer'.mask <=> m.down)
         /\ ~About(m, b) => (b \in astray => b \in astray') /\ (b \in pointer'.mask <=> b \in pointer.mask)
<1>1. pointer \in [mask : SUBSET Buttons, at : Nat \X Nat] /\ astray \in SUBSET Buttons
  BY TypeFacts
<1>2. ASSUME "move" \in DOMAIN m \/ "wheel" \in DOMAIN m,
             pointer'.mask = pointer.mask, astray' = astray
      PROVE  /\ About(m, b) => b \in astray' \/ (b \in pointer'.mask <=> m.down)
             /\ ~About(m, b) => (b \in astray => b \in astray') /\ (b \in pointer'.mask <=> b \in pointer.mask)
  <2>1. "button" \notin DOMAIN m
    BY <1>2, MessageFacts
  <2> QED
    BY <1>2, <2>1 DEF About
<1>3. ASSUME NEW k, "button" \in DOMAIN m, ButtonStep(m.button, k, m.at),
             k = IF m.down THEN pointer.mask \cup {m.button} ELSE pointer.mask \ {m.button}
      PROVE  /\ About(m, b) => b \in astray' \/ (b \in pointer'.mask <=> m.down)
             /\ ~About(m, b) => (b \in astray => b \in astray') /\ (b \in pointer'.mask <=> b \in pointer.mask)
  <2>1. pointer'.mask = k
    BY <1>1, <1>3 DEF ButtonStep
  <2>2. astray' = astray \/ astray' = astray \ {m.button} \/ astray' = astray \cup {m.button}
    BY <1>3 DEF ButtonStep
  <2>3. CASE b = m.button
    <3>1. b \in k <=> m.down
      BY <1>3, <2>3
    <3> QED
      BY <1>3, <2>1, <2>3, <3>1 DEF About
  <2>4. CASE b # m.button
    <3>1. (b \in k <=> b \in pointer.mask) /\ (b \in astray => b \in astray')
      BY <1>3, <2>2, <2>4
    <3> QED
      BY <2>1, <2>4, <3>1 DEF About
  <2> QED
    BY <2>3, <2>4
<1>4. CASE "move" \in DOMAIN m /\ MotionStep(Bound(m.move))
  <2>1. pointer'.mask = pointer.mask /\ astray' = astray
    BY <1>1, <1>4 DEF MotionStep
  <2> QED
    BY <1>2, <1>4, <2>1
<1>5. CASE "wheel" \in DOMAIN m /\ PtrAddScrollEvent(m)
  <2>1. pointer'.mask = pointer.mask /\ astray' = astray
    BY <1>5 DEF PtrAddScrollEvent
  <2> QED
    BY <1>2, <1>5, <2>1
<1>6. CASE "button" \in DOMAIN m /\ m.down /\ ButtonStep(m.button, pointer.mask \cup {m.button}, m.at)
  BY <1>3, <1>6
<1>7. CASE "button" \in DOMAIN m /\ ~m.down /\ ButtonStep(m.button, pointer.mask \ {m.button}, m.at)
  BY <1>3, <1>7
<1> QED
  BY <1>4, <1>5, <1>6, <1>7 DEF MouseStep

\* The messages stay in step with what the user holds.
LEMMA HeldKept ==
  ASSUME InputTypeOK, HasPointed, HeldInv, [InputNext]_inputVars
  PROVE  HeldInv'
<1>0. /\ msgs \in Seq(Messages \cup PointerMessages)
      /\ pointer \in [mask : SUBSET Buttons, at : Nat \X Nat]
      /\ mouse \in [held : SUBSET Buttons, at : Places \cup {Nowhere}]
  BY TypeFacts
<1>1. SUFFICES ASSUME NEW b \in Buttons
               PROVE  Follows(msgs', b, mouse'.held, pointer'.mask, astray')
  BY DEF HeldInv
<1>2. Follows(msgs, b, mouse.held, pointer.mask, astray)
  BY DEF HeldInv
<1>3. CASE KeysReported
  <2>1. msgs # <<>> /\ msgs' = Tail(msgs) /\ UNCHANGED <<mouse, pointer, astray>> /\ ~About(Head(msgs), b)
    BY <1>3 DEF KeysReported, Handles, OfKeyboard, About
  <2> QED
    BY <1>0, <1>2, <2>1, FollowsTail
<1>4. CASE MouseReported
  <2>1. /\ msgs # <<>> /\ msgs' = Tail(msgs) /\ mouse' = mouse
        /\ MouseStep(Head(msgs)) /\ Head(msgs) \in Messages \cup PointerMessages
    BY <1>4 DEF MouseReported, Handles
  <2>2. /\ About(Head(msgs), b) => b \in astray' \/ (b \in pointer'.mask <=> Head(msgs).down)
        /\ ~About(Head(msgs), b) => (b \in astray => b \in astray')
                                    /\ (b \in pointer'.mask <=> b \in pointer.mask)
    BY <2>1, MouseHolds
  <2>3. Follows(Tail(msgs), b, mouse.held, pointer'.mask, astray')
    BY <1>0, <1>2, <2>1, <2>2, FollowsTail
  <2> QED
    BY <2>1, <2>3
<1>5. CASE QueueProcessed \/ SpriteMoved \/ ScreenResized
  <2>1. UNCHANGED <<msgs, mouse, pointer, astray>>
    BY <1>5 DEF QueueProcessed, SpriteMoved, ScreenResized
  <2> QED
    BY <1>2, <2>1
<1>6. CASE ClientReplaced
  <2>1. msgs' \in Seq(Messages) /\ mouse'.held = {} /\ pointer' = pointer /\ astray' = astray \cup pointer.mask
    BY <1>6 DEF ClientReplaced
  <2>2. \A i \in 1..Len(msgs') : ~About(msgs'[i], b)
    <3>1. \A i \in 1..Len(msgs') : msgs'[i] \in Messages
      BY <2>1
    <3> QED
      BY <3>1, NotOfMouse DEF About
  <2>3. b \in astray' \/ (b \in pointer'.mask <=> b \in mouse'.held)
    BY <2>1
  <2> QED
    BY <2>2, <2>3 DEF Follows
<1>7. CASE UserSends
  <2>1. pointer' = pointer /\ astray' = astray
    BY <1>7 DEF UserSends
  <2>2. ASSUME NEW ms \in Seq(Messages), msgs' = msgs \o ms, UNCHANGED mouse
        PROVE  Follows(msgs', b, mouse'.held, pointer'.mask, astray')
    <3>1. ms \in Seq(Messages \cup PointerMessages)
      BY <1>0, <2>2
    <3>2. \A i \in 1..Len(ms) : ~About(ms[i], b)
      <4>1. \A i \in 1..Len(ms) : ms[i] \in Messages
        BY <2>2
      <4> QED
        BY <4>1, NotOfMouse DEF About
    <3> QED
      BY <1>0, <1>2, <2>1, <2>2, <3>1, <3>2, FollowsMore
  <2>3. ASSUME NEW m \in PointerMessages, msgs' = Append(msgs, m), ~About(m, b),
               b \in mouse'.held <=> b \in mouse.held
        PROVE  Follows(msgs', b, mouse'.held, pointer'.mask, astray')
    <3> DEFINE ms == <<m>>
    <3>1. ms \in Seq(Messages \cup PointerMessages) /\ msgs' = msgs \o ms
      BY <1>0, <2>3
    <3>2. \A i \in 1..Len(ms) : ms[i] = m
      OBVIOUS
    <3> HIDE DEF ms
    <3>3. \A i \in 1..Len(ms) : ~About(ms[i], b)
      <4>1. ASSUME NEW i \in 1..Len(ms) PROVE ~About(ms[i], b)
        BY <2>3, <3>2
      <4> QED
        BY <4>1
    <3>4. Follows(msgs', b, mouse.held, pointer.mask, astray)
      BY <1>0, <1>2, <3>1, <3>3, FollowsMore
    <3> QED
      BY <2>1, <2>3, <3>4 DEF Follows
  <2>4. ASSUME NEW p \in Places, msgs' = Append(msgs, [move |-> p]), mouse' = [mouse EXCEPT !.at = p]
        PROVE  Follows(msgs', b, mouse'.held, pointer'.mask, astray')
    <3>1. [move |-> p] \in PointerMessages /\ ~About([move |-> p], b)
      BY DEF PointerMessages, About
    <3>2. mouse'.held = mouse.held
      BY <1>0, <2>4
    <3> QED
      BY <2>3, <2>4, <3>1, <3>2
  <2>5. ASSUME NEW c \in Buttons, mouse.at \in Places,
               msgs' = Append(msgs, [button |-> c, down |-> c \notin mouse.held, at |-> mouse.at]),
               mouse' = [mouse EXCEPT !.held = IF c \in @ THEN @ \ {c} ELSE @ \cup {c}]
        PROVE  Follows(msgs', b, mouse'.held, pointer'.mask, astray')
    <3> DEFINE m == [button |-> c, down |-> c \notin mouse.held, at |-> mouse.at]
    <3>1. /\ m \in PointerMessages /\ (About(m, b) <=> c = b)
          /\ m.down <=> c \notin mouse.held
      BY <2>5 DEF PointerMessages, About
    <3>2. mouse'.held = IF c \in mouse.held THEN mouse.held \ {c} ELSE mouse.held \cup {c}
      BY <1>0, <2>5
    <3> HIDE DEF m
    <3>3. msgs' = Append(msgs, m)
      BY <2>5 DEF m
    <3>4. CASE c = b
      <4>1. About(m, b) /\ (m.down <=> b \in mouse'.held)
        BY <3>1, <3>2, <3>4
      <4>2. Follows(Append(msgs, m), b, mouse'.held, pointer'.mask, astray')
        BY <1>0, <4>1, FollowsLast
      <4> QED
        BY <3>3, <4>2
    <3>5. CASE c # b
      <4>1. ~About(m, b) /\ (b \in mouse'.held <=> b \in mouse.held)
        BY <3>1, <3>2, <3>5
      <4> QED
        BY <2>3, <3>1, <3>3, <4>1
    <3> QED
      BY <3>4, <3>5
  <2>6. ASSUME NEW d \in Deltas, NEW v \in BOOLEAN,
               msgs' = Append(msgs, [wheel |-> d, vertical |-> v]), UNCHANGED mouse
        PROVE  Follows(msgs', b, mouse'.held, pointer'.mask, astray')
    <3>1. [wheel |-> d, vertical |-> v] \in PointerMessages /\ ~About([wheel |-> d, vertical |-> v], b)
      BY DEF PointerMessages, About
    <3> QED
      BY <2>3, <2>6, <3>1
  <2>7. CASE UNCHANGED <<msgs, mouse>>
    BY <1>2, <2>1, <2>7
  <2> QED
    BY <1>7, <2>2, <2>4, <2>5, <2>6, <2>7 DEF UserSends
<1> QED
  BY <1>3, <1>4, <1>5, <1>6, <1>7, PointerSteps

-----------------------------------------------------------------------------
(* The theorems. *)

PointerInv ==
  /\ InputTypeOK
  /\ HasPointed
  /\ QueueInv
  /\ SpriteInv
  /\ PlaceInv
  /\ PressesInv
  /\ HeldInv

\* The invariant holds at first ...
LEMMA PointerInit == InputInit => PointerInv
<1> SUFFICES ASSUME InputInit PROVE PointerInv
  OBVIOUS
<1>1. InputTypeOK
  BY TypesAtInit
<1>2. /\ msgs = <<>> /\ queue = <<>> /\ aside = TRUE /\ astray = {}
      /\ mouse = [held |-> {}, at |-> Nowhere] /\ pointer.mask = {} /\ sprite.buttons = {}
  BY DEF InputInit, Init
<1>3. HasPointed /\ QueueInv /\ PlaceInv /\ PressesInv
  BY <1>2 DEF HasPointed, QueueInv, PlaceInv, PressesInv, PressesAt
<1>4. SpriteInv
  <2>1. [motion |-> <<0, 0>>] \in AllEvents
    BY DEF AllEvents, PointerEvents
  <2>2. size \in Sizes /\ sprite \in Sprites /\ queue \in Seq(AllEvents)
    BY <1>1, TypeFacts
  <2>3. After(size, sprite, queue) = sprite
    BY <1>2, <2>1, <2>2, AfterAppend
  <2> QED
    BY <1>2, <2>3 DEF SpriteInv
<1>5. HeldInv
  BY <1>2 DEF HeldInv, Follows
<1> QED
  BY <1>1, <1>3, <1>4, <1>5 DEF PointerInv

\* ... and after every step.
LEMMA PointerKept == PointerInv /\ [InputNext]_inputVars => PointerInv'
BY TypesKept, PointedKept, QueueKept, SpriteKept, PlaceKept, PressesKept, HeldKept DEF PointerInv

\* A press reaches the X server with the sprite where the user pointed, unless
\* something has moved it since the driver did, and every turn of a wheel scrolls
\* in its own direction.
THEOREM PressesAlwaysLand == InputSpec => []PressesLand
<1>1. PointerInv => PressesLand
  <2> SUFFICES ASSUME PointerInv PROVE PressesLand
    OBVIOUS
  <2>1. \A i \in DOMAIN queue : IsPress(queue[i]) =>
          After(size, sprite, SubSeq(queue, 1, i)).at = OnScreen(queue[i].at, size)
    BY DEF PointerInv, PressesInv, PressesAt
  <2>2. \A i \in DOMAIN queue :
          "button" \in DOMAIN queue[i] /\ queue[i].down /\ queue[i].at # Nowhere
            => FoldLeft(ProcessPointer, sprite, SubSeq(queue, 1, i)).at = OnScreen(queue[i].at, size)
    BY <2>1 DEF IsPress, FoldLeft, MapThenFoldSet, ProcessPointer, After, ProcessAt
  <2>3. \A e \in ToSet(queue) : ScrollsAlong(e)
    BY DEF PointerInv, PressesInv, ToSet
  <2> QED
    BY <2>2, <2>3 DEF PressesLand, ScrollsAlong
<1> QED
  BY <1>1, PointerInit, PointerKept, PTL DEF InputSpec

\* When everything is settled the X server has the buttons down that the user
\* holds, but for those that went astray.
THEOREM ButtonsAlwaysFollow == InputSpec => []ButtonsFollow
<1>1. PointerInv => ButtonsFollow
  <2> SUFFICES ASSUME PointerInv, Settled PROVE sprite.buttons \ astray = mouse.held \ astray
    BY DEF ButtonsFollow
  <2>1. msgs = <<>> /\ queue = <<>>
    BY DEF Settled
  <2>2. /\ sprite \in Sprites /\ size \in Sizes /\ queue \in Seq(AllEvents)
        /\ pointer \in [mask : SUBSET Buttons, at : Nat \X Nat]
        /\ mouse \in [held : SUBSET Buttons, at : Places \cup {Nowhere}]
    BY TypeFacts DEF PointerInv
  <2>3. After(size, sprite, queue) = sprite
    <3>1. [motion |-> <<0, 0>>] \in AllEvents
      BY DEF AllEvents, PointerEvents
    <3> QED
      BY <2>1, <2>2, <3>1, AfterAppend
  <2>4. sprite.buttons \ astray = pointer.mask \ astray
    BY <2>3 DEF PointerInv, SpriteInv
  <2>5. \A b \in Buttons : b \in astray \/ (b \in pointer.mask <=> b \in mouse.held)
    BY <2>1 DEF PointerInv, HeldInv, Follows
  <2> QED
    BY <2>2, <2>4, <2>5
<1> QED
  BY <1>1, PointerInit, PointerKept, PTL DEF InputSpec

-----------------------------------------------------------------------------
(* The keyboard after more keys *)

\* A run over items of their set stays in its set of values.
LEMMA RunType ==
  ASSUME NEW K, NEW E, NEW F \in [K \X E -> K], NEW x \in K, NEW q \in Seq(E),
         NEW v, IsRun(K, F, x, q, v)
  PROVE  v \in K
<1>1. Len(q) \in Nat /\ \A k \in 1..Len(q) : q[k] \in E
  OBVIOUS
<1>2. \A y \in K, k \in 1..Len(q) : y \in K => F[<<y, q[k]>>] \in K
  BY <1>1
<1> QED
  BY <1>1, <1>2, RunKeeps

\* The keyboard after the events of q.
KeysAfter(x, q) == FoldLeft(ProcessEvent, x, q)

\* After no event, after one, and after those of two rows.
LEMMA KeysFacts ==
  ASSUME NEW x \in Keyboards
  PROVE  /\ KeysAfter(x, <<>>) = x
         /\ \A e \in AllEvents : KeysAfter(x, <<e>>) = ProcessEvent(x, e)
         /\ \A q \in Seq(AllEvents) : KeysAfter(x, q) \in Keyboards
         /\ \A q \in Seq(AllEvents), r \in Seq(AllEvents) :
              KeysAfter(x, q \o r) = KeysAfter(KeysAfter(x, q), r)
<1>1. \A q \in Seq(AllEvents) :
        IsRun(Keyboards, KeyStep, x, q, KeysAfter(x, q)) /\ KeysAfter(x, q) \in Keyboards
  BY KeyRuns, KeysType DEF KeysAfter
<1>2. KeysAfter(x, <<>>) = x
  <2>1. <<>> \in Seq(AllEvents)
    OBVIOUS
  <2> QED
    BY <1>1, <2>1, RunEmpty
<1>3. ASSUME NEW e \in AllEvents PROVE KeysAfter(x, <<e>>) = ProcessEvent(x, e)
  <2>1. <<e>> \in Seq(AllEvents)
    OBVIOUS
  <2>2. KeysAfter(x, <<e>>) = KeyStep[<<x, e>>]
    BY <1>1, <2>1, RunOne
  <2> QED
    BY <2>2 DEF KeyStep
<1>4. ASSUME NEW q \in Seq(AllEvents), NEW r \in Seq(AllEvents)
      PROVE  KeysAfter(x, q \o r) = KeysAfter(KeysAfter(x, q), r)
  <2> DEFINE v == KeysAfter(x, q)
             w == KeysAfter(x, q \o r)
  <2>1. q \o r \in Seq(AllEvents) /\ Len(r) \in Nat
    OBVIOUS
  <2>2. /\ IsRun(Keyboards, KeyStep, x, q, v) /\ IsRun(Keyboards, KeyStep, x, q \o r, w)
        /\ v \in Keyboards
    BY <1>1, <2>1
  <2>3. IsRun(Keyboards, KeyStep, v, r, KeysAfter(v, r))
    BY <2>2, KeyRuns DEF KeysAfter
  <2> HIDE DEF v, w
  <2>4. IsRun(Keyboards, KeyStep, v, r, w)
    BY <2>2, RunConcat
  <2>5. w = KeysAfter(v, r)
    BY <2>1, <2>3, <2>4, RunUnique
  <2> QED
    BY <2>5 DEF v, w
<1> QED
  BY <1>1, <1>2, <1>3, <1>4

\* The queue after keys have been posted.
Posted(a, events) == FoldLeft(PostEvent, a, events)

\* After no key, after one, and after those of two rows.
LEMMA PostedFacts ==
  ASSUME NEW a \in Queues
  PROVE  /\ Posted(a, <<>>) = a
         /\ \A e \in Events : Posted(a, <<e>>) = PostEvent(a, e)
         /\ \A q \in Seq(Events) : Posted(a, q) \in Queues
         /\ \A q \in Seq(Events), r \in Seq(Events) :
              Posted(a, q \o r) = Posted(Posted(a, q), r)
<1>1. ASSUME NEW q \in Seq(Events)
      PROVE  IsRun(Queues, PostStep, a, q, Posted(a, q)) /\ Posted(a, q) \in Queues
  <2> DEFINE v == Posted(a, q)
  <2>1. IsRun(Queues, PostStep, a, q, v) /\ PostStep \in [Queues \X Events -> Queues]
    BY PostRuns, PostStepType DEF Posted
  <2> HIDE DEF v
  <2>2. v \in Queues
    BY <2>1, RunType
  <2> QED
    BY <2>1, <2>2 DEF v
<1>2. Posted(a, <<>>) = a
  <2>1. <<>> \in Seq(Events)
    OBVIOUS
  <2> QED
    BY <1>1, <2>1, RunEmpty
<1>3. ASSUME NEW e \in Events PROVE Posted(a, <<e>>) = PostEvent(a, e)
  <2>1. <<e>> \in Seq(Events)
    OBVIOUS
  <2>2. Posted(a, <<e>>) = PostStep[<<a, e>>]
    BY <1>1, <2>1, RunOne
  <2> QED
    BY <2>2 DEF PostStep
<1>4. ASSUME NEW q \in Seq(Events), NEW r \in Seq(Events)
      PROVE  Posted(a, q \o r) = Posted(Posted(a, q), r)
  <2> DEFINE v == Posted(a, q)
             w == Posted(a, q \o r)
  <2>1. q \o r \in Seq(Events) /\ Len(r) \in Nat
    OBVIOUS
  <2>2. /\ IsRun(Queues, PostStep, a, q, v) /\ IsRun(Queues, PostStep, a, q \o r, w)
        /\ v \in Queues
    BY <1>1, <2>1
  <2>3. IsRun(Queues, PostStep, v, r, Posted(v, r))
    BY <2>2, PostRuns DEF Posted
  <2> HIDE DEF v, w
  <2>4. IsRun(Queues, PostStep, v, r, w)
    BY <2>2, RunConcat
  <2>5. w = Posted(v, r)
    BY <2>1, <2>3, <2>4, RunUnique
  <2> QED
    BY <2>5 DEF v, w
<1> QED
  BY <1>1, <1>2, <1>3, <1>4

\* When the keys that are down at the end of the queue are those that are held
\* after it, the presses that are not queued are no news: posting keys is as good
\* as processing them after the queue, and leaves the two the same.
LEMMA PostedKeys ==
  ASSUME NEW x \in Keyboards, NEW a \in Queues, a.posted = KeysAfter(x, a.queue).held,
         NEW events \in Seq(Events)
  PROVE  /\ KeysAfter(x, Posted(a, events).queue) = KeysAfter(KeysAfter(x, a.queue), events)
         /\ Posted(a, events).posted = KeysAfter(x, Posted(a, events).queue).held
<1> DEFINE R == {p \in Queues \X Keyboards :
                   p[2] = KeysAfter(x, p[1].queue) /\ p[1].posted = p[2].held}
           y == KeysAfter(x, a.queue)
           v == Posted(a, events)
           w == KeysAfter(y, events)
<1>1. a.queue \in Seq(AllEvents) /\ events \in Seq(AllEvents) /\ Events \subseteq AllEvents
  BY DEF Queues, AllEvents
<1>2. y \in Keyboards
  BY <1>1, KeysFacts
<1>3. IsRun(Queues, PostStep, a, events, v)
  BY PostRuns DEF Posted
<1>4. IsRun(Keyboards, KeyStep, y, events, w)
  BY <1>1, <1>2, KeyRuns DEF KeysAfter
<1>5. <<a, y>> \in R
  BY <1>2
<1>6. ASSUME NEW b \in Queues, NEW z \in Keyboards, NEW e \in Events, <<b, z>> \in R
      PROVE  <<PostStep[<<b, e>>], KeyStep[<<z, e>>]>> \in R
  <2>1. z = KeysAfter(x, b.queue) /\ b.posted = z.held /\ b.queue \in Seq(AllEvents)
    BY <1>6 DEF Queues
  <2>2. e \in AllEvents /\ "key" \in DOMAIN e /\ e.key \in XKeys /\ e.down \in BOOLEAN
    BY <1>1 DEF Events
  <2>3. /\ PostStep[<<b, e>>] = PostEvent(b, e) /\ PostStep[<<b, e>>] \in Queues
        /\ KeyStep[<<z, e>>] = ProcessEvent(z, e) /\ KeyStep[<<z, e>>] \in Keyboards
    BY <2>2, PostStepType, KeyStepType DEF PostStep, KeyStep
  <2>4. KeysAfter(x, Append(b.queue, e)) = ProcessEvent(z, e)
    <3> DEFINE q == b.queue
               one == <<e>>
    <3>1. one \in Seq(AllEvents) /\ q \in Seq(AllEvents) /\ Append(q, e) = q \o one
      BY <2>1, <2>2
    <3>2. KeysAfter(z, one) = ProcessEvent(z, e)
      BY <2>2, KeysFacts
    <3> HIDE DEF one, q
    <3>3. KeysAfter(x, q \o one) = KeysAfter(KeysAfter(x, q), one)
      BY <3>1, KeysFacts
    <3> QED
      BY <2>1, <3>1, <3>2, <3>3 DEF q
  <2>5. CASE e.down /\ e.key \in b.posted
    <3>1. PostEvent(b, e) = b /\ ProcessEvent(z, e) = z
      BY <2>1, <2>2, <2>5 DEF PostEvent, ProcessEvent
    <3> QED
      BY <1>6, <2>3, <3>1
  <2>6. CASE ~ (e.down /\ e.key \in b.posted)
    <3>1. /\ PostEvent(b, e).queue = Append(b.queue, e)
          /\ PostEvent(b, e).posted = IF e.down THEN b.posted \cup {e.key} ELSE b.posted \ {e.key}
      BY <2>6 DEF PostEvent
    <3>2. ProcessEvent(z, e).held = IF e.down THEN z.held \cup {e.key} ELSE z.held \ {e.key}
      BY <2>1, <2>2, <2>6 DEF ProcessEvent, KeyDown, KeyUp
    <3> QED
      BY <2>1, <2>3, <2>4, <3>1, <3>2
  <2> QED
    BY <2>5, <2>6
<1>7. Len(events) \in Nat /\ \A k \in 1..Len(events) : events[k] \in Events
  OBVIOUS
<1>8. \A b \in Queues, z \in Keyboards, k \in 1..Len(events) :
        <<b, z>> \in R => <<PostStep[<<b, events[k]>>], KeyStep[<<z, events[k]>>]>> \in R
  BY <1>6, <1>7
<1> HIDE DEF R, v, w, y
<1>9. <<v, w>> \in R
  BY <1>3, <1>4, <1>5, <1>7, <1>8, RunsRelate
<1> QED
  BY <1>9 DEF R, v, w, y

-----------------------------------------------------------------------------
(* What the driver posts *)

Drivers == [skip : BOOLEAN, scrollDown : BOOLEAN, scrollState : BOOLEAN, tabDown : BOOLEAN]

\* The keyboard after a synchronisation that goes well, with the locks l.
Synced(x, l) == [held |-> x.held \ Locks, locked |-> l \cap XLocks, unlocking |-> {}]

\* A key that comes up.
LEMMA KeyUpped ==
  ASSUME NEW x \in Keyboards, NEW k \in XKeys
  PROVE  /\ KeysAfter(x, <<Up(k)>>) \in Keyboards
         /\ KeysAfter(x, <<Up(k)>>).held = x.held \ {k}
         /\ k \notin x.held => KeysAfter(x, <<Up(k)>>) = x
<1>1. Up(k) \in AllEvents /\ "key" \in DOMAIN Up(k) /\ Up(k).key = k /\ Up(k).down = FALSE
  BY DEF AllEvents, Events, Up
<1>2. KeysAfter(x, <<Up(k)>>) = ProcessEvent(x, Up(k)) /\ ProcessEvent(x, Up(k)) \in Keyboards
  <2>1. KeyStep[<<x, Up(k)>>] \in Keyboards
    BY <1>1, KeyStepType
  <2> QED
    BY <1>1, <2>1, KeysFacts DEF KeyStep
<1>3. ProcessEvent(x, Up(k)) = IF k \in x.held THEN KeyUp(x, k) ELSE x
  BY <1>1 DEF ProcessEvent
<1> QED
  BY <1>2, <1>3 DEF KeyUp

\* A lock key that goes down and up.
LEMMA Toggled ==
  ASSUME NEW x \in Keyboards, NEW k \in Locks, NEW different
  PROVE  LET y == KeysAfter(x, Toggle(different, k))
         IN /\ y \in Keyboards
            /\ x.held \cap Locks = {} =>
                 /\ y.held = x.held
                 /\ y.unlocking = {}
                 /\ y.locked \in SUBSET XLocks
                 /\ k \in different => y.locked \ {k} = x.locked \ {k}
                 /\ k \in different \cap XLocks => (k \in y.locked <=> k \notin x.locked)
                 /\ k \notin different => y.locked = x.locked
            /\ y.held \subseteq x.held
<1> DEFINE y == KeysAfter(x, Toggle(different, k))
           a == <<Down(k)>>
           b == <<Up(k)>>
           z == KeysAfter(x, a)
<1>0. k \in XKeys
  BY DEF XKeys, Keys
<1>1. /\ Down(k) \in AllEvents /\ "key" \in DOMAIN Down(k) /\ Down(k).key = k /\ Down(k).down = TRUE
      /\ Up(k) \in AllEvents /\ "key" \in DOMAIN Up(k) /\ Up(k).key = k /\ Up(k).down = FALSE
  BY <1>0 DEF AllEvents, Events, Up, Down
<1>2. CASE k \notin different
  <2>1. y = x
    BY <1>2, KeysFacts DEF Toggle
  <2>2. x.locked \in SUBSET XLocks /\ (x.held \cap Locks = {} => x.unlocking = {})
    BY DEF Keyboards, Locks
  <2> QED
    BY <1>2, <2>1, <2>2
<1>3. CASE k \in different
  <2>1. a \in Seq(AllEvents) /\ b \in Seq(AllEvents) /\ Toggle(different, k) = a \o b
    BY <1>1, <1>3 DEF Toggle
  <2>2. z = ProcessEvent(x, Down(k)) /\ z \in Keyboards
    BY <1>1, <2>1, KeysFacts
  <2>3. KeysAfter(z, b) = ProcessEvent(z, Up(k)) /\ KeysAfter(z, b) \in Keyboards
    BY <1>0, <1>1, <2>2, KeysFacts, KeyUpped
  <2> HIDE DEF a, b
  <2>4. y = KeysAfter(z, b)
    BY <2>1, KeysFacts
  <2>5. k \notin x.held => z = KeyDown(x, k)
    BY <1>1, <2>2 DEF ProcessEvent
  <2>6. k \in x.held => z = x
    BY <1>1, <2>2 DEF ProcessEvent
  <2>7. k \in z.held
    BY <2>5, <2>6 DEF KeyDown
  <2>8. y = KeyUp(z, k)
    BY <1>1, <2>3, <2>4, <2>7 DEF ProcessEvent
  <2>9. y.held \subseteq x.held
    BY <2>5, <2>6, <2>8 DEF KeyUp, KeyDown
  <2>10. ASSUME x.held \cap Locks = {}
         PROVE  /\ y.held = x.held
                /\ y.unlocking = {}
                /\ y.locked \in SUBSET XLocks
                /\ y.locked \ {k} = x.locked \ {k}
                /\ k \in different \cap XLocks => (k \in y.locked <=> k \notin x.locked)
    <3>1. k \notin x.held /\ x.unlocking = {} /\ x.locked \subseteq XLocks
      BY <2>10 DEF Keyboards, Locks
    <3>2. z = KeyDown(x, k)
      BY <2>5, <3>1
    <3> HIDE DEF y, z
    <3>3. /\ y.held = (x.held \cup {k}) \ {k}
          /\ y.unlocking = ({k} \cap x.locked) \ {k}
          /\ y.locked = (x.locked \cup ({k} \cap XLocks)) \ ({k} \cap ({k} \cap x.locked))
      BY <2>8, <3>1, <3>2 DEF KeyUp, KeyDown
    <3> QED
      BY <3>1, <3>3
  <2> QED
    BY <1>3, <2>3, <2>4, <2>9, <2>10
<1> QED
  BY <1>2, <1>3

\* The events of a synchronisation, in their parts.
LEMMA SyncParts ==
  ASSUME NEW d, NEW l
  PROVE  LET different == (Current(d) \ l) \cup (l \ Current(d))
         IN /\ \A k \in Locks : Toggle(different, k) \in Seq(Events) /\ <<Up(k)>> \in Seq(Events)
            /\ SyncEvents(d, l)
                 = ((((<<Up("caps")>> \o <<Up("num")>>) \o <<Up("scroll")>>)
                      \o Toggle(different, "caps")) \o Toggle(different, "num"))
                      \o Toggle(different, "scroll")
<1> DEFINE different == (Current(d) \ l) \cup (l \ Current(d))
<1>1. \A k \in Locks : Down(k) \in Events /\ Up(k) \in Events
  BY DEF Events, Down, Up, XKeys, Keys
<1>2. \A k \in Locks : Toggle(different, k) \in Seq(Events) /\ <<Up(k)>> \in Seq(Events)
  BY <1>1 DEF Toggle
<1>3. <<Up("caps"), Up("num"), Up("scroll")>> = (<<Up("caps")>> \o <<Up("num")>>) \o <<Up("scroll")>>
  OBVIOUS
<1> QED
  BY <1>2, <1>3 DEF SyncEvents

\* After a synchronisation no lock key is held, and no other key has changed.  The
\* locks are the client's when no lock key was held and the X server's were seen as
\* they were.
LEMMA SyncedKeys ==
  ASSUME NEW x \in Keyboards, NEW d, NEW l \in SUBSET Locks,
         d.scrollState \in BOOLEAN
  PROVE  LET y == KeysAfter(x, SyncEvents(d, l))
         IN /\ y \in Keyboards
            /\ y.held = x.held \ Locks
            /\ x.held \cap Locks = {} /\ XkbState = x.locked => y = Synced(x, l)
<1> DEFINE different == (Current(d) \ l) \cup (l \ Current(d))
           u1 == <<Up("caps")>>
           u2 == <<Up("num")>>
           u3 == <<Up("scroll")>>
           t1 == Toggle(different, "caps")
           t2 == Toggle(different, "num")
           t3 == Toggle(different, "scroll")
           x1 == KeysAfter(x, u1)
           x2 == KeysAfter(x1, u2)
           x3 == KeysAfter(x2, u3)
           y1 == KeysAfter(x3, t1)
           y2 == KeysAfter(y1, t2)
           y3 == KeysAfter(y2, t3)
<1>1. /\ u1 \in Seq(AllEvents) /\ u2 \in Seq(AllEvents) /\ u3 \in Seq(AllEvents)
      /\ t1 \in Seq(AllEvents) /\ t2 \in Seq(AllEvents) /\ t3 \in Seq(AllEvents)
  <2>1. Seq(Events) \subseteq Seq(AllEvents) /\ {"caps", "num", "scroll"} \subseteq Locks
    BY DEF AllEvents, Locks, XLocks
  <2> QED
    BY <2>1, SyncParts
<1>2. SyncEvents(d, l) = ((((u1 \o u2) \o u3) \o t1) \o t2) \o t3
  BY SyncParts
<1>3. {"caps", "num", "scroll"} = Locks /\ {"caps", "num", "scroll"} \subseteq XKeys
      /\ XLocks = {"caps", "num"}
  BY DEF XKeys, Keys, Locks, XLocks
<1>4. /\ x1 \in Keyboards /\ x1.held = x.held \ {"caps"} /\ ("caps" \notin x.held => x1 = x)
  BY <1>3, KeyUpped
<1>5. /\ x2 \in Keyboards /\ x2.held = x1.held \ {"num"} /\ ("num" \notin x1.held => x2 = x1)
  <2> HIDE DEF x1
  <2> QED
    BY <1>3, <1>4, KeyUpped
<1>6. /\ x3 \in Keyboards /\ x3.held = x2.held \ {"scroll"} /\ ("scroll" \notin x2.held => x3 = x2)
  <2> HIDE DEF x2
  <2> QED
    BY <1>3, <1>5, KeyUpped
<1>7. x3.held = x.held \ Locks /\ (x.held \cap Locks = {} => x3 = x)
  <2> HIDE DEF x1, x2, x3
  <2> QED
    BY <1>3, <1>4, <1>5, <1>6
<1>8. /\ y1 \in Keyboards /\ y1.held = x3.held /\ y1.unlocking = {}
      /\ "caps" \in different => y1.locked \ {"caps"} = x3.locked \ {"caps"}
                                 /\ ("caps" \in y1.locked <=> "caps" \notin x3.locked)
      /\ "caps" \notin different => y1.locked = x3.locked
  <2> HIDE DEF x3, different
  <2>1. x3.held \cap Locks = {}
    BY <1>7
  <2> QED
    BY <1>3, <1>6, <2>1, Toggled
<1>9. /\ y2 \in Keyboards /\ y2.held = y1.held /\ y2.unlocking = {}
      /\ "num" \in different => y2.locked \ {"num"} = y1.locked \ {"num"}
                                /\ ("num" \in y2.locked <=> "num" \notin y1.locked)
      /\ "num" \notin different => y2.locked = y1.locked
  <2> HIDE DEF x3, different, y1
  <2>1. y1.held \cap Locks = {}
    BY <1>7, <1>8
  <2> QED
    BY <1>3, <1>8, <2>1, Toggled
<1>10. /\ y3 \in Keyboards /\ y3.held = y2.held /\ y3.unlocking = {}
       /\ y3.locked \subseteq XLocks /\ y3.locked \ {"scroll"} = y2.locked \ {"scroll"}
  <2> HIDE DEF x3, different, y1, y2
  <2>1. y2.held \cap Locks = {}
    BY <1>7, <1>8, <1>9
  <2>2. y3.locked \subseteq XLocks
    BY <1>3, <1>9, Toggled DEF Keyboards
  <2> QED
    BY <1>3, <1>9, <2>1, <2>2, Toggled
<1>11. KeysAfter(x, SyncEvents(d, l)) = y3
  <2> DEFINE s1 == u1 \o u2
             s2 == s1 \o u3
             s3 == s2 \o t1
             s4 == s3 \o t2
             s5 == s4 \o t3
  <2>1. s1 \in Seq(AllEvents) /\ s2 \in Seq(AllEvents) /\ s3 \in Seq(AllEvents)
        /\ s4 \in Seq(AllEvents)
    <3> HIDE DEF u1, u2, u3, t1, t2, t3
    <3> QED
      BY <1>1
  <2> HIDE DEF u1, u2, u3, t1, t2, t3
  <2>2. KeysAfter(x, s1) = x2
    BY <1>1, KeysFacts
  <2> HIDE DEF s1, x2
  <2>3. KeysAfter(x, s2) = x3
    BY <1>1, <2>1, <2>2, KeysFacts
  <2> HIDE DEF s2, x3
  <2>4. KeysAfter(x, s3) = y1
    BY <1>1, <2>1, <2>3, KeysFacts
  <2> HIDE DEF s3, y1
  <2>5. KeysAfter(x, s4) = y2
    BY <1>1, <2>1, <2>4, KeysFacts
  <2> HIDE DEF s4, y2
  <2>6. KeysAfter(x, s5) = y3
    BY <1>1, <2>1, <2>5, KeysFacts
  <2>7. SyncEvents(d, l) = s5
    BY <1>2 DEF s1, s2, s3, s4
  <2> QED
    BY <2>6, <2>7
<1>12. ASSUME x.held \cap Locks = {}, XkbState = x.locked PROVE y3 = Synced(x, l)
  <2>1. \A k \in XLocks : k \in different <=> ((k \in x.locked) # (k \in l))
    BY <1>3, <1>12 DEF Current
  <2>2. x3 = x /\ x.locked \subseteq XLocks /\ y3.locked \subseteq XLocks
    BY <1>7, <1>10, <1>12 DEF Keyboards
  <2>3. "scroll" \notin XLocks /\ "caps" \in XLocks /\ "num" \in XLocks /\ "caps" # "num"
    BY <1>3
  <2> HIDE DEF x1, x2, x3, y1, y2, y3, different
  <2>4. "caps" \in y1.locked <=> "caps" \in l
    BY <1>8, <2>1, <2>2, <2>3
  <2>5. "num" \in y1.locked <=> "num" \in x.locked
    BY <1>8, <2>2, <2>3
  <2>6. "caps" \in y2.locked <=> "caps" \in l
    BY <1>9, <2>3, <2>4
  <2>7. "num" \in y2.locked <=> "num" \in l
    BY <1>9, <2>1, <2>3, <2>5
  <2>8. y3.locked = l \cap XLocks
    BY <1>3, <1>10, <2>2, <2>6, <2>7
  <2>9. y3.held = x.held \ Locks /\ y3.unlocking = {}
    BY <1>7, <1>8, <1>9, <1>10
  <2>10. y3 = [held |-> y3.held, locked |-> y3.locked, unlocking |-> y3.unlocking]
    BY <1>10 DEF Keyboards
  <2> QED
    BY <2>8, <2>9, <2>10 DEF Synced
<1>13. y3.held = x.held \ Locks
  <2> HIDE DEF x3, y1, y2, y3
  <2> QED
    BY <1>7, <1>8, <1>9, <1>10
<1> HIDE DEF y3
<1> QED
  BY <1>10, <1>11, <1>12, <1>13

\* The events of a key come to the key itself, or to nothing.
LEMMA AddedKeys ==
  ASSUME NEW x \in Keyboards, NEW d \in Drivers, NEW e \in Events,
         "tab" \in x.held => d.tabDown
  PROVE  KeysAfter(x, AddEvents(d, e)) = IF Skips(d, e.key) THEN x ELSE ProcessEvent(x, e)
<1>1. /\ e \in AllEvents /\ "key" \in DOMAIN e /\ e.key \in XKeys /\ e.down \in BOOLEAN
      /\ e = [key |-> e.key, down |-> e.down]
  BY DEF AllEvents, Events
<1>2. CASE Skips(d, e.key)
  <2>1. AddEvents(d, e) = <<>>
    BY <1>2 DEF AddEvents, Skips
  <2> QED
    BY <1>2, <2>1, KeysFacts
<1>3. CASE ~Skips(d, e.key) /\ e.key = "tab" /\ ~e.down /\ ~d.tabDown
  <2>1. ProcessEvent(x, e) = x
    BY <1>1, <1>3 DEF ProcessEvent
  <2>2. AddEvents(d, e) = <<>>
    BY <1>3 DEF AddEvents
  <2> QED
    BY <1>3, <2>1, <2>2, KeysFacts
<1>4. CASE ~Skips(d, e.key) /\ e.key \in {"tab", "plain"} /\ e.down
  <2> DEFINE k == e.key
             a == <<Up(k)>>
             b == <<Down(k)>>
             z == KeysAfter(x, a)
  <2>1. AddEvents(d, e) = a \o b
    BY <1>4 DEF AddEvents, Frees, Pushes
  <2>2. Down(k) = e /\ Up(k) \in AllEvents /\ a \in Seq(AllEvents) /\ b \in Seq(AllEvents)
    BY <1>1, <1>4 DEF Down, Up, AllEvents, Events
  <2>3. /\ z \in Keyboards /\ z.held = x.held \ {k} /\ (k \notin x.held => z = x)
        /\ z = ProcessEvent(x, Up(k))
    BY <1>1, <2>2, KeyUpped, KeysFacts
  <2>4. KeysAfter(z, b) = ProcessEvent(z, e)
    BY <1>1, <2>2, <2>3, KeysFacts
  <2> HIDE DEF a, b
  <2>5. KeysAfter(x, AddEvents(d, e)) = KeysAfter(z, b)
    BY <2>1, <2>2, KeysFacts
  <2>6. ASSUME k \in x.held PROVE ProcessEvent(z, e) = x /\ ProcessEvent(x, e) = x
    <3>1. z = KeyUp(x, k)
      BY <2>3, <2>6 DEF ProcessEvent, Up
    <3>2. k \notin XLocks /\ k \notin x.unlocking /\ k \notin x.locked
      BY <1>4 DEF XLocks, Keyboards
    <3>3. ProcessEvent(z, e) = KeyDown(z, k)
      BY <1>1, <1>4, <2>3 DEF ProcessEvent
    <3>4. ProcessEvent(x, e) = x
      BY <1>1, <1>4, <2>6 DEF ProcessEvent
    <3>5. x = [held |-> x.held, locked |-> x.locked, unlocking |-> x.unlocking]
      BY DEF Keyboards
    <3> HIDE DEF k, z
    <3>6. /\ KeyDown(z, k).held = x.held /\ KeyDown(z, k).locked = x.locked
          /\ KeyDown(z, k).unlocking = x.unlocking
      BY <2>6, <3>1, <3>2 DEF KeyDown, KeyUp
    <3>7. KeyDown(z, k) = [held |-> x.held, locked |-> x.locked, unlocking |-> x.unlocking]
      BY <3>6 DEF KeyDown
    <3> QED
      BY <3>3, <3>4, <3>5, <3>7
  <2> QED
    BY <1>4, <2>3, <2>4, <2>5, <2>6
<1>5. CASE /\ ~Skips(d, e.key) /\ ~(e.key = "tab" /\ ~e.down /\ ~d.tabDown)
           /\ ~(e.key \in {"tab", "plain"} /\ e.down)
  <2>1. AddEvents(d, e) = <<e>>
    BY <1>5 DEF AddEvents
  <2> QED
    BY <1>1, <1>5, <2>1, KeysFacts
<1> QED
  BY <1>2, <1>3, <1>4, <1>5

\* Posting a synchronisation, or a tab that comes up, holds no key down, whatever
\* the keyboard will be that processes the queue.
LEMMA PostedUps ==
  ASSUME NEW x \in Keyboards, NEW a \in Queues, KeysAfter(x, a.queue).held = {}
  PROVE  /\ \A d, l : KeysAfter(x, Posted(a, SyncEvents(d, l)).queue).held = {}
         /\ \A d : KeysAfter(x, Posted(a, AddEvents(d, Up("tab"))).queue).held = {}
<1> DEFINE E(b) == KeysAfter(x, b.queue).held
<1>1. ASSUME NEW b \in Queues, NEW e \in Events
      PROVE  /\ PostEvent(b, e) \in Queues
             /\ ~e.down => E(PostEvent(b, e)) = E(b) \ {e.key}
             /\ e.down => E(PostEvent(b, e)) \subseteq E(b) \cup {e.key}
  <2> DEFINE q == b.queue
             one == <<e>>
             z == KeysAfter(x, q)
  <2>1. e \in AllEvents /\ "key" \in DOMAIN e /\ e.down \in BOOLEAN /\ q \in Seq(AllEvents)
    BY DEF Events, AllEvents, Queues
  <2>2. one \in Seq(AllEvents) /\ Append(q, e) = q \o one /\ z \in Keyboards
    BY <2>1, KeysFacts
  <2>3. KeysAfter(z, one) = ProcessEvent(z, e)
    BY <2>1, <2>2, KeysFacts
  <2>4. PostEvent(b, e) \in Queues
    <3>1. PostStep[<<b, e>>] \in Queues
      BY PostStepType
    <3> QED
      BY <3>1 DEF PostStep
  <2> HIDE DEF q, one, z
  <2>5. KeysAfter(x, Append(q, e)) = ProcessEvent(z, e)
    BY <2>1, <2>2, <2>3, KeysFacts DEF z
  <2>6. ProcessEvent(z, e).held = IF e.down THEN z.held \cup {e.key} ELSE z.held \ {e.key}
    BY <2>1 DEF ProcessEvent, KeyDown, KeyUp
  <2>7. (PostEvent(b, e).queue = q /\ e.down) \/ PostEvent(b, e).queue = Append(q, e)
    BY DEF PostEvent, q
  <2>8. E(b) = z.held
    BY DEF z, q
  <2> QED
    BY <2>1, <2>4, <2>5, <2>6, <2>7, <2>8 DEF z
<1>2. ASSUME NEW b \in Queues, NEW k \in XKeys, E(b) = {}
      PROVE  Posted(b, <<Up(k)>>) \in Queues /\ E(Posted(b, <<Up(k)>>)) = {}
  <2>1. Up(k) \in Events /\ Up(k).down = FALSE
    BY DEF Up, Events
  <2>2. Posted(b, <<Up(k)>>) = PostEvent(b, Up(k))
    BY <2>1, PostedFacts
  <2> HIDE DEF E
  <2> QED
    BY <1>1, <1>2, <2>1, <2>2
<1>3. ASSUME NEW b \in Queues, NEW k \in Locks, NEW different, E(b) = {}
      PROVE  /\ Posted(b, Toggle(different, k)) \in Queues
             /\ E(Posted(b, Toggle(different, k))) = {}
  <2> DEFINE u == <<Down(k)>>
             v == <<Up(k)>>
             c == Posted(b, u)
  <2>1. Down(k) \in Events /\ Up(k) \in Events /\ Down(k).key = k /\ Down(k).down
        /\ ~Up(k).down /\ Up(k).key = k
    BY DEF Up, Down, Events, XKeys, Keys
  <2>2. CASE k \notin different
    BY <1>3, <2>2, PostedFacts DEF Toggle
  <2>3. CASE k \in different
    <3>1. u \in Seq(Events) /\ v \in Seq(Events) /\ <<Down(k), Up(k)>> = u \o v
      BY <2>1
    <3>2. c = PostEvent(b, Down(k))
      BY <2>1, PostedFacts
    <3> HIDE DEF E
    <3>3. c \in Queues /\ E(c) \subseteq {k}
      BY <1>1, <1>3, <2>1, <3>2
    <3>4. Posted(c, v) = PostEvent(c, Up(k))
      BY <2>1, <3>3, PostedFacts
    <3>5. Toggle(different, k) = u \o v
      BY <2>3, <3>1 DEF Toggle
    <3> HIDE DEF u, v
    <3>7. Posted(b, u \o v) = Posted(c, v)
      BY <3>1, PostedFacts
    <3> HIDE DEF c
    <3>6. PostEvent(c, Up(k)) \in Queues /\ E(PostEvent(c, Up(k))) = E(c) \ {k}
      BY <1>1, <2>1, <3>3
    <3> QED
      BY <3>3, <3>4, <3>5, <3>6, <3>7
  <2> QED
    BY <2>2, <2>3
<1> HIDE DEF E
<1>4. ASSUME NEW d, NEW l PROVE E(Posted(a, SyncEvents(d, l))) = {}
  <2> DEFINE different == (Current(d) \ l) \cup (l \ Current(d))
             u1 == <<Up("caps")>>
             u2 == <<Up("num")>>
             u3 == <<Up("scroll")>>
             t1 == Toggle(different, "caps")
             t2 == Toggle(different, "num")
             t3 == Toggle(different, "scroll")
             s1 == u1 \o u2
             s2 == s1 \o u3
             s3 == s2 \o t1
             s4 == s3 \o t2
             s5 == s4 \o t3
  <2>1. "caps" \in Locks /\ "num" \in Locks /\ "scroll" \in Locks /\ Locks \subseteq XKeys
    BY DEF Locks, XLocks, XKeys, Keys
  <2>2. /\ u1 \in Seq(Events) /\ u2 \in Seq(Events) /\ u3 \in Seq(Events)
        /\ t1 \in Seq(Events) /\ t2 \in Seq(Events) /\ t3 \in Seq(Events)
    BY <2>1, SyncParts
  <2>3. SyncEvents(d, l) = s5
    BY SyncParts
  <2>4. \A b \in Queues : E(b) = {} =>
          /\ Posted(b, u1) \in Queues /\ E(Posted(b, u1)) = {}
          /\ Posted(b, u2) \in Queues /\ E(Posted(b, u2)) = {}
          /\ Posted(b, u3) \in Queues /\ E(Posted(b, u3)) = {}
          /\ Posted(b, t1) \in Queues /\ E(Posted(b, t1)) = {}
          /\ Posted(b, t2) \in Queues /\ E(Posted(b, t2)) = {}
          /\ Posted(b, t3) \in Queues /\ E(Posted(b, t3)) = {}
    BY <1>2, <1>3, <2>1
  <2> HIDE DEF u1, u2, u3, t1, t2, t3
  <2>5. s1 \in Seq(Events) /\ s2 \in Seq(Events) /\ s3 \in Seq(Events) /\ s4 \in Seq(Events)
    BY <2>2
  <2>6. Posted(a, u1) \in Queues /\ E(Posted(a, u1)) = {}
    BY <2>4 DEF E
  <2>7. Posted(a, s1) \in Queues /\ E(Posted(a, s1)) = {}
    <3>1. Posted(a, s1) = Posted(Posted(a, u1), u2)
      BY <2>2, PostedFacts
    <3> QED
      BY <2>4, <2>6, <3>1
  <2> HIDE DEF s1
  <2>8. Posted(a, s2) \in Queues /\ E(Posted(a, s2)) = {}
    <3>1. Posted(a, s2) = Posted(Posted(a, s1), u3)
      BY <2>2, <2>5, PostedFacts
    <3> QED
      BY <2>4, <2>7, <3>1
  <2> HIDE DEF s2
  <2>9. Posted(a, s3) \in Queues /\ E(Posted(a, s3)) = {}
    <3>1. Posted(a, s3) = Posted(Posted(a, s2), t1)
      BY <2>2, <2>5, PostedFacts
    <3> QED
      BY <2>4, <2>8, <3>1
  <2> HIDE DEF s3
  <2>10. Posted(a, s4) \in Queues /\ E(Posted(a, s4)) = {}
    <3>1. Posted(a, s4) = Posted(Posted(a, s3), t2)
      BY <2>2, <2>5, PostedFacts
    <3> QED
      BY <2>4, <2>9, <3>1
  <2> HIDE DEF s4
  <2>11. E(Posted(a, s5)) = {}
    <3>1. Posted(a, s5) = Posted(Posted(a, s4), t3)
      BY <2>2, <2>5, PostedFacts
    <3> QED
      BY <2>4, <2>10, <3>1
  <2> QED
    BY <2>3, <2>11
<1>5. ASSUME NEW d PROVE E(Posted(a, AddEvents(d, Up("tab")))) = {}
  <2>1. AddEvents(d, Up("tab")) = <<>> \/ AddEvents(d, Up("tab")) = <<Up("tab")>>
    BY DEF AddEvents, Up
  <2>2. "tab" \in XKeys /\ E(a) = {}
    BY DEF XKeys, Keys, E
  <2> QED
    BY <1>2, <2>1, <2>2, PostedFacts
<1> QED
  BY <1>4, <1>5 DEF E

-----------------------------------------------------------------------------
(* What the server makes of the messages in the socket *)

AllMessages == Messages \cup PointerMessages

\* The keyboard after the queue, the driver's variables, and whether the
\* synchronisations found no lock key held since the layout was last loaded.
Heards == [x : Keyboards, d : Drivers, flags : SUBSET Locks, completed : BOOLEAN,
           clean : BOOLEAN, owned : BOOLEAN, good : BOOLEAN]

\* The messages, when the queue is processed after each of them.
HearsSync(a, l) ==
  [x |-> Synced(a.x, l), d |-> SyncDriver(a.d, l), flags |-> l, completed |-> a.completed,
   clean |-> ~a.d.skip, owned |-> TRUE, good |-> a.good /\ a.x.held \cap Locks = {}]

HearsLayout(a) == [a EXCEPT !.x = NoKeys, !.completed = FALSE, !.good = TRUE]

\* The first key repeats the synchronisation.
BeforeKey(a, e) ==
  IF ~a.completed /\ e.down
  THEN [HearsSync(a, a.flags) EXCEPT !.clean = a.clean /\ @, !.owned = a.owned]
  ELSE a

HearsKey(a, e) ==
  LET b == BeforeKey(a, e)
  IN [b EXCEPT !.x = IF Skips(b.d, e.key) THEN @ ELSE ProcessEvent(@, e),
               !.d = AddDriver(b.d, e),
               !.completed = @ \/ e.down]

Hears(a, m) ==
  IF "sync" \in DOMAIN m THEN HearsSync(a, m.sync)
  ELSE IF "layout" \in DOMAIN m THEN HearsLayout(a)
  ELSE IF "key" \in DOMAIN m THEN HearsKey(a, m)
  ELSE a

\* A synchronisation leaves a keyboard, and a driver.
LEMMA SyncedType ==
  ASSUME NEW x \in Keyboards, NEW l \in SUBSET Locks
  PROVE  Synced(x, l) \in Keyboards
BY DEF Synced, Keyboards

\* What is heard of a synchronisation is of the type of what has been heard.
LEMMA SyncTypes ==
  ASSUME NEW a \in Heards, NEW l \in SUBSET Locks
  PROVE  HearsSync(a, l) \in Heards
<1>1. a.x \in Keyboards /\ a.d \in Drivers
  BY DEF Heards
<1>2. Synced(a.x, l) \in Keyboards /\ SyncDriver(a.d, l) \in Drivers
  BY <1>1, SyncedType, DriverTypes DEF Drivers
<1>3. (~a.d.skip) \in BOOLEAN /\ (a.good /\ a.x.held \cap Locks = {}) \in BOOLEAN
  OBVIOUS
<1> QED
  BY <1>2, <1>3 DEF HearsSync, Heards

\* What a key finds, when it has repeated the synchronisation or not.
LEMMA BeforeTypes ==
  ASSUME NEW a \in Heards, NEW e \in Events
  PROVE  /\ BeforeKey(a, e) \in Heards
         /\ LET b == BeforeKey(a, e)
            IN /\ b.flags = a.flags /\ b.completed = a.completed /\ b.owned = a.owned
               /\ ~a.completed /\ e.down =>
                    /\ b.x = Synced(a.x, a.flags) /\ b.d = SyncDriver(a.d, a.flags)
                    /\ b.clean = (a.clean /\ ~a.d.skip)
                    /\ b.good = (a.good /\ a.x.held \cap Locks = {})
               /\ ~(~a.completed /\ e.down) => b = a
<1>1. CASE ~a.completed /\ e.down
  <2> DEFINE c == HearsSync(a, a.flags)
             b == BeforeKey(a, e)
  <2>1. a.flags \in SUBSET Locks /\ c \in Heards
    BY SyncTypes DEF Heards
  <2>2. /\ c.x = Synced(a.x, a.flags) /\ c.d = SyncDriver(a.d, a.flags) /\ c.flags = a.flags
        /\ c.completed = a.completed /\ c.clean = ~a.d.skip
        /\ c.good = (a.good /\ a.x.held \cap Locks = {})
    BY DEF HearsSync
  <2> HIDE DEF c
  <2>3. b = [c EXCEPT !.clean = a.clean /\ c.clean, !.owned = a.owned]
    BY <1>1 DEF BeforeKey, c
  <2> HIDE DEF b
  <2>4. (a.clean /\ c.clean) \in BOOLEAN /\ a.owned \in BOOLEAN
    BY DEF Heards
  <2>5. /\ b \in Heards /\ b.clean = (a.clean /\ c.clean) /\ b.owned = a.owned
        /\ b.x = c.x /\ b.d = c.d /\ b.flags = c.flags /\ b.completed = c.completed
        /\ b.good = c.good
    BY <2>1, <2>3, <2>4 DEF Heards
  <2> QED
    BY <1>1, <2>2, <2>5 DEF b
<1>2. CASE ~(~a.completed /\ e.down)
  BY <1>2 DEF BeforeKey
<1> QED
  BY <1>1, <1>2

\* What a key leaves.
LEMMA KeyTypes ==
  ASSUME NEW a \in Heards, NEW e \in Events
  PROVE  LET b == BeforeKey(a, e)
             c == HearsKey(a, e)
         IN /\ c \in Heards
            /\ c.flags = a.flags /\ c.owned = a.owned /\ c.clean = b.clean /\ c.good = b.good
            /\ c.completed = (a.completed \/ e.down)
            /\ c.d = AddDriver(b.d, e)
            /\ c.x = IF Skips(b.d, e.key) THEN b.x ELSE ProcessEvent(b.x, e)
<1> DEFINE b == BeforeKey(a, e)
           c == HearsKey(a, e)
           x == IF Skips(b.d, e.key) THEN b.x ELSE ProcessEvent(b.x, e)
<1>1. b \in Heards /\ b.flags = a.flags /\ b.completed = a.completed /\ b.owned = a.owned
  BY BeforeTypes
<1> HIDE DEF b
<1>2. b.x \in Keyboards /\ b.d \in Drivers /\ e \in AllEvents
  BY <1>1 DEF Heards, AllEvents
<1>3. x \in Keyboards
  <2>1. ProcessEvent(b.x, e) \in Keyboards
    <3>1. KeyStep[<<b.x, e>>] \in Keyboards /\ KeyStep[<<b.x, e>>] = ProcessEvent(b.x, e)
      BY <1>2, KeyStepType DEF KeyStep
    <3> QED
      BY <3>1
  <2> QED
    BY <1>2, <2>1
<1>4. AddDriver(b.d, e) \in Drivers
  BY <1>2, DriverTypes DEF Drivers
<1>5. (b.completed \/ e.down) \in BOOLEAN
  OBVIOUS
<1> HIDE DEF x
<1>6. c = [b EXCEPT !.x = x, !.d = AddDriver(b.d, e), !.completed = b.completed \/ e.down]
  BY DEF HearsKey, b, x
<1> HIDE DEF c
<1>7. /\ c \in Heards /\ c.x = x /\ c.d = AddDriver(b.d, e)
      /\ c.completed = (b.completed \/ e.down)
      /\ c.flags = b.flags /\ c.owned = b.owned /\ c.clean = b.clean /\ c.good = b.good
  BY <1>1, <1>3, <1>4, <1>5, <1>6 DEF Heards
<1> QED
  BY <1>1, <1>7 DEF b, c, x

\* What a change of the layout leaves.
LEMMA LayoutTypes ==
  ASSUME NEW a \in Heards
  PROVE  LET c == HearsLayout(a)
         IN /\ c \in Heards
            /\ c.flags = a.flags /\ c.owned = a.owned /\ c.clean = a.clean /\ c.good = TRUE
            /\ c.completed = FALSE /\ c.d = a.d /\ c.x = NoKeys
<1>1. NoKeys \in Keyboards
  BY DEF NoKeys, Keyboards
<1> QED
  BY <1>1 DEF HearsLayout, Heards

HearStep == [p \in Heards \X AllMessages |-> Hears(p[1], p[2])]

\* A message leaves what has been heard of its type.
LEMMA HearStepType == HearStep \in [Heards \X AllMessages -> Heards]
<1> SUFFICES ASSUME NEW a \in Heards, NEW m \in AllMessages
             PROVE  Hears(a, m) \in Heards
  BY DEF HearStep
<1>1. /\ "sync" \in DOMAIN m => m.sync \in SUBSET Locks
      /\ "key" \in DOMAIN m => m \in Events
  BY MessageFacts DEF AllMessages
<1>2. CASE "sync" \in DOMAIN m
  BY <1>1, <1>2, SyncTypes DEF Hears
<1>3. CASE "sync" \notin DOMAIN m /\ "layout" \in DOMAIN m
  BY <1>3, LayoutTypes DEF Hears
<1>4. CASE "sync" \notin DOMAIN m /\ "layout" \notin DOMAIN m /\ "key" \in DOMAIN m
  BY <1>1, <1>4, KeyTypes DEF Hears
<1>5. CASE "sync" \notin DOMAIN m /\ "layout" \notin DOMAIN m /\ "key" \notin DOMAIN m
  BY <1>5 DEF Hears
<1> QED
  BY <1>2, <1>3, <1>4, <1>5

\* What has been heard after the messages of ms.
Hearing(a, ms) == CHOOSE c : IsRun(Heards, HearStep, a, ms, c)

\* After no message, after one, and after those of two rows.
LEMMA HearingFacts ==
  ASSUME NEW a \in Heards
  PROVE  /\ Hearing(a, <<>>) = a
         /\ \A m \in AllMessages : Hearing(a, <<m>>) = Hears(a, m)
         /\ \A q \in Seq(AllMessages) :
              IsRun(Heards, HearStep, a, q, Hearing(a, q)) /\ Hearing(a, q) \in Heards
         /\ \A q \in Seq(AllMessages), r \in Seq(AllMessages) :
              Hearing(a, q \o r) = Hearing(Hearing(a, q), r)
<1>1. ASSUME NEW z \in Heards, NEW q \in Seq(AllMessages)
      PROVE  IsRun(Heards, HearStep, z, q, Hearing(z, q)) /\ Hearing(z, q) \in Heards
  <2>1. HearStep \in [Heards \X AllMessages -> Heards]
    BY HearStepType
  <2>2. PICK g : Folds(g, Heards, HearStep, z, q, Len(q))
    BY <2>1, FoldExists
  <2>3. IsRun(Heards, HearStep, z, q, g[1..Len(q)])
    BY <2>1, <2>2, FoldRuns
  <2>4. IsRun(Heards, HearStep, z, q, Hearing(z, q))
    BY <2>3 DEF Hearing
  <2> DEFINE v == Hearing(z, q)
  <2> HIDE DEF v
  <2>5. IsRun(Heards, HearStep, z, q, v)
    BY <2>4 DEF v
  <2>6. v \in Heards
    BY <2>1, <2>5, RunType
  <2> QED
    BY <2>4, <2>6 DEF v
<1>2. Hearing(a, <<>>) = a
  <2>1. <<>> \in Seq(AllMessages)
    OBVIOUS
  <2> QED
    BY <1>1, <2>1, RunEmpty
<1>3. ASSUME NEW m \in AllMessages PROVE Hearing(a, <<m>>) = Hears(a, m)
  <2>1. <<m>> \in Seq(AllMessages)
    OBVIOUS
  <2>2. Hearing(a, <<m>>) = HearStep[<<a, m>>]
    BY <1>1, <2>1, RunOne
  <2> QED
    BY <2>2 DEF HearStep
<1>4. ASSUME NEW q \in Seq(AllMessages), NEW r \in Seq(AllMessages)
      PROVE  Hearing(a, q \o r) = Hearing(Hearing(a, q), r)
  <2> DEFINE v == Hearing(a, q)
             w == Hearing(a, q \o r)
  <2>1. q \o r \in Seq(AllMessages) /\ Len(r) \in Nat
    OBVIOUS
  <2>2. /\ IsRun(Heards, HearStep, a, q, v) /\ IsRun(Heards, HearStep, a, q \o r, w)
        /\ v \in Heards
    BY <1>1, <2>1
  <2>3. IsRun(Heards, HearStep, v, r, Hearing(v, r))
    BY <1>1, <2>2
  <2> HIDE DEF v, w
  <2>4. IsRun(Heards, HearStep, v, r, w)
    BY <2>2, RunConcat
  <2>5. w = Hearing(v, r)
    BY <2>1, <2>3, <2>4, RunUnique
  <2> QED
    BY <2>5 DEF v, w
<1> QED
  BY <1>1, <1>2, <1>3, <1>4

\* What is heard of all messages is what is heard of the others after the first.
LEMMA HearingFirst ==
  ASSUME NEW a \in Heards, NEW ms \in Seq(AllMessages), ms # <<>>
  PROVE  /\ Head(ms) \in AllMessages /\ Tail(ms) \in Seq(AllMessages)
         /\ Hearing(a, ms) = Hearing(Hears(a, Head(ms)), Tail(ms))
<1> DEFINE m == Head(ms)
           one == <<m>>
           r == Tail(ms)
<1>1. /\ m \in AllMessages /\ r \in Seq(AllMessages) /\ one \in Seq(AllMessages)
      /\ ms = one \o r
  OBVIOUS
<1>2. Hearing(a, one) = Hears(a, m)
  BY <1>1, HearingFacts
<1> HIDE DEF m, one, r
<1>3. Hearing(a, one \o r) = Hearing(Hearing(a, one), r)
  BY <1>1, HearingFacts
<1> QED
  BY <1>1, <1>2, <1>3 DEF m, r

\* b is what may have become of c: the queue has not been processed, so that a
\* synchronisation may have seen other locks, which is as well as long as another
\* one follows.
Like(b, c) ==
  /\ b.d = c.d /\ b.flags = c.flags /\ b.completed = c.completed /\ b.owned = c.owned
  /\ b.x.held = c.x.held
  /\ b.clean => c.clean
  /\ c.good => b.good
  /\ c.good /\ b.clean /\ b.completed => b.x = c.x

\* The next message leaves them alike.
LEMMA LikeKept ==
  ASSUME NEW b \in Heards, NEW c \in Heards, Like(b, c), NEW m \in AllMessages
  PROVE  Like(Hears(b, m), Hears(c, m))
<1>1. /\ "sync" \in DOMAIN m => m.sync \in SUBSET Locks
      /\ "key" \in DOMAIN m => m \in Events
  BY MessageFacts DEF AllMessages
<1>2. CASE "sync" \in DOMAIN m
  <2>1. Synced(b.x, m.sync) = Synced(c.x, m.sync)
    BY DEF Like, Synced
  <2>2. Like(HearsSync(b, m.sync), HearsSync(c, m.sync))
    BY <2>1 DEF Like, HearsSync
  <2> QED
    BY <1>2, <2>2 DEF Hears
<1>3. CASE "sync" \notin DOMAIN m /\ "layout" \in DOMAIN m
  <2>1. Like(HearsLayout(b), HearsLayout(c))
    BY LayoutTypes DEF Like
  <2> QED
    BY <1>3, <2>1 DEF Hears
<1>4. CASE "sync" \notin DOMAIN m /\ "layout" \notin DOMAIN m /\ "key" \in DOMAIN m
  <2> DEFINE b1 == BeforeKey(b, m)
             c1 == BeforeKey(c, m)
             b2 == HearsKey(b, m)
             c2 == HearsKey(c, m)
  <2>1. m \in Events /\ Hears(b, m) = b2 /\ Hears(c, m) = c2
    BY <1>1, <1>4 DEF Hears
  <2>2. /\ b1.d = c1.d /\ b1.x.held = c1.x.held
        /\ b1.clean => c1.clean
        /\ c1.good => b1.good
        /\ c1.good /\ b1.clean /\ (b.completed \/ m.down) => b1.x = c1.x
    <3>1. CASE ~b.completed /\ m.down
      <4>1. Synced(b.x, b.flags) = Synced(c.x, c.flags)
        BY DEF Like, Synced
      <4>2. ~c.completed
        BY <3>1 DEF Like
      <4>3. /\ b1.x = Synced(b.x, b.flags) /\ b1.d = SyncDriver(b.d, b.flags)
            /\ b1.clean = (b.clean /\ ~b.d.skip) /\ b1.good = (b.good /\ b.x.held \cap Locks = {})
        BY <2>1, <3>1, BeforeTypes
      <4>4. /\ c1.x = Synced(c.x, c.flags) /\ c1.d = SyncDriver(c.d, c.flags)
            /\ c1.clean = (c.clean /\ ~c.d.skip) /\ c1.good = (c.good /\ c.x.held \cap Locks = {})
        BY <2>1, <3>1, <4>2, BeforeTypes
      <4> HIDE DEF b1, c1
      <4> QED
        BY <4>1, <4>3, <4>4 DEF Like
    <3>2. CASE ~(~b.completed /\ m.down)
      <4>1. b1 = b /\ c1 = c
        BY <2>1, <3>2, BeforeTypes DEF Like
      <4>2. m.down \in BOOLEAN /\ (b.completed \/ m.down => b.completed)
        BY <2>1, <3>2 DEF Events
      <4> HIDE DEF b1, c1
      <4> QED
        BY <4>1, <4>2 DEF Like
    <3> QED
      BY <3>1, <3>2
  <2>3. /\ b2.flags = b.flags /\ b2.owned = b.owned /\ b2.clean = b1.clean /\ b2.good = b1.good
        /\ b2.completed = (b.completed \/ m.down) /\ b2.d = AddDriver(b1.d, m)
        /\ b2.x = IF Skips(b1.d, m.key) THEN b1.x ELSE ProcessEvent(b1.x, m)
    BY <2>1, KeyTypes
  <2>4. /\ c2.flags = c.flags /\ c2.owned = c.owned /\ c2.clean = c1.clean /\ c2.good = c1.good
        /\ c2.completed = (c.completed \/ m.down) /\ c2.d = AddDriver(c1.d, m)
        /\ c2.x = IF Skips(c1.d, m.key) THEN c1.x ELSE ProcessEvent(c1.x, m)
    BY <2>1, KeyTypes
  <2> HIDE DEF b1, c1, b2, c2
  <2>5. b.flags = c.flags /\ b.completed = c.completed /\ b.owned = c.owned
    BY DEF Like
  <2>6. b2.x.held = c2.x.held
    <3>1. /\ ProcessEvent(b1.x, m).held
                = IF m.down THEN b1.x.held \cup {m.key} ELSE b1.x.held \ {m.key}
          /\ ProcessEvent(c1.x, m).held
                = IF m.down THEN c1.x.held \cup {m.key} ELSE c1.x.held \ {m.key}
      <4>1. "key" \in DOMAIN m /\ m.down \in BOOLEAN
        BY <2>1 DEF Events
      <4> QED
        BY <4>1 DEF ProcessEvent, KeyDown, KeyUp
    <3>2. ProcessEvent(b1.x, m).held = ProcessEvent(c1.x, m).held
      BY <2>2, <3>1
    <3> HIDE DEF Skips
    <3>3. Skips(b1.d, m.key) = Skips(c1.d, m.key)
      BY <2>2
    <3> QED
      BY <2>2, <2>3, <2>4, <3>2, <3>3
  <2>7. c2.good /\ b2.clean /\ b2.completed => b2.x = c2.x
    BY <2>2, <2>3, <2>4
  <2>8. b2.d = c2.d /\ b2.completed = c2.completed /\ b2.flags = c2.flags /\ b2.owned = c2.owned
    BY <2>2, <2>3, <2>4, <2>5
  <2>9. (b2.clean => c2.clean) /\ (c2.good => b2.good)
    BY <2>2, <2>3, <2>4
  <2> QED
    BY <2>1, <2>6, <2>7, <2>8, <2>9 DEF Like
<1>5. CASE "sync" \notin DOMAIN m /\ "layout" \notin DOMAIN m /\ "key" \notin DOMAIN m
  BY <1>5 DEF Hears
<1> QED
  BY <1>2, <1>3, <1>4, <1>5

\* So do all messages in the socket.
LEMMA HearingLike ==
  ASSUME NEW b \in Heards, NEW c \in Heards, Like(b, c), NEW ms \in Seq(AllMessages)
  PROVE  Like(Hearing(b, ms), Hearing(c, ms))
<1> DEFINE R == {p \in Heards \X Heards : Like(p[1], p[2])}
           v == Hearing(b, ms)
           w == Hearing(c, ms)
<1>1. IsRun(Heards, HearStep, b, ms, v) /\ IsRun(Heards, HearStep, c, ms, w)
  BY HearingFacts
<1>2. <<b, c>> \in R
  OBVIOUS
<1>3. Len(ms) \in Nat /\ \A k \in 1..Len(ms) : ms[k] \in AllMessages
  OBVIOUS
<1>4. ASSUME NEW y \in Heards, NEW z \in Heards, NEW m \in AllMessages, <<y, z>> \in R
      PROVE  <<HearStep[<<y, m>>], HearStep[<<z, m>>]>> \in R
  <2>1. Like(y, z)
    BY <1>4
  <2>2. Like(Hears(y, m), Hears(z, m))
    BY <2>1, LikeKept
  <2>3. /\ HearStep[<<y, m>>] = Hears(y, m) /\ HearStep[<<z, m>>] = Hears(z, m)
        /\ HearStep[<<y, m>>] \in Heards /\ HearStep[<<z, m>>] \in Heards
    BY HearStepType DEF HearStep
  <2> QED
    BY <2>2, <2>3
<1>5. \A y \in Heards, z \in Heards, k \in 1..Len(ms) :
        <<y, z>> \in R => <<HearStep[<<y, ms[k]>>], HearStep[<<z, ms[k]>>]>> \in R
  BY <1>3, <1>4
<1> HIDE DEF R, v, w
<1>6. <<v, w>> \in R
  BY <1>1, <1>2, <1>3, <1>5, RunsRelate
<1> QED
  BY <1>6 DEF R, v, w

-----------------------------------------------------------------------------
(* The message that is handled *)

\* The keyboard as it will be when the queue is processed.
KeysToCome == KeysAfter(xkb, queue)

\* What has been heard, but for the messages that wait.
Now ==
  [x |-> KeysToCome, d |-> driver, flags |-> flags, completed |-> completed,
   clean |-> clean, owned |-> owned, good |-> TRUE]

\* The keys that are down at the end of the queue are those that will be held, and
\* the driver knows of a tab among them.
DownInv ==
  /\ posted = KeysToCome.held
  /\ "tab" \in KeysToCome.held => driver.tabDown

\* The types, in the terms of these proofs.
LEMMA KeysTypes ==
  ASSUME InputTypeOK
  PROVE  /\ queue \in Seq(AllEvents) /\ msgs \in Seq(AllMessages) /\ xkb \in Keyboards
         /\ [queue |-> queue, posted |-> posted] \in Queues
         /\ KeysToCome \in Keyboards /\ Now \in Heards /\ driver \in Drivers
         /\ flags \in SUBSET Locks /\ completed \in BOOLEAN /\ clean \in BOOLEAN
         /\ owned \in BOOLEAN /\ client \in [held : SUBSET Keys, locks : SUBSET Locks]
<1>1. /\ queue \in Seq(AllEvents) /\ msgs \in Seq(AllMessages) /\ xkb \in Keyboards
      /\ driver \in Drivers /\ flags \in SUBSET Locks /\ completed \in BOOLEAN
      /\ clean \in BOOLEAN /\ owned \in BOOLEAN /\ posted \in SUBSET XKeys
      /\ client \in [held : SUBSET Keys, locks : SUBSET Locks]
  BY DEF InputTypeOK, KeyboardTypeOK, AllEvents, AllMessages, Keyboards, Drivers
<1>2. [queue |-> queue, posted |-> posted] \in Queues
  BY <1>1 DEF Queues
<1>3. KeysToCome \in Keyboards
  BY <1>1, KeysFacts DEF KeysToCome
<1>4. Now \in Heards
  BY <1>1, <1>3 DEF Now, Heards
<1> QED
  BY <1>1, <1>2, <1>3, <1>4

\* The keys that the driver posts come to what they do to the keyboard.
LEMMA PostComes ==
  ASSUME InputTypeOK, DownInv, NEW events \in Seq(Events), Post(events), xkb' = xkb
  PROVE  /\ KeysToCome' = KeysAfter(KeysToCome, events)
         /\ posted' = KeysToCome'.held
<1> DEFINE a == [queue |-> queue, posted |-> posted]
<1>1. a \in Queues /\ xkb \in Keyboards
  BY KeysTypes
<1>2. a.queue = queue /\ a.posted = KeysAfter(xkb, a.queue).held
  BY DEF DownInv, KeysToCome
<1>3. queue' = Posted(a, events).queue /\ posted' = Posted(a, events).posted
  BY DEF Post, Posted
<1> HIDE DEF a
<1>4. /\ KeysAfter(xkb, Posted(a, events).queue) = KeysAfter(KeysAfter(xkb, a.queue), events)
      /\ Posted(a, events).posted = KeysAfter(xkb, Posted(a, events).queue).held
  BY <1>1, <1>2, PostedKeys
<1>5. KeysToCome' = KeysAfter(xkb, Posted(a, events).queue)
  BY <1>3 DEF KeysToCome
<1>6. KeysAfter(xkb, a.queue) = KeysToCome
  BY <1>2 DEF KeysToCome
<1> QED
  BY <1>3, <1>4, <1>5, <1>6

\* A synchronisation does what is heard of it, but for locks that it did not see
\* as they will be.
LEMMA SyncHandled ==
  ASSUME InputTypeOK, DownInv, NEW l \in SUBSET Locks, KbdSync(l)
  PROVE  DownInv' /\ Like(Now', HearsSync(Now, l))
<1> DEFINE c == HearsSync(Now, l)
           X == KeysToCome
<1>1. /\ flags' = l /\ owned' = TRUE /\ clean' = CleanSync
      /\ driver' = SyncDriver(driver, l) /\ Post(SyncEvents(driver, l))
      /\ completed' = completed /\ xkb' = xkb
  BY DEF KbdSync
<1>2. /\ X \in Keyboards /\ driver \in Drivers /\ driver.scrollState \in BOOLEAN
      /\ driver.skip \in BOOLEAN
  BY KeysTypes DEF Drivers
<1>3. SyncEvents(driver, l) \in Seq(Events)
  <2>1. Down("tab") \in Events
    BY DEF Events, Down, XKeys, Keys
  <2> QED
    BY <2>1, KeyEventsType
<1>4. KeysToCome' = KeysAfter(X, SyncEvents(driver, l)) /\ posted' = KeysToCome'.held
  BY <1>1, <1>3, PostComes
<1>5. /\ KeysToCome' \in Keyboards
      /\ KeysToCome'.held = X.held \ Locks
      /\ X.held \cap Locks = {} /\ XkbState = X.locked => KeysToCome' = Synced(X, l)
  <2> HIDE DEF X
  <2>1. /\ KeysAfter(X, SyncEvents(driver, l)) \in Keyboards
        /\ KeysAfter(X, SyncEvents(driver, l)).held = X.held \ Locks
        /\ X.held \cap Locks = {} /\ XkbState = X.locked
             => KeysAfter(X, SyncEvents(driver, l)) = Synced(X, l)
    BY <1>2, SyncedKeys
  <2> QED
    BY <1>4, <2>1
<1>6. clean' => XkbState = X.locked /\ ~driver.skip
  <2>1. CleanSync => XkbState = X.locked /\ ~driver.skip
    BY DEF CleanSync, KeysToCome, KeysAfter
  <2> QED
    BY <1>1, <2>1
<1>7. /\ c.x = Synced(X, l) /\ c.d = SyncDriver(driver, l) /\ c.flags = l
      /\ c.completed = completed /\ c.owned = TRUE
      /\ ~driver.skip => c.clean
      /\ c.good => X.held \cap Locks = {}
  BY DEF HearsSync, Now
<1>8. /\ Now'.x = KeysToCome' /\ Now'.d = driver' /\ Now'.flags = flags'
      /\ Now'.completed = completed' /\ Now'.clean = clean' /\ Now'.owned = owned'
      /\ Now'.good = TRUE
  BY DEF Now
<1>9. Synced(X, l).held = X.held \ Locks
  BY DEF Synced
<1>10. DownInv'
  <2>1. "tab" \notin Locks
    BY DEF Locks, XLocks
  <2>2. driver'.tabDown = driver.tabDown
    BY <1>1, <1>2 DEF SyncDriver, Drivers
  <2> HIDE DEF X
  <2>3. "tab" \in KeysToCome'.held => driver'.tabDown
    BY <1>5, <2>1, <2>2 DEF DownInv, X
  <2> QED
    BY <1>4, <2>3 DEF DownInv
<1>11. Like(Now', c)
  <2> DEFINE b == Now'
  <2>1. /\ b.x = KeysToCome' /\ b.d = driver' /\ b.flags = flags'
        /\ b.completed = completed' /\ b.clean = clean' /\ b.owned = owned'
        /\ b.good = TRUE
    BY <1>8
  <2> HIDE DEF b, c, X
  <2>2. b.d = c.d /\ b.flags = c.flags /\ b.completed = c.completed /\ b.owned = c.owned
    BY <1>1, <1>7, <2>1
  <2>3. b.x.held = c.x.held
    BY <1>5, <1>7, <1>9, <2>1
  <2>4. b.clean => c.clean
    BY <1>1, <1>6, <1>7, <2>1
  <2>5. c.good /\ b.clean => b.x = c.x
    BY <1>1, <1>5, <1>6, <1>7, <2>1
  <2> QED
    BY <2>1, <2>2, <2>3, <2>4, <2>5 DEF Like, b
<1> QED
  BY <1>10, <1>11

\* A change of the layout does what is heard of it, when the events that wait in
\* the queue hold no key down.
LEMMA LayoutHandled ==
  ASSUME InputTypeOK, KeysAfter(NoKeys, queue).held = {}, LoadLayout
  PROVE  DownInv' /\ Like(Now', HearsLayout(Now))
<1> DEFINE c == HearsLayout(Now)
<1>1. /\ xkb' = NoKeys /\ posted' = {} /\ completed' = FALSE
      /\ UNCHANGED <<flags, driver, queue, owned, clean>>
  BY DEF LoadLayout
<1>2. KeysToCome'.held = {}
  BY <1>1 DEF KeysToCome
<1>3. /\ c.flags = flags /\ c.owned = owned /\ c.clean = clean /\ c.good = TRUE
      /\ c.completed = FALSE /\ c.d = driver /\ c.x = NoKeys
  <2>1. Now \in Heards
    BY KeysTypes
  <2>2. Now.flags = flags /\ Now.owned = owned /\ Now.clean = clean /\ Now.d = driver
    BY DEF Now
  <2> QED
    BY <2>1, <2>2, LayoutTypes
<1>4. /\ Now'.x = KeysToCome' /\ Now'.d = driver' /\ Now'.flags = flags'
      /\ Now'.completed = completed' /\ Now'.clean = clean' /\ Now'.owned = owned'
      /\ Now'.good = TRUE
  BY DEF Now
<1>5. DownInv'
  BY <1>1, <1>2 DEF DownInv
<1>6. Like(Now', c)
  <2> DEFINE b == Now'
  <2>1. /\ b.x = KeysToCome' /\ b.d = driver' /\ b.flags = flags'
        /\ b.completed = completed' /\ b.clean = clean' /\ b.owned = owned'
        /\ b.good = TRUE
    BY <1>4
  <2>2. NoKeys.held = {}
    BY DEF NoKeys
  <2> HIDE DEF b, c
  <2> QED
    BY <1>1, <1>2, <1>3, <2>1, <2>2 DEF Like, b
<1> QED
  BY <1>5, <1>6

\* A key does what is heard of it, but for the locks of a synchronisation that it
\* repeats.
LEMMA KeyHandled ==
  ASSUME InputTypeOK, DownInv, NEW e \in Events, KbdAddEvent(e)
  PROVE  DownInv' /\ Like(Now', HearsKey(Now, e))
<1> DEFINE X        == KeysToCome
           deferred == ~completed /\ e.down
           d        == IF deferred THEN SyncDriver(driver, flags) ELSE driver
           before   == IF deferred THEN SyncEvents(driver, flags) ELSE <<>>
           after    == AddEvents(d, e)
           x        == KeysAfter(X, before)
           b1       == BeforeKey(Now, e)
           c        == HearsKey(Now, e)
<1>1. /\ completed' = (completed \/ e.down)
      /\ clean' = IF deferred THEN clean /\ CleanSync ELSE clean
      /\ driver' = AddDriver(d, e)
      /\ Post(before \o after)
      /\ flags' = flags /\ xkb' = xkb /\ owned' = owned
  BY DEF KbdAddEvent
<1>2. /\ X \in Keyboards /\ driver \in Drivers /\ driver.scrollState \in BOOLEAN
      /\ flags \in SUBSET Locks /\ Now \in Heards
  BY KeysTypes DEF Drivers
<1>3. d \in Drivers /\ d.tabDown = driver.tabDown
  <2>1. SyncDriver(driver, flags) \in Drivers
    BY <1>2, DriverTypes DEF Drivers
  <2>2. SyncDriver(driver, flags).tabDown = driver.tabDown
    BY <1>2 DEF SyncDriver, Drivers
  <2> QED
    BY <1>2, <2>1, <2>2
<1>4. before \in Seq(Events) /\ after \in Seq(Events)
  <2>1. SyncEvents(driver, flags) \in Seq(Events) /\ AddEvents(d, e) \in Seq(Events)
    <3> HIDE DEF d
    <3> QED
      BY KeyEventsType
  <2>2. <<>> \in Seq(Events)
    OBVIOUS
  <2> QED
    BY <2>1, <2>2
<1>5. before \in Seq(AllEvents) /\ after \in Seq(AllEvents) /\ before \o after \in Seq(Events)
  <2> HIDE DEF before, after
  <2> QED
    BY <1>4 DEF AllEvents
<1>6. KeysToCome' = KeysAfter(X, before \o after) /\ posted' = KeysToCome'.held
  <2> HIDE DEF before, after
  <2> QED
    BY <1>1, <1>5, PostComes
<1>7. /\ x \in Keyboards /\ x.held \ Locks = X.held \ Locks
      /\ deferred => x.held = X.held \ Locks
      /\ deferred /\ X.held \cap Locks = {} /\ XkbState = X.locked => x = Synced(X, flags)
      /\ ~deferred => x = X
  <2>1. CASE deferred
    <3>1. before = SyncEvents(driver, flags)
      BY <2>1
    <3> HIDE DEF X, before
    <3>2. /\ KeysAfter(X, SyncEvents(driver, flags)) \in Keyboards
          /\ KeysAfter(X, SyncEvents(driver, flags)).held = X.held \ Locks
          /\ X.held \cap Locks = {} /\ XkbState = X.locked
               => KeysAfter(X, SyncEvents(driver, flags)) = Synced(X, flags)
      BY <1>2, SyncedKeys
    <3> HIDE DEF deferred
    <3> QED
      BY <2>1, <3>1, <3>2
  <2>2. CASE ~deferred
    <3>1. before = <<>>
      BY <2>2
    <3> HIDE DEF X, before
    <3>2. x = X
      BY <1>2, <3>1, KeysFacts
    <3> HIDE DEF x, deferred
    <3> QED
      BY <1>2, <2>2, <3>2
  <2> QED
    BY <2>1, <2>2
<1>8. "tab" \in x.held => d.tabDown
  <2>1. "tab" \notin Locks
    BY DEF Locks, XLocks
  <2> HIDE DEF x, d, X
  <2> QED
    BY <1>3, <1>7, <2>1 DEF DownInv, X
<1>9. KeysToCome' = IF Skips(d, e.key) THEN x ELSE ProcessEvent(x, e)
  <2>1. KeysAfter(X, before \o after) = KeysAfter(x, after)
    <3> HIDE DEF X, before, after
    <3> QED
      BY <1>2, <1>5, KeysFacts
  <2> HIDE DEF x, d, X
  <2>2. KeysAfter(x, after) = IF Skips(d, e.key) THEN x ELSE ProcessEvent(x, e)
    BY <1>3, <1>7, <1>8, AddedKeys
  <2> HIDE DEF after
  <2> QED
    BY <1>6, <2>1, <2>2
<1>10. /\ ProcessEvent(x, e).held = IF e.down THEN x.held \cup {e.key} ELSE x.held \ {e.key}
       /\ ProcessEvent(b1.x, e).held = IF e.down THEN b1.x.held \cup {e.key} ELSE b1.x.held \ {e.key}
  <2>1. "key" \in DOMAIN e /\ e.down \in BOOLEAN
    BY DEF Events
  <2> HIDE DEF x, b1
  <2> QED
    BY <2>1 DEF ProcessEvent, KeyDown, KeyUp
<1>11. DownInv'
  <2>1. e.key = "tab" => ~Skips(d, e.key) /\ driver'.tabDown = e.down
    <3> HIDE DEF d
    <3> QED
      BY <1>1, <1>3 DEF Skips, AddDriver, Drivers, TabDown
  <2>2. e.key # "tab" => driver'.tabDown = d.tabDown
    <3> HIDE DEF d
    <3> QED
      BY <1>1, <1>3 DEF Skips, AddDriver, Drivers
  <2> HIDE DEF x, d, X
  <2>3. "tab" \in KeysToCome'.held => driver'.tabDown
    BY <1>8, <1>9, <1>10, <2>1, <2>2
  <2> QED
    BY <1>6, <2>3 DEF DownInv
<1>12. /\ Now.x = X /\ Now.d = driver /\ Now.flags = flags /\ Now.completed = completed
       /\ Now.clean = clean /\ Now.owned = owned /\ Now.good = TRUE
  BY DEF Now
<1>13. /\ b1.d = d /\ b1.x.held = x.held
       /\ clean' => b1.clean
       /\ b1.good /\ clean' /\ completed' => x = b1.x
  <2>1. CASE deferred
    <3>1. /\ b1.x = Synced(X, flags) /\ b1.d = SyncDriver(driver, flags)
          /\ b1.clean = (clean /\ ~driver.skip)
          /\ b1.good = (TRUE /\ X.held \cap Locks = {})
      BY <1>2, <1>12, <2>1, BeforeTypes
    <3>2. d = SyncDriver(driver, flags)
      BY <2>1
    <3>3. clean' = (clean /\ CleanSync)
      BY <1>1, <2>1
    <3>4. clean' => clean /\ XkbState = X.locked /\ ~driver.skip
      <4>1. CleanSync => XkbState = X.locked /\ ~driver.skip
        BY DEF CleanSync, KeysToCome, KeysAfter
      <4> QED
        BY <3>3, <4>1
    <3>5. Synced(X, flags).held = X.held \ Locks
      BY DEF Synced
    <3> HIDE DEF b1, d, x, X, deferred
    <3>6. b1.d = d
      BY <3>1, <3>2
    <3>7. b1.x.held = x.held
      BY <1>7, <2>1, <3>1, <3>5
    <3>8. clean' => b1.clean
      BY <3>1, <3>4
    <3>9. b1.good /\ clean' => x = b1.x
      BY <1>7, <2>1, <3>1, <3>4
    <3> QED
      BY <3>6, <3>7, <3>8, <3>9
  <2>2. CASE ~deferred
    <3>1. b1 = Now
      BY <1>2, <1>12, <2>2, BeforeTypes
    <3>2. d = driver /\ clean' = clean
      BY <1>1, <2>2
    <3> HIDE DEF b1, d, x, X, deferred
    <3> QED
      BY <1>7, <1>12, <2>2, <3>1, <3>2
  <2> QED
    BY <2>1, <2>2
<1>14. /\ c.flags = flags /\ c.owned = owned /\ c.clean = b1.clean /\ c.good = b1.good
       /\ c.completed = (completed \/ e.down) /\ c.d = AddDriver(b1.d, e)
       /\ c.x = IF Skips(b1.d, e.key) THEN b1.x ELSE ProcessEvent(b1.x, e)
  BY <1>2, <1>12, KeyTypes
<1>15. Like(Now', c)
  <2> DEFINE b == Now'
  <2>1. /\ b.x = KeysToCome' /\ b.d = driver' /\ b.flags = flags'
        /\ b.completed = completed' /\ b.clean = clean' /\ b.owned = owned'
        /\ b.good = TRUE
    BY DEF Now
  <2> HIDE DEF b, b1, c, d, x, X, deferred, before, after
  <2>2. b.d = c.d /\ b.flags = c.flags /\ b.completed = c.completed /\ b.owned = c.owned
    BY <1>1, <1>13, <1>14, <2>1
  <2>3. Skips(b1.d, e.key) = Skips(d, e.key)
    BY <1>13
  <2>4. b.x.held = c.x.held
    BY <1>9, <1>10, <1>13, <1>14, <2>1, <2>3
  <2>5. b.clean => c.clean
    BY <1>13, <1>14, <2>1
  <2>6. c.good /\ b.clean /\ b.completed => b.x = c.x
    BY <1>9, <1>13, <1>14, <2>1, <2>3
  <2> QED
    BY <2>1, <2>2, <2>4, <2>5, <2>6 DEF Like, b
<1> QED
  BY <1>11, <1>15

-----------------------------------------------------------------------------
(* What has been heard agrees with the client. *)

Clients == [held : SUBSET Keys, locks : SUBSET Locks]

\* The keys are the client's, but for a num lock that was taken for the end of a
\* pause key that another client had begun; so is what the driver keeps.
KeysAgree(p, c) ==
  /\ p.x.held \subseteq c.held
  /\ c.held \ p.x.held \subseteq {"num"}
  /\ p.clean => p.x.held = c.held /\ p.owned
  /\ p.d.skip => ~p.clean /\ c.held = {}
  /\ "tab" \in p.x.held => p.d.tabDown
  /\ p.owned => (p.d.scrollState <=> "scroll" \in c.locks) /\ (p.d.scrollDown <=> "scroll" \in c.held)
  /\ p.good

\* A lock goes off with its key up when the client's is off already.
LocksAgree(p, c) ==
  \A k \in XLocks :
    IF k \in c.held
    THEN k \in p.x.locked /\ (k \in p.x.unlocking <=> k \notin c.locks)
    ELSE k \in p.x.locked <=> k \in c.locks

\* Until the first key the locks are those of the last synchronisation, which that
\* key repeats.
Agrees(p, c) ==
  /\ KeysAgree(p, c)
  /\ p.completed => (p.clean => LocksAgree(p, c))
  /\ ~p.completed => c.held = {} /\ (p.owned => p.flags = c.locks)

\* The parts of what has been heard.
LEMMA HeardParts ==
  ASSUME NEW p \in Heards
  PROVE  /\ p.x \in Keyboards /\ p.x.held \in SUBSET XKeys /\ p.x.locked \in SUBSET XLocks
         /\ p.x.unlocking \subseteq p.x.held \cap p.x.locked
         /\ p.d \in Drivers /\ p.flags \in SUBSET Locks
         /\ p.completed \in BOOLEAN /\ p.clean \in BOOLEAN /\ p.owned \in BOOLEAN /\ p.good \in BOOLEAN
BY DEF Heards, Keyboards

\* Before a key that goes down the locks agree: they did, or the synchronisation is
\* repeated.
LEMMA BeforeAgrees ==
  ASSUME NEW p \in Heards, NEW c \in Clients, Agrees(p, c), NEW e \in Events, e.down
  PROVE  LET b == BeforeKey(p, e)
         IN b \in Heards /\ KeysAgree(b, c) /\ (b.clean => LocksAgree(b, c))
<1> DEFINE b == BeforeKey(p, e)
<1>1. b \in Heards
  BY BeforeTypes
<1>2. CASE p.completed
  <2>1. b = p
    BY <1>2, BeforeTypes
  <2> QED
    BY <1>1, <1>2, <2>1 DEF Agrees
<1>3. CASE ~p.completed
  <2>1. /\ b.flags = p.flags /\ b.owned = p.owned
        /\ b.x = Synced(p.x, p.flags) /\ b.d = SyncDriver(p.d, p.flags)
        /\ b.clean => p.clean
        /\ (p.good /\ p.x.held \cap Locks = {}) => b.good
    BY <1>3, BeforeTypes
  <2>2. p.x.held = {} /\ c.held = {} /\ (p.owned => p.flags = c.locks) /\ p.good
        /\ (p.clean => p.owned) /\ (p.d.skip => ~p.clean)
    BY <1>3 DEF Agrees, KeysAgree
  <2>3. b.x.held = {} /\ b.x.locked = p.flags \cap XLocks /\ b.x.unlocking = {}
    BY <2>1, <2>2 DEF Synced
  <2>4. /\ b.d.skip = p.d.skip /\ b.d.tabDown = p.d.tabDown
        /\ b.d.scrollDown = FALSE /\ (b.d.scrollState <=> "scroll" \in p.flags)
    <3>1. p.d \in Drivers
      BY HeardParts
    <3> QED
      BY <2>1, <3>1 DEF SyncDriver, Drivers
  <2> HIDE DEF b
  <2>5. KeysAgree(b, c)
    BY <2>1, <2>2, <2>3, <2>4 DEF KeysAgree
  <2>6. b.clean => LocksAgree(b, c)
    BY <2>1, <2>2, <2>3 DEF LocksAgree
  <2> QED
    BY <1>1, <2>5, <2>6 DEF b
<1> QED
  BY <1>2, <1>3

\* A key that goes down.
LEMMA PressAgrees ==
  ASSUME NEW p \in Heards, NEW c \in Clients, Agrees(p, c), NEW k \in Keys, k \notin c.held
  PROVE  Agrees(HearsKey(p, Down(k)),
                [held  |-> c.held \cup {k},
                 locks |-> (c.locks \ {k}) \cup (({k} \cap Locks) \ c.locks)])
<1> DEFINE e == Down(k)
           b == BeforeKey(p, e)
           q == HearsKey(p, e)
           n == [held  |-> c.held \cup {k},
                 locks |-> (c.locks \ {k}) \cup (({k} \cap Locks) \ c.locks)]
<1>1. e \in Events /\ e.key = k /\ e.down = TRUE /\ "key" \in DOMAIN e /\ k # "pause"
  BY DEF Down, Events, XKeys, Keys, Locks, XLocks
<1>2. b \in Heards /\ KeysAgree(b, c) /\ (b.clean => LocksAgree(b, c))
  BY <1>1, BeforeAgrees
<1>3. /\ q \in Heards /\ q.owned = b.owned /\ q.clean = b.clean /\ q.good = b.good
      /\ q.completed /\ q.d = AddDriver(b.d, e)
      /\ q.x = IF Skips(b.d, k) THEN b.x ELSE ProcessEvent(b.x, e)
  <2>1. /\ q \in Heards /\ q.owned = p.owned /\ q.clean = b.clean /\ q.good = b.good
        /\ q.completed = (p.completed \/ e.down) /\ q.d = AddDriver(b.d, e)
        /\ q.x = IF Skips(b.d, e.key) THEN b.x ELSE ProcessEvent(b.x, e)
    BY <1>1, KeyTypes
  <2>2. b.owned = p.owned
    BY <1>1, BeforeTypes
  <2>3. q.completed
    BY <1>1, <2>1
  <2> HIDE DEF b, q, e
  <2> QED
    BY <1>1, <2>1, <2>2, <2>3
<1> HIDE DEF b, q, e, n
<1>4. /\ n.held = c.held \cup {k}
      /\ n.locks = (c.locks \ {k}) \cup (({k} \cap Locks) \ c.locks)
  BY DEF n
<1>5. /\ b.x.unlocking \subseteq b.x.held \cap b.x.locked /\ b.d \in Drivers
      /\ b.x.held \subseteq c.held /\ c.held \ b.x.held \subseteq {"num"}
      /\ b.clean => b.x.held = c.held /\ b.owned
      /\ b.d.skip => ~b.clean /\ c.held = {}
      /\ "tab" \in b.x.held => b.d.tabDown
      /\ b.owned => (b.d.scrollState <=> "scroll" \in c.locks) /\ (b.d.scrollDown <=> "scroll" \in c.held)
      /\ b.good
  BY <1>2, HeardParts DEF KeysAgree
<1>6. "scroll" \in Locks /\ "scroll" # "num" /\ "scroll" # "tab" /\ XLocks \subseteq Locks
  BY DEF Locks, XLocks
<1>7. CASE Skips(b.d, k)
  <2>1. b.d.skip /\ k = "num" /\ ~b.clean /\ c.held = {} /\ b.x.held = {}
    BY <1>5, <1>7 DEF Skips
  <2>2. q.x = b.x /\ q.d = [b.d EXCEPT !.skip = FALSE]
    BY <1>1, <1>3, <1>7, <2>1 DEF AddDriver, Skips
  <2>3. ~q.d.skip /\ q.d.scrollState = b.d.scrollState /\ q.d.scrollDown = b.d.scrollDown
    BY <1>5, <2>2 DEF Drivers
  <2>4. ~q.clean /\ (q.owned => b.owned) /\ q.good
    BY <1>3, <1>5, <2>1
  <2>5. n.held = {"num"} /\ ("scroll" \in n.locks <=> "scroll" \in c.locks)
    BY <1>4, <1>6, <2>1
  <2>6. q.owned => (q.d.scrollState <=> "scroll" \in n.locks) /\ (q.d.scrollDown <=> "scroll" \in n.held)
    BY <1>5, <1>6, <2>1, <2>3, <2>4, <2>5
  <2>7. KeysAgree(q, n)
    BY <2>1, <2>2, <2>3, <2>4, <2>5, <2>6 DEF KeysAgree
  <2>8. Agrees(q, n)
    BY <1>3, <2>4, <2>7 DEF Agrees
  <2> QED
    BY <2>8 DEF e, q, n
<1>8. CASE ~Skips(b.d, k)
  <2>1. q.x = KeyDown(b.x, k)
    BY <1>1, <1>3, <1>5, <1>8 DEF ProcessEvent
  <2>2. /\ q.x.held = b.x.held \cup {k} /\ q.x.locked = b.x.locked \cup ({k} \cap XLocks)
        /\ q.x.unlocking = b.x.unlocking \cup ({k} \cap b.x.locked)
    BY <2>1 DEF KeyDown
  <2>3. /\ ~q.d.skip
        /\ k = "tab" => q.d.tabDown
        /\ k # "tab" => (q.d.tabDown <=> b.d.tabDown)
        /\ k = "scroll" => q.d.scrollDown /\ (~b.d.scrollDown => (q.d.scrollState <=> ~b.d.scrollState))
        /\ k # "scroll" => (q.d.scrollDown <=> b.d.scrollDown) /\ (q.d.scrollState <=> b.d.scrollState)
    <3>1. CASE k = "scroll"
      <4>1. q.d = [b.d EXCEPT !.skip = FALSE, !.scrollDown = e.down,
                              !.scrollState = IF e.down /\ ~b.d.scrollDown THEN ~@ ELSE @]
        BY <1>1, <1>3, <1>8, <3>1 DEF AddDriver, Skips
      <4>2. /\ q.d.skip = FALSE /\ q.d.scrollDown = TRUE /\ q.d.tabDown = b.d.tabDown
            /\ q.d.scrollState = IF e.down /\ ~b.d.scrollDown THEN ~b.d.scrollState
                                                             ELSE b.d.scrollState
        BY <1>1, <1>5, <4>1 DEF Drivers
      <4>3. ~b.d.scrollDown => (q.d.scrollState <=> ~b.d.scrollState)
        BY <1>1, <4>2
      <4> QED
        BY <3>1, <4>2, <4>3
    <3>2. CASE k # "scroll"
      BY <1>1, <1>3, <1>5, <1>8, <3>2 DEF AddDriver, Drivers, TabDown, Skips
    <3> QED
      BY <3>1, <3>2
  <2>4. (q.clean <=> b.clean) /\ (q.owned <=> b.owned) /\ q.good
    BY <1>3, <1>5
  <2>5. q.owned => (q.d.scrollState <=> "scroll" \in n.locks) /\ (q.d.scrollDown <=> "scroll" \in n.held)
    <3>1. CASE k = "scroll"
      <4>1. "scroll" \in n.held /\ ("scroll" \in n.locks <=> "scroll" \notin c.locks)
        BY <1>4, <1>6, <3>1
      <4> QED
        BY <1>5, <2>3, <2>4, <3>1, <4>1
    <3>2. CASE k # "scroll"
      <4>1. ("scroll" \in n.held <=> "scroll" \in c.held) /\ ("scroll" \in n.locks <=> "scroll" \in c.locks)
        BY <1>4, <3>2
      <4> QED
        BY <1>5, <2>3, <2>4, <3>2, <4>1
    <3> QED
      BY <3>1, <3>2
  <2>6. "tab" \in q.x.held => q.d.tabDown
    BY <1>5, <2>2, <2>3
  <2>7. KeysAgree(q, n)
    BY <1>4, <1>5, <2>2, <2>3, <2>4, <2>5, <2>6 DEF KeysAgree
  <2>8. ASSUME q.clean PROVE LocksAgree(q, n)
    <3> SUFFICES ASSUME NEW j \in XLocks
                 PROVE  IF j \in n.held
                        THEN j \in q.x.locked /\ (j \in q.x.unlocking <=> j \notin n.locks)
                        ELSE j \in q.x.locked <=> j \in n.locks
      BY DEF LocksAgree
    <3>1. IF j \in c.held
          THEN j \in b.x.locked /\ (j \in b.x.unlocking <=> j \notin c.locks)
          ELSE j \in b.x.locked <=> j \in c.locks
      BY <1>2, <2>4, <2>8 DEF LocksAgree
    <3>2. CASE j = k
      <4>1. j \notin b.x.unlocking /\ j \notin c.held /\ j \in Locks
        BY <1>5, <1>6, <3>2
      <4>2. j \in n.held /\ (j \in n.locks <=> j \notin c.locks)
        BY <1>4, <3>2, <4>1
      <4>3. j \in q.x.locked /\ (j \in q.x.unlocking <=> j \in b.x.locked)
        BY <2>2, <3>2, <4>1
      <4> QED
        BY <3>1, <4>1, <4>2, <4>3
    <3>3. CASE j # k
      <4>1. (j \in n.held <=> j \in c.held) /\ (j \in n.locks <=> j \in c.locks)
        BY <1>4, <3>3
      <4>2. (j \in q.x.locked <=> j \in b.x.locked) /\ (j \in q.x.unlocking <=> j \in b.x.unlocking)
        BY <2>2, <3>3
      <4> QED
        BY <3>1, <4>1, <4>2
    <3> QED
      BY <3>2, <3>3
  <2>9. Agrees(q, n)
    BY <1>3, <2>7, <2>8 DEF Agrees
  <2> QED
    BY <2>9 DEF e, q, n
<1> QED
  BY <1>7, <1>8

\* A key that comes up.
LEMMA ReleaseAgrees ==
  ASSUME NEW p \in Heards, NEW c \in Clients, Agrees(p, c), NEW k \in c.held
  PROVE  Agrees(HearsKey(p, Up(k)), [c EXCEPT !.held = @ \ {k}])
<1> DEFINE e == Up(k)
           q == HearsKey(p, e)
           n == [c EXCEPT !.held = @ \ {k}]
<1>1. e \in Events /\ e.key = k /\ e.down = FALSE /\ "key" \in DOMAIN e /\ k # "pause"
  <2>1. k \in Keys
    BY DEF Clients
  <2> QED
    BY <2>1 DEF Up, Events, XKeys, Keys, Locks, XLocks
<1>2. BeforeKey(p, e) = p
  BY <1>1, BeforeTypes
<1>3. /\ q.owned = p.owned /\ q.clean = p.clean /\ q.good = p.good
      /\ q.completed = (p.completed \/ e.down) /\ q.d = AddDriver(p.d, e)
      /\ q.x = IF Skips(p.d, k) THEN p.x ELSE ProcessEvent(p.x, e)
  <2> HIDE DEF e
  <2> QED
    BY <1>1, <1>2, KeyTypes
<1> HIDE DEF q, e, n
<1>4. n.held = c.held \ {k} /\ n.locks = c.locks
  BY DEF n, Clients
<1>5. /\ p.x.unlocking \subseteq p.x.held \cap p.x.locked /\ p.d \in Drivers
      /\ p.x.held \subseteq c.held /\ c.held \ p.x.held \subseteq {"num"}
      /\ p.clean => p.x.held = c.held /\ p.owned
      /\ p.d.skip => ~p.clean /\ c.held = {}
      /\ "tab" \in p.x.held => p.d.tabDown
      /\ p.owned => (p.d.scrollState <=> "scroll" \in c.locks) /\ (p.d.scrollDown <=> "scroll" \in c.held)
      /\ p.good
  BY HeardParts DEF Agrees, KeysAgree
<1>6. p.completed /\ ~p.d.skip /\ ~Skips(p.d, k)
  BY <1>5 DEF Agrees, Skips
<1>7. /\ ~q.d.skip
      /\ k # "tab" => (q.d.tabDown <=> p.d.tabDown)
      /\ k = "scroll" => ~q.d.scrollDown
      /\ k # "scroll" => (q.d.scrollDown <=> p.d.scrollDown)
      /\ q.d.scrollState <=> p.d.scrollState
  BY <1>1, <1>3, <1>5, <1>6 DEF AddDriver, Drivers, TabDown, Skips
<1>8. /\ k \in p.x.held => q.x = KeyUp(p.x, k)
      /\ k \notin p.x.held => q.x = p.x
  BY <1>1, <1>3, <1>6 DEF ProcessEvent
<1>9. q.x.held = p.x.held \ {k}
  BY <1>8 DEF KeyUp
<1>10. (q.clean <=> p.clean) /\ (q.owned <=> p.owned) /\ q.good
  BY <1>3, <1>5
<1>11. q.owned => (q.d.scrollState <=> "scroll" \in n.locks) /\ (q.d.scrollDown <=> "scroll" \in n.held)
  <2>1. CASE k = "scroll"
    BY <1>4, <1>5, <1>7, <1>10, <2>1
  <2>2. CASE k # "scroll"
    BY <1>4, <1>5, <1>7, <1>10, <2>2
  <2> QED
    BY <2>1, <2>2
<1>12. KeysAgree(q, n)
  BY <1>4, <1>5, <1>7, <1>9, <1>10, <1>11 DEF KeysAgree
<1>13. ASSUME q.clean PROVE LocksAgree(q, n)
  <2> SUFFICES ASSUME NEW j \in XLocks
               PROVE  IF j \in n.held
                      THEN j \in q.x.locked /\ (j \in q.x.unlocking <=> j \notin n.locks)
                      ELSE j \in q.x.locked <=> j \in n.locks
    BY DEF LocksAgree
  <2>1. IF j \in c.held
        THEN j \in p.x.locked /\ (j \in p.x.unlocking <=> j \notin c.locks)
        ELSE j \in p.x.locked <=> j \in c.locks
    BY <1>6, <1>10, <1>13 DEF Agrees, LocksAgree
  <2>2. q.x.locked = p.x.locked \ ({k} \cap p.x.unlocking) /\ q.x.unlocking = p.x.unlocking \ {k}
    BY <1>5, <1>8, <1>10, <1>13 DEF KeyUp
  <2>3. CASE j = k
    BY <1>4, <2>1, <2>2, <2>3
  <2>4. CASE j # k
    BY <1>4, <2>1, <2>2, <2>4
  <2> QED
    BY <2>3, <2>4
<1>14. q.completed
  BY <1>3, <1>6
<1>15. Agrees(q, n)
  BY <1>12, <1>13, <1>14 DEF Agrees
<1> QED
  BY <1>15 DEF e, q, n

\* A key that repeats.
LEMMA RepeatAgrees ==
  ASSUME NEW p \in Heards, NEW c \in Clients, Agrees(p, c), NEW k \in c.held
  PROVE  Agrees(HearsKey(p, Down(k)), c)
<1> DEFINE e == Down(k)
           q == HearsKey(p, e)
<1>1. e \in Events /\ e.key = k /\ e.down = TRUE /\ "key" \in DOMAIN e /\ k # "pause"
  <2>1. k \in Keys
    BY DEF Clients
  <2> QED
    BY <2>1 DEF Down, Events, XKeys, Keys, Locks, XLocks
<1>2. p.completed
  BY DEF Agrees
<1>3. BeforeKey(p, e) = p
  <2> HIDE DEF e
  <2> QED
    BY <1>1, <1>2, BeforeTypes
<1>4. /\ q.owned = p.owned /\ q.clean = p.clean /\ q.good = p.good
      /\ q.completed = (p.completed \/ e.down) /\ q.d = AddDriver(p.d, e)
      /\ q.x = IF Skips(p.d, k) THEN p.x ELSE ProcessEvent(p.x, e)
  <2> HIDE DEF e
  <2> QED
    BY <1>1, <1>3, KeyTypes
<1> HIDE DEF q, e
<1>5. /\ p.d \in Drivers
      /\ p.x.held \subseteq c.held /\ c.held \ p.x.held \subseteq {"num"}
      /\ p.clean => p.x.held = c.held /\ p.owned
      /\ p.d.skip => ~p.clean /\ c.held = {}
      /\ "tab" \in p.x.held => p.d.tabDown
      /\ p.owned => (p.d.scrollState <=> "scroll" \in c.locks) /\ (p.d.scrollDown <=> "scroll" \in c.held)
      /\ p.good
  BY HeardParts DEF Agrees, KeysAgree
<1>6. ~p.d.skip /\ ~Skips(p.d, k)
  BY <1>5 DEF Skips
<1>7. /\ ~q.d.skip
      /\ k = "tab" => q.d.tabDown
      /\ k # "tab" => (q.d.tabDown <=> p.d.tabDown)
      /\ k = "scroll" => q.d.scrollDown /\ (p.d.scrollDown => (q.d.scrollState <=> p.d.scrollState))
      /\ k # "scroll" => (q.d.scrollDown <=> p.d.scrollDown) /\ (q.d.scrollState <=> p.d.scrollState)
  BY <1>1, <1>4, <1>5, <1>6 DEF AddDriver, Drivers, TabDown, Skips
<1>8. /\ k \notin p.x.held => q.x = KeyDown(p.x, k)
      /\ k \in p.x.held => q.x = p.x
  BY <1>1, <1>4, <1>6 DEF ProcessEvent
<1>9. q.x.held = p.x.held \cup {k}
  BY <1>8 DEF KeyDown
<1>10. (q.clean <=> p.clean) /\ (q.owned <=> p.owned) /\ q.good
  BY <1>4, <1>5
<1>11. q.owned => (q.d.scrollState <=> "scroll" \in c.locks) /\ (q.d.scrollDown <=> "scroll" \in c.held)
  <2>1. CASE k = "scroll"
    BY <1>5, <1>7, <1>10, <2>1
  <2>2. CASE k # "scroll"
    BY <1>5, <1>7, <1>10, <2>2
  <2> QED
    BY <2>1, <2>2
<1>12. KeysAgree(q, c)
  BY <1>5, <1>7, <1>9, <1>10, <1>11 DEF KeysAgree
<1>13. q.clean => LocksAgree(q, c)
  BY <1>2, <1>5, <1>8, <1>10 DEF Agrees, LocksAgree
<1>14. q.completed
  BY <1>2, <1>4
<1>15. Agrees(q, c)
  BY <1>12, <1>13, <1>14 DEF Agrees
<1> QED
  BY <1>15 DEF e, q

\* What is heard of one message more.
LEMMA HearingAppend ==
  ASSUME NEW a \in Heards, NEW q \in Seq(AllMessages), NEW m \in AllMessages
  PROVE  /\ Append(q, m) \in Seq(AllMessages)
         /\ Hearing(a, Append(q, m)) = Hears(Hearing(a, q), m)
         /\ Hears(Hearing(a, q), m) \in Heards
<1> DEFINE r == <<m>>
           b == Hearing(a, q)
<1>1. r \in Seq(AllMessages) /\ Append(q, m) = q \o r /\ Append(q, m) \in Seq(AllMessages)
  OBVIOUS
<1>2. b \in Heards
  BY HearingFacts
<1>3. Hearing(b, r) = Hears(b, m)
  BY <1>2, HearingFacts
<1>4. Hears(b, m) \in Heards
  <2>1. HearStep[<<b, m>>] \in Heards
    BY <1>2, HearStepType
  <2> QED
    BY <1>2, <2>1 DEF HearStep
<1> HIDE DEF r, b
<1>5. Hearing(a, q \o r) = Hearing(b, r)
  BY <1>1, HearingFacts DEF b
<1> QED
  BY <1>1, <1>3, <1>4, <1>5 DEF b

\* What is heard of two messages, and of three.
LEMMA HearingTwo ==
  ASSUME NEW a \in Heards, NEW l \in AllMessages, NEW m \in AllMessages
  PROVE  /\ <<l, m>> \in Seq(AllMessages)
         /\ Hearing(a, <<l, m>>) = Hears(Hears(a, l), m)
<1> DEFINE q == <<l>>
<1>1. q \in Seq(AllMessages) /\ <<l, m>> = Append(q, m)
  OBVIOUS
<1>2. Hearing(a, q) = Hears(a, l)
  BY HearingFacts
<1> HIDE DEF q
<1>3. /\ Append(q, m) \in Seq(AllMessages)
      /\ Hearing(a, Append(q, m)) = Hears(Hearing(a, q), m)
  BY <1>1, HearingAppend
<1> QED
  BY <1>1, <1>2, <1>3, Zenon

\* Three messages, one after the other.
LEMMA HearingThree ==
  ASSUME NEW a \in Heards, NEW l \in AllMessages, NEW m \in AllMessages, NEW n \in AllMessages
  PROVE  /\ <<l, m, n>> \in Seq(AllMessages)
         /\ Hearing(a, <<l, m, n>>) = Hears(Hears(Hears(a, l), m), n)
<1> DEFINE q == <<l, m>>
<1>1. q \in Seq(AllMessages) /\ <<l, m, n>> = Append(q, n)
  OBVIOUS
<1>2. Hearing(a, q) = Hears(Hears(a, l), m)
  BY HearingTwo
<1> HIDE DEF q
<1>3. /\ Append(q, n) \in Seq(AllMessages)
      /\ Hearing(a, Append(q, n)) = Hears(Hearing(a, q), n)
  BY <1>1, HearingAppend
<1> QED
  BY <1>1, <1>2, <1>3, Zenon

\* What is heard of keys, synchronisations and layouts.
LEMMA HearsFacts ==
  ASSUME NEW a
  PROVE  /\ \A k \in XKeys : /\ Down(k) \in Events /\ Down(k) \in AllMessages
                             /\ Hears(a, Down(k)) = HearsKey(a, Down(k))
         /\ \A k \in XKeys : /\ Up(k) \in Events /\ Up(k) \in AllMessages
                             /\ Hears(a, Up(k)) = HearsKey(a, Up(k))
         /\ \A l \in SUBSET Locks : Sync(l) \in AllMessages /\ Hears(a, Sync(l)) = HearsSync(a, l)
         /\ Layout \in AllMessages /\ Hears(a, Layout) = HearsLayout(a)
         /\ \A m \in PointerMessages : m \in AllMessages /\ Hears(a, m) = a
<1>1. \A k \in XKeys : Down(k) \in Events /\ Up(k) \in Events
  BY DEF Down, Up, Events
<1>2. Events \subseteq AllMessages
  BY DEF AllMessages, Messages
<1>3. ASSUME NEW e \in Events PROVE Hears(a, e) = HearsKey(a, e)
  BY DEF Hears, Events
<1>4. ASSUME NEW l \in SUBSET Locks
      PROVE  Sync(l) \in AllMessages /\ Hears(a, Sync(l)) = HearsSync(a, l)
  <2>1. Sync(l).sync = l /\ "sync" \in DOMAIN Sync(l)
    BY DEF Sync
  <2>2. Sync(l) \in AllMessages
    BY DEF AllMessages, Messages, Sync
  <2> QED
    BY <2>1, <2>2 DEF Hears
<1>5. Layout \in AllMessages /\ Hears(a, Layout) = HearsLayout(a)
  BY DEF AllMessages, Messages, Layout, Hears
<1>6. ASSUME NEW m \in PointerMessages PROVE m \in AllMessages /\ Hears(a, m) = a
  <2>1. m \in AllMessages /\ "sync" \notin DOMAIN m /\ "layout" \notin DOMAIN m /\ "key" \notin DOMAIN m
    BY DEF AllMessages, PointerMessages
  <2> QED
    BY <2>1 DEF Hears
<1> QED
  BY <1>1, <1>2, <1>3, <1>4, <1>5, <1>6

\* A synchronisation, when no key is held.
LEMMA SyncAgrees ==
  ASSUME NEW p \in Heards, p.x.held = {}, p.good, NEW l \in SUBSET Locks, NEW c,
         c = [held |-> {}, locks |-> l]
  PROVE  Agrees(HearsSync(p, l), c)
<1> DEFINE q == HearsSync(p, l)
<1>1. p.d \in Drivers
  BY HeardParts
<1>2. /\ q.x = Synced(p.x, l) /\ q.d = SyncDriver(p.d, l) /\ q.flags = l
      /\ q.clean = ~p.d.skip /\ q.owned = TRUE /\ q.good = (p.good /\ p.x.held \cap Locks = {})
  BY DEF HearsSync
<1>3. q.x.held = {} /\ q.x.locked = l \cap XLocks
  BY <1>2 DEF Synced
<1>4. q.d.skip = p.d.skip /\ q.d.scrollDown = FALSE /\ (q.d.scrollState <=> "scroll" \in l)
  BY <1>1, <1>2 DEF SyncDriver, Drivers
<1>5. c.held = {} /\ c.locks = l
  OBVIOUS
<1> HIDE DEF q
<1>6. q.good /\ q.owned /\ (q.d.skip => ~q.clean)
  BY <1>2, <1>4
<1>7. KeysAgree(q, c)
  BY <1>3, <1>4, <1>5, <1>6 DEF KeysAgree
<1>8. LocksAgree(q, c)
  BY <1>3, <1>5 DEF LocksAgree
<1>9. Agrees(q, c)
  BY <1>2, <1>5, <1>7, <1>8 DEF Agrees
<1> QED
  BY <1>9 DEF q

\* The tab that mstsc frees with a synchronisation.
LEMMA TabUpped ==
  ASSUME NEW p \in Heards
  PROVE  LET q == HearsKey(p, Up("tab"))
         IN /\ q \in Heards
            /\ q.flags = p.flags /\ q.owned = p.owned /\ q.clean = p.clean /\ q.good = p.good
            /\ q.completed = p.completed
            /\ q.d = [p.d EXCEPT !.skip = FALSE, !.tabDown = FALSE]
            /\ q.x.held = p.x.held \ {"tab"}
            /\ "tab" \notin p.x.held => q.x = p.x
<1> DEFINE e == Up("tab")
           q == HearsKey(p, e)
<1>1. /\ e \in Events /\ e.key = "tab" /\ e.down = FALSE /\ "key" \in DOMAIN e
  BY DEF Up, Events, XKeys, Keys
<1>2. BeforeKey(p, e) = p /\ p.completed \in BOOLEAN
  BY <1>1, BeforeTypes, HeardParts
<1>3. /\ q \in Heards
      /\ q.flags = p.flags /\ q.owned = p.owned /\ q.clean = p.clean /\ q.good = p.good
      /\ q.completed = (p.completed \/ e.down) /\ q.d = AddDriver(p.d, e)
      /\ q.x = IF Skips(p.d, "tab") THEN p.x ELSE ProcessEvent(p.x, e)
  <2> HIDE DEF e
  <2> QED
    BY <1>1, <1>2, KeyTypes
<1> HIDE DEF e
<1>4. ~Skips(p.d, "tab")
  BY DEF Skips
<1>5. q.d = [p.d EXCEPT !.skip = FALSE, !.tabDown = FALSE]
  BY <1>1, <1>3, <1>4 DEF AddDriver, TabDown
<1>6. ProcessEvent(p.x, e) = IF "tab" \in p.x.held THEN KeyUp(p.x, "tab") ELSE p.x
  BY <1>1 DEF ProcessEvent
<1>7. q.x.held = p.x.held \ {"tab"} /\ ("tab" \notin p.x.held => q.x = p.x)
  BY <1>3, <1>4, <1>6 DEF KeyUp
<1>8. q.completed = p.completed
  BY <1>1, <1>2, <1>3
<1> QED
  BY <1>3, <1>5, <1>7, <1>8 DEF e

\* It changes nothing that agrees when no key is held.
LEMMA TabAgrees ==
  ASSUME NEW p \in Heards, NEW c \in Clients, Agrees(p, c), c.held = {}
  PROVE  Agrees(HearsKey(p, Up("tab")), c)
<1> DEFINE q == HearsKey(p, Up("tab"))
<1>1. p.x.held = {} /\ p.d \in Drivers
  BY HeardParts DEF Agrees, KeysAgree
<1>2. /\ q.flags = p.flags /\ q.owned = p.owned /\ q.clean = p.clean /\ q.good = p.good
      /\ q.completed = p.completed /\ q.d = [p.d EXCEPT !.skip = FALSE, !.tabDown = FALSE]
      /\ q.x = p.x
  BY <1>1, TabUpped
<1> HIDE DEF q
<1>3. /\ q.d.skip = FALSE /\ q.d.scrollDown = p.d.scrollDown /\ q.d.scrollState = p.d.scrollState
  BY <1>1, <1>2 DEF Drivers
<1>4. KeysAgree(q, c)
  BY <1>1, <1>2, <1>3 DEF Agrees, KeysAgree
<1>5. Agrees(q, c)
  BY <1>2, <1>4 DEF Agrees, LocksAgree
<1> QED
  BY <1>5 DEF q

\* A key that finds nothing to repeat.
LEMMA LaterKey ==
  ASSUME NEW p \in Heards, NEW e \in Events, p.completed \/ ~e.down
  PROVE  LET q == HearsKey(p, e)
         IN /\ q \in Heards
            /\ q.flags = p.flags /\ q.owned = p.owned /\ q.clean = p.clean /\ q.good = p.good
            /\ p.completed => q.completed
            /\ q.d = AddDriver(p.d, e)
            /\ q.x = IF Skips(p.d, e.key) THEN p.x ELSE ProcessEvent(p.x, e)
<1>1. BeforeKey(p, e) = p
  BY BeforeTypes
<1>2. HearsKey(p, e).completed = (p.completed \/ e.down)
  BY KeyTypes
<1>3. p.completed => HearsKey(p, e).completed
  BY <1>2
<1> QED
  BY <1>1, <1>3, KeyTypes

\* The pause key leaves the keys and the locks as they were.
LEMMA PauseAgrees ==
  ASSUME NEW p \in Heards, NEW c \in Clients, Agrees(p, c)
  PROVE  Agrees(Hearing(p, <<Down("pause"), Down("num"), Up("pause"), Up("num")>>), c)
<1> DEFINE e1 == Down("pause")
           e2 == Down("num")
           e3 == Up("pause")
           e4 == Up("num")
           b  == BeforeKey(p, e1)
           p1 == HearsKey(p, e1)
           p2 == HearsKey(p1, e2)
           p3 == HearsKey(p2, e3)
           p4 == HearsKey(p3, e4)
<1>1. /\ e1 \in Events /\ e1.key = "pause" /\ e1.down = TRUE /\ "key" \in DOMAIN e1
      /\ e2 \in Events /\ e2.key = "num" /\ e2.down = TRUE
      /\ e3 \in Events /\ e3.key = "pause" /\ e3.down = FALSE /\ "key" \in DOMAIN e3
      /\ e4 \in Events /\ e4.key = "num" /\ e4.down = FALSE
      /\ "pause" \notin Keys /\ "pause" \notin XLocks /\ "pause" \in XKeys /\ "num" \in XKeys
  BY DEF Down, Up, Events, XKeys, Keys, Locks, XLocks
<1>2. b \in Heards /\ KeysAgree(b, c) /\ (b.clean => LocksAgree(b, c))
  BY <1>1, BeforeAgrees
<1>3. /\ b.x \in Keyboards /\ b.d \in Drivers /\ b.x.held \subseteq Keys
      /\ b.x.locked \subseteq XLocks
  BY <1>2, HeardParts DEF KeysAgree, Clients
<1>4. b.owned = p.owned /\ b.flags = p.flags
  BY <1>1, BeforeTypes
<1>5. /\ p1 \in Heards /\ p1.owned = b.owned /\ p1.clean = b.clean /\ p1.good = b.good
      /\ p1.completed /\ p1.d = [b.d EXCEPT !.skip = TRUE] /\ p1.x = KeyDown(b.x, "pause")
  <2>1. /\ p1 \in Heards /\ p1.owned = p.owned /\ p1.clean = b.clean /\ p1.good = b.good
        /\ p1.completed = (p.completed \/ e1.down) /\ p1.d = AddDriver(b.d, e1)
        /\ p1.x = IF Skips(b.d, e1.key) THEN b.x ELSE ProcessEvent(b.x, e1)
    BY <1>1, KeyTypes
  <2> HIDE DEF b, p1, e1
  <2>2. ~Skips(b.d, "pause")
    BY DEF Skips
  <2>3. AddDriver(b.d, e1) = [b.d EXCEPT !.skip = TRUE]
    BY <1>1, <2>2 DEF AddDriver
  <2>4. ProcessEvent(b.x, e1) = KeyDown(b.x, "pause")
    BY <1>1, <1>3 DEF ProcessEvent
  <2>5. p1.completed
    BY <1>1, <2>1
  <2> QED
    BY <1>1, <1>4, <2>1, <2>2, <2>3, <2>4, <2>5
<1> HIDE DEF b, p1, e1
<1>6. /\ p1.d \in Drivers /\ p1.d.skip = TRUE
      /\ p1.d.scrollDown = b.d.scrollDown /\ p1.d.scrollState = b.d.scrollState
      /\ p1.d.tabDown = b.d.tabDown
  BY <1>3, <1>5 DEF Drivers
<1>7. /\ p2 \in Heards /\ p2.owned = b.owned /\ p2.clean = b.clean /\ p2.good = b.good
      /\ p2.completed /\ p2.d = [p1.d EXCEPT !.skip = FALSE] /\ p2.x = p1.x
  <2>1. /\ p2 \in Heards /\ p2.owned = p1.owned /\ p2.clean = p1.clean /\ p2.good = p1.good
        /\ p2.completed /\ p2.d = AddDriver(p1.d, e2)
        /\ p2.x = IF Skips(p1.d, e2.key) THEN p1.x ELSE ProcessEvent(p1.x, e2)
    <3> HIDE DEF e2
    <3> QED
      BY <1>1, <1>5, LaterKey
  <2> HIDE DEF p2, e2
  <2>3. Skips(p1.d, "num")
    BY <1>6 DEF Skips
  <2>4. AddDriver(p1.d, e2) = [p1.d EXCEPT !.skip = FALSE]
    BY <1>1, <2>3 DEF AddDriver
  <2> QED
    BY <1>1, <1>5, <2>1, <2>3, <2>4
<1> HIDE DEF p2, e2
<1>8. /\ p2.d \in Drivers /\ p2.d.skip = FALSE
      /\ p2.d.scrollDown = b.d.scrollDown /\ p2.d.scrollState = b.d.scrollState
      /\ p2.d.tabDown = b.d.tabDown
  BY <1>6, <1>7 DEF Drivers
<1>9. /\ p3 \in Heards /\ p3.owned = b.owned /\ p3.clean = b.clean /\ p3.good = b.good
      /\ p3.completed /\ p3.d = [p2.d EXCEPT !.skip = TRUE] /\ p3.x = KeyUp(p1.x, "pause")
  <2>1. /\ p3 \in Heards /\ p3.owned = p2.owned /\ p3.clean = p2.clean /\ p3.good = p2.good
        /\ p3.completed /\ p3.d = AddDriver(p2.d, e3)
        /\ p3.x = IF Skips(p2.d, e3.key) THEN p2.x ELSE ProcessEvent(p2.x, e3)
    <3> HIDE DEF e3
    <3> QED
      BY <1>1, <1>7, LaterKey
  <2> HIDE DEF p3, e3
  <2>3. ~Skips(p2.d, "pause")
    BY DEF Skips
  <2>4. AddDriver(p2.d, e3) = [p2.d EXCEPT !.skip = TRUE]
    BY <1>1, <2>3 DEF AddDriver
  <2>6. "pause" \in p2.x.held
    BY <1>5, <1>7 DEF KeyDown
  <2>7. ProcessEvent(p2.x, e3) = KeyUp(p1.x, "pause")
    BY <1>1, <1>7, <2>6 DEF ProcessEvent
  <2> QED
    BY <1>1, <1>7, <2>1, <2>3, <2>4, <2>7
<1> HIDE DEF p3, e3
<1>10. /\ p3.d \in Drivers /\ p3.d.skip = TRUE
       /\ p3.d.scrollDown = b.d.scrollDown /\ p3.d.scrollState = b.d.scrollState
       /\ p3.d.tabDown = b.d.tabDown
  BY <1>8, <1>9 DEF Drivers
<1>11. /\ p4.owned = b.owned /\ p4.clean = b.clean /\ p4.good = b.good
       /\ p4.completed /\ p4.d = [p3.d EXCEPT !.skip = FALSE] /\ p4.x = p3.x
  <2>1. /\ p4 \in Heards /\ p4.owned = p3.owned /\ p4.clean = p3.clean /\ p4.good = p3.good
        /\ p4.completed /\ p4.d = AddDriver(p3.d, e4)
        /\ p4.x = IF Skips(p3.d, e4.key) THEN p3.x ELSE ProcessEvent(p3.x, e4)
    <3> HIDE DEF e4
    <3> QED
      BY <1>1, <1>9, LaterKey
  <2> HIDE DEF p4, e4
  <2>3. Skips(p3.d, "num")
    BY <1>10 DEF Skips
  <2>4. AddDriver(p3.d, e4) = [p3.d EXCEPT !.skip = FALSE]
    BY <1>1, <2>3 DEF AddDriver
  <2> QED
    BY <1>1, <1>9, <2>1, <2>3, <2>4
<1> HIDE DEF p4, e4
<1>12. /\ p4.d.skip = FALSE
       /\ p4.d.scrollDown = b.d.scrollDown /\ p4.d.scrollState = b.d.scrollState
       /\ p4.d.tabDown = b.d.tabDown
  BY <1>10, <1>11 DEF Drivers
<1>13. /\ p4.x.held = b.x.held /\ p4.x.locked = b.x.locked /\ p4.x.unlocking = b.x.unlocking
  <2>1. "pause" \notin b.x.held /\ "pause" \notin b.x.locked /\ "pause" \notin b.x.unlocking
    BY <1>1, <1>3 DEF Keyboards
  <2>2. p4.x = KeyUp(KeyDown(b.x, "pause"), "pause")
    BY <1>5, <1>9, <1>11
  <2> QED
    BY <1>1, <2>1, <2>2 DEF KeyUp, KeyDown
<1>14. KeysAgree(p4, c)
  BY <1>2, <1>11, <1>12, <1>13 DEF KeysAgree
<1>15. p4.clean => LocksAgree(p4, c)
  BY <1>2, <1>11, <1>13 DEF LocksAgree
<1>16. Agrees(p4, c)
  BY <1>11, <1>14, <1>15 DEF Agrees
<1>17. Hearing(p, <<e1, e2, e3, e4>>) = p4
  <2>1. e1 \in AllMessages /\ e2 \in AllMessages /\ e3 \in AllMessages /\ e4 \in AllMessages
    BY <1>1, HearsFacts DEF e1, e2, e3, e4
  <2> DEFINE q == <<e1, e2, e3>>
  <2>2. q \in Seq(AllMessages) /\ <<e1, e2, e3, e4>> = Append(q, e4)
    BY <2>1
  <2>3. Hears(p, e1) = p1 /\ Hears(p1, e2) = p2 /\ Hears(p2, e3) = p3 /\ Hears(p3, e4) = p4
    BY <1>1, HearsFacts DEF e1, e2, e3, e4, p1, p2, p3, p4
  <2>4. Hearing(p, q) = p3
    <3>1. Hearing(p, <<e1, e2, e3>>) = Hears(Hears(Hears(p, e1), e2), e3)
      BY <2>1, HearingThree
    <3> QED
      BY <2>3, <3>1
  <2> HIDE DEF q
  <2>5. Hearing(p, Append(q, e4)) = Hears(Hearing(p, q), e4)
    BY <2>1, <2>2, HearingAppend
  <2> QED
    BY <2>2, <2>3, <2>4, <2>5
<1> QED
  BY <1>16, <1>17 DEF e1, e2, e3, e4

-----------------------------------------------------------------------------
(* The layout comes before the keys of a client. *)

LayoutIn(ms) == \E i \in DOMAIN ms : "layout" \in DOMAIN ms[i]

BeforeLayout(m) == "sync" \in DOMAIN m \/ m = Up("tab")

LayoutFirst(ms) ==
  \A i \in DOMAIN ms : "layout" \in DOMAIN ms[i] => \A j \in 1..(i - 1) : BeforeLayout(ms[j])

\* The messages after the first.
LEMMA LayoutTail ==
  ASSUME NEW ms \in Seq(AllMessages), ms # <<>>, LayoutFirst(ms)
  PROVE  /\ LayoutFirst(Tail(ms))
         /\ LayoutIn(Tail(ms)) => LayoutIn(ms) /\ BeforeLayout(Head(ms))
         /\ "layout" \in DOMAIN Head(ms) => LayoutIn(ms)
<1> DEFINE r == Tail(ms)
<1>1. /\ DOMAIN r = 1..Len(r) /\ Len(r) \in Nat /\ Len(r) = Len(ms) - 1
      /\ DOMAIN ms = 1..Len(ms) /\ Len(ms) \in Nat \ {0} /\ Head(ms) = ms[1]
      /\ \A k \in 1..Len(r) : r[k] = ms[k + 1]
  OBVIOUS
<1> HIDE DEF r
<1>2. ASSUME NEW i \in DOMAIN r, "layout" \in DOMAIN r[i]
      PROVE  /\ \A j \in 1..(i - 1) : BeforeLayout(r[j])
             /\ LayoutIn(ms) /\ BeforeLayout(Head(ms))
  <2>1. i \in 1..Len(r) /\ i + 1 \in 1..Len(ms) /\ r[i] = ms[i + 1]
    BY <1>1
  <2>2. \A j \in 1..i : BeforeLayout(ms[j])
    <3>1. \A j \in 1..((i + 1) - 1) : BeforeLayout(ms[j])
      BY <1>1, <1>2, <2>1 DEF LayoutFirst
    <3>2. (i + 1) - 1 = i
      BY <2>1
    <3> QED
      BY <3>1, <3>2
  <2>3. ASSUME NEW j \in 1..(i - 1) PROVE BeforeLayout(r[j])
    <3>1. j \in 1..Len(r) /\ j + 1 \in 1..i
      BY <1>1, <2>1
    <3>2. r[j] = ms[j + 1]
      BY <1>1, <3>1
    <3>3. BeforeLayout(ms[j + 1])
      BY <2>2, <3>1
    <3> QED
      BY <3>2, <3>3
  <2>4. LayoutIn(ms)
    BY <1>1, <1>2, <2>1 DEF LayoutIn
  <2>5. BeforeLayout(Head(ms))
    <3>1. 1 \in 1..i
      BY <2>1
    <3>2. BeforeLayout(ms[1])
      BY <2>2, <3>1
    <3> QED
      BY <1>1, <3>2
  <2> QED
    BY <2>3, <2>4, <2>5
<1>3. "layout" \in DOMAIN Head(ms) => LayoutIn(ms)
  <2>1. 1 \in DOMAIN ms
    BY <1>1
  <2> QED
    BY <1>1, <2>1 DEF LayoutIn
<1>4. LayoutFirst(r)
  BY <1>2 DEF LayoutFirst
<1>5. LayoutIn(r) => LayoutIn(ms) /\ BeforeLayout(Head(ms))
  BY <1>2 DEF LayoutIn
<1> QED
  BY <1>3, <1>4, <1>5 DEF r

\* More messages, with no layout among them.
LEMMA LayoutMore ==
  ASSUME NEW ms \in Seq(AllMessages), NEW r \in Seq(AllMessages), LayoutFirst(ms), ~LayoutIn(r)
  PROVE  LayoutFirst(ms \o r) /\ (LayoutIn(ms \o r) => LayoutIn(ms))
<1> DEFINE s == ms \o r
<1>1. /\ DOMAIN s = 1..(Len(ms) + Len(r)) /\ Len(ms) \in Nat /\ Len(r) \in Nat
      /\ DOMAIN ms = 1..Len(ms) /\ DOMAIN r = 1..Len(r)
      /\ \A k \in 1..Len(ms) : s[k] = ms[k]
      /\ \A k \in 1..Len(r) : s[Len(ms) + k] = r[k]
  OBVIOUS
<1> HIDE DEF s
<1>2. ASSUME NEW i \in DOMAIN s, "layout" \in DOMAIN s[i]
      PROVE  i \in DOMAIN ms /\ s[i] = ms[i]
  <2>1. CASE i \in 1..Len(ms)
    BY <1>1, <2>1
  <2>2. CASE i \notin 1..Len(ms)
    <3>1. i - Len(ms) \in 1..Len(r) /\ Len(ms) + (i - Len(ms)) = i
      BY <1>1, <2>2
    <3>2. s[i] = r[i - Len(ms)] /\ i - Len(ms) \in DOMAIN r
      BY <1>1, <3>1
    <3> QED
      BY <1>2, <3>2 DEF LayoutIn
  <2> QED
    BY <2>1, <2>2
<1>3. ASSUME NEW i \in DOMAIN s, "layout" \in DOMAIN s[i], NEW j \in 1..(i - 1)
      PROVE  BeforeLayout(s[j])
  <2>1. i \in DOMAIN ms /\ s[i] = ms[i]
    BY <1>2, <1>3
  <2>2. j \in 1..Len(ms)
    BY <1>1, <2>1
  <2>3. s[j] = ms[j]
    BY <1>1, <2>2
  <2>4. BeforeLayout(ms[j])
    BY <1>3, <2>1 DEF LayoutFirst
  <2> QED
    BY <2>3, <2>4
<1>4. LayoutFirst(s)
  BY <1>3 DEF LayoutFirst
<1>5. LayoutIn(s) => LayoutIn(ms)
  BY <1>2 DEF LayoutIn
<1> QED
  BY <1>4, <1>5 DEF s

\* A layout after messages that may come before it.
LEMMA LayoutLast ==
  ASSUME NEW s \in Seq(AllMessages), \A j \in DOMAIN s : BeforeLayout(s[j]), ~LayoutIn(s)
  PROVE  LayoutFirst(s \o <<Layout>>)
<1> DEFINE one == <<Layout>>
           t == s \o one
<1>1. /\ DOMAIN t = 1..(Len(s) + 1) /\ Len(s) \in Nat /\ DOMAIN s = 1..Len(s)
      /\ \A k \in 1..Len(s) : t[k] = s[k]
  OBVIOUS
<1> HIDE DEF t
<1>2. ASSUME NEW i \in DOMAIN t, "layout" \in DOMAIN t[i], NEW j \in 1..(i - 1)
      PROVE  BeforeLayout(t[j])
  <2>1. j \in 1..Len(s)
    BY <1>1
  <2>2. t[j] = s[j] /\ BeforeLayout(s[j])
    BY <1>1, <2>1
  <2> QED
    BY <2>2
<1>3. LayoutFirst(t)
  BY <1>2 DEF LayoutFirst
<1> QED
  BY <1>3 DEF t

\* The messages of a synchronisation.
LEMMA SyncMsgsFacts ==
  ASSUME NEW l \in SUBSET Locks, NEW s \in SyncMsgs(l)
  PROVE  /\ s \in Seq(AllMessages) /\ ~LayoutIn(s)
         /\ \A j \in DOMAIN s : BeforeLayout(s[j])
<1>1. /\ Sync(l) \in AllMessages /\ Up("tab") \in AllMessages
      /\ "layout" \notin DOMAIN Sync(l) /\ "layout" \notin DOMAIN Up("tab")
      /\ BeforeLayout(Sync(l)) /\ BeforeLayout(Up("tab"))
  <2>1. "tab" \in XKeys
    BY DEF XKeys, Keys
  <2>2. Sync(l) \in AllMessages /\ Up("tab") \in AllMessages
    BY <2>1, HearsFacts
  <2> QED
    BY <2>2 DEF BeforeLayout, Sync, Up
<1>2. CASE s = <<Sync(l)>>
  <2>1. s \in Seq(AllMessages) /\ \A j \in DOMAIN s : s[j] = Sync(l)
    BY <1>1, <1>2
  <2> QED
    BY <1>1, <2>1 DEF LayoutIn
<1>3. CASE s = <<Up("tab"), Sync(l), Up("tab")>>
  <2>1. s \in Seq(AllMessages) /\ \A j \in DOMAIN s : s[j] = Sync(l) \/ s[j] = Up("tab")
    BY <1>1, <1>3
  <2>2. \A j \in DOMAIN s : BeforeLayout(s[j]) /\ "layout" \notin DOMAIN s[j]
    BY <1>1, <2>1
  <2> QED
    BY <2>1, <2>2 DEF LayoutIn
<1> QED
  BY <1>2, <1>3 DEF SyncMsgs

-----------------------------------------------------------------------------
(* The keyboard of the server agrees with the client after every step. *)

\* What will have been heard when all messages are handled.
Told == Hearing(Now, msgs)

KeysInv ==
  /\ DownInv
  /\ LayoutFirst(msgs)
  /\ LayoutIn(msgs) /\ handled <= 1 => KeysAfter(NoKeys, queue).held = {}
  /\ Agrees(Told, client)

\* What is like something that agrees agrees too.
LEMMA LikeAgrees ==
  ASSUME NEW q \in Heards, NEW p \in Heards, Like(q, p), NEW c, Agrees(p, c)
  PROVE  Agrees(q, c)
<1>1. KeysAgree(q, c)
  BY DEF Like, Agrees, KeysAgree
<1>2. q.completed /\ q.clean => LocksAgree(q, c)
  <2> SUFFICES ASSUME q.completed, q.clean PROVE LocksAgree(q, c)
    OBVIOUS
  <2>1. p.completed /\ p.clean /\ p.good
    BY DEF Like, Agrees, KeysAgree
  <2>2. LocksAgree(p, c) /\ q.x = p.x
    BY <2>1 DEF Like, Agrees
  <2> QED
    BY <2>2 DEF LocksAgree
<1> QED
  BY <1>1, <1>2 DEF Like, Agrees

\* A synchronisation of a client that holds no key.
LEMMA FocusAgrees ==
  ASSUME NEW p \in Heards, NEW c \in Clients, Agrees(p, c), c.held = {},
         NEW l \in SUBSET Locks, NEW s \in SyncMsgs(l)
  PROVE  Agrees(Hearing(p, s), [held |-> {}, locks |-> l])
<1> DEFINE n == [held |-> {}, locks |-> l]
<1>0. "tab" \in XKeys /\ n \in Clients /\ n.held = {}
  BY DEF XKeys, Keys, Clients
<1> HIDE DEF n
<1>1. ASSUME NEW q \in Heards, Agrees(q, c)
      PROVE  HearsSync(q, l) \in Heards /\ Agrees(HearsSync(q, l), n)
  <2>1. q.x.held = {} /\ q.good
    BY <1>1 DEF Agrees, KeysAgree
  <2> QED
    BY <2>1, SyncAgrees, SyncTypes DEF n
<1>2. CASE s = <<Sync(l)>>
  <2>1. Sync(l) \in AllMessages /\ Hears(p, Sync(l)) = HearsSync(p, l)
    BY HearsFacts
  <2>2. Hearing(p, s) = HearsSync(p, l)
    BY <1>2, <2>1, HearingFacts
  <2> QED
    BY <1>1, <2>2 DEF n
<1>3. CASE s = <<Up("tab"), Sync(l), Up("tab")>>
  <2> DEFINE p1 == HearsKey(p, Up("tab"))
             p2 == HearsSync(p1, l)
             p3 == HearsKey(p2, Up("tab"))
  <2>1. p1 \in Heards /\ Agrees(p1, c)
    BY TabUpped, TabAgrees
  <2> HIDE DEF p1
  <2>2. p2 \in Heards /\ Agrees(p2, n)
    BY <1>1, <2>1
  <2> HIDE DEF p2
  <2>3. Agrees(p3, n)
    BY <1>0, <2>2, TabAgrees
  <2>4. /\ Hears(p, Up("tab")) = p1 /\ Hears(p1, Sync(l)) = p2 /\ Hears(p2, Up("tab")) = p3
        /\ Up("tab") \in AllMessages /\ Sync(l) \in AllMessages
    BY <1>0, HearsFacts DEF p1, p2
  <2> HIDE DEF p3
  <2>5. Hearing(p, s) = p3
    <3>1. Hearing(p, <<Up("tab"), Sync(l), Up("tab")>>) = Hears(Hears(Hears(p, Up("tab")), Sync(l)), Up("tab"))
      BY <2>4, HearingThree
    <3> QED
      BY <1>3, <2>4, <3>1
  <2> QED
    BY <2>3, <2>5 DEF n
<1> QED
  BY <1>2, <1>3 DEF SyncMsgs

\* The messages of another client, whatever the last one has left.
LEMMA ConnectAgrees ==
  ASSUME NEW a \in Heards, NEW l \in SUBSET Locks, NEW s \in SyncMsgs(l),
         NEW ms \in {<<Layout>> \o s, s \o <<Layout>>}
  PROVE  Agrees(Hearing(a, ms), [held |-> {}, locks |-> l]) /\ LayoutFirst(ms)
<1> DEFINE n == [held |-> {}, locks |-> l]
           one == <<Layout>>
<1>0. /\ "tab" \in XKeys /\ n \in Clients /\ n.held = {} /\ n.locks = l
  BY DEF XKeys, Keys, Clients
<1> HIDE DEF n
<1>1. /\ s \in Seq(AllMessages) /\ ~LayoutIn(s) /\ \A j \in DOMAIN s : BeforeLayout(s[j])
      /\ Layout \in AllMessages
  BY SyncMsgsFacts, HearsFacts
<1>2. one \in Seq(AllMessages)
  BY <1>1
<1>3. ASSUME NEW b \in Heards
      PROVE  Hearing(b, one) = HearsLayout(b) /\ HearsLayout(b) \in Heards
  <2>1. Hears(b, Layout) = HearsLayout(b)
    BY HearsFacts
  <2> QED
    BY <1>1, <2>1, HearingFacts, LayoutTypes
<1> HIDE DEF one
<1>4. CASE ms = one \o s
  <2> DEFINE b == HearsLayout(a)
  <2>1. /\ b \in Heards /\ b.good = TRUE /\ b.x.held = {}
    <3>1. NoKeys.held = {}
      BY DEF NoKeys
    <3> QED
      BY <3>1, LayoutTypes
  <2>2. Hearing(a, ms) = Hearing(b, s)
    BY <1>1, <1>2, <1>3, <1>4, HearingFacts
  <2> HIDE DEF b
  <2>3. ASSUME NEW q \in Heards, q.good, q.x.held = {}
        PROVE  HearsSync(q, l) \in Heards /\ Agrees(HearsSync(q, l), n)
    BY <2>3, SyncAgrees, SyncTypes DEF n
  <2>4. ASSUME s = <<Sync(l)>> PROVE Agrees(Hearing(b, s), n)
    <3>1. Sync(l) \in AllMessages /\ Hears(b, Sync(l)) = HearsSync(b, l)
      BY <2>1, HearsFacts
    <3>2. Hearing(b, s) = HearsSync(b, l)
      BY <2>1, <2>4, <3>1, HearingFacts
    <3> QED
      BY <2>1, <2>3, <3>2
  <2>5. ASSUME s = <<Up("tab"), Sync(l), Up("tab")>> PROVE Agrees(Hearing(b, s), n)
    <3> DEFINE p1 == HearsKey(b, Up("tab"))
               p2 == HearsSync(p1, l)
               p3 == HearsKey(p2, Up("tab"))
    <3>1. p1 \in Heards /\ p1.good /\ p1.x.held = {}
      BY <2>1, TabUpped
    <3> HIDE DEF p1
    <3>2. p2 \in Heards /\ Agrees(p2, n)
      BY <2>3, <3>1
    <3> HIDE DEF p2
    <3>3. Agrees(p3, n)
      BY <1>0, <3>2, TabAgrees
    <3>4. /\ Hears(b, Up("tab")) = p1 /\ Hears(p1, Sync(l)) = p2 /\ Hears(p2, Up("tab")) = p3
          /\ Up("tab") \in AllMessages /\ Sync(l) \in AllMessages
      BY <1>0, <2>1, <3>1, <3>2, HearsFacts DEF p1, p2
    <3> HIDE DEF p3
    <3>5. Hearing(b, s) = p3
      <4>1. Hearing(b, <<Up("tab"), Sync(l), Up("tab")>>) = Hears(Hears(Hears(b, Up("tab")), Sync(l)), Up("tab"))
        BY <2>1, <3>4, HearingThree
      <4> QED
        BY <2>5, <3>4, <4>1
    <3> QED
      BY <3>3, <3>5
  <2>6. Agrees(Hearing(a, ms), n)
    <3>1. s = <<Sync(l)>> \/ s = <<Up("tab"), Sync(l), Up("tab")>>
      BY DEF SyncMsgs
    <3>2. Agrees(Hearing(b, s), n)
      BY <2>4, <2>5, <3>1
    <3> QED
      BY <2>2, <3>2
  <2>7. LayoutFirst(ms)
    <3>1. LayoutFirst(one)
      <4>1. DOMAIN one = {1} /\ \A j : j \notin 1..(1 - 1)
        BY DEF one
      <4> QED
        BY <4>1 DEF LayoutFirst
    <3> QED
      BY <1>1, <1>2, <1>4, <3>1, LayoutMore
  <2> QED
    BY <2>6, <2>7 DEF n
<1>5. CASE ms = s \o one
  <2> DEFINE b == Hearing(a, s)
             q == HearsLayout(b)
  <2>1. b \in Heards
    BY <1>1, HearingFacts
  <2>2. Hearing(a, ms) = q
    BY <1>1, <1>2, <1>3, <1>5, <2>1, HearingFacts
  <2>3. /\ b.flags = l /\ b.owned /\ (b.clean => ~b.d.skip)
        /\ b.d.scrollDown = FALSE /\ (b.d.scrollState <=> "scroll" \in l)
    <3>1. ASSUME NEW p \in Heards
          PROVE  LET z == HearsSync(p, l)
                 IN /\ z \in Heards /\ z.flags = l /\ z.owned /\ (z.clean => ~z.d.skip)
                    /\ z.d.scrollDown = FALSE /\ (z.d.scrollState <=> "scroll" \in l)
      <4> DEFINE z == HearsSync(p, l)
      <4>1. z \in Heards /\ p.d \in Drivers
        BY SyncTypes, HeardParts
      <4>2. z.d = SyncDriver(p.d, l) /\ z.flags = l /\ z.owned = TRUE /\ z.clean = ~p.d.skip
        BY DEF HearsSync
      <4>3. z.d.skip = p.d.skip /\ z.d.scrollDown = FALSE /\ (z.d.scrollState <=> "scroll" \in l)
        BY <4>1, <4>2 DEF SyncDriver, Drivers
      <4> HIDE DEF z
      <4> QED
        BY <4>1, <4>2, <4>3 DEF z
    <3>2. CASE s = <<Sync(l)>>
      <4>1. Sync(l) \in AllMessages /\ Hears(a, Sync(l)) = HearsSync(a, l)
        BY HearsFacts
      <4>2. b = HearsSync(a, l)
        BY <3>2, <4>1, HearingFacts
      <4> QED
        BY <3>1, <4>2
    <3>3. CASE s = <<Up("tab"), Sync(l), Up("tab")>>
      <4> DEFINE p1 == HearsKey(a, Up("tab"))
                 p2 == HearsSync(p1, l)
                 p3 == HearsKey(p2, Up("tab"))
      <4>1. p1 \in Heards
        BY TabUpped
      <4> HIDE DEF p1
      <4>2. /\ p2 \in Heards /\ p2.flags = l /\ p2.owned
            /\ p2.d.scrollDown = FALSE /\ (p2.d.scrollState <=> "scroll" \in l)
        BY <3>1, <4>1
      <4> HIDE DEF p2
      <4>3. /\ p3.flags = p2.flags /\ p3.owned = p2.owned
            /\ p3.d = [p2.d EXCEPT !.skip = FALSE, !.tabDown = FALSE]
        BY <4>2, TabUpped
      <4>4. p2.d \in Drivers
        BY <4>2, HeardParts
      <4>5. /\ Hears(a, Up("tab")) = p1 /\ Hears(p1, Sync(l)) = p2 /\ Hears(p2, Up("tab")) = p3
            /\ Up("tab") \in AllMessages /\ Sync(l) \in AllMessages
        BY <1>0, HearsFacts DEF p1, p2
      <4> HIDE DEF p3
      <4>6. /\ p3.d.skip = FALSE /\ p3.d.scrollDown = p2.d.scrollDown
            /\ p3.d.scrollState = p2.d.scrollState
        BY <4>3, <4>4 DEF Drivers
      <4>7. b = p3
        <5>1. Hearing(a, <<Up("tab"), Sync(l), Up("tab")>>) = Hears(Hears(Hears(a, Up("tab")), Sync(l)), Up("tab"))
          BY <4>5, HearingThree
        <5> QED
          BY <3>3, <4>5, <5>1
      <4> HIDE DEF b
      <4> QED
        BY <4>2, <4>3, <4>6, <4>7
    <3> QED
      BY <3>2, <3>3 DEF SyncMsgs
  <2>4. /\ q.flags = b.flags /\ q.owned = b.owned /\ q.clean = b.clean /\ q.good = TRUE
        /\ q.completed = FALSE /\ q.d = b.d /\ q.x = NoKeys
    BY <2>1, LayoutTypes
  <2> HIDE DEF b, q
  <2>5. q.x.held = {}
    BY <2>4 DEF NoKeys
  <2>6. KeysAgree(q, n)
    BY <1>0, <2>3, <2>4, <2>5 DEF KeysAgree
  <2>7. Agrees(q, n)
    BY <1>0, <2>3, <2>4, <2>6 DEF Agrees
  <2>8. LayoutFirst(ms)
    BY <1>1, <1>5, LayoutLast DEF one
  <2> QED
    BY <2>2, <2>7, <2>8 DEF n
<1> QED
  BY <1>4, <1>5 DEF one

-----------------------------------------------------------------------------
(* Every step keeps them in agreement *)

\* What has been heard after a step.
LEMMA NowTyped ==
  ASSUME InputTypeOK'
  PROVE  /\ Now' \in Heards /\ KeysToCome' \in Keyboards /\ msgs' \in Seq(AllMessages)
         /\ queue' \in Seq(AllEvents)
<1>1. /\ queue' \in Seq(AllEvents) /\ msgs' \in Seq(AllMessages) /\ xkb' \in Keyboards
      /\ driver' \in Drivers /\ flags' \in SUBSET Locks /\ completed' \in BOOLEAN
      /\ clean' \in BOOLEAN /\ owned' \in BOOLEAN
  BY DEF InputTypeOK, KeyboardTypeOK, AllEvents, AllMessages, Keyboards, Drivers
<1>2. KeysAfter(xkb', queue') \in Keyboards
  BY <1>1, KeysFacts
<1>3. KeysToCome' = KeysAfter(xkb', queue')
  BY DEF KeysToCome
<1>4. Now' \in Heards
  BY <1>1, <1>2, <1>3 DEF Now, Heards
<1> QED
  BY <1>1, <1>2, <1>3, <1>4

\* Nothing is heard while the driver and the keys to come stay as they are.
LEMMA Unheard ==
  ASSUME DownInv, KeysToCome' = KeysToCome,
         UNCHANGED <<completed, flags, driver, posted, clean, owned>>
  PROVE  Now' = Now /\ DownInv'
BY DEF Now, DownInv

\* The client has sent messages.
LEMMA SentKept ==
  ASSUME InputTypeOK, KeysInv, NEW r \in Seq(AllMessages), ~LayoutIn(r), msgs' = msgs \o r,
         UNCHANGED <<server, handled, owned>>, Agrees(Hearing(Told, r), client')
  PROVE  KeysInv'
<1>1. Now \in Heards /\ msgs \in Seq(AllMessages)
  BY KeysTypes
<1>2. KeysToCome' = KeysToCome /\ queue' = queue /\ handled' = handled
  BY DEF server, KeysToCome
<1>3. Now' = Now /\ DownInv'
  BY <1>2, Unheard DEF server, KeysInv
<1>4. Told' = Hearing(Told, r)
  <2>1. Hearing(Now, msgs \o r) = Hearing(Hearing(Now, msgs), r)
    BY <1>1, HearingFacts
  <2>2. Told' = Hearing(Now', msgs')
    BY DEF Told
  <2> QED
    BY <1>3, <2>1, <2>2 DEF Told
<1>5. LayoutFirst(msgs') /\ (LayoutIn(msgs') => LayoutIn(msgs))
  BY <1>1, LayoutMore DEF KeysInv
<1>6. Agrees(Told', client')
  BY <1>4
<1>7. LayoutIn(msgs') /\ handled' <= 1 => KeysAfter(NoKeys, queue').held = {}
  BY <1>2, <1>5 DEF KeysInv
<1> QED
  BY <1>3, <1>5, <1>6, <1>7 DEF KeysInv

\* The server has handled a message.
LEMMA HandledKept ==
  ASSUME InputTypeOK, InputTypeOK', KeysInv, msgs # <<>>, msgs' = Tail(msgs), client' = client,
         DownInv', Like(Now', Hears(Now, Head(msgs))),
         LayoutIn(msgs) /\ BeforeLayout(Head(msgs)) /\ handled' <= 1
           => KeysAfter(NoKeys, queue').held = {}
  PROVE  KeysInv'
<1> DEFINE m == Head(msgs)
           r == Tail(msgs)
           b == Now'
           c == Hears(Now, m)
<1>1. Now \in Heards /\ msgs \in Seq(AllMessages) /\ client \in Clients
  BY KeysTypes DEF Clients
<1>2. m \in AllMessages /\ r \in Seq(AllMessages) /\ Told = Hearing(c, r)
  BY <1>1, HearingFirst DEF Told
<1>3. b \in Heards
  BY NowTyped
<1>4. c \in Heards
  <2>1. HearStep[<<Now, m>>] \in Heards
    BY <1>1, <1>2, HearStepType
  <2> QED
    BY <1>1, <1>2, <2>1 DEF HearStep
<1>5. Told' = Hearing(b, r)
  BY DEF Told
<1>6. Agrees(Told', client')
  <2> HIDE DEF b, c, m, r
  <2>1. Like(b, c)
    BY DEF b, c, m
  <2>2. Like(Hearing(b, r), Hearing(c, r))
    BY <1>2, <1>3, <1>4, <2>1, HearingLike
  <2>3. Hearing(b, r) \in Heards /\ Hearing(c, r) \in Heards
    BY <1>2, <1>3, <1>4, HearingFacts
  <2>4. Agrees(Hearing(c, r), client)
    BY <1>2 DEF KeysInv
  <2>5. Agrees(Hearing(b, r), client)
    BY <2>2, <2>3, <2>4, LikeAgrees
  <2> QED
    BY <1>5, <2>5
<1>7. /\ LayoutFirst(msgs')
      /\ LayoutIn(msgs') => LayoutIn(msgs) /\ BeforeLayout(m)
  BY <1>1, LayoutTail DEF KeysInv
<1>8. LayoutIn(msgs') /\ handled' <= 1 => KeysAfter(NoKeys, queue').held = {}
  BY <1>7
<1> QED
  BY <1>6, <1>7, <1>8 DEF KeysInv

\* The user of the keyboard.
LEMMA UserKept ==
  ASSUME InputTypeOK, KeysInv, User
  PROVE  KeysInv'
<1>0. /\ Told \in Heards /\ client \in Clients /\ Agrees(Told, client)
      /\ Typed \subseteq Keys /\ Keys \subseteq XKeys
  <2>1. Now \in Heards /\ msgs \in Seq(AllMessages) /\ client \in Clients
    BY KeysTypes DEF Clients
  <2> QED
    BY <2>1, HearingFacts, KeyboardAssumption DEF Told, KeysInv, XKeys
<1>1. ASSUME NEW e \in Events, SendMsgs(<<e>>), Agrees(HearsKey(Told, e), client')
      PROVE  KeysInv'
  <2> DEFINE r == <<e>>
  <2>1. e \in AllMessages /\ "layout" \notin DOMAIN e /\ "key" \in DOMAIN e /\ "sync" \notin DOMAIN e
    BY DEF AllMessages, Messages, Events
  <2>2. r \in Seq(AllMessages) /\ ~LayoutIn(r)
    BY <2>1 DEF LayoutIn
  <2>3. Hearing(Told, r) = HearsKey(Told, e)
    BY <1>0, <2>1, HearingFacts DEF Hears
  <2>4. msgs' = msgs \o r /\ UNCHANGED <<server, handled, owned>>
    BY <1>1 DEF SendMsgs
  <2> HIDE DEF r
  <2>5. Agrees(Hearing(Told, r), client')
    BY <1>1, <2>3
  <2> QED
    BY <2>2, <2>4, <2>5, SentKept
<1>2. ASSUME NEW k \in Typed, Press(k) PROVE KeysInv'
  <2>1. /\ k \in Keys /\ k \notin client.held /\ SendMsgs(<<Down(k)>>)
        /\ client' = [held  |-> client.held \cup {k},
                      locks |-> (client.locks \ {k}) \cup (({k} \cap Locks) \ client.locks)]
    BY <1>0, <1>2 DEF Press, Pushes
  <2>2. Agrees(HearsKey(Told, Down(k)), client')
    BY <1>0, <2>1, PressAgrees
  <2>3. Down(k) \in Events
    BY <1>0, <2>1, HearsFacts
  <2> QED
    BY <1>1, <2>1, <2>2, <2>3
<1>3. ASSUME NEW k \in Typed, Repeat(k) PROVE KeysInv'
  <2>1. k \in Keys /\ k \in client.held /\ SendMsgs(<<Down(k)>>) /\ client' = client
    BY <1>0, <1>3 DEF Repeat, Pushes
  <2>2. Agrees(HearsKey(Told, Down(k)), client')
    BY <1>0, <2>1, RepeatAgrees
  <2>3. Down(k) \in Events
    BY <1>0, <2>1, HearsFacts
  <2> QED
    BY <1>1, <2>1, <2>2, <2>3
<1>4. ASSUME NEW k \in Typed, Release(k) PROVE KeysInv'
  <2>1. /\ k \in Keys /\ k \in client.held /\ SendMsgs(<<Up(k)>>)
        /\ client' = [client EXCEPT !.held = @ \ {k}]
    BY <1>0, <1>4 DEF Release, Frees
  <2>2. Agrees(HearsKey(Told, Up(k)), client')
    BY <1>0, <2>1, ReleaseAgrees
  <2>3. Up(k) \in Events
    BY <1>0, <2>1, HearsFacts
  <2> QED
    BY <1>1, <2>1, <2>2, <2>3
<1>5. ASSUME PressPause PROVE KeysInv'
  <2> DEFINE r == <<Down("pause"), Down("num"), Up("pause"), Up("num")>>
  <2>1. msgs' = msgs \o r /\ UNCHANGED <<server, handled, owned>> /\ client' = client
    BY <1>5 DEF PressPause, SendMsgs
  <2>2. r \in Seq(AllMessages) /\ ~LayoutIn(r)
    <3>1. "pause" \in XKeys /\ "num" \in XKeys
      BY DEF XKeys, Keys, Locks, XLocks
    <3>2. /\ Down("pause") \in AllMessages /\ Down("num") \in AllMessages
          /\ Up("pause") \in AllMessages /\ Up("num") \in AllMessages
      BY <3>1, HearsFacts
    <3>3. \A k : "layout" \notin DOMAIN Down(k) /\ "layout" \notin DOMAIN Up(k)
      BY DEF Down, Up
    <3>4. /\ DOMAIN r = 1..4 /\ r[1] = Down("pause") /\ r[2] = Down("num")
          /\ r[3] = Up("pause") /\ r[4] = Up("num")
      OBVIOUS
    <3>5. r \in Seq(AllMessages)
      BY <3>2
    <3> HIDE DEF r
    <3>6. \A i \in 1..4 : "layout" \notin DOMAIN r[i]
      BY <3>3, <3>4
    <3> QED
      BY <3>4, <3>5, <3>6 DEF LayoutIn
  <2>3. Agrees(Hearing(Told, r), client')
    BY <1>0, <2>1, PauseAgrees
  <2> HIDE DEF r
  <2> QED
    BY <2>1, <2>2, <2>3, SentKept
<1>6. ASSUME Focus PROVE KeysInv'
  <2>1. client.held = {}
    BY <1>6 DEF Focus
  <2>2. PICK l \in SUBSET (Locks \cap Typed) : \E ms \in SyncMsgs(l) :
          client' = [client EXCEPT !.locks = l] /\ SendMsgs(ms)
    BY <1>6 DEF Focus
  <2>3. PICK r \in SyncMsgs(l) : client' = [client EXCEPT !.locks = l] /\ SendMsgs(r)
    BY <2>2
  <2>4. l \in SUBSET Locks /\ client' = [held |-> {}, locks |-> l]
    BY <1>0, <2>1, <2>3 DEF Clients
  <2>5. r \in Seq(AllMessages) /\ ~LayoutIn(r)
    BY <2>4, SyncMsgsFacts
  <2>6. Agrees(Hearing(Told, r), client')
    BY <1>0, <2>1, <2>4, FocusAgrees
  <2>7. msgs' = msgs \o r /\ UNCHANGED <<server, handled, owned>>
    BY <2>3 DEF SendMsgs
  <2> QED
    BY <2>5, <2>6, <2>7, SentKept
<1> QED
  BY <1>2, <1>3, <1>4, <1>5, <1>6 DEF User

\* The user of the mouse.
LEMMA PointerSent ==
  ASSUME InputTypeOK, KeysInv, NEW m \in PointerMessages, SendPointer(<<m>>)
  PROVE  KeysInv'
<1> DEFINE r == <<m>>
<1>1. /\ Told \in Heards /\ Agrees(Told, client)
  <2>1. Now \in Heards /\ msgs \in Seq(AllMessages)
    BY KeysTypes
  <2> QED
    BY <2>1, HearingFacts DEF Told, KeysInv
<1>2. m \in AllMessages /\ Hears(Told, m) = Told /\ "layout" \notin DOMAIN m
  BY HearsFacts DEF PointerMessages
<1>3. r \in Seq(AllMessages) /\ ~LayoutIn(r)
  BY <1>2 DEF LayoutIn
<1>4. Hearing(Told, r) = Told
  BY <1>1, <1>2, HearingFacts
<1>5. msgs' = msgs \o r /\ UNCHANGED <<server, handled, owned>> /\ client' = client
  BY DEF SendPointer, SendMsgs
<1> HIDE DEF r
<1>6. Agrees(Hearing(Told, r), client')
  BY <1>1, <1>4, <1>5
<1> QED
  BY <1>3, <1>5, <1>6, SentKept

\* Another client: nothing is in the queue before the first message that the
\* server handles, so nothing is left there for the keyboard that starts anew.
LEMMA ConnectKept ==
  ASSUME InputTypeOK, InputTypeOK', KeysInv, QueueInv, Connect
  PROVE  KeysInv'
<1>1. /\ handled \in Nat /\ handled' = handled + 1
  BY TypeFacts, KeyboardAssumption DEF Connect
<1>2. UNCHANGED <<completed, flags, driver, queue, posted, xkb, clean>>
  BY DEF Connect, server
<1>3. PICK l \in SUBSET (Locks \cap Typed) : \E s \in SyncMsgs(l) :
        /\ client' = [held |-> {}, locks |-> l]
        /\ msgs' \in {<<Layout>> \o s, s \o <<Layout>>}
  BY DEF Connect
<1>4. PICK s \in SyncMsgs(l) :
        /\ client' = [held |-> {}, locks |-> l]
        /\ msgs' \in {<<Layout>> \o s, s \o <<Layout>>}
  BY <1>3
<1>5. l \in SUBSET Locks /\ Now' \in Heards
  BY NowTyped
<1>6. Agrees(Hearing(Now', msgs'), client') /\ LayoutFirst(msgs')
  <2> DEFINE a == Now'
             ms == msgs'
  <2>1. a \in Heards /\ ms \in {<<Layout>> \o s, s \o <<Layout>>}
    BY <1>4, <1>5
  <2> HIDE DEF a, ms
  <2>2. Agrees(Hearing(a, ms), [held |-> {}, locks |-> l]) /\ LayoutFirst(ms)
    BY <1>4, <1>5, <2>1, ConnectAgrees
  <2> QED
    BY <1>4, <2>2 DEF a, ms
<1>7. DownInv'
  BY <1>2 DEF KeysInv, DownInv, KeysToCome
<1>8. handled' <= 1 => KeysAfter(NoKeys, queue').held = {}
  <2>1. handled' <= 1 => queue' = <<>>
    BY <1>1, <1>2 DEF QueueInv
  <2>2. NoKeys \in Keyboards /\ NoKeys.held = {}
    BY DEF NoKeys, Keyboards
  <2>3. KeysAfter(NoKeys, <<>>) = NoKeys
    BY <2>2, KeysFacts
  <2> QED
    BY <2>1, <2>2, <2>3
<1>9. Told' = Hearing(Now', msgs')
  BY DEF Told
<1> QED
  BY <1>6, <1>7, <1>8, <1>9 DEF KeysInv

\* A message of the keyboard.
LEMMA KeyboardKept ==
  ASSUME InputTypeOK, InputTypeOK', KeysInv, InputKeyboard
  PROVE  KeysInv'
<1> DEFINE m == Head(msgs)
           a == [queue |-> queue, posted |-> posted]
<1>1. /\ msgs # <<>> /\ msgs' = Tail(msgs) /\ client' = client
      /\ handled \in Nat /\ handled < ChecksPerWakeup /\ handled' = handled + 1
      /\ ChecksPerWakeup \in 1..2
  BY TypeFacts, KeyboardAssumption DEF InputKeyboard
<1>2. /\ msgs \in Seq(AllMessages) /\ Now \in Heards /\ a \in Queues /\ a.queue = queue
      /\ NoKeys \in Keyboards
  BY KeysTypes DEF NoKeys, Keyboards
<1>3. m \in Messages \cup PointerMessages
  BY <1>1, <1>2 DEF AllMessages
<1>4. /\ "sync" \in DOMAIN m => m.sync \in SUBSET Locks
      /\ "layout" \in DOMAIN m => "sync" \notin DOMAIN m
      /\ "key" \in DOMAIN m => m \in Events /\ "sync" \notin DOMAIN m /\ "layout" \notin DOMAIN m
  BY <1>3, MessageFacts
<1>5. LayoutIn(msgs) => KeysAfter(NoKeys, a.queue).held = {}
  BY <1>1, <1>2 DEF KeysInv
<1>6. "layout" \in DOMAIN m => LayoutIn(msgs)
  BY <1>1, <1>2, LayoutTail DEF KeysInv
<1>7. CASE "sync" \in DOMAIN m /\ KbdSync(m.sync)
  <2>1. DownInv' /\ Like(Now', Hears(Now, m))
    <3>1. Hears(Now, m) = HearsSync(Now, m.sync)
      BY <1>7 DEF Hears
    <3>2. DownInv' /\ Like(Now', HearsSync(Now, m.sync))
      BY <1>4, <1>7, SyncHandled DEF KeysInv
    <3> QED
      BY <3>1, <3>2
  <2>2. queue' = Posted(a, SyncEvents(driver, m.sync)).queue
    BY <1>7 DEF KbdSync, Post, Posted
  <2> HIDE DEF a
  <2>3. LayoutIn(msgs) => KeysAfter(NoKeys, queue').held = {}
    BY <1>2, <1>5, <2>2, PostedUps
  <2> QED
    BY <1>1, <2>1, <2>3, HandledKept
<1>8. CASE "layout" \in DOMAIN m /\ LoadLayout
  <2>1. KeysAfter(NoKeys, queue).held = {}
    BY <1>2, <1>5, <1>6, <1>8
  <2>2. DownInv' /\ Like(Now', Hears(Now, m))
    <3>1. Hears(Now, m) = HearsLayout(Now)
      BY <1>4, <1>8 DEF Hears
    <3>2. DownInv' /\ Like(Now', HearsLayout(Now))
      BY <1>8, <2>1, LayoutHandled
    <3> QED
      BY <3>1, <3>2
  <2>3. queue' = queue
    BY <1>8 DEF LoadLayout
  <2>4. KeysAfter(NoKeys, queue').held = {}
    BY <2>1, <2>3
  <2> QED
    BY <1>1, <2>2, <2>4, HandledKept
<1>9. CASE "key" \in DOMAIN m /\ KbdAddEvent(m)
  <2>1. DownInv' /\ Like(Now', Hears(Now, m))
    <3>1. Hears(Now, m) = HearsKey(Now, m)
      BY <1>4, <1>9 DEF Hears
    <3>2. DownInv' /\ Like(Now', HearsKey(Now, m))
      BY <1>4, <1>9, KeyHandled DEF KeysInv
    <3> QED
      BY <3>1, <3>2
  <2>2. ASSUME BeforeLayout(m)
        PROVE  queue' = Posted(a, AddEvents(driver, Up("tab"))).queue
    <3>1. m = Up("tab")
      BY <1>4, <1>9, <2>2 DEF BeforeLayout
    <3>2. ~m.down
      BY <3>1 DEF Up
    <3>3. Post(<<>> \o AddEvents(driver, m))
      BY <1>9, <3>2 DEF KbdAddEvent
    <3>4. AddEvents(driver, m) \in Seq(Events)
      BY <1>4, <1>9, KeyEventsType
    <3>5. <<>> \o AddEvents(driver, m) = AddEvents(driver, m)
      BY <3>4
    <3> QED
      BY <3>1, <3>3, <3>5 DEF Post, Posted
  <2> HIDE DEF a
  <2>3. LayoutIn(msgs) /\ BeforeLayout(m) => KeysAfter(NoKeys, queue').held = {}
    BY <1>2, <1>5, <2>2, PostedUps
  <2> QED
    BY <1>1, <2>1, <2>3, HandledKept
<1> QED
  BY <1>7, <1>8, <1>9 DEF InputKeyboard

\* The mouse queues no key.
LEMMA MousePosts ==
  ASSUME InputTypeOK, NEW m, MouseStep(m)
  PROVE  \A x \in Keyboards : KeysAfter(x, queue') = KeysAfter(x, queue)
<1>1. queue \in Seq(AllEvents) /\ queue' \in Seq(AllEvents)
  BY TypeFacts, MouseEvents
<1>2. queue' = queue \/ \E e : queue' = Append(queue, e) /\ "key" \notin DOMAIN e
  <2>1. CASE "move" \in DOMAIN m /\ MotionStep(Bound(m.move))
    BY <2>1 DEF MotionStep
  <2>2. ASSUME NEW b, NEW k, NEW at, ButtonStep(b, k, at)
        PROVE  queue' = queue \/ \E e : queue' = Append(queue, e) /\ "key" \notin DOMAIN e
    BY <2>2 DEF ButtonStep, ButtonEvent
  <2>3. CASE PtrAddScrollEvent(m)
    BY <2>3 DEF PtrAddScrollEvent
  <2> QED
    BY <2>1, <2>2, <2>3 DEF MouseStep
<1>3. ASSUME NEW x \in Keyboards, NEW e, queue' = Append(queue, e), "key" \notin DOMAIN e
      PROVE  KeysAfter(x, queue') = KeysAfter(x, queue)
  <2> DEFINE one == <<e>>
             q   == queue
             y   == KeysAfter(x, q)
  <2>1. e \in AllEvents
    <3>1. Len(queue') = Len(queue) + 1 /\ Len(queue) \in Nat /\ queue'[Len(queue) + 1] = e
      BY <1>1, <1>3
    <3> QED
      BY <1>1, <3>1
  <2>2. queue' = q \o one /\ one \in Seq(AllEvents) /\ q \in Seq(AllEvents)
    BY <1>1, <1>3, <2>1
  <2> HIDE DEF q
  <2>3. y \in Keyboards
    BY <2>2, KeysFacts
  <2> HIDE DEF y
  <2>4. KeysAfter(y, one) = y
    BY <1>3, <2>1, <2>3, KeysFacts DEF ProcessEvent
  <2> HIDE DEF one
  <2>5. KeysAfter(x, q \o one) = KeysAfter(y, one)
    BY <2>2, KeysFacts DEF y
  <2>6. KeysAfter(x, queue') = y
    BY <2>2, <2>4, <2>5
  <2> QED
    BY <2>6 DEF y, q
<1> QED
  BY <1>2, <1>3

\* A message of the mouse.
LEMMA MouseKept ==
  ASSUME InputTypeOK, InputTypeOK', KeysInv, InputMouse
  PROVE  KeysInv'
<1> DEFINE m == Head(msgs)
<1>1. /\ msgs # <<>> /\ msgs' = Tail(msgs)
      /\ handled \in Nat /\ handled' = handled + 1
      /\ m \in Messages \cup PointerMessages /\ MouseStep(m)
  BY MouseFacts, TypeFacts
<1>2. UNCHANGED <<client, completed, flags, driver, posted, xkb, owned, clean>>
  BY DEF InputMouse
<1>3. /\ \A x \in Keyboards : KeysAfter(x, queue') = KeysAfter(x, queue)
      /\ xkb \in Keyboards /\ NoKeys \in Keyboards
  BY <1>1, MousePosts, TypeFacts DEF NoKeys, Keyboards
<1>4. KeysToCome' = KeysToCome
  BY <1>2, <1>3 DEF KeysToCome
<1>5. Now' = Now /\ DownInv'
  BY <1>2, <1>4, Unheard DEF KeysInv
<1>6. Hears(Now, m) = Now
  <2>1. "move" \in DOMAIN m \/ "button" \in DOMAIN m \/ "wheel" \in DOMAIN m
    BY <1>1 DEF MouseStep
  <2>2. {"key", "sync", "layout"} \cap DOMAIN m = {}
    BY <1>1, <2>1, MessageFacts
  <2> QED
    BY <2>2 DEF Hears
<1>7. Like(Now', Hears(Now, m))
  <2> DEFINE b == Now
  <2>1. Like(b, b)
    BY DEF Like
  <2> QED
    BY <1>5, <1>6, <2>1
<1>8. LayoutIn(msgs) /\ handled' <= 1 => KeysAfter(NoKeys, queue').held = {}
  BY <1>1, <1>3 DEF KeysInv
<1> QED
  BY <1>1, <1>2, <1>5, <1>7, <1>8, HandledKept

\* A step that the keyboard does not hear.
LEMMA UnheardKept ==
  ASSUME KeysInv, KeysToCome' = KeysToCome, msgs' = msgs,
         UNCHANGED <<client, completed, flags, driver, posted, clean, owned>>,
         LayoutIn(msgs) /\ handled' <= 1 => KeysAfter(NoKeys, queue').held = {}
  PROVE  KeysInv'
<1>1. Now' = Now /\ DownInv'
  BY Unheard DEF KeysInv
<1>2. Told' = Told
  BY <1>1 DEF Told
<1> QED
  BY <1>1, <1>2 DEF KeysInv

\* The queue is processed.
LEMMA ProcessKept ==
  ASSUME InputTypeOK, KeysInv, ProcessInputEvents
  PROVE  KeysInv'
<1>1. KeysToCome \in Keyboards /\ NoKeys \in Keyboards /\ NoKeys.held = {}
  BY KeysTypes DEF NoKeys, Keyboards
<1>2. xkb' = KeysToCome /\ queue' = <<>>
  BY DEF ProcessInputEvents, KeysToCome, KeysAfter
<1>3. KeysToCome' = KeysToCome
  <2>1. KeysAfter(KeysToCome, <<>>) = KeysToCome
    BY <1>1, KeysFacts
  <2>2. KeysToCome' = KeysAfter(xkb', queue')
    BY DEF KeysToCome
  <2> QED
    BY <1>2, <2>1, <2>2
<1>4. KeysAfter(NoKeys, queue').held = {}
  BY <1>1, <1>2, KeysFacts
<1> QED
  BY <1>3, <1>4, UnheardKept DEF ProcessInputEvents

\* At first nothing has been heard.
LEMMA KeysInit == InputInit => KeysInv
<1> SUFFICES ASSUME InputInit PROVE KeysInv
  OBVIOUS
<1>1. InputTypeOK
  BY TypesAtInit
<1>2. /\ client = [held |-> {}, locks |-> {}] /\ msgs = <<>> /\ queue = <<>>
      /\ completed = FALSE /\ driver.skip = FALSE /\ posted = {} /\ xkb = NoKeys
      /\ owned = FALSE /\ clean = FALSE
  BY DEF InputInit, Init
<1>3. KeysToCome = NoKeys /\ KeysToCome.held = {}
  <2>1. NoKeys \in Keyboards /\ NoKeys.held = {}
    BY DEF NoKeys, Keyboards
  <2> QED
    BY <1>2, <2>1, KeysFacts DEF KeysToCome
<1>4. Told = Now
  BY <1>1, <1>2, KeysTypes, HearingFacts DEF Told
<1>5. DownInv
  BY <1>2, <1>3 DEF DownInv
<1>6. Agrees(Now, client)
  BY <1>2, <1>3 DEF Now, Agrees, KeysAgree
<1>7. LayoutFirst(msgs) /\ ~LayoutIn(msgs)
  BY <1>2 DEF LayoutFirst, LayoutIn
<1> QED
  BY <1>4, <1>5, <1>6, <1>7 DEF KeysInv

\* Every step keeps the keyboard in agreement.
LEMMA KeysKept == PointerInv /\ KeysInv /\ [InputNext]_inputVars => KeysInv'
<1> SUFFICES ASSUME PointerInv, KeysInv, [InputNext]_inputVars PROVE KeysInv'
  OBVIOUS
<1>1. InputTypeOK /\ HasPointed /\ QueueInv /\ InputTypeOK'
  BY TypesKept DEF PointerInv
<1>2. CASE Type
  BY <1>1, <1>2, UserKept DEF Type
<1>3. CASE TakeOver
  BY <1>1, <1>3, ConnectKept DEF TakeOver
<1>4. ASSUME NEW p \in Places, Move(p) PROVE KeysInv'
  <2>1. [move |-> p] \in PointerMessages
    BY DEF PointerMessages
  <2> QED
    BY <1>1, <1>4, <2>1, PointerSent DEF Move
<1>5. mouse.at \in Places \cup {Nowhere} /\ mouse.held \in SUBSET Buttons
  BY <1>1, TypeFacts
<1>6. ASSUME NEW b \in Buttons, Push(b) \/ LetGo(b) PROVE KeysInv'
  <2>1. mouse.at # Nowhere
    BY <1>1, <1>6 DEF Push, LetGo, HasPointed
  <2>2. \A d \in BOOLEAN : [button |-> b, down |-> d, at |-> mouse.at] \in PointerMessages
    BY <1>5, <2>1 DEF PointerMessages
  <2> QED
    BY <1>1, <1>6, <2>2, PointerSent DEF Push, LetGo
<1>7. ASSUME NEW d \in Deltas, Wheel(d) PROVE KeysInv'
  <2>1. PICK v \in BOOLEAN : SendPointer(<<[wheel |-> d, vertical |-> v]>>)
    BY <1>7 DEF Wheel
  <2>2. [wheel |-> d, vertical |-> v] \in PointerMessages
    BY DEF PointerMessages
  <2> QED
    BY <1>1, <2>1, <2>2, PointerSent
<1>8. CASE InputKeyboard
  BY <1>1, <1>8, KeyboardKept
<1>9. CASE InputMouse
  BY <1>1, <1>9, MouseKept
<1>10. CASE ProcessEvents
  BY <1>1, <1>10, ProcessKept DEF ProcessEvents
<1>11. CASE Warp \/ Resize \/ UNCHANGED inputVars
  <2>1. /\ UNCHANGED <<client, msgs, completed, flags, driver, queue, posted, xkb, owned, clean>>
        /\ handled' = handled \/ handled' = handled + 1
    BY <1>11 DEF Warp, Resize, inputVars, vars
  <2>2. KeysToCome' = KeysToCome
    BY <2>1 DEF KeysToCome
  <2>3. handled \in Nat
    BY <1>1, TypeFacts
  <2>4. LayoutIn(msgs) /\ handled' <= 1 => KeysAfter(NoKeys, queue').held = {}
    BY <2>1, <2>3 DEF KeysInv
  <2> QED
    BY <2>1, <2>2, <2>4, UnheardKept
<1> QED
  BY <1>2, <1>3, <1>4, <1>6, <1>7, <1>8, <1>9, <1>10, <1>11 DEF InputNext

\* When all messages are handled, what has been heard is what the driver and the
\* keyboard have.
LEMMA SettledKeys ==
  ASSUME InputTypeOK, KeysInv
  PROVE  /\ msgs = <<>> => Agrees(Now, client)
         /\ queue = <<>> => KeysToCome = xkb
<1>1. Now \in Heards /\ xkb \in Keyboards
  BY KeysTypes
<1> QED
  BY <1>1, HearingFacts, KeysFacts DEF KeysInv, Told, KeysToCome

\* No key sticks and none is lost: when everything that a client has sent has
\* reached the X server, it holds the keys that the user holds.
THEOREM KeysAlwaysFollow == InputSpec => []KeysFollow
<1>1. PointerInv /\ KeysInv => KeysFollow
  <2> SUFFICES ASSUME PointerInv, KeysInv, Settled, clean PROVE xkb.held = client.held
    BY DEF KeysFollow
  <2>1. Agrees(Now, client) /\ KeysToCome = xkb
    BY SettledKeys DEF PointerInv, Settled
  <2>2. Now.x = xkb /\ Now.clean = clean
    BY <2>1 DEF Now
  <2> QED
    BY <2>1, <2>2 DEF Agrees, KeysAgree
<1> QED
  BY <1>1, PointerInit, PointerKept, KeysInit, KeysKept, PTL DEF InputSpec

\* Caps and num lock of the X server follow those of the client once a key has
\* gone down after a clean synchronisation, and the driver's idea of scroll lock
\* is the client's as soon as all its messages are handled.
THEOREM LocksAlwaysFollow == InputSpec => []LocksFollow
<1>1. PointerInv /\ KeysInv => LocksFollow
  <2> SUFFICES ASSUME PointerInv, KeysInv PROVE LocksFollow
    OBVIOUS
  <2>1. /\ Now.d = driver /\ Now.owned = owned /\ Now.completed = completed /\ Now.clean = clean
        /\ Now.x = KeysToCome
    BY DEF Now
  <2>2. ASSUME Settled, completed, clean PROVE Aligned
    <3>1. LocksAgree(Now, client) /\ Now.x = xkb
      BY <2>1, <2>2, SettledKeys DEF PointerInv, Settled, Agrees
    <3> QED
      BY <3>1 DEF LocksAgree, Aligned
  <2>3. ASSUME owned, msgs = <<>> PROVE driver.scrollState <=> "scroll" \in client.locks
    BY <2>1, <2>3, SettledKeys DEF PointerInv, Agrees, KeysAgree
  <2> QED
    BY <2>2, <2>3 DEF LocksFollow
<1> QED
  BY <1>1, PointerInit, PointerKept, KeysInit, KeysKept, PTL DEF InputSpec

=============================================================================
