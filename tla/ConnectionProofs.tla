--------------------------- MODULE ConnectionProofs ---------------------------
(***************************************************************************)
(* One connection proved for any streams of packets, any sizes of packets, *)
(* of the buffers and of the watermark: framing, the order of the answers, *)
(* and the events of edge-triggered epoll.                                 *)
(***************************************************************************)
EXTENDS Connection, Recursion

-----------------------------------------------------------------------------
(* Where the packets of a stream end *)

\* A packet has at least a header.
LEMMA Sizes ==
  ASSUME NEW type \in Types
  PROVE  /\ Size(type) \in Nat /\ Size(type) >= HeaderSize
         /\ HeaderSize \in Nat /\ HeaderSize >= 1 /\ Size(type) >= 1
  BY ConnectionAssumption DEF Size

\* t[k] is the size of the first k packets.
Totals(t, v) ==
  /\ t \in [0..Len(v) -> Nat] /\ t[0] = 0
  /\ \A k \in 1..Len(v) : t[k] = t[k - 1] + Size(v[k])

\* Such totals exist.
LEMMA TotalsExist ==
  ASSUME NEW v \in Seq(Types)
  PROVE  \E t : Totals(t, v)
  <1> DEFINE step == [k \in 1..Len(v) |-> [u \in Nat |-> u + Size(v[k])]]
  <1>1. Len(v) \in Nat /\ 0 \in Nat
    OBVIOUS
  <1>2. ASSUME NEW k \in 1..Len(v), NEW u \in Nat
        PROVE  step[k][u] = u + Size(v[k]) /\ step[k][u] \in Nat
    <2>1. v[k] \in Types
      OBVIOUS
    <2>2. Size(v[k]) \in Nat
      BY <2>1, Sizes
    <2> QED BY <2>2
  <1> HIDE DEF step
  <1>3. PICK t : Iterates(t, Len(v), Nat, 0, step)
    BY <1>1, <1>2, IteratesExist
  <1>4. ASSUME NEW k \in 1..Len(v) PROVE t[k] = t[k - 1] + Size(v[k])
    <2>1. k - 1 \in 0..Len(v)
      OBVIOUS
    <2>2. t[k - 1] \in Nat /\ t[k] = step[k][t[k - 1]]
      BY <1>3, <2>1 DEF Iterates
    <2> QED BY <1>2, <2>2
  <1> QED BY <1>3, <1>4 DEF Iterates, Totals

\* The recursion of the fold in LastCell.
Summing(f, v) ==
  f = [P \in SUBSET DOMAIN v |->
         IF P = {} THEN 0 ELSE f[P \ {Max(P)}] + Size(v[Max(P)])]
Cells(v) == FoldLeft(LAMBDA sum, type : sum + Size(type), 0, v)

\* LastCell is the fold over the packets up to the one in question.
LEMMA LastCellIs ==
  ASSUME NEW i
  PROVE  /\ LastCell(i) = Cells(SubSeq(stream, 1, i))
         /\ LastCell(i)' = Cells(SubSeq(stream', 1, i))
  <1>1. LastCell(i) = Cells(SubSeq(stream, 1, i))
    BY DEF LastCell, Cells
  <1>2. LastCell(i)' = Cells(SubSeq(stream', 1, i))
    BY DEF LastCell, Cells, FoldLeft, MapThenFoldSet, Size
  <1> QED BY <1>1, <1>2

\* The places that are still to be summed.
LEMMA PlacesLeft ==
  ASSUME NEW v \in Seq(Types), NEW P \in SUBSET DOMAIN v, P # {}
  PROVE  /\ Max(P) \in P /\ Max(P) \in 1..Len(v) /\ P \ {Max(P)} \in SUBSET DOMAIN v
         /\ \A y \in P : Max(P) >= y
  <1>1. Len(v) \in Nat /\ DOMAIN v = 1..Len(v)
    OBVIOUS
  <1>2. P \in SUBSET (0..Len(v))
    BY <1>1
  <1>3. Max(P) \in P /\ \A y \in P : Max(P) >= y
    BY <1>1, <1>2, MaxIs
  <1> QED BY <1>1, <1>3

\* The function of the fold exists.
LEMMA SummingExists ==
  ASSUME NEW v \in Seq(Types)
  PROVE  \E f : Summing(f, v)
  <1> DEFINE S == SUBSET DOMAIN v
             m == [P \in S |-> IF P = {} THEN 0 ELSE Max(P)]
             base == [P \in S |-> 0]
             next == [P \in S |-> P \ {Max(P)}]
             step == [P \in S |-> [u \in Nat |-> u + Size(v[Max(P)])]]
  <1>1. {{}} \in SUBSET S /\ 0 \in Nat /\ Len(v) \in Nat
    OBVIOUS
  <1>2. ASSUME NEW P \in S
        PROVE  m[P] = (IF P = {} THEN 0 ELSE Max(P)) /\ m[P] \in 0..Len(v)
    BY PlacesLeft
  <1>3. ASSUME NEW P \in S \ {{}}
        PROVE  next[P] = P \ {Max(P)} /\ next[P] \in S /\ m[next[P]] < m[P]
    <2>1. /\ Max(P) \in P /\ Max(P) \in 1..Len(v) /\ P \ {Max(P)} \in S
          /\ \A y \in P : Max(P) >= y
      BY PlacesLeft
    <2>2. next[P] = P \ {Max(P)} /\ next[P] \in S
      BY <2>1
    <2> HIDE DEF m, next
    <2>3. m[P] = Max(P)
      BY <1>2
    <2>4. CASE next[P] = {}
      BY <1>2, <2>1, <2>2, <2>3, <2>4
    <2>5. CASE next[P] # {}
      <3> DEFINE Q == next[P]
      <3>1. Q \in SUBSET DOMAIN v /\ Q # {}
        BY <2>2, <2>5
      <3> HIDE DEF Q
      <3>2. Max(Q) \in Q /\ Max(Q) \in 1..Len(v)
        BY <3>1, PlacesLeft
      <3>3. Max(Q) \in P /\ Max(Q) # Max(P)
        BY <2>2, <3>2 DEF Q
      <3>4. m[Q] = Max(Q)
        BY <1>2, <3>1
      <3> QED BY <2>1, <2>2, <2>3, <3>2, <3>3, <3>4 DEF Q
    <2> QED BY <2>2, <2>4, <2>5
  <1>4. ASSUME NEW P \in S \ {{}}, NEW u \in Nat
        PROVE  step[P][u] = u + Size(v[Max(P)]) /\ step[P][u] \in Nat
    <2>1. Max(P) \in 1..Len(v)
      BY PlacesLeft
    <2>2. v[Max(P)] \in Types
      BY <2>1
    <2>3. Size(v[Max(P)]) \in Nat
      BY <2>2, Sizes
    <2> QED BY <2>3
  <1>5. \A P \in {{}} : base[P] = 0 /\ base[P] \in Nat
    OBVIOUS
  <1> HIDE DEF m, base, next, step
  <1>6. PICK f : Recurses(f, S, Nat, {{}}, base, next, step)
    <2> HIDE DEF S
    <2> QED BY <1>1, <1>2, <1>3, <1>4, <1>5, RecursionExists
  <1>7. ASSUME NEW P \in S
        PROVE  f[P] = IF P = {} THEN 0 ELSE f[P \ {Max(P)}] + Size(v[Max(P)])
    <2>1. CASE P = {}
      BY <1>5, <1>6, <2>1 DEF Recurses
    <2>2. CASE P # {}
      <3> DEFINE Q == P \ {Max(P)}
      <3>1. next[P] = Q /\ Q \in S
        BY <1>3, <2>2
      <3> HIDE DEF Q
      <3>2. f[P] = step[P][f[Q]] /\ f[Q] \in Nat
        BY <1>6, <2>2, <3>1 DEF Recurses
      <3>3. f[P] = f[Q] + Size(v[Max(P)])
        BY <1>4, <2>2, <3>2
      <3> QED BY <2>2, <3>3 DEF Q
    <2> QED BY <2>1, <2>2
  <1>8. f = [P \in S |-> f[P]]
    BY <1>6 DEF Recurses
  <1> QED BY <1>7, <1>8 DEF Summing

\* What the fold computes.
LEMMA CellsAre ==
  ASSUME NEW v \in Seq(Types), NEW t, Totals(t, v)
  PROVE  Cells(v) = t[Len(v)]
  <1> DEFINE f == CHOOSE g : Summing(g, v)
  <1>1. Cells(v) = f[DOMAIN v]
    BY DEF Cells, FoldLeft, MapThenFoldSet, Summing
  <1>2. Summing(f, v)
    BY SummingExists
  <1> HIDE DEF f
  <1>3. Len(v) \in Nat /\ DOMAIN v = 1..Len(v)
    OBVIOUS
  <1>4. ASSUME NEW P \in SUBSET (1..Len(v))
        PROVE  f[P] = IF P = {} THEN 0 ELSE f[P \ {Max(P)}] + Size(v[Max(P)])
    BY <1>2, <1>3 DEF Summing
  <1> DEFINE T == {k \in 0..Len(v) : f[1..k] # t[k]}
  <1>5. ASSUME NEW k \in T, \A j \in T : k <= j PROVE FALSE
    <2>1. CASE k = 0
      <3>1. 1..k = {}
        BY <2>1
      <3>2. f[1..k] = 0
        BY <1>4, <3>1
      <3> QED BY <2>1, <3>2 DEF Totals
    <2>2. CASE k # 0
      <3>1. k \in 1..Len(v) /\ k - 1 \in 0..Len(v) /\ k - 1 \notin T
        BY <1>3, <1>5, <2>2
      <3>2. 1..k \in SUBSET DOMAIN v /\ 1..k # {} /\ k \in 1..k
        BY <1>3, <3>1
      <3>3. Max(1..k) \in 1..k /\ Max(1..k) >= k
        BY <3>2, PlacesLeft
      <3>4. Max(1..k) = k
        BY <3>1, <3>3
      <3>5. (1..k) \ {k} = 1..(k - 1)
        BY <3>1
      <3>6. f[1..k] = f[1..(k - 1)] + Size(v[k])
        BY <1>3, <1>4, <3>2, <3>4, <3>5
      <3>7. f[1..(k - 1)] = t[k - 1]
        BY <3>1
      <3> QED BY <3>1, <3>6, <3>7 DEF Totals
    <2> QED BY <2>1, <2>2
  <1>6. T \in SUBSET Nat
    OBVIOUS
  <1>7. T = {}
    <2> HIDE DEF T
    <2> QED BY <1>5, <1>6, LeastNat
  <1>8. Len(v) \in 0..Len(v)
    BY <1>3
  <1> QED BY <1>1, <1>3, <1>7, <1>8

\* The cell where the k-th packet of the stream v ends.
End(v, k) == Cells(SubSeq(v, 1, k))

\* Each packet takes the cells after the one before it.
LEMMA EndsAre ==
  ASSUME NEW v \in Seq(Types)
  PROVE  /\ \A k \in 0..Len(v) : End(v, k) \in Nat
         /\ End(v, 0) = 0
         /\ \A k \in 1..Len(v) : End(v, k) = End(v, k - 1) + Size(v[k])
  <1>1. PICK t : Totals(t, v)
    BY TotalsExist
  <1>2. Len(v) \in Nat
    OBVIOUS
  <1>3. ASSUME NEW k \in 0..Len(v) PROVE End(v, k) = t[k] /\ t[k] \in Nat
    <2> DEFINE w == SubSeq(v, 1, k)
               u == [j \in 0..k |-> t[j]]
    <2>1. /\ w \in Seq(Types) /\ Len(w) = k
          /\ \A j \in 1..k : w[j] = v[j]
      OBVIOUS
    <2>2. u \in [0..k -> Nat] /\ u[0] = 0 /\ u[k] = t[k]
      BY <1>1, <1>2 DEF Totals
    <2>3. ASSUME NEW j \in 1..k PROVE u[j] = u[j - 1] + Size(v[j])
      BY <1>1, <1>2 DEF Totals
    <2> HIDE DEF w, u
    <2>4. Totals(u, w)
      BY <2>1, <2>2, <2>3 DEF Totals
    <2>5. Cells(w) = u[k]
      BY <2>1, <2>4, CellsAre
    <2>6. t[k] \in Nat
      BY <1>1 DEF Totals
    <2> QED BY <2>2, <2>5, <2>6 DEF End, w
  <1>4. 0 \in 0..Len(v) /\ \A k \in 1..Len(v) : k \in 0..Len(v) /\ k - 1 \in 0..Len(v)
    BY <1>2
  <1> QED BY <1>1, <1>3, <1>4 DEF Totals

\* A later packet ends later.
LEMMA EndsGrow ==
  ASSUME NEW v \in Seq(Types), NEW i \in 0..Len(v), NEW j \in 0..Len(v), i < j
  PROVE  End(v, i) < End(v, j)
  <1> DEFINE T == {k \in 0..Len(v) : i < k /\ ~(End(v, i) < End(v, k))}
  <1>1. ASSUME NEW k \in T, \A l \in T : k <= l PROVE FALSE
    <2>1. k \in 1..Len(v) /\ k - 1 \in 0..Len(v) /\ k - 1 \notin T
      BY <1>1
    <2>2. End(v, k) = End(v, k - 1) + Size(v[k])
      BY <2>1, EndsAre
    <2>3. v[k] \in Types
      BY <2>1
    <2>4. Size(v[k]) \in Nat /\ Size(v[k]) >= 1
      BY <2>3, Sizes
    <2>5. End(v, i) \in Nat /\ End(v, k - 1) \in Nat
      BY <2>1, EndsAre
    <2>6. i = k - 1 \/ End(v, i) < End(v, k - 1)
      BY <2>1
    <2> HIDE DEF T
    <2>7. End(v, i) < End(v, k)
      BY <2>2, <2>4, <2>5, <2>6
    <2> QED BY <2>7 DEF T
  <1>2. T \in SUBSET Nat
    OBVIOUS
  <1>3. T = {}
    <2> HIDE DEF T
    <2> QED BY <1>1, <1>2, LeastNat
  <1> QED BY <1>3

-----------------------------------------------------------------------------
(* The queue as one sequence of units *)

\* Units are numbered.
Units == Seq(Nat)

\* What putting two sequences together gives.
LEMMA Concats ==
  ASSUME NEW a \in Units, NEW b \in Units
  PROVE  /\ a \o b \in Units /\ Len(a \o b) = Len(a) + Len(b)
         /\ << >> \in Units /\ << >> \o a = a /\ a \o << >> = a
  BY DEF Units

\* Nor does it depend on which are put together first.
LEMMA ConcatsAssociate ==
  \A a, b, c \in Units : (a \o b) \o c = a \o (b \o c)
  BY DEF Units

\* Five sequences put together in two ways.
LEMMA ConcatsOfFive ==
  ASSUME NEW r \in Units, NEW o \in Units, NEW p \in Units, NEW s \in Units, NEW f \in Units
  PROVE  (r \o (o \o p)) \o (s \o f) = (r \o o) \o ((p \o s) \o f)
  <1>1. /\ o \o p \in Units /\ s \o f \in Units /\ r \o o \in Units
        /\ p \o (s \o f) \in Units
    BY Concats
  <1>2. r \o (o \o p) = (r \o o) \o p
    BY ConcatsAssociate, Zenon
  <1> DEFINE x == r \o o
             y == s \o f
  <1>3. x \in Units /\ y \in Units
    BY <1>1
  <1>4. (p \o s) \o f = p \o y
    BY ConcatsAssociate, Zenon
  <1>5. \A u, v \in Units : (u \o p) \o v = u \o (p \o v)
    BY ConcatsAssociate, Zenon
  <1> HIDE DEF x, y
  <1>6. (x \o p) \o y = x \o (p \o y)
    BY <1>3, <1>5, Zenon
  <1> QED BY <1>2, <1>4, <1>6 DEF x, y

\* A sequence is one of what its elements are.
LEMMA Widened ==
  ASSUME NEW S, NEW x \in Seq(S), NEW T, \A k \in 1..Len(x) : x[k] \in T
  PROVE  x \in Seq(T)
  OBVIOUS

\* An element put before a sequence.
LEMMA PutBefore ==
  ASSUME NEW S, NEW x \in S, NEW t \in Seq(S)
  PROVE  /\ <<x>> \o t \in Seq(S) /\ <<x>> \o t # << >>
         /\ Head(<<x>> \o t) = x /\ Tail(<<x>> \o t) = t
  <1> DEFINE d == <<x>> \o t
  <1>1. <<x>> \in Seq(S) /\ Len(t) \in Nat
    OBVIOUS
  <1>2. d \in Seq(S) /\ Len(d) = 1 + Len(t) /\ d[1] = x
        /\ \A k \in 1..Len(t) : d[k + 1] = t[k]
    BY <1>1
  <1> HIDE DEF d
  <1>3. d # << >> /\ Head(d) = x
    BY <1>1, <1>2
  <1>4. Tail(d) \in Seq(S) /\ Len(Tail(d)) = Len(t)
        /\ \A k \in 1..Len(t) : Tail(d)[k] = t[k]
    BY <1>1, <1>2, <1>3
  <1>5. Tail(d) = t
    <2> DEFINE u == Tail(d)
    <2>1. u \in Seq(S) /\ Len(u) = Len(t) /\ \A k \in 1..Len(t) : u[k] = t[k]
      BY <1>4
    <2> HIDE DEF u
    <2>2. u = t
      BY <2>1
    <2> QED BY <2>2 DEF u
  <1> QED BY <1>2, <1>3, <1>5 DEF d

\* A sequence is its first n elements and the others.
LEMMA Cut ==
  ASSUME NEW S, NEW x \in Seq(S), NEW n \in 0..Len(x)
  PROVE  /\ SubSeq(x, 1, n) \in Seq(S) /\ SubSeq(x, n + 1, Len(x)) \in Seq(S)
         /\ Len(SubSeq(x, 1, n)) = n /\ Len(SubSeq(x, n + 1, Len(x))) = Len(x) - n
         /\ SubSeq(x, 1, n) \o SubSeq(x, n + 1, Len(x)) = x
  <1> DEFINE y == SubSeq(x, 1, n)
             z == SubSeq(x, n + 1, Len(x))
  <1>1. Len(x) \in Nat /\ n \in Nat
    OBVIOUS
  <1>2. y \in Seq(S) /\ Len(y) = n /\ \A k \in 1..n : y[k] = x[k]
    BY <1>1
  <1>3. z \in Seq(S) /\ Len(z) = Len(x) - n
    BY <1>1
  <1>4. \A k \in 1..(Len(x) - n) : z[k] = x[k + n]
    BY <1>1
  <1> HIDE DEF y, z
  <1>5. y \o z \in Seq(S) /\ Len(y \o z) = Len(x)
    BY <1>1, <1>2, <1>3
  <1>6. ASSUME NEW k \in 1..Len(x) PROVE (y \o z)[k] = x[k]
    <2>1. CASE k <= n
      BY <1>1, <1>2, <1>3, <2>1
    <2>2. CASE ~(k <= n)
      <3>1. k - n \in 1..(Len(x) - n) /\ (k - n) + n = k
        BY <1>1, <2>2
      <3>2. (y \o z)[k] = z[k - n]
        BY <1>1, <1>2, <1>3, <2>2
      <3> QED BY <1>4, <3>1, <3>2
    <2> QED BY <2>1, <2>2
  <1>7. y \o z = x
    <2> DEFINE w == y \o z
    <2>1. w \in Seq(S) /\ Len(w) = Len(x) /\ \A k \in 1..Len(x) : w[k] = x[k]
      BY <1>5, <1>6
    <2> HIDE DEF w
    <2>2. w = x
      BY <2>1
    <2> QED BY <2>2 DEF w
  <1> QED BY <1>2, <1>3, <1>7 DEF y, z

\* f[k] is what the first k chunks of c hold.
Joins(f, c) ==
  /\ f \in [0..Len(c) -> Units] /\ f[0] = << >>
  /\ \A k \in 1..Len(c) : f[k] = f[k - 1] \o c[k]

\* Such a function exists.
LEMMA JoinsExist ==
  ASSUME NEW c \in Seq(Units)
  PROVE  \E f : Joins(f, c)
  <1> DEFINE step == [k \in 1..Len(c) |-> [u \in Units |-> u \o c[k]]]
  <1>1. Len(c) \in Nat /\ << >> \in Units
    BY DEF Units
  <1>2. ASSUME NEW k \in 1..Len(c), NEW u \in Units
        PROVE  step[k][u] = u \o c[k] /\ step[k][u] \in Units
    <2>1. c[k] \in Units
      OBVIOUS
    <2>2. u \o c[k] \in Units
      BY <2>1, Concats
    <2> QED BY <2>2
  <1> HIDE DEF step
  <1>3. PICK f : Iterates(f, Len(c), Units, << >>, step)
    BY <1>1, <1>2, IteratesExist
  <1>4. ASSUME NEW k \in 1..Len(c) PROVE f[k] = f[k - 1] \o c[k]
    <2>1. k - 1 \in 0..Len(c)
      BY <1>1
    <2>2. f[k - 1] \in Units /\ f[k] = step[k][f[k - 1]]
      BY <1>3, <2>1 DEF Iterates
    <2> QED BY <1>2, <2>2
  <1> QED BY <1>3, <1>4 DEF Iterates, Joins

\* The recursion in FlattenSeq.
Flattening(g, c) ==
  g = [i \in 1..Len(c) |-> IF i = 1 THEN c[i] ELSE g[i - 1] \o c[i]]

\* What FlattenSeq computes.
LEMMA FlattenIs ==
  ASSUME NEW c \in Seq(Units), NEW f, Joins(f, c)
  PROVE  FlattenSeq(c) = f[Len(c)] /\ FlattenSeq(c) \in Units
  <1>1. Len(c) \in Nat /\ Len(c) \in 0..Len(c)
    OBVIOUS
  <1>2. CASE Len(c) = 0
    <2>1. c = << >>
      BY <1>2
    <2>2. FlattenSeq(c) = << >>
      BY <1>2, <2>1 DEF FlattenSeq
    <2> QED BY <1>2, <2>2, Concats DEF Joins
  <1>3. CASE Len(c) # 0
    <2> DEFINE h == [i \in 1..Len(c) |-> f[i]]
               g == CHOOSE e : Flattening(e, c)
    <2>1. FlattenSeq(c) = g[Len(c)]
      BY <1>3 DEF FlattenSeq, Flattening
    <2>2. ASSUME NEW i \in 1..Len(c)
          PROVE  h[i] = IF i = 1 THEN c[i] ELSE h[i - 1] \o c[i]
      <3>1. h[i] = f[i - 1] \o c[i] /\ c[i] \in Units
        <4>1. c[i] \in Units
          OBVIOUS
        <4> QED BY <4>1 DEF Joins
      <3>2. CASE i = 1
        <4>1. f[i - 1] = << >>
          BY <3>2 DEF Joins
        <4> QED BY <3>1, <3>2, <4>1, Concats
      <3>3. CASE i # 1
        <4>1. i - 1 \in 1..Len(c)
          BY <1>1, <3>3
        <4> QED BY <3>1, <3>3, <4>1
      <3> QED BY <3>2, <3>3
    <2>3. Flattening(h, c)
      BY <2>2 DEF Flattening
    <2> HIDE DEF h
    <2>4. Flattening(g, c)
      BY <2>3
    <2> HIDE DEF g
    <2>5. ASSUME NEW i \in 1..Len(c)
          PROVE  g[i] = IF i = 1 THEN c[i] ELSE g[i - 1] \o c[i]
      BY <2>4 DEF Flattening
    <2> DEFINE T == {k \in 1..Len(c) : g[k] # f[k]}
    <2>6. ASSUME NEW k \in T, \A j \in T : k <= j PROVE FALSE
      <3>1. f[k] = f[k - 1] \o c[k] /\ c[k] \in Units
        <4>1. k \in 1..Len(c) /\ c[k] \in Units
          OBVIOUS
        <4> QED BY <4>1 DEF Joins
      <3>2. CASE k = 1
        <4>1. f[k - 1] = << >>
          BY <3>2 DEF Joins
        <4> QED BY <2>5, <3>1, <3>2, <4>1, Concats
      <3>3. CASE k # 1
        <4>1. k - 1 \in 1..Len(c) /\ k - 1 \notin T
          BY <1>1, <2>6, <3>3
        <4> QED BY <2>5, <3>1, <3>3, <4>1
      <3> QED BY <3>2, <3>3
    <2>7. T \in SUBSET Nat
      OBVIOUS
    <2>8. T = {}
      <3> HIDE DEF T
      <3> QED BY <2>6, <2>7, LeastNat
    <2>9. Len(c) \in 1..Len(c)
      BY <1>1, <1>3
    <2> QED BY <1>1, <2>1, <2>8, <2>9 DEF Joins
  <1> QED BY <1>2, <1>3

\* The empty queue, and one more chunk.
LEMMA FlattenAppend ==
  ASSUME NEW c \in Seq(Units), NEW x \in Units
  PROVE  /\ FlattenSeq(<< >>) = << >>
         /\ FlattenSeq(c) \in Units
         /\ FlattenSeq(Append(c, x)) = FlattenSeq(c) \o x
  <1> DEFINE d == Append(c, x)
  <1>1. /\ d \in Seq(Units) /\ Len(d) = Len(c) + 1 /\ Len(c) \in Nat
        /\ d[Len(c) + 1] = x /\ \A k \in 1..Len(c) : d[k] = c[k]
    OBVIOUS
  <1> HIDE DEF d
  <1>2. PICK f : Joins(f, d)
    BY <1>1, JoinsExist
  <1> DEFINE g == [k \in 0..Len(c) |-> f[k]]
  <1>3. g \in [0..Len(c) -> Units] /\ g[0] = << >> /\ g[Len(c)] = f[Len(c)]
    BY <1>1, <1>2 DEF Joins
  <1>4. ASSUME NEW k \in 1..Len(c) PROVE g[k] = g[k - 1] \o c[k]
    <2>1. k \in 1..Len(d) /\ k \in 0..Len(c) /\ k - 1 \in 0..Len(c)
      BY <1>1
    <2>2. f[k] = f[k - 1] \o d[k]
      BY <1>2, <2>1 DEF Joins
    <2> QED BY <1>1, <2>1, <2>2
  <1> HIDE DEF g
  <1>5. Joins(g, c)
    BY <1>3, <1>4 DEF Joins
  <1>6. FlattenSeq(c) = f[Len(c)] /\ FlattenSeq(c) \in Units
    BY <1>3, <1>5, FlattenIs
  <1>7. FlattenSeq(d) = f[Len(d)]
    BY <1>1, <1>2, FlattenIs
  <1>8. f[Len(d)] = f[Len(c)] \o x
    <2>1. Len(d) \in 1..Len(d) /\ Len(d) - 1 = Len(c)
      BY <1>1
    <2> QED BY <1>1, <1>2, <2>1 DEF Joins
  <1>9. FlattenSeq(<< >>) = << >>
    BY DEF FlattenSeq
  <1> QED BY <1>6, <1>7, <1>8, <1>9 DEF d

\* The first chunk and the others.
LEMMA FlattenHead ==
  ASSUME NEW c \in Seq(Units), c # << >>
  PROVE  /\ Head(c) \in Units /\ Tail(c) \in Seq(Units)
         /\ FlattenSeq(Tail(c)) \in Units
         /\ FlattenSeq(c) = Head(c) \o FlattenSeq(Tail(c))
  <1> DEFINE x == Head(c)
             d == Tail(c)
  <1>1. /\ x \in Units /\ d \in Seq(Units) /\ Len(c) = Len(d) + 1 /\ Len(d) \in Nat
        /\ c[1] = x /\ \A k \in 1..Len(d) : d[k] = c[k + 1]
    OBVIOUS
  <1> HIDE DEF x, d
  <1>2. PICK f : Joins(f, c)
    BY JoinsExist
  <1>3. PICK g : Joins(g, d)
    BY <1>1, JoinsExist
  <1> DEFINE T == {k \in 0..Len(d) : f[k + 1] # x \o g[k]}
  <1>4. ASSUME NEW k \in T, \A j \in T : k <= j PROVE FALSE
    <2>1. /\ k \in 0..Len(d) /\ k + 1 \in 1..Len(c) /\ (k + 1) - 1 = k
          /\ k # 0 => /\ k \in 1..Len(d) /\ k - 1 \in 0..Len(d)
                      /\ k - 1 \notin T /\ (k - 1) + 1 = k
      BY <1>1, <1>4
    <2>2. f[k + 1] # x \o g[k]
      OBVIOUS
    <2>3. k # 0 => f[k] = x \o g[k - 1]
      BY <2>1
    <2> HIDE DEF T
    <2>4. f[k + 1] = f[k] \o c[k + 1]
      BY <1>2, <2>1 DEF Joins
    <2>5. CASE k = 0
      <3>1. f[k] = << >> /\ g[k] = << >>
        BY <1>2, <1>3, <2>5 DEF Joins
      <3>2. c[k + 1] = x
        BY <1>1, <2>5
      <3>3. f[k + 1] = << >> \o x /\ x \o g[k] = x \o << >>
        BY <2>4, <3>1, <3>2
      <3> QED BY <1>1, <2>2, <3>3, Concats
    <2>6. CASE k # 0
      <3>1. g[k] = g[k - 1] \o d[k] /\ g[k - 1] \in Units
        BY <1>3, <2>1, <2>6 DEF Joins
      <3>2. d[k] \in Units /\ c[k + 1] = d[k]
        BY <1>1, <2>1, <2>6
      <3>3. f[k + 1] = (x \o g[k - 1]) \o d[k]
        BY <2>3, <2>4, <2>6, <3>2
      <3>4. (x \o g[k - 1]) \o d[k] = x \o (g[k - 1] \o d[k])
        <4>1. x \in Units /\ g[k - 1] \in Units /\ d[k] \in Units
          BY <1>1, <3>1, <3>2
        <4> QED BY <4>1, ConcatsAssociate, Zenon
      <3> QED BY <2>2, <3>1, <3>3, <3>4
    <2> QED BY <2>5, <2>6
  <1>5. T \in SUBSET Nat
    OBVIOUS
  <1>6. T = {}
    <2> HIDE DEF T
    <2> QED BY <1>4, <1>5, LeastNat
  <1>7. Len(d) \in 0..Len(d)
    BY <1>1
  <1>8. f[Len(c)] = x \o g[Len(d)]
    BY <1>1, <1>6, <1>7
  <1>9. FlattenSeq(c) = f[Len(c)] /\ FlattenSeq(d) = g[Len(d)] /\ FlattenSeq(d) \in Units
    BY <1>1, <1>2, <1>3, FlattenIs
  <1> QED BY <1>1, <1>8, <1>9 DEF x, d

-----------------------------------------------------------------------------
(* The inductive invariant *)

Pcs == {"wait", "cleanup", "recv", "extract", "send", "arm", "gone", "fault"}
Hows == {"returned", "ignored", "refused"}

\* The thread: only handle_write has a caller, and only its callers other than
\* the loop go on to change the interest.
ControlInv ==
  /\ closed \in BOOLEAN /\ edge \in BOOLEAN /\ stopped \in BOOLEAN
  /\ pc \in Pcs /\ events \subseteq {"IN", "OUT", "HUP"}
  /\ caller \in Hows \cup {"bus", "event"}
  /\ want_epollout \in BOOLEAN /\ player \in BOOLEAN
  /\ state \in {"INIT", "HANDSHAKE", "CONNECT"}
  /\ busPackets \in 0..MaxBusPackets
  /\ pc \notin {"send", "arm"} => caller = "event"
  /\ pc = "arm" => caller # "event"

\* The receive buffer holds what follows the packets that were handled.
RxInv ==
  /\ stream \in Streams /\ arrived \in 0..LastCell(Len(stream))
  /\ taken \in 0..arrived /\ have \in 0..BufSize
  /\ buf \in [1..BufSize -> 0..arrived]
  /\ handled \in Seq([packet : Nat, intact : BOOLEAN, alone : BOOLEAN])
  /\ Len(handled) <= Len(stream)
  /\ PacketsInOrder /\ PayloadIntact

\* What was accepted is on its way, and a connection that was freed has no queue.
TxInv ==
  /\ accepted \in Nat /\ received \in Units /\ outbound \in Units
  /\ chunks \in Seq(Seq(1..accepted) \ {<< >>})
  /\ queued \in 0..HighWatermark /\ Len(outbound) <= SendBuffer
  /\ RepliesInOrder
  /\ ~Open => chunks = << >>

\* A queue with something to send is watched for room wherever the thread may
\* come back to its loop, and the room there is will be heard of.
OutInv ==
  chunks # << >> =>
    /\ pc \in {"wait", "recv", "extract"} \/ (pc = "send" /\ caller = "event")
         => want_epollout
    /\ pc = "wait" => (Room => edge)
    /\ pc \in {"recv", "extract"} => (Room => edge \/ "OUT" \in events)
    /\ pc = "arm" => (want_epollout /\ Room => edge)

\* What has come since the last EAGAIN will be heard of, and no whole packet is
\* left behind by handle_read, unless it stops early.
Waiting == arrived > taken \/ closed
NoneComplete == \A i \in DOMAIN stream : ~Complete(i)
Writing == pc \in {"send", "arm"}
InInv ==
  ~stopped =>
    /\ pc \in {"wait", "extract"} \/ (Writing /\ caller # "bus") => (Waiting => edge)
    /\ Writing /\ caller = "bus" => (Waiting => edge \/ "IN" \in events)
    /\ pc = "wait" \/ (Writing /\ caller \in {"event", "bus"}) => NoneComplete
    /\ ~(Writing /\ caller = "refused")

IInv == ControlInv /\ RxInv /\ TxInv /\ OutInv /\ InInv

-----------------------------------------------------------------------------
(* Where the thread goes on *)

\* The loop comes to an event of a connection that is open, or freed.
LEMMA DispatchIs ==
  ASSUME NEW ev
  PROVE  /\ Dispatch(ev, TRUE) \in {"wait", "cleanup", "recv", "send"}
         /\ Dispatch(ev, TRUE) = "wait" => ev = {}
         /\ Dispatch(ev, TRUE) = "send" => "IN" \notin ev /\ "HUP" \notin ev /\ ev # {}
         /\ Dispatch(ev, FALSE) \in {"gone", "fault"}
  BY DEF Dispatch

\* handle_read returns.
LEMMA LeaveReadIs ==
  ASSUME NEW ev
  PROVE  /\ LeaveRead(ev, TRUE) \in {"wait", "send"}
         /\ LeaveRead(ev, TRUE) = "wait" => "OUT" \notin ev
         /\ LeaveRead(ev, FALSE) \in {"gone", "fault"}
  BY DEF LeaveRead

\* handle_write returns to each of its callers.
LEMMA ReturnIs ==
  ASSUME NEW ev, NEW ok
  PROVE  /\ Return("returned", ev, TRUE, TRUE) = "extract"
         /\ Return("returned", ev, FALSE, TRUE) = LeaveRead(ev, TRUE)
         /\ Return("ignored", ev, ok, TRUE) = "extract"
         /\ Return("refused", ev, ok, TRUE) = LeaveRead(ev, TRUE)
         /\ Return("bus", ev, ok, TRUE) = Dispatch(ev, TRUE)
         /\ Return("event", ev, ok, TRUE) = "wait"
         /\ \A how \in Hows \cup {"bus", "event"} :
              Return(how, ev, FALSE, FALSE) \in {"gone", "fault"}
  BY LeaveReadIs, DispatchIs DEF Return, Hows

\* What epoll finds.
LEMMA ReadyIs ==
  ASSUME NEW wanted \in BOOLEAN
  PROVE  /\ Ready(wanted) \subseteq {"IN", "OUT", "HUP"}
         /\ "IN" \in Ready(wanted) <=> Waiting
         /\ "OUT" \in Ready(wanted) <=> wanted /\ Room
         /\ "HUP" \in Ready(wanted) <=> closed
  BY DEF Ready, Waiting

\* The answers to a packet.
LEMMA AnswersAre ==
  ASSUME ControlInv, NEW type \in Types \ {"BAD"}, NEW answer \in Answers(type)
  PROVE  /\ answer.reply \in {0, 1, 2} /\ answer.how \in Hows
         /\ answer.reply = 0 => answer.how = "ignored"
         /\ answer.state \in {"INIT", "HANDSHAKE", "CONNECT"}
         /\ answer.player \in BOOLEAN
  <1>1. state \in {"INIT", "HANDSHAKE", "CONNECT"} /\ player \in BOOLEAN
    BY DEF ControlInv
  <1>2. CASE type = "PING"
    BY <1>1, <1>2 DEF Answers, Answer, Hows
  <1>3. CASE type = "HELLO"
    BY <1>1, <1>3 DEF Answers, Answer, Hows
  <1>4. CASE type \notin {"PING", "HELLO"} /\ state = "INIT"
    BY <1>1, <1>4 DEF Answers, Answer, Hows
  <1>5. CASE type = "REGISTER" /\ state # "INIT"
    <2>1. answer \in {Answer(2, "returned"),
                      [Answer(2, "returned") EXCEPT !.state = "CONNECT", !.player = TRUE]}
      BY <1>5 DEF Answers
    <2>2. CASE answer = Answer(2, "returned")
      BY <1>1, <2>2 DEF Answer, Hows
    <2>3. CASE answer = [Answer(2, "returned") EXCEPT !.state = "CONNECT", !.player = TRUE]
      BY <2>3 DEF Answer, Hows
    <2> QED BY <2>1, <2>2, <2>3
  <1>6. CASE type = "RECONNECT" /\ state # "INIT"
    <2>1. answer \in {Answer(2, "refused"),
                      [Answer(2, "ignored") EXCEPT !.state = "CONNECT", !.player = TRUE]}
      BY <1>6 DEF Answers
    <2>2. CASE answer = Answer(2, "refused")
      BY <1>1, <2>2 DEF Answer, Hows
    <2>3. CASE answer = [Answer(2, "ignored") EXCEPT !.state = "CONNECT", !.player = TRUE]
      BY <2>3 DEF Answer, Hows
    <2> QED BY <2>1, <2>2, <2>3
  <1>7. CASE type \in {"UNREGISTER", "DATA"} /\ state # "INIT" /\ ~player
    BY <1>1, <1>7 DEF Answers, Answer, Hows
  <1>8. CASE type = "UNREGISTER" /\ state # "INIT" /\ player
    <2>1. answer = [Answer(1, "returned") EXCEPT !.state = "HANDSHAKE", !.player = FALSE]
      BY <1>8 DEF Answers
    <2> QED BY <1>1, <2>1 DEF Answer, Hows
  <1>9. CASE type = "DATA" /\ state # "INIT" /\ player
    <2>1. answer \in {Answer(0, "ignored"), Answer(2, "ignored")}
      BY <1>9 DEF Answers
    <2> QED BY <1>1, <2>1 DEF Answer, Hows
  <1> QED BY <1>1, <1>2, <1>3, <1>4, <1>5, <1>6, <1>7, <1>8, <1>9 DEF Types

-----------------------------------------------------------------------------
(* The thread *)

\* The stream is one of packets.
LEMMA StreamType ==
  ASSUME stream \in Streams
  PROVE  /\ stream \in Seq(Types) /\ Len(stream) \in Nat /\ DOMAIN stream = 1..Len(stream)
         /\ \A i \in DOMAIN stream : /\ stream[i] \in Types
                                    /\ Complete(i) => stream[i] \in Types \ {"BAD"}
  <1>1. stream \in Seq(Types)
    BY ConnectionAssumption
  <1>2. \A i \in DOMAIN stream : stream[i] \in Types
    BY <1>1
  <1>3. \A i : Complete(i) => stream[i] # "BAD"
    BY DEF Complete
  <1> QED BY <1>1, <1>2, <1>3

\* Where the thread is, and on whose behalf.
At(p, c) == /\ p \in Pcs /\ c \in Hows \cup {"bus", "event"}
            /\ p \notin {"send", "arm"} => c = "event"
            /\ p = "arm" => c # "event"

\* Going on from any of the three ways.
LEMMA GoOnAt ==
  ASSUME NEW ev
  PROVE  /\ \A how \in Hows \cup {"bus", "event"} :
              /\ \A ok \in BOOLEAN : At(Return(how, ev, ok, TRUE), "event")
              /\ At(Return(how, ev, FALSE, FALSE), "event")
         /\ \A open \in BOOLEAN : /\ At(Dispatch(ev, open), "event")
                                  /\ At(LeaveRead(ev, open), "event")
  <1>1. /\ At(Dispatch(ev, TRUE), "event") /\ At(Dispatch(ev, FALSE), "event")
        /\ At(LeaveRead(ev, TRUE), "event") /\ At(LeaveRead(ev, FALSE), "event")
    BY DispatchIs, LeaveReadIs DEF At, Pcs
  <1>2. At("extract", "event") /\ At("wait", "event")
        /\ \A p \in {"gone", "fault"} : At(p, "event")
    BY DEF At, Pcs
  <1>3. ASSUME NEW how \in Hows \cup {"bus", "event"}
        PROVE  /\ At(Return(how, ev, TRUE, TRUE), "event")
               /\ At(Return(how, ev, FALSE, TRUE), "event")
               /\ At(Return(how, ev, FALSE, FALSE), "event")
    <2>1. Return(how, ev, FALSE, FALSE) \in {"gone", "fault"}
      BY ReturnIs
    <2>2. CASE how = "returned"
      BY <1>1, <1>2, <2>1, <2>2, ReturnIs
    <2>3. CASE how = "ignored"
      BY <1>2, <2>1, <2>3, ReturnIs
    <2>4. CASE how = "refused"
      BY <1>1, <1>2, <2>1, <2>4, ReturnIs
    <2>5. CASE how = "bus"
      BY <1>1, <1>2, <2>1, <2>5, ReturnIs
    <2>6. CASE how = "event"
      BY <1>2, <2>1, <2>6, ReturnIs
    <2> QED BY <2>2, <2>3, <2>4, <2>5, <2>6 DEF Hows
  <1> QED BY <1>1, <1>3

\* A packet is queued or dropped.
LEMMA EnqueueAt ==
  ASSUME NEW size, NEW how \in Hows \cup {"bus"}, NEW ev, Enqueue(size, how, ev)
  PROVE  At(pc', caller')
  <1>1. CASE queued + size > HighWatermark
    BY <1>1, GoOnAt DEF Enqueue, GoOn
  <1>2. CASE ~(queued + size > HighWatermark)
    BY <1>2 DEF Enqueue, At, Pcs
  <1> QED BY <1>1, <1>2

\* A connection that has just been accepted.
LEMMA InitControl == Init => ControlInv
  <1>1. 0 \in 0..MaxBusPackets
    BY ConnectionAssumption
  <1> QED BY <1>1 DEF Init, ControlInv, Pcs, Hows

\* The parts of the control invariant.
LEMMA ControlParts ==
  ControlInv <=> /\ closed \in BOOLEAN /\ edge \in BOOLEAN /\ stopped \in BOOLEAN
                 /\ At(pc, caller) /\ events \subseteq {"IN", "OUT", "HUP"}
                 /\ want_epollout \in BOOLEAN /\ player \in BOOLEAN
                 /\ state \in {"INIT", "HANDSHAKE", "CONNECT"}
                 /\ busPackets \in 0..MaxBusPackets
  BY DEF ControlInv, At

\* Each step.
LEMMA NextControl == ControlInv /\ stream \in Streams /\ [Next]_vars => ControlInv'
  <1> SUFFICES ASSUME ControlInv, stream \in Streams, [Next]_vars PROVE ControlInv'
    OBVIOUS
  <1> DEFINE Flags == /\ closed \in BOOLEAN /\ edge \in BOOLEAN /\ stopped \in BOOLEAN
                      /\ want_epollout \in BOOLEAN /\ player \in BOOLEAN
                      /\ state \in {"INIT", "HANDSHAKE", "CONNECT"}
                      /\ busPackets \in 0..MaxBusPackets
                      /\ events \subseteq {"IN", "OUT", "HUP"}
  <1>1. Flags /\ At(pc, caller)
    BY ControlParts
  <1>2. SUFFICES Flags' /\ At(pc', caller')
    BY DEF ControlInv, At
  <1>3. \A wanted \in BOOLEAN : Ready(wanted) \subseteq {"IN", "OUT", "HUP"}
    BY ReadyIs
  <1>4. TRUE \in BOOLEAN /\ FALSE \in BOOLEAN
    OBVIOUS
  <1>5. CASE Arrive \/ ClientClose
    BY <1>1, <1>5 DEF Arrive, ClientClose, rxVars, txVars, connVars
  <1>6. CASE ClientRead
    BY <1>1, <1>6 DEF ClientRead, rxVars, connVars
  <1>7. CASE EpollWait
    <2>1. At(pc', caller')
      BY <1>4, <1>7, GoOnAt DEF EpollWait, GoOn
    <2> QED BY <1>1, <1>3, <1>7, <2>1
            DEF EpollWait, clientVars, rxVars, txVars, connVars
  <1>8. CASE BusPacket
    <2>1. At(pc', caller')
      BY <1>8, EnqueueAt DEF BusPacket, Hows
    <2>2. events' \subseteq {"IN", "OUT", "HUP"}
      BY <1>1, <1>3, <1>8 DEF BusPacket
    <2>3. busPackets' \in 0..MaxBusPackets
      BY <1>1, <1>8, ConnectionAssumption DEF BusPacket
    <2> QED BY <1>1, <1>8, <2>1, <2>2, <2>3
            DEF BusPacket, clientVars, rxVars, connVars
  <1>9. ASSUME NEW next, Cleanup(next), At(next, "event") PROVE Flags' /\ At(pc', caller')
    BY <1>1, <1>9 DEF Cleanup, GoOn, clientVars, rxVars
  <1>10. CASE Disconnected
    <2>1. At("gone", "event")
      BY DEF At, Pcs
    <2> QED BY <1>9, <1>10, <2>1 DEF Disconnected
  <1>11. CASE RecvEnd \/ BadPacket
    <2>1. At(LeaveRead(events, FALSE), "event")
      BY <1>4, GoOnAt
    <2> QED BY <1>9, <1>11, <2>1 DEF RecvEnd, BadPacket
  <1>12. CASE SendError
    <2>1. caller \in Hows \cup {"bus", "event"}
      BY <1>1 DEF At
    <2>2. At(Return(caller, events, FALSE, FALSE), "event")
      BY <2>1, GoOnAt
    <2> QED BY <1>9, <1>12, <2>2 DEF SendError
  <1>13. CASE Recv
    BY <1>1, <1>13 DEF Recv, clientVars, txVars, connVars
  <1>14. CASE RecvStop
    <2>1. At("extract", "event")
      BY DEF At, Pcs
    <2> QED BY <1>1, <1>14, <2>1 DEF RecvStop, GoOn, clientVars, txVars, connVars
  <1>15. CASE HandlePacket
    <2>1. PICK i \in DOMAIN stream :
            /\ Complete(i)
            /\ \E answer \in Answers(stream[i]) :
                 /\ state' = answer.state /\ player' = answer.player
                 /\ stopped' = \/ stopped \/ answer.how = "refused"
                               \/ /\ answer.how = "returned"
                                  /\ queued + answer.reply > HighWatermark
                 /\ IF answer.reply = 0
                    THEN UNCHANGED <<chunks, queued, accepted, pc, caller>>
                    ELSE Enqueue(answer.reply, answer.how, events)
      BY <1>15 DEF HandlePacket
    <2>2. PICK answer \in Answers(stream[i]) :
                 /\ state' = answer.state /\ player' = answer.player
                 /\ stopped' = \/ stopped \/ answer.how = "refused"
                               \/ /\ answer.how = "returned"
                                  /\ queued + answer.reply > HighWatermark
                 /\ IF answer.reply = 0
                    THEN UNCHANGED <<chunks, queued, accepted, pc, caller>>
                    ELSE Enqueue(answer.reply, answer.how, events)
      BY <2>1
    <2>3. stream[i] \in Types \ {"BAD"}
      BY <2>1, StreamType
    <2>4. /\ answer.how \in Hows /\ answer.state \in {"INIT", "HANDSHAKE", "CONNECT"}
          /\ answer.player \in BOOLEAN
      BY <2>3, AnswersAre
    <2>5. At(pc', caller')
      <3>1. CASE answer.reply = 0
        BY <1>1, <2>2, <3>1
      <3>2. CASE answer.reply # 0
        BY <2>2, <2>4, <3>2, EnqueueAt
      <3> QED BY <3>1, <3>2
    <2>6. stopped' \in BOOLEAN
      BY <2>2
    <2>7. UNCHANGED <<closed, edge, want_epollout, events, busPackets>>
      BY <1>15 DEF HandlePacket, clientVars
    <2> QED BY <1>1, <2>2, <2>4, <2>5, <2>6, <2>7
  <1>16. CASE ReadDone
    <2>1. At(LeaveRead(events, TRUE), "event")
      BY <1>4, GoOnAt
    <2> QED BY <1>1, <1>16, <2>1 DEF ReadDone, GoOn, clientVars, rxVars, txVars, connVars
  <1>17. CASE Send
    BY <1>1, <1>17 DEF Send, clientVars, rxVars, connVars
  <1>18. CASE SendAgain
    <2>1. At(pc', caller')
      <3>1. At("wait", "event")
        BY DEF At, Pcs
      <3>2. caller # "event" => At("arm", caller)
        BY <1>1 DEF At, Pcs
      <3> QED BY <1>1, <1>18, <3>1, <3>2 DEF SendAgain, GoOn
    <2> QED BY <1>1, <1>18, <2>1 DEF SendAgain, clientVars, rxVars, txVars, connVars
  <1>19. ASSUME NEW wanted \in BOOLEAN, ModEvent(wanted)
         PROVE  edge' \in BOOLEAN /\ want_epollout' \in BOOLEAN
    BY <1>1, <1>19 DEF ModEvent
  <1>20. At(Return(caller, events, TRUE, TRUE), "event")
    <2>1. caller \in Hows \cup {"bus", "event"}
      BY <1>1 DEF At
    <2> QED BY <1>4, <2>1, GoOnAt
  <1>21. CASE Arm
    <2>1. edge' \in BOOLEAN /\ want_epollout' \in BOOLEAN
      BY <1>1, <1>4, <1>19, <1>21 DEF Arm
    <2> QED BY <1>1, <1>20, <1>21, <2>1 DEF Arm, GoOn, clientVars, rxVars, connVars
  <1>22. CASE SendDone
    <2>1. edge' \in BOOLEAN /\ want_epollout' \in BOOLEAN
      BY <1>1, <1>4, <1>19, <1>22 DEF SendDone
    <2> QED BY <1>1, <1>20, <1>22, <2>1 DEF SendDone, GoOn, clientVars, rxVars, connVars
  <1>23. CASE UNCHANGED vars
    BY <1>1, <1>23 DEF vars, clientVars, rxVars, txVars, connVars
  <1> QED BY <1>5, <1>6, <1>7, <1>8, <1>10, <1>11, <1>12, <1>13, <1>14, <1>15, <1>16,
             <1>17, <1>18, <1>21, <1>22, <1>23 DEF Next, Thread

-----------------------------------------------------------------------------
(* Framing *)

Handled == [packet : Nat, intact : BOOLEAN, alone : BOOLEAN]

\* The invariant of the receive buffer b with h cells of the t received, when l
\* was handled of the first a cells of the stream v.
Rx(v, a, t, h, b, l) ==
  /\ v \in Streams /\ a \in 0..End(v, Len(v))
  /\ t \in 0..a /\ h \in 0..BufSize /\ b \in [1..BufSize -> 0..a]
  /\ l \in Seq(Handled) /\ Len(l) <= Len(v)
  /\ \A k \in DOMAIN l : l[k].packet = k
  /\ t - h = End(v, Len(l))
  /\ \A j \in 1..h : b[j] = t - h + j
  /\ \A k \in DOMAIN l : l[k].alone => l[k].intact

\* The cell where a packet ends.
LEMMA EndIs == \A i : LastCell(i) = End(stream, i) /\ LastCell(i)' = End(stream', i)
  BY LastCellIs DEF End

\* The invariant of the receive buffer before and after a step.
LEMMA RxIs ==
  /\ RxInv <=> Rx(stream, arrived, taken, have, buf, handled)
  /\ RxInv' <=> Rx(stream', arrived', taken', have', buf', handled')
  <1>1. /\ LastCell(Len(stream)) = End(stream, Len(stream))
        /\ LastCell(Len(handled)) = End(stream, Len(handled))
    BY EndIs
  <1>2. LastCell(Len(stream))' = End(stream', Len(stream'))
    BY LastCellIs DEF End
  <1>3. LastCell(Len(handled))' = End(stream', Len(handled'))
    BY LastCellIs DEF End
  <1>4. RxInv <=> Rx(stream, arrived, taken, have, buf, handled)
    BY <1>1 DEF RxInv, Rx, PacketsInOrder, PayloadIntact, Handled
  <1>5. RxInv' <=> Rx(stream', arrived', taken', have', buf', handled')
    BY <1>2, <1>3 DEF RxInv, Rx, PacketsInOrder, PayloadIntact, Handled
  <1> QED BY <1>4, <1>5

\* What the invariant says of numbers.
LEMMA RxNumbers ==
  ASSUME NEW v, NEW a, NEW t, NEW h, NEW b, NEW l, Rx(v, a, t, h, b, l)
  PROVE  /\ v \in Seq(Types) /\ Len(v) \in Nat /\ DOMAIN v = 1..Len(v)
         /\ End(v, Len(v)) \in Nat /\ a \in Nat /\ t \in Nat /\ h \in Nat /\ h <= t
         /\ t <= a /\ BufSize \in Nat /\ h <= BufSize
         /\ l \in Seq(Handled) /\ Len(l) \in 0..Len(v) /\ DOMAIN l = 1..Len(l)
         /\ \A k \in 0..Len(v) : End(v, k) \in Nat
  <1>1. v \in Seq(Types)
    BY ConnectionAssumption DEF Rx
  <1>2. Len(v) \in Nat /\ DOMAIN v = 1..Len(v)
    BY <1>1
  <1>3. \A k \in 0..Len(v) : End(v, k) \in Nat
    BY <1>1, EndsAre
  <1>4. End(v, Len(v)) \in Nat
    BY <1>2, <1>3
  <1>5. a \in Nat /\ t \in Nat /\ t <= a
    BY <1>4 DEF Rx
  <1>6. BufSize \in Nat
    BY ConnectionAssumption
  <1>7. h \in Nat /\ h <= BufSize
    BY <1>6 DEF Rx
  <1>8. l \in Seq(Handled) /\ Len(l) \in 0..Len(v) /\ DOMAIN l = 1..Len(l)
    BY <1>2 DEF Rx
  <1>9. h <= t
    <2>1. End(v, Len(l)) \in Nat
      BY <1>3, <1>8
    <2>2. t - h = End(v, Len(l))
      BY DEF Rx
    <2> QED BY <1>5, <1>7, <2>1, <2>2
  <1> QED BY <1>1, <1>2, <1>3, <1>4, <1>5, <1>6, <1>7, <1>8, <1>9

\* One more cell has come.
LEMMA RxArrive ==
  ASSUME NEW v, NEW a, NEW t, NEW h, NEW b, NEW l, Rx(v, a, t, h, b, l),
         a < End(v, Len(v))
  PROVE  Rx(v, a + 1, t, h, b, l)
  <1>1. a \in Nat /\ t \in 0..a /\ End(v, Len(v)) \in Nat
    BY RxNumbers DEF Rx
  <1>2. a + 1 \in 0..End(v, Len(v)) /\ t \in 0..(a + 1) /\ 0..a \subseteq 0..(a + 1)
    BY <1>1
  <1>3. b \in [1..BufSize -> 0..(a + 1)]
    BY <1>2 DEF Rx
  <1> QED BY <1>2, <1>3 DEF Rx

\* recv takes the next n cells.
LEMMA RxRecv ==
  ASSUME NEW v, NEW a, NEW t, NEW h, NEW b, NEW l, Rx(v, a, t, h, b, l),
         NEW n \in Nat, n <= a - t, n <= BufSize - h
  PROVE  Rx(v, a, t + n, h + n,
            [j \in 1..BufSize |-> IF j \in (h + 1)..(h + n) THEN t + j - h ELSE b[j]], l)
  <1> DEFINE c == [j \in 1..BufSize |-> IF j \in (h + 1)..(h + n) THEN t + j - h ELSE b[j]]
  <1>1. /\ a \in Nat /\ t \in Nat /\ h \in Nat /\ BufSize \in Nat /\ h <= t
        /\ t <= a /\ h <= BufSize
    BY RxNumbers
  <1>2. t + n \in 0..a /\ h + n \in 0..BufSize /\ (t + n) - (h + n) = t - h
    BY <1>1
  <1>3. ASSUME NEW j \in 1..BufSize PROVE c[j] \in 0..a
    <2>1. b[j] \in 0..a
      BY DEF Rx
    <2>2. j \in (h + 1)..(h + n) => t + j - h \in 0..a
      BY <1>1
    <2> QED BY <2>1, <2>2
  <1>4. ASSUME NEW j \in 1..(h + n) PROVE c[j] = (t - h) + j
    <2>1. j \in 1..BufSize
      BY <1>1
    <2>2. CASE j \in 1..h
      <3>1. b[j] = t - h + j
        BY <2>2 DEF Rx
      <3>2. c[j] = b[j]
        BY <1>1, <2>1, <2>2
      <3> QED BY <3>1, <3>2
    <2>3. CASE j \notin 1..h
      <3>1. j \in (h + 1)..(h + n)
        BY <1>1, <2>3
      <3>2. c[j] = t + j - h
        BY <2>1, <3>1
      <3> QED BY <1>1, <3>1, <3>2
    <2> QED BY <2>2, <2>3
  <1>5. c \in [1..BufSize -> 0..a]
    BY <1>3
  <1> HIDE DEF c
  <1>6. Rx(v, a, t + n, h + n, c, l)
    BY <1>2, <1>4, <1>5 DEF Rx
  <1> QED BY <1>6 DEF c

\* The packet at the front of the buffer is the next one.
LEMMA RxFront ==
  ASSUME NEW v, NEW a, NEW t, NEW h, NEW b, NEW l, Rx(v, a, t, h, b, l),
         NEW i \in DOMAIN v, h >= HeaderSize, b[1] = End(v, i - 1) + 1
  PROVE  i = Len(l) + 1 /\ t - h = End(v, i - 1)
  <1>1. /\ v \in Seq(Types) /\ Len(v) \in Nat /\ DOMAIN v = 1..Len(v) /\ t \in Nat /\ h \in Nat
        /\ Len(l) \in 0..Len(v) /\ \A k \in 0..Len(v) : End(v, k) \in Nat
    BY RxNumbers
  <1>2. HeaderSize \in Nat /\ HeaderSize >= 1
    BY ConnectionAssumption
  <1>3. 1 \in 1..h
    BY <1>1, <1>2
  <1>4. b[1] = t - h + 1
    BY <1>3 DEF Rx
  <1>5. t - h = End(v, Len(l))
    BY DEF Rx
  <1>6. i - 1 \in 0..Len(v) /\ End(v, i - 1) \in Nat /\ End(v, Len(l)) \in Nat
    BY <1>1
  <1>7. End(v, i - 1) = End(v, Len(l))
    BY <1>1, <1>4, <1>5, <1>6
  <1>8. ~(i - 1 < Len(l)) /\ ~(Len(l) < i - 1)
    BY <1>1, <1>6, <1>7, EndsGrow
  <1> QED BY <1>1, <1>5, <1>6, <1>7, <1>8

Shift(b, h, size) == [j \in 1..BufSize |-> IF j <= h - size THEN b[j + size] ELSE b[j]]

\* A packet with no more than a header behind it is read as it was sent.
LEMMA RxIntact ==
  ASSUME NEW v, NEW a, NEW t, NEW h, NEW b, NEW l, Rx(v, a, t, h, b, l),
         NEW i \in DOMAIN v, t - h = End(v, i - 1), h >= Size(v[i]),
         a <= End(v, i) + HeaderSize,
         NEW k \in (HeaderSize + 1)..Size(v[i])
  PROVE  Shift(b, h, Size(v[i]))[k] = End(v, i - 1) + k
  <1>1. /\ v \in Seq(Types) /\ Len(v) \in Nat /\ DOMAIN v = 1..Len(v) /\ h <= BufSize
        /\ BufSize \in Nat
        /\ t \in Nat /\ h \in Nat /\ a \in Nat /\ t <= a
    BY RxNumbers
  <1> DEFINE size == Size(v[i])
  <1>2. v[i] \in Types
    BY <1>1
  <1>3. size \in Nat /\ HeaderSize \in Nat
    BY <1>2, Sizes
  <1>4. End(v, i) = End(v, i - 1) + size
    BY <1>1, EndsAre
  <1> HIDE DEF size
  <1>5. h - size <= HeaderSize
    BY <1>1, <1>3, <1>4
  <1>6. k \in Nat /\ k >= HeaderSize + 1 /\ k <= size
    BY <1>3 DEF size
  <1>7. ~(k <= h - size) /\ k \in 1..BufSize /\ k \in 1..h
    BY <1>1, <1>3, <1>5, <1>6 DEF size
  <1>8. Shift(b, h, size)[k] = b[k]
    BY <1>7 DEF Shift
  <1>9. b[k] = t - h + k
    BY <1>7 DEF Rx
  <1> QED BY <1>8, <1>9 DEF size

\* A packet is taken from the front of the buffer.
LEMMA RxHandle ==
  ASSUME NEW v, NEW a, NEW t, NEW h, NEW b, NEW l, Rx(v, a, t, h, b, l),
         NEW i \in DOMAIN v, i = Len(l) + 1, h >= Size(v[i]),
         NEW x \in BOOLEAN, NEW y \in BOOLEAN, y => x
  PROVE  Rx(v, a, t, h - Size(v[i]), Shift(b, h, Size(v[i])),
            Append(l, [packet |-> i, intact |-> x, alone |-> y]))
  <1> DEFINE size == Size(v[i])
             r == [packet |-> i, intact |-> x, alone |-> y]
             c == Shift(b, h, size)
             m == Append(l, r)
  <1>1. /\ v \in Seq(Types) /\ Len(v) \in Nat /\ DOMAIN v = 1..Len(v) /\ h <= BufSize
        /\ BufSize \in Nat /\ l \in Seq(Handled) /\ Len(l) \in 0..Len(v)
        /\ DOMAIN l = 1..Len(l)
        /\ t \in Nat /\ h \in Nat /\ a \in Nat /\ t <= a
    BY RxNumbers
  <1>2. v[i] \in Types /\ i \in Nat /\ i \in 1..Len(v)
    BY <1>1
  <1>3. size \in Nat
    BY <1>2, Sizes
  <1>4. End(v, i) = End(v, i - 1) + size /\ End(v, i - 1) \in Nat
    BY <1>1, <1>2, EndsAre
  <1>5. r \in Handled /\ r.packet = i /\ r.intact = x /\ r.alone = y
    BY <1>2 DEF Handled
  <1> HIDE DEF r
  <1>6. /\ m \in Seq(Handled) /\ Len(m) = Len(l) + 1 /\ DOMAIN m = 1..(Len(l) + 1)
        /\ m[Len(l) + 1] = r /\ \A k \in 1..Len(l) : m[k] = l[k]
    BY <1>1, <1>5
  <1> HIDE DEF m, size
  <1>7. ASSUME NEW j \in 1..BufSize PROVE c[j] \in 0..a
    <2>1. b \in [1..BufSize -> 0..a]
      BY DEF Rx
    <2>2. j <= h - size => j + size \in 1..BufSize
      BY <1>1, <1>3
    <2>3. c[j] = IF j <= h - size THEN b[j + size] ELSE b[j]
      BY DEF Shift
    <2> QED BY <2>1, <2>2, <2>3
  <1>8. c \in [1..BufSize -> 0..a]
    BY <1>7 DEF Shift
  <1>9. h - size \in 0..BufSize
    BY <1>1, <1>3 DEF size
  <1>10. t - h = End(v, i - 1)
    BY <1>1 DEF Rx
  <1>11. t - (h - size) = End(v, Len(m))
    BY <1>1, <1>3, <1>4, <1>6, <1>10
  <1>12. ASSUME NEW j \in 1..(h - size) PROVE c[j] = t - (h - size) + j
    <2>1. j \in 1..BufSize /\ j <= h - size /\ j + size \in 1..h
      BY <1>1, <1>3, <1>9
    <2>2. c[j] = b[j + size]
      BY <2>1 DEF Shift
    <2>3. b[j + size] = t - h + (j + size)
      BY <2>1 DEF Rx
    <2> QED BY <1>1, <1>3, <2>1, <2>2, <2>3
  <1>13. ASSUME NEW k \in DOMAIN m
         PROVE  m[k].packet = k /\ (m[k].alone => m[k].intact)
    <2>1. CASE k = Len(l) + 1
      BY <1>5, <1>6, <2>1
    <2>2. CASE k \in 1..Len(l)
      <3>1. k \in DOMAIN l /\ m[k] = l[k]
        BY <1>1, <1>6, <2>2
      <3> QED BY <3>1 DEF Rx
    <2> QED BY <1>1, <1>6, <2>1, <2>2
  <1>14. Len(m) <= Len(v)
    BY <1>1, <1>2, <1>6
  <1> HIDE DEF c
  <1>15. Rx(v, a, t, h - size, c, m)
    BY <1>6, <1>8, <1>9, <1>11, <1>12, <1>13, <1>14 DEF Rx
  <1> QED BY <1>15 DEF c, m, r, size

\* A connection that has just been accepted.
LEMMA InitRx == Init => RxInv
  <1> SUFFICES ASSUME Init PROVE Rx(stream, arrived, taken, have, buf, handled)
    BY RxIs
  <1>1. stream \in Seq(Types) /\ stream \in Streams /\ Len(stream) \in Nat
    BY ConnectionAssumption DEF Init
  <1>2. 0 \in 0..Len(stream) /\ Len(stream) \in 0..Len(stream)
    BY <1>1
  <1>3. End(stream, 0) = 0 /\ End(stream, Len(stream)) \in Nat
    BY <1>1, <1>2, EndsAre
  <1>4. arrived = 0 /\ taken = 0 /\ have = 0 /\ handled = << >> /\ BufSize \in Nat
    BY ConnectionAssumption DEF Init
  <1>5. buf \in [1..BufSize -> 0..arrived]
    BY <1>4 DEF Init
  <1>6. handled \in Seq(Handled) /\ Len(handled) = 0 /\ DOMAIN handled = {}
    BY <1>4
  <1> QED BY <1>1, <1>3, <1>4, <1>5, <1>6 DEF Rx

\* Each step.
LEMMA NextRx == RxInv /\ [Next]_vars => RxInv'
  <1> SUFFICES ASSUME RxInv, [Next]_vars
               PROVE  Rx(stream', arrived', taken', have', buf', handled')
    BY RxIs
  <1>1. Rx(stream, arrived, taken, have, buf, handled)
    BY RxIs
  <1>2. CASE UNCHANGED <<stream, arrived, rxVars>>
    BY <1>1, <1>2 DEF rxVars
  <1>3. CASE UNCHANGED <<stream, arrived, taken, buf, have, handled>>
    BY <1>1, <1>3
  <1>4. CASE Arrive
    <2>1. arrived < End(stream, Len(stream))
      BY <1>4, EndIs DEF Arrive
    <2>2. Rx(stream, arrived + 1, taken, have, buf, handled)
      BY <1>1, <2>1, RxArrive
    <2> QED BY <1>4, <2>2 DEF Arrive, rxVars
  <1>5. CASE Recv
    <2> DEFINE n == Min({arrived - taken, BufSize - have})
    <2>1. /\ arrived \in Nat /\ taken \in Nat /\ taken <= arrived
          /\ have \in Nat /\ BufSize \in Nat /\ have <= BufSize
      BY <1>1, RxNumbers
    <2>2. {arrived - taken, BufSize - have} \in SUBSET Nat
      BY <2>1
    <2>3. n \in Nat /\ n <= arrived - taken /\ n <= BufSize - have
      <3>1. n \in {arrived - taken, BufSize - have}
            /\ \A y \in {arrived - taken, BufSize - have} : n <= y
        BY <2>2, MinIs
      <3> QED BY <2>2, <3>1
    <2> HIDE DEF n
    <2>4. Rx(stream, arrived, taken + n, have + n,
             [j \in 1..BufSize |-> IF j \in (have + 1)..(have + n)
                                   THEN taken + j - have ELSE buf[j]], handled)
      BY <1>1, <2>3, RxRecv
    <2>5. /\ buf' = [j \in 1..BufSize |-> IF j \in (have + 1)..(have + n)
                                          THEN taken + j - have ELSE buf[j]]
          /\ have' = have + n /\ taken' = taken + n
          /\ UNCHANGED <<stream, arrived, handled>>
      BY <1>5 DEF Recv, Received, clientVars, n
    <2> QED BY <2>4, <2>5
  <1>6. CASE HandlePacket
    <2>1. PICK i \in DOMAIN stream :
            /\ Complete(i)
            /\ buf' = Shifted(Size(stream[i])) /\ have' = have - Size(stream[i])
            /\ handled' = Append(handled, [packet |-> i, intact |-> Intact(i, buf'),
                                           alone |-> arrived <= LastCell(i) + HeaderSize])
      BY <1>6 DEF HandlePacket
    <2> DEFINE x == Intact(i, buf')
               y == arrived <= LastCell(i) + HeaderSize
               size == Size(stream[i])
    <2>2. UNCHANGED <<stream, arrived, taken>>
      BY <1>6 DEF HandlePacket, clientVars
    <2>3. have >= HeaderSize /\ buf[1] = FirstCell(i) /\ have >= size
      BY <2>1 DEF Complete, AtFront
    <2>4. FirstCell(i) = End(stream, i - 1) + 1
      BY EndIs DEF FirstCell
    <2>5. i = Len(handled) + 1 /\ taken - have = End(stream, i - 1)
      BY <1>1, <2>3, <2>4, RxFront
    <2>6. buf' = Shift(buf, have, size)
      BY <2>1 DEF Shifted, Shift
    <2>7. x \in BOOLEAN /\ y \in BOOLEAN
      BY DEF Intact
    <2>8. ASSUME y PROVE x
      <3>1. arrived <= End(stream, i) + HeaderSize
        BY <2>8, EndIs
      <3>2. End(stream, i - 1) \in Nat
        <4>1. /\ DOMAIN stream = 1..Len(stream) /\ Len(stream) \in Nat
              /\ \A k \in 0..Len(stream) : End(stream, k) \in Nat
          BY <1>1, RxNumbers
        <4> QED BY <4>1
      <3>3. ASSUME NEW k \in (HeaderSize + 1)..size
            PROVE  buf'[k] = FirstCell(i) + k - 1
        <4>1. Shift(buf, have, size)[k] = End(stream, i - 1) + k
          BY <1>1, <2>3, <2>5, <3>1, <3>3, RxIntact
        <4>2. k \in Int
          BY <3>3
        <4> QED BY <2>4, <2>6, <3>2, <4>1, <4>2
      <3> QED BY <3>3 DEF Intact
    <2> HIDE DEF x, y, size
    <2>9. Rx(stream, arrived, taken, have - size, Shift(buf, have, size),
             Append(handled, [packet |-> i, intact |-> x, alone |-> y]))
      BY <1>1, <2>3, <2>5, <2>7, <2>8, RxHandle DEF size
    <2>10. /\ have' = have - size
           /\ handled' = Append(handled, [packet |-> i, intact |-> x, alone |-> y])
      BY <2>1 DEF x, y, size
    <2> QED BY <2>2, <2>6, <2>9, <2>10
  <1>7. ASSUME NEW next, Cleanup(next) PROVE UNCHANGED <<stream, arrived, rxVars>>
    BY <1>7 DEF Cleanup, clientVars
  <1>8. CASE RecvStop
    BY <1>3, <1>8 DEF RecvStop, clientVars
  <1>9. CASE Disconnected \/ RecvEnd \/ BadPacket \/ SendError
    BY <1>2, <1>7, <1>9 DEF Disconnected, RecvEnd, BadPacket, SendError
  <1>10. CASE ClientClose \/ ClientRead
    BY <1>2, <1>10 DEF ClientClose, ClientRead
  <1>11. CASE EpollWait \/ BusPacket \/ ReadDone
    BY <1>2, <1>11 DEF EpollWait, BusPacket, ReadDone, clientVars
  <1>12. CASE Send \/ SendAgain \/ Arm \/ SendDone
    BY <1>2, <1>12 DEF Send, SendAgain, Arm, SendDone, clientVars
  <1>13. CASE UNCHANGED vars
    BY <1>2, <1>13 DEF vars, clientVars
  <1> QED BY <1>4, <1>5, <1>6, <1>8, <1>9, <1>10, <1>11, <1>12, <1>13 DEF Next, Thread

-----------------------------------------------------------------------------
(* The order of the answers *)

\* The types of what was accepted (a units), read (r), sent (o) and queued (c).
Tx(a, r, o, c, q) ==
  /\ a \in Nat /\ r \in Units /\ o \in Units
  /\ c \in Seq(Seq(1..a) \ {<< >>})
  /\ q \in 0..HighWatermark /\ Len(o) <= SendBuffer

\* What was read, sent and queued is what was accepted.
Line(a, r, o, c, q) ==
  /\ r \o o \o FlattenSeq(c) = [k \in 1..a |-> k]
  /\ q = Len(FlattenSeq(c))

\* The invariant of the queue before and after a step.
LEMMA TxIs ==
  /\ TxInv <=> /\ Tx(accepted, received, outbound, chunks, queued)
               /\ Open => Line(accepted, received, outbound, chunks, queued)
               /\ ~Open => chunks = << >>
  /\ TxInv' <=> /\ Tx(accepted', received', outbound', chunks', queued')
                /\ Open' => Line(accepted', received', outbound', chunks', queued')
                /\ ~Open' => chunks' = << >>
  <1>1. TxInv <=> /\ Tx(accepted, received, outbound, chunks, queued)
                  /\ Open => Line(accepted, received, outbound, chunks, queued)
                  /\ ~Open => chunks = << >>
    BY DEF TxInv, Tx, Line, RepliesInOrder
  <1>2. TxInv' <=> /\ Tx(accepted', received', outbound', chunks', queued')
                   /\ Open' => Line(accepted', received', outbound', chunks', queued')
                   /\ ~Open' => chunks' = << >>
    BY DEF TxInv, Tx, Line, RepliesInOrder, Units
  <1> QED BY <1>1, <1>2

\* The queue is one of sequences of units.
LEMMA ChunksAre ==
  ASSUME NEW a \in Nat, NEW c \in Seq(Seq(1..a) \ {<< >>})
  PROVE  /\ c \in Seq(Units) /\ Len(c) \in Nat
         /\ \A k \in 1..Len(c) : c[k] \in Seq(1..a) \ {<< >>} /\ c[k] \in Units
  <1>1. \A x \in Seq(1..a) : x \in Seq(Nat)
    <2> TAKE x \in Seq(1..a)
    <2>1. Len(x) \in Nat /\ \A k \in 1..Len(x) : x[k] \in Nat
      OBVIOUS
    <2> QED BY <2>1
  <1>2. Len(c) \in Nat /\ \A k \in 1..Len(c) : c[k] \in Seq(1..a) \ {<< >>}
    OBVIOUS
  <1>3. \A k \in 1..Len(c) : c[k] \in Units
    BY <1>1, <1>2 DEF Units
  <1>4. c \in Seq(Units)
    <2> DEFINE B == Seq(1..a) \ {<< >>}
    <2>1. c \in Seq(B)
      OBVIOUS
    <2> HIDE DEF B
    <2> QED BY <1>3, <2>1, Widened
  <1> QED BY <1>2, <1>3, <1>4

\* A packet of n units is put on the queue.
LEMMA TxEnqueue ==
  ASSUME NEW a, NEW r, NEW o, NEW c, NEW q, Tx(a, r, o, c, q), Line(a, r, o, c, q),
         NEW n \in Nat \ {0}, q + n <= HighWatermark
  PROVE  /\ Tx(a + n, r, o, Append(c, [k \in 1..n |-> a + k]), q + n)
         /\ Line(a + n, r, o, Append(c, [k \in 1..n |-> a + k]), q + n)
  <1> DEFINE x == [k \in 1..n |-> a + k]
             d == Append(c, x)
             all == [k \in 1..a |-> k]
  <1>1. a \in Nat /\ r \in Units /\ o \in Units /\ q \in Nat /\ HighWatermark \in Nat
    BY ConnectionAssumption DEF Tx
  <1>2. /\ c \in Seq(Units) /\ Len(c) \in Nat
        /\ \A k \in 1..Len(c) : c[k] \in Seq(1..a) \ {<< >>}
    BY ChunksAre DEF Tx
  <1>3. x \in Seq(1..(a + n)) /\ x \in Seq(Nat) /\ Len(x) = n
    BY <1>1
  <1>4. x \in Units /\ x # << >>
    <2>1. x # << >>
      BY <1>3
    <2> QED BY <1>3, <2>1 DEF Units
  <1>5. all \in Seq(Nat) /\ Len(all) = a
    BY <1>1
  <1>6. all \o x = [k \in 1..(a + n) |-> k]
    BY <1>1, <1>3, <1>5
  <1> HIDE DEF x, all
  <1>7. FlattenSeq(c) \in Units /\ FlattenSeq(d) = FlattenSeq(c) \o x
    BY <1>2, <1>4, FlattenAppend
  <1>8. r \o o \in Units
    BY <1>1, Concats
  <1>9. ((r \o o) \o FlattenSeq(c)) \o x = (r \o o) \o (FlattenSeq(c) \o x)
    BY <1>4, <1>7, <1>8, ConcatsAssociate, Zenon
  <1>10. (r \o o) \o FlattenSeq(c) = all
    BY DEF Line, all
  <1>11. Len(FlattenSeq(d)) = q + n
    <2>1. Len(FlattenSeq(d)) = Len(FlattenSeq(c)) + Len(x)
      BY <1>4, <1>7, Concats
    <2> QED BY <1>3, <2>1 DEF Line
  <1>12. Line(a + n, r, o, d, q + n)
    BY <1>6, <1>7, <1>9, <1>10, <1>11 DEF Line
  <1>13. d \in Seq(Seq(1..(a + n)) \ {<< >>})
    <2>1. ASSUME NEW k \in 1..Len(c) PROVE c[k] \in Seq(1..(a + n)) \ {<< >>}
      <3>1. c[k] \in Seq(1..a) /\ c[k] # << >>
        BY <1>2
      <3>2. \A i \in 1..Len(c[k]) : c[k][i] \in 1..(a + n)
        BY <1>1, <3>1
      <3>3. c[k] \in Seq(1..(a + n))
        <4> DEFINE A == 1..a
                   B == 1..(a + n)
        <4>1. c[k] \in Seq(A) /\ \A i \in 1..Len(c[k]) : c[k][i] \in B
          BY <3>1, <3>2
        <4> HIDE DEF A, B
        <4>2. c[k] \in Seq(B)
          BY <4>1, Widened
        <4> QED BY <4>2 DEF B
      <3> QED BY <3>1, <3>3
    <2>2. c \in Seq(Seq(1..(a + n)) \ {<< >>})
      <3> DEFINE B == Seq(1..(a + n)) \ {<< >>}
      <3>1. \A k \in 1..Len(c) : c[k] \in B
        BY <2>1
      <3> HIDE DEF B
      <3>2. c \in Seq(B)
        BY <1>2, <3>1, Widened
      <3> QED BY <3>2 DEF B
    <2> QED BY <1>3, <1>4, <2>2
  <1> HIDE DEF d
  <1>14. Tx(a + n, r, o, d, q + n)
    BY <1>1, <1>13 DEF Tx
  <1> QED BY <1>12, <1>14 DEF d, x

\* The kernel takes n units of the first chunk.
LEMMA TxSend ==
  ASSUME NEW a, NEW r, NEW o, NEW c, NEW q, Tx(a, r, o, c, q), Line(a, r, o, c, q),
         c # << >>, NEW n \in 1..Len(Head(c)), n <= SendBuffer - Len(o),
         NEW rest, rest = SubSeq(Head(c), n + 1, Len(Head(c))),
         NEW d, d = IF rest = << >> THEN Tail(c) ELSE <<rest>> \o Tail(c)
  PROVE  /\ Tx(a, r, o \o SubSeq(Head(c), 1, n), d, q - n)
         /\ Line(a, r, o \o SubSeq(Head(c), 1, n), d, q - n)
  <1> DEFINE h == Head(c)
             t == Tail(c)
             p == SubSeq(h, 1, n)
             B == Seq(1..a) \ {<< >>}
  <1>1. /\ a \in Nat /\ r \in Units /\ o \in Units /\ q \in Nat /\ q <= HighWatermark
        /\ HighWatermark \in Nat /\ SendBuffer \in Nat
    BY ConnectionAssumption DEF Tx
  <1>2. c \in Seq(B) /\ c \in Seq(Units)
    BY <1>1, ChunksAre DEF Tx
  <1>3. h \in Seq(1..a) /\ h \in Units /\ t \in Seq(B) /\ t \in Seq(Units)
    <2>1. h \in B /\ t \in Seq(B)
      BY <1>2
    <2>2. h \in Units /\ t \in Seq(Units)
      BY <1>2
    <2> QED BY <2>1, <2>2
  <1>4. /\ FlattenSeq(t) \in Units /\ FlattenSeq(c) = h \o FlattenSeq(t)
    BY <1>2, FlattenHead
  <1>5. Len(h) \in Nat /\ Len(o) \in Nat /\ n \in Nat /\ n \in 0..Len(h)
    BY <1>1, <1>3 DEF Units
  <1>6. /\ p \in Units /\ rest \in Units /\ p \o rest = h /\ Len(p) = n
        /\ Len(rest) = Len(h) - n
    BY <1>3, <1>5, Cut DEF Units
  <1>7. rest \in Seq(1..a)
    BY <1>3, <1>5, Cut
  <1> HIDE DEF h, t, p
  <1>8. d \in Seq(B) /\ FlattenSeq(d) = rest \o FlattenSeq(t)
    <2>1. CASE rest = << >>
      <3>1. d = t
        BY <2>1 DEF t
      <3>2. rest \o FlattenSeq(t) = FlattenSeq(t)
        BY <1>4, <2>1, Concats
      <3> QED BY <1>3, <3>1, <3>2
    <2>2. CASE rest # << >>
      <3>1. d = <<rest>> \o t /\ rest \in B
        BY <1>7, <2>2 DEF t
      <3>2. d \in Seq(B)
        <4>1. rest \in B /\ t \in Seq(B)
          BY <1>3, <3>1
        <4> HIDE DEF B
        <4>2. <<rest>> \o t \in Seq(B)
          BY <4>1, PutBefore, Zenon
        <4> QED BY <3>1, <4>2
      <3>3. d \in Seq(Units) /\ d # << >> /\ Head(d) = rest /\ Tail(d) = t
        <4>1. rest \in Units /\ t \in Seq(Units)
          BY <1>3, <1>6
        <4>2. /\ <<rest>> \o t \in Seq(Units) /\ <<rest>> \o t # << >>
              /\ Head(<<rest>> \o t) = rest /\ Tail(<<rest>> \o t) = t
          BY <4>1, PutBefore, Zenon
        <4> QED BY <3>1, <4>2
      <3>4. FlattenSeq(d) = rest \o FlattenSeq(t)
        BY <3>3, FlattenHead
      <3> QED BY <3>2, <3>4
    <2> QED BY <2>1, <2>2
  <1> DEFINE f == FlattenSeq(t)
  <1>9. (r \o (o \o p)) \o (rest \o f) = (r \o o) \o (h \o f)
    <2>1. f \in Units
      BY <1>4
    <2> HIDE DEF f
    <2>2. (r \o (o \o p)) \o (rest \o f) = (r \o o) \o ((p \o rest) \o f)
      <3>1. r \in Units /\ o \in Units /\ p \in Units /\ rest \in Units
        BY <1>1, <1>6
      <3>2. \A u, v, w, x, y \in Units : (u \o (v \o w)) \o (x \o y) = (u \o v) \o ((w \o x) \o y)
        BY ConcatsOfFive, Zenon
      <3>3. \A x, y \in Units : (r \o (o \o p)) \o (x \o y) = (r \o o) \o ((p \o x) \o y)
        <4>1. \A v, w, x, y \in Units : (r \o (v \o w)) \o (x \o y) = (r \o v) \o ((w \o x) \o y)
          BY <3>1, <3>2, Zenon
        <4>2. \A w, x, y \in Units : (r \o (o \o w)) \o (x \o y) = (r \o o) \o ((w \o x) \o y)
          BY <3>1, <4>1, Zenon
        <4> QED BY <3>1, <4>2, Zenon
      <3> QED BY <2>1, <3>1, <3>3, Zenon
    <2>3. p \o rest = h
      BY <1>6
    <2> QED BY <2>2, <2>3, Zenon
  <1>10. /\ Len(FlattenSeq(d)) = q - n /\ q - n \in Nat
    <2>1. f \in Units /\ FlattenSeq(c) = h \o f /\ FlattenSeq(d) = rest \o f
      BY <1>4, <1>8
    <2> HIDE DEF f
    <2>2. Len(h \o f) = Len(h) + Len(f) /\ Len(rest \o f) = Len(rest) + Len(f)
      BY <1>3, <1>6, <2>1, Concats
    <2>3. Len(f) \in Nat
      BY <2>1 DEF Units
    <2>4. q = Len(h) + Len(f)
      BY <2>1, <2>2 DEF Line
    <2>5. Len(FlattenSeq(d)) = (Len(h) - n) + Len(f)
      BY <1>6, <2>1, <2>2
    <2> QED BY <1>5, <2>3, <2>4, <2>5
  <1>11. (r \o (o \o p)) \o FlattenSeq(d) = [k \in 1..a |-> k]
    BY <1>4, <1>8, <1>9 DEF Line
  <1>12. Line(a, r, o \o p, d, q - n)
    BY <1>10, <1>11 DEF Line
  <1>13. o \o p \in Units /\ Len(o \o p) <= SendBuffer
    <2>1. o \o p \in Units /\ Len(o \o p) = Len(o) + n
      BY <1>1, <1>6, Concats
    <2> QED BY <1>1, <1>5, <2>1
  <1>14. Tx(a, r, o \o p, d, q - n)
    <2>1. q - n \in 0..HighWatermark
      BY <1>1, <1>5, <1>10
    <2> QED BY <1>1, <1>8, <1>13, <2>1 DEF Tx
  <1> QED BY <1>12, <1>14 DEF p, h

\* The client reads a unit.
LEMMA TxRead ==
  ASSUME NEW a, NEW r, NEW o, NEW c, NEW q, Tx(a, r, o, c, q), o # << >>
  PROVE  /\ Tx(a, Append(r, Head(o)), Tail(o), c, q)
         /\ Line(a, r, o, c, q) => Line(a, Append(r, Head(o)), Tail(o), c, q)
  <1>1. r \in Seq(Nat) /\ o \in Seq(Nat)
    BY DEF Tx, Units
  <1>2. Append(r, Head(o)) \in Seq(Nat) /\ Tail(o) \in Seq(Nat) /\ Len(Tail(o)) < Len(o)
    BY <1>1
  <1>3. Append(r, Head(o)) \o Tail(o) = r \o o
    BY <1>1
  <1>4. Len(o) \in Nat /\ Len(Tail(o)) \in Nat
    BY <1>1, <1>2
  <1>5. Len(Tail(o)) <= SendBuffer
    BY <1>2, <1>4, ConnectionAssumption DEF Tx
  <1> QED BY <1>2, <1>3, <1>5 DEF Tx, Line, Units

\* A connection that has just been accepted.
LEMMA InitTx == Init => TxInv
  <1> SUFFICES ASSUME Init PROVE TxInv
    OBVIOUS
  <1>1. accepted = 0 /\ received = << >> /\ outbound = << >> /\ chunks = << >> /\ queued = 0
    BY DEF Init
  <1>2. Tx(0, << >>, << >>, << >>, 0)
    BY ConnectionAssumption DEF Tx, Units
  <1>3. Line(0, << >>, << >>, << >>, 0)
    <2>1. FlattenSeq(<< >>) = << >>
      BY DEF FlattenSeq
    <2> QED BY <2>1 DEF Line
  <1> QED BY <1>1, <1>2, <1>3, TxIs

\* A connection that is not freed stays open, whichever way the thread goes on.
LEMMA StaysOpen ==
  ASSUME NEW ev
  PROVE  /\ \A how \in Hows \cup {"bus", "event"}, ok \in BOOLEAN :
              Return(how, ev, ok, TRUE) \notin {"gone", "fault"}
         /\ Dispatch(ev, TRUE) \notin {"gone", "fault"}
         /\ LeaveRead(ev, TRUE) \notin {"gone", "fault"}
  <1>1. /\ Dispatch(ev, TRUE) \notin {"gone", "fault"}
        /\ LeaveRead(ev, TRUE) \notin {"gone", "fault"}
    BY DispatchIs, LeaveReadIs
  <1>2. ASSUME NEW how \in Hows \cup {"bus", "event"}
        PROVE  /\ Return(how, ev, TRUE, TRUE) \notin {"gone", "fault"}
               /\ Return(how, ev, FALSE, TRUE) \notin {"gone", "fault"}
    <2>1. CASE how = "returned"
      BY <1>1, <2>1, ReturnIs
    <2>2. CASE how = "ignored"
      BY <2>2, ReturnIs
    <2>3. CASE how = "refused"
      BY <1>1, <2>3, ReturnIs
    <2>4. CASE how = "bus"
      BY <1>1, <2>4, ReturnIs
    <2>5. CASE how = "event"
      BY <2>5, ReturnIs
    <2> QED BY <2>1, <2>2, <2>3, <2>4, <2>5 DEF Hows
  <1> QED BY <1>1, <1>2

\* A packet is queued, or dropped above the watermark.
LEMMA EnqueueTx ==
  ASSUME TxInv, Open, NEW size \in Nat \ {0}, NEW how \in Hows \cup {"bus"}, NEW ev,
         Enqueue(size, how, ev), UNCHANGED <<received, outbound>>
  PROVE  TxInv'
  <1>1. /\ Tx(accepted, received, outbound, chunks, queued)
        /\ Line(accepted, received, outbound, chunks, queued)
    BY TxIs
  <1>2. CASE queued + size > HighWatermark
    <2>1. pc' = Return(how, ev, FALSE, TRUE) /\ UNCHANGED <<chunks, queued, accepted>>
      BY <1>2 DEF Enqueue, GoOn
    <2>2. Open'
      BY <2>1, StaysOpen DEF Open
    <2> QED BY <1>1, <2>1, <2>2, TxIs
  <1>3. CASE ~(queued + size > HighWatermark)
    <2> DEFINE x == [k \in 1..size |-> accepted + k]
    <2>1. /\ chunks' = Append(chunks, x)
          /\ queued' = queued + size /\ accepted' = accepted + size /\ pc' = "send"
      BY <1>3 DEF Enqueue
    <2>2. queued + size <= HighWatermark
      BY <1>1, <1>3, ConnectionAssumption DEF Tx
    <2>3. /\ Tx(accepted + size, received, outbound, Append(chunks, x), queued + size)
          /\ Line(accepted + size, received, outbound, Append(chunks, x), queued + size)
      BY <1>1, <2>2, TxEnqueue
    <2> HIDE DEF x
    <2>4. Open'
      BY <2>1 DEF Open
    <2> QED BY <2>1, <2>3, <2>4, TxIs
  <1> QED BY <1>2, <1>3

\* Each step.
LEMMA NextTx == ControlInv /\ stream \in Streams /\ TxInv /\ [Next]_vars => TxInv'
  <1> SUFFICES ASSUME ControlInv, stream \in Streams, TxInv, [Next]_vars PROVE TxInv'
    OBVIOUS
  <1>1. /\ Tx(accepted, received, outbound, chunks, queued)
        /\ Open => Line(accepted, received, outbound, chunks, queued)
        /\ ~Open => chunks = << >>
    BY TxIs
  <1>2. caller \in Hows \cup {"bus", "event"}
    BY DEF ControlInv
  <1>3. ASSUME UNCHANGED <<accepted, received, outbound, chunks, queued>>, Open <=> Open'
        PROVE  TxInv'
    BY <1>1, <1>3, TxIs
  <1>4. CASE Arrive \/ ClientClose
    <2>1. UNCHANGED <<accepted, received, outbound, chunks, queued, pc>>
      BY <1>4 DEF Arrive, ClientClose, txVars
    <2> QED BY <1>3, <2>1 DEF Open
  <1>5. CASE ClientRead
    <2>1. /\ outbound # << >> /\ received' = Append(received, Head(outbound))
          /\ outbound' = Tail(outbound) /\ UNCHANGED <<accepted, chunks, queued, pc>>
      BY <1>5 DEF ClientRead
    <2>2. Open' <=> Open
      BY <2>1 DEF Open
    <2>3. /\ Tx(accepted, received', outbound', chunks, queued)
          /\ Open => Line(accepted, received', outbound', chunks, queued)
      BY <1>1, <2>1, TxRead
    <2> QED BY <1>1, <2>1, <2>2, <2>3, TxIs
  <1>6. CASE EpollWait
    <2>1. /\ UNCHANGED <<accepted, received, outbound, chunks, queued>>
          /\ pc' = Dispatch(Ready(want_epollout), TRUE) /\ pc = "wait"
      BY <1>6 DEF EpollWait, GoOn, clientVars, txVars
    <2> QED BY <1>3, <2>1, StaysOpen DEF Open
  <1>7. CASE BusPacket
    <2>1. /\ Enqueue(2, "bus", events') /\ pc = "wait"
          /\ UNCHANGED <<received, outbound>>
      BY <1>7 DEF BusPacket, clientVars
    <2> QED BY <2>1, EnqueueTx DEF Open
  <1>8. ASSUME NEW next \in {"gone", "fault"}, Cleanup(next)
        PROVE  TxInv'
    <2>1. /\ UNCHANGED <<accepted, received, outbound>> /\ chunks' = << >> /\ queued' = 0
          /\ pc' = next
      BY <1>8 DEF Cleanup, GoOn, clientVars
    <2>2. Tx(accepted, received, outbound, << >>, 0)
      BY <1>1, ConnectionAssumption DEF Tx
    <2>3. ~Open'
      BY <2>1 DEF Open
    <2> QED BY <2>1, <2>2, <2>3, TxIs
  <1>9. CASE Disconnected
    BY <1>8, <1>9 DEF Disconnected
  <1>10. CASE RecvEnd \/ BadPacket
    <2>1. LeaveRead(events, FALSE) \in {"gone", "fault"}
      BY LeaveReadIs
    <2> QED BY <1>8, <1>10, <2>1 DEF RecvEnd, BadPacket
  <1>11. CASE SendError
    <2>1. Return(caller, events, FALSE, FALSE) \in {"gone", "fault"}
      BY <1>2, ReturnIs
    <2> QED BY <1>8, <1>11, <2>1 DEF SendError
  <1>12. CASE Recv \/ RecvStop
    <2>1. /\ UNCHANGED <<accepted, received, outbound, chunks, queued>> /\ pc = "recv"
          /\ pc' \in {"recv", "extract"}
      BY <1>12 DEF Recv, RecvStop, GoOn, clientVars, txVars
    <2> QED BY <1>3, <2>1 DEF Open
  <1>13. CASE HandlePacket
    <2>1. PICK i \in DOMAIN stream :
            /\ Complete(i)
            /\ \E answer \in Answers(stream[i]) :
                 IF answer.reply = 0
                 THEN UNCHANGED <<chunks, queued, accepted, pc, caller>>
                 ELSE Enqueue(answer.reply, answer.how, events)
      BY <1>13 DEF HandlePacket
    <2>2. PICK answer \in Answers(stream[i]) :
                 IF answer.reply = 0
                 THEN UNCHANGED <<chunks, queued, accepted, pc, caller>>
                 ELSE Enqueue(answer.reply, answer.how, events)
      BY <2>1
    <2>3. UNCHANGED <<received, outbound>> /\ pc = "extract"
      BY <1>13 DEF HandlePacket, clientVars
    <2>4. stream[i] \in Types \ {"BAD"}
      BY <2>1, StreamType
    <2>5. answer.reply \in {0, 1, 2} /\ answer.how \in Hows
      BY <2>4, AnswersAre
    <2>6. CASE answer.reply = 0
      BY <1>3, <2>2, <2>3, <2>6 DEF Open
    <2>7. CASE answer.reply # 0
      <3>1. answer.reply \in Nat \ {0} /\ Enqueue(answer.reply, answer.how, events)
        BY <2>2, <2>5, <2>7
      <3> QED BY <2>3, <2>5, <3>1, EnqueueTx DEF Open
    <2> QED BY <2>6, <2>7
  <1>14. CASE ReadDone
    <2>1. /\ UNCHANGED <<accepted, received, outbound, chunks, queued>> /\ pc = "extract"
          /\ pc' = LeaveRead(events, TRUE)
      BY <1>14 DEF ReadDone, GoOn, clientVars, txVars
    <2> QED BY <1>3, <2>1, StaysOpen DEF Open
  <1>15. CASE Send
    <2> DEFINE h == Head(chunks)
               n == Min({SendBuffer - Len(outbound), Len(h)})
               rest == SubSeq(h, n + 1, Len(h))
    <2>1. /\ pc = "send" /\ chunks # << >> /\ Room
          /\ outbound' = outbound \o SubSeq(h, 1, n)
          /\ queued' = queued - n
          /\ chunks' = IF rest = << >> THEN Tail(chunks) ELSE <<rest>> \o Tail(chunks)
          /\ UNCHANGED <<accepted, received, pc>>
      BY <1>15 DEF Send, clientVars
    <2>2. Len(h) \in Nat /\ Len(h) # 0
      <3>1. accepted \in Nat /\ chunks \in Seq(Seq(1..accepted) \ {<< >>})
        BY <1>1 DEF Tx
      <3>2. Len(chunks) \in Nat /\ 1 \in 1..Len(chunks) /\ h = chunks[1]
        BY <2>1, <3>1
      <3>3. h \in Seq(1..accepted) /\ h # << >>
        BY <3>1, <3>2, ChunksAre
      <3> QED BY <3>3
    <2>3. Len(outbound) \in Nat /\ SendBuffer \in Nat /\ Len(outbound) < SendBuffer
      BY <1>1, <2>1, ConnectionAssumption DEF Tx, Units, Room
    <2>4. n \in 1..Len(h) /\ n <= SendBuffer - Len(outbound)
      <3> HIDE DEF h
      <3>1. {SendBuffer - Len(outbound), Len(h)} \in SUBSET Nat
        BY <2>2, <2>3
      <3>2. n \in {SendBuffer - Len(outbound), Len(h)}
            /\ \A y \in {SendBuffer - Len(outbound), Len(h)} : n <= y
        BY <3>1, MinIs
      <3> HIDE DEF n
      <3> QED BY <2>2, <2>3, <3>2
    <2> HIDE DEF n, rest
    <2>5. Line(accepted, received, outbound, chunks, queued)
      BY <1>1, <2>1 DEF Open
    <2>6. rest = SubSeq(h, n + 1, Len(h))
      BY DEF rest
    <2>7. /\ Tx(accepted, received, outbound', chunks', queued - n)
          /\ Line(accepted, received, outbound', chunks', queued - n)
      BY <1>1, <2>1, <2>4, <2>5, <2>6, TxSend
    <2>8. Open'
      BY <2>1 DEF Open
    <2> QED BY <2>1, <2>7, <2>8, TxIs
  <1>16. CASE SendAgain
    <2>1. /\ UNCHANGED <<accepted, received, outbound, chunks, queued>> /\ pc = "send"
          /\ pc' \in {"wait", "arm"}
      BY <1>16 DEF SendAgain, GoOn, clientVars, txVars
    <2> QED BY <1>3, <2>1 DEF Open
  <1>17. CASE Arm \/ SendDone
    <2>1. /\ UNCHANGED <<accepted, received, outbound, chunks, queued>>
          /\ pc \in {"send", "arm"} /\ pc' = Return(caller, events, TRUE, TRUE)
      BY <1>17 DEF Arm, SendDone, GoOn, clientVars
    <2> QED BY <1>2, <1>3, <2>1, StaysOpen DEF Open
  <1>18. CASE UNCHANGED vars
    BY <1>3, <1>18 DEF vars, clientVars, txVars, Open
  <1> QED BY <1>4, <1>5, <1>6, <1>7, <1>9, <1>10, <1>11, <1>12, <1>13, <1>14, <1>15,
             <1>16, <1>17, <1>18 DEF Next, Thread

-----------------------------------------------------------------------------
(* The room that is watched for *)

\* The invariant of EPOLLOUT: c says that something is queued, p is where the
\* thread is, l who called handle_write, w the interest, r that there is room,
\* e that the connection is ready, v the event that is handled.
Out(c, p, l, w, r, e, v) ==
  c =>
    /\ p \in {"wait", "recv", "extract"} \/ (p = "send" /\ l = "event") => w
    /\ p = "wait" => (r => e)
    /\ p \in {"recv", "extract"} => (r => e \/ "OUT" \in v)
    /\ p = "arm" => (w /\ r => e)

\* It before and after a step.
LEMMA OutIs ==
  /\ OutInv <=> Out(chunks # << >>, pc, caller, want_epollout, Room, edge, events)
  /\ OutInv' <=> Out(chunks' # << >>, pc', caller', want_epollout', Room', edge', events')
  BY DEF OutInv, Out

\* handle_read returns with what is queued watched.
LEMMA OutLeaves ==
  ASSUME NEW c, NEW l, NEW w, NEW r, NEW e, NEW v, Out(c, "extract", l, w, r, e, v)
  PROVE  Out(c, LeaveRead(v, TRUE), "event", w, r, e, v)
  BY LeaveReadIs DEF Out

\* A packet is queued, or dropped above the watermark.
LEMMA EnqueueOut ==
  ASSUME NEW size, NEW how \in Hows \cup {"bus"}, NEW ev, Enqueue(size, how, ev),
         NEW r, NEW e, NEW w,
         how # "bus" => Out(chunks # << >>, "extract", "event", w, r, e, ev),
         how = "bus" => Out(chunks # << >>, Dispatch(ev, TRUE), "event", w, r, e, ev)
  PROVE  Out(chunks' # << >>, pc', caller', w, r, e, ev)
  <1>1. CASE queued + size > HighWatermark
    <2>1. /\ pc' = Return(how, ev, FALSE, TRUE) /\ caller' = "event"
          /\ UNCHANGED chunks
      BY <1>1 DEF Enqueue, GoOn
    <2>2. CASE how = "bus"
      BY <2>1, <2>2, ReturnIs
    <2>3. CASE how = "ignored"
      BY <2>1, <2>3, ReturnIs
    <2>4. CASE how = "returned" \/ how = "refused"
      <3>1. pc' = LeaveRead(ev, TRUE)
        BY <2>1, <2>4, ReturnIs
      <3> QED BY <2>1, <2>4, <3>1, OutLeaves
    <2> QED BY <2>2, <2>3, <2>4 DEF Hows
  <1>2. CASE ~(queued + size > HighWatermark)
    <2>1. pc' = "send" /\ caller' # "event"
      BY <1>2 DEF Enqueue, Hows
    <2> QED BY <2>1 DEF Out
  <1> QED BY <1>1, <1>2

\* Each step.
LEMMA NextOut == ControlInv /\ stream \in Streams /\ OutInv /\ [Next]_vars => OutInv'
  <1> SUFFICES ASSUME ControlInv, stream \in Streams, OutInv, [Next]_vars
               PROVE  Out(chunks' # << >>, pc', caller', want_epollout', Room', edge', events')
    BY OutIs
  <1> DEFINE c == chunks # << >>
  <1>1. Out(c, pc, caller, want_epollout, Room, edge, events)
    BY OutIs
  <1>2. /\ want_epollout \in BOOLEAN /\ edge \in BOOLEAN
        /\ caller \in Hows \cup {"bus", "event"}
        /\ pc \notin {"send", "arm"} => caller = "event"
    BY DEF ControlInv
  <1>3. UNCHANGED outbound => Room' = Room
    BY DEF Room
  <1>4. CASE Arrive \/ ClientClose
    <2>1. UNCHANGED <<chunks, pc, caller, want_epollout, outbound, events>> /\ edge'
      BY <1>4 DEF Arrive, ClientClose, txVars
    <2> QED BY <1>1, <2>1 DEF Out
  <1>5. CASE ClientRead
    <2>1. /\ UNCHANGED <<chunks, pc, caller, want_epollout, events>>
          /\ edge' = (edge \/ want_epollout)
      BY <1>5 DEF ClientRead
    <2> QED BY <1>1, <2>1 DEF Out
  <1>6. CASE EpollWait
    <2>1. /\ pc = "wait" /\ edge' = FALSE /\ events' = Ready(want_epollout)
          /\ pc' = Dispatch(Ready(want_epollout), TRUE) /\ caller' = "event"
          /\ UNCHANGED <<chunks, want_epollout, outbound>>
      BY <1>6 DEF EpollWait, GoOn, txVars
    <2>2. "OUT" \in events' <=> want_epollout /\ Room
      BY <1>2, <2>1, ReadyIs
    <2>3. /\ pc' \in {"wait", "cleanup", "recv", "send"}
          /\ pc' = "wait" => events' = {}
      BY <2>1, DispatchIs
    <2>4. c => want_epollout
      BY <1>1, <2>1 DEF Out
    <2> QED BY <1>3, <2>1, <2>2, <2>3, <2>4 DEF Out
  <1>7. CASE BusPacket
    <2>1. /\ pc = "wait" /\ edge' = FALSE /\ Enqueue(2, "bus", events')
          /\ events' = IF edge THEN Ready(want_epollout) ELSE {}
          /\ UNCHANGED <<want_epollout, outbound>>
      BY <1>7 DEF BusPacket
    <2>2. c => want_epollout /\ (Room => edge)
      BY <1>1, <2>1 DEF Out
    <2>3. c /\ Room => "OUT" \in events'
      BY <1>2, <2>1, <2>2, ReadyIs
    <2>4. /\ Dispatch(events', TRUE) \in {"wait", "cleanup", "recv", "send"}
          /\ Dispatch(events', TRUE) = "wait" => events' = {}
      BY DispatchIs
    <2>5. Out(c, Dispatch(events', TRUE), "event", want_epollout, Room, FALSE, events')
      BY <2>2, <2>3, <2>4 DEF Out
    <2>6. Out(chunks' # << >>, pc', caller', want_epollout, Room, FALSE, events')
      <3> HIDE DEF c
      <3>1. c = (chunks # << >>)
        BY DEF c
      <3> QED BY <2>1, <2>5, <3>1, EnqueueOut
    <2> QED BY <1>3, <2>1, <2>6
  <1>8. ASSUME NEW next, Cleanup(next)
        PROVE  Out(chunks' # << >>, pc', caller', want_epollout', Room', edge', events')
    <2>1. chunks' = << >>
      BY <1>8 DEF Cleanup
    <2> QED BY <2>1 DEF Out
  <1>9. CASE Disconnected \/ RecvEnd \/ BadPacket \/ SendError
    BY <1>8, <1>9 DEF Disconnected, RecvEnd, BadPacket, SendError
  <1>10. CASE Recv \/ RecvStop
    <2>1. /\ pc = "recv" /\ pc' \in {"recv", "extract"}
          /\ UNCHANGED <<chunks, want_epollout, outbound, edge, events>>
      BY <1>10 DEF Recv, RecvStop, GoOn, txVars
    <2> QED BY <1>1, <1>3, <2>1 DEF Out
  <1>11. CASE HandlePacket
    <2>1. PICK i \in DOMAIN stream :
            /\ Complete(i)
            /\ \E answer \in Answers(stream[i]) :
                 IF answer.reply = 0
                 THEN UNCHANGED <<chunks, queued, accepted, pc, caller>>
                 ELSE Enqueue(answer.reply, answer.how, events)
      BY <1>11 DEF HandlePacket
    <2>2. PICK answer \in Answers(stream[i]) :
                 IF answer.reply = 0
                 THEN UNCHANGED <<chunks, queued, accepted, pc, caller>>
                 ELSE Enqueue(answer.reply, answer.how, events)
      BY <2>1
    <2>3. UNCHANGED <<want_epollout, outbound, edge, events>> /\ pc = "extract"
      BY <1>11 DEF HandlePacket
    <2>4. stream[i] \in Types \ {"BAD"}
      BY <2>1, StreamType
    <2>5. answer.how \in Hows /\ answer.how # "bus"
      BY <2>4, AnswersAre DEF Hows
    <2>6. CASE answer.reply = 0
      BY <1>1, <1>3, <2>2, <2>3, <2>6
    <2>7. CASE answer.reply # 0
      <3>1. Enqueue(answer.reply, answer.how, events)
        BY <2>2, <2>7
      <3>2. Out(chunks # << >>, "extract", "event", want_epollout, Room, edge, events)
        BY <1>1, <1>2, <2>3
      <3>3. Out(chunks' # << >>, pc', caller', want_epollout, Room, edge, events)
        <4>1. answer.how \in Hows \cup {"bus"}
          BY <2>5
        <4> DEFINE how == answer.how
        <4>2. Enqueue(answer.reply, how, events) /\ how # "bus" /\ how \in Hows \cup {"bus"}
          BY <2>5, <3>1, <4>1
        <4> HIDE DEF how
        <4> QED BY <3>2, <4>2, EnqueueOut
      <3> QED BY <1>3, <2>3, <3>3
    <2> QED BY <2>6, <2>7
  <1>12. CASE ReadDone
    <2>1. /\ pc = "extract" /\ pc' = LeaveRead(events, TRUE) /\ caller' = "event"
          /\ UNCHANGED <<chunks, want_epollout, outbound, edge, events>>
      BY <1>12 DEF ReadDone, GoOn, txVars
    <2>2. Out(c, pc', caller', want_epollout, Room, edge, events)
      BY <1>1, <2>1, OutLeaves
    <2> QED BY <1>3, <2>1, <2>2
  <1>13. CASE Send
    <2>1. /\ pc = "send" /\ c /\ UNCHANGED <<want_epollout, pc, caller>>
      BY <1>13 DEF Send
    <2> QED BY <1>1, <2>1 DEF Out
  <1>14. CASE SendAgain
    <2>1. /\ pc = "send" /\ c /\ ~Room
          /\ IF caller = "event" THEN pc' = "wait" ELSE pc' = "arm"
          /\ UNCHANGED <<chunks, want_epollout, outbound, edge, events>>
      BY <1>14 DEF SendAgain, GoOn, txVars
    <2> QED BY <1>1, <1>3, <2>1 DEF Out
  <1>15. CASE Arm
    <2>1. /\ pc = "arm" /\ caller' = "event" /\ UNCHANGED <<chunks, outbound, events>>
          /\ IF want_epollout THEN UNCHANGED <<want_epollout, edge>> ELSE ModEvent(TRUE)
      BY <1>15 DEF Arm, GoOn
    <2>2. "OUT" \in Ready(TRUE) <=> Room
      BY ReadyIs
    <2>3. want_epollout'
      BY <1>2, <2>1 DEF ModEvent
    <2>4. c /\ Room => edge'
      <3>1. CASE want_epollout
        BY <1>1, <2>1, <3>1 DEF Out
      <3>2. CASE ~want_epollout
        BY <2>1, <2>2, <3>2 DEF ModEvent
      <3> QED BY <3>1, <3>2
    <2> QED BY <1>3, <2>1, <2>3, <2>4 DEF Out
  <1>16. CASE SendDone
    <2>1. chunks' = << >>
      BY <1>16 DEF SendDone
    <2> QED BY <2>1 DEF Out
  <1>17. CASE UNCHANGED vars
    BY <1>1, <1>3, <1>17 DEF vars, txVars
  <1> QED BY <1>4, <1>5, <1>6, <1>7, <1>9, <1>10, <1>11, <1>12, <1>13, <1>14, <1>15,
             <1>16, <1>17 DEF Next, Thread

-----------------------------------------------------------------------------
(* What has come is read *)

\* No whole packet of the stream v is in the buffer b with h cells in use.
None(v, b, h) ==
  \A i \in DOMAIN v : ~(/\ h >= HeaderSize /\ b[1] = End(v, i - 1) + 1
                        /\ v[i] # "BAD" /\ h >= Size(v[i]))

\* The same before and after a step.
LEMMA NoneIs ==
  /\ NoneComplete <=> None(stream, buf, have)
  /\ NoneComplete' <=> None(stream', buf', have')
  <1>1. \A i : /\ FirstCell(i) = End(stream, i - 1) + 1
               /\ FirstCell(i)' = End(stream', i - 1) + 1
    BY EndIs DEF FirstCell
  <1>2. NoneComplete <=> None(stream, buf, have)
    BY <1>1 DEF NoneComplete, None, Complete, AtFront
  <1>3. \A i : Complete(i)' <=> /\ i \in DOMAIN stream' /\ have' >= HeaderSize
                               /\ buf'[1] = FirstCell(i)' /\ stream'[i] # "BAD"
                               /\ have' >= Size(stream'[i])
    BY DEF Complete, AtFront, Size
  <1>4. NoneComplete' <=> None(stream', buf', have')
    BY <1>1, <1>3 DEF NoneComplete, None
  <1> QED BY <1>2, <1>4

\* The invariant of EPOLLIN: s says that handle_read stopped early, w that
\* something waits, n that no whole packet does; the others are those of Out.
In(s, p, l, w, e, v, n) ==
  ~s =>
    /\ p \in {"wait", "extract"} \/ (p \in {"send", "arm"} /\ l # "bus") => (w => e)
    /\ p \in {"send", "arm"} /\ l = "bus" => (w => e \/ "IN" \in v)
    /\ p = "wait" \/ (p \in {"send", "arm"} /\ l \in {"event", "bus"}) => n
    /\ ~(p \in {"send", "arm"} /\ l = "refused")

\* It before and after a step.
LEMMA InIs ==
  /\ InInv <=> In(stopped, pc, caller, Waiting, edge, events, NoneComplete)
  /\ InInv' <=> In(stopped', pc', caller', Waiting', edge', events', NoneComplete')
  BY DEF InInv, In, Writing

\* What waits for the thread and what the buffer holds depend on these only.
LEMMA InSame ==
  /\ UNCHANGED <<arrived, taken, closed>> => Waiting' = Waiting
  /\ UNCHANGED <<stream, buf, have>> => NoneComplete' = NoneComplete
  <1>1. UNCHANGED <<arrived, taken, closed>> => Waiting' = Waiting
    BY DEF Waiting
  <1>2. UNCHANGED <<stream, buf, have>> => (NoneComplete' <=> NoneComplete)
    BY NoneIs
  <1>3. NoneComplete \in BOOLEAN /\ NoneComplete' \in BOOLEAN
    BY DEF NoneComplete
  <1> QED BY <1>1, <1>2, <1>3

\* Each step.
LEMMA NextIn == ControlInv /\ RxInv /\ InInv /\ [Next]_vars => InInv'
  <1> SUFFICES ASSUME ControlInv, RxInv, InInv, [Next]_vars
               PROVE  In(stopped', pc', caller', Waiting', edge', events', NoneComplete')
    BY InIs
  <1>0. stream \in Streams /\ arrived \in Nat
    <2>1. Rx(stream, arrived, taken, have, buf, handled)
      BY RxIs
    <2> QED BY <2>1, RxNumbers DEF Rx
  <1>1. In(stopped, pc, caller, Waiting, edge, events, NoneComplete)
    BY InIs
  <1>2. /\ want_epollout \in BOOLEAN /\ edge \in BOOLEAN /\ stopped \in BOOLEAN
        /\ caller \in Hows \cup {"bus", "event"}
        /\ pc \notin {"send", "arm"} => caller = "event"
        /\ pc = "arm" => caller # "event"
    BY DEF ControlInv
  <1>3. UNCHANGED <<clientVars, taken>> => Waiting' = Waiting
    BY InSame DEF clientVars
  <1>4. UNCHANGED <<clientVars, rxVars>>
          => NoneComplete' = NoneComplete /\ Waiting' = Waiting /\ stopped' = stopped
    BY InSame DEF clientVars, rxVars
  <1>5. CASE Arrive \/ ClientClose
    <2>1. UNCHANGED <<stream, buf, have, stopped, pc, caller, events>> /\ edge'
      BY <1>5 DEF Arrive, ClientClose, rxVars
    <2> QED BY <1>1, <2>1, InSame DEF In
  <1>6. CASE ClientRead
    <2>1. /\ UNCHANGED <<stream, arrived, closed, rxVars, pc, caller, events>>
          /\ edge' = (edge \/ want_epollout)
      BY <1>6 DEF ClientRead
    <2>2. NoneComplete' = NoneComplete /\ Waiting' = Waiting /\ stopped' = stopped
      BY <2>1, InSame DEF rxVars
    <2> QED BY <1>1, <2>1, <2>2 DEF In
  <1>7. CASE EpollWait
    <2>1. /\ pc = "wait" /\ events' = Ready(want_epollout)
          /\ pc' = Dispatch(Ready(want_epollout), TRUE) /\ caller' = "event"
          /\ UNCHANGED <<clientVars, rxVars>>
      BY <1>7 DEF EpollWait, GoOn
    <2>2. "IN" \in events' <=> Waiting
      BY <1>2, <2>1, ReadyIs
    <2>3. /\ pc' \in {"wait", "cleanup", "recv", "send"}
          /\ pc' = "wait" => events' = {}
          /\ pc' = "send" => "IN" \notin events'
      BY <2>1, DispatchIs
    <2>4. ~stopped => NoneComplete
      BY <1>1, <2>1 DEF In
    <2>5. pc' \in {"wait", "send"} => ~Waiting
      BY <2>2, <2>3
    <2>6. ~stopped' => NoneComplete' /\ (pc' \in {"wait", "send"} => ~Waiting')
      <3>1. UNCHANGED <<clientVars, rxVars>>
        BY <2>1
      <3>2. NoneComplete' = NoneComplete /\ Waiting' = Waiting /\ stopped' = stopped
        BY <1>4, <3>1
      <3> QED BY <2>4, <2>5, <3>2
    <2> QED BY <2>1, <2>3, <2>6 DEF In
  <1>8. CASE BusPacket
    <2>1. /\ pc = "wait" /\ Enqueue(2, "bus", events')
          /\ events' = IF edge THEN Ready(want_epollout) ELSE {}
          /\ UNCHANGED <<clientVars, rxVars>>
      BY <1>8 DEF BusPacket
    <2>2. ~stopped => NoneComplete /\ (Waiting => edge)
      BY <1>1, <2>1 DEF In
    <2>3. ~stopped => (Waiting => "IN" \in events')
      BY <1>2, <2>1, <2>2, ReadyIs
    <2>4. CASE queued + 2 > HighWatermark
      <3>1. pc' = Dispatch(events', TRUE) /\ caller' = "event"
        BY <2>1, <2>4, ReturnIs DEF Enqueue, GoOn
      <3>2. /\ pc' \in {"wait", "cleanup", "recv", "send"}
            /\ pc' = "wait" => events' = {}
            /\ pc' = "send" => "IN" \notin events'
        BY <3>1, DispatchIs
      <3>3. ~stopped /\ pc' \in {"wait", "send"} => ~Waiting
        BY <2>3, <3>2
      <3>4. ~stopped' => NoneComplete' /\ (pc' \in {"wait", "send"} => ~Waiting')
        BY <1>4, <2>1, <2>2, <3>3
      <3> QED BY <3>1, <3>2, <3>4 DEF In
    <2>5. CASE ~(queued + 2 > HighWatermark)
      <3>1. pc' = "send" /\ caller' = "bus"
        BY <2>1, <2>5 DEF Enqueue
      <3> QED BY <1>4, <2>1, <2>2, <2>3, <3>1 DEF In
    <2> QED BY <2>4, <2>5
  <1>9. ASSUME NEW next \in {"gone", "fault"}, Cleanup(next)
        PROVE  In(stopped', pc', caller', Waiting', edge', events', NoneComplete')
    <2>1. pc' = next
      BY <1>9 DEF Cleanup, GoOn
    <2> QED BY <1>9, <2>1 DEF In
  <1>10. CASE Disconnected
    BY <1>9, <1>10 DEF Disconnected
  <1>11. CASE RecvEnd \/ BadPacket
    <2>1. LeaveRead(events, FALSE) \in {"gone", "fault"}
      BY LeaveReadIs
    <2> QED BY <1>9, <1>11, <2>1 DEF RecvEnd, BadPacket
  <1>12. CASE SendError
    <2>1. Return(caller, events, FALSE, FALSE) \in {"gone", "fault"}
      BY <1>2, ReturnIs
    <2> QED BY <1>9, <1>12, <2>1 DEF SendError
  <1>13. CASE Recv
    <2>1. pc' = "recv"
      BY <1>13 DEF Recv
    <2> QED BY <2>1 DEF In
  <1>14. CASE RecvStop
    <2>1. /\ have = BufSize \/ (arrived = taken /\ ~closed)
          /\ stopped' = (have = BufSize) /\ pc' = "extract"
          /\ UNCHANGED <<clientVars, taken>>
      BY <1>14 DEF RecvStop, GoOn
    <2>2. ~stopped' => ~Waiting
      <3>1. ~stopped' => arrived = taken /\ ~closed
        BY <2>1
      <3>2. arrived = taken => ~(arrived > taken)
        BY <1>0
      <3> QED BY <3>1, <3>2 DEF Waiting
    <2> QED BY <1>3, <2>1, <2>2 DEF In
  <1>15. CASE HandlePacket
    <2>1. PICK i \in DOMAIN stream :
            /\ Complete(i)
            /\ \E answer \in Answers(stream[i]) :
                 /\ stopped' = \/ stopped \/ answer.how = "refused"
                               \/ /\ answer.how = "returned"
                                  /\ queued + answer.reply > HighWatermark
                 /\ IF answer.reply = 0
                    THEN UNCHANGED <<chunks, queued, accepted, pc, caller>>
                    ELSE Enqueue(answer.reply, answer.how, events)
      BY <1>15 DEF HandlePacket
    <2>2. PICK answer \in Answers(stream[i]) :
                 /\ stopped' = \/ stopped \/ answer.how = "refused"
                               \/ /\ answer.how = "returned"
                                  /\ queued + answer.reply > HighWatermark
                 /\ IF answer.reply = 0
                    THEN UNCHANGED <<chunks, queued, accepted, pc, caller>>
                    ELSE Enqueue(answer.reply, answer.how, events)
      BY <2>1
    <2>3. UNCHANGED <<clientVars, taken, edge, events>> /\ pc = "extract"
      BY <1>15 DEF HandlePacket
    <2>4. stream[i] \in Types \ {"BAD"}
      BY <1>0, <2>1, StreamType
    <2>5. answer.how \in Hows
      BY <2>4, AnswersAre
    <2>6. ~stopped' => ~stopped /\ answer.how # "refused"
      BY <2>2
    <2>7. ~stopped' => (Waiting' => edge')
      BY <1>1, <1>3, <2>3, <2>6 DEF In
    <2>8. ~stopped' => pc' = "extract" \/ (pc' = "send" /\ caller' = answer.how)
      <3>1. CASE answer.reply = 0
        BY <2>2, <2>3, <3>1
      <3>2. CASE answer.reply # 0 /\ queued + answer.reply > HighWatermark
        <4>1. ~stopped' => answer.how = "ignored"
          BY <2>2, <2>5, <3>2 DEF Hows
        <4>2. pc' = Return(answer.how, events, FALSE, TRUE)
          BY <2>2, <3>2 DEF Enqueue, GoOn
        <4> QED BY <4>1, <4>2, ReturnIs
      <3>3. CASE answer.reply # 0 /\ ~(queued + answer.reply > HighWatermark)
        BY <2>2, <3>3 DEF Enqueue
      <3> QED BY <3>1, <3>2, <3>3
    <2>9. ~stopped' => answer.how \in {"returned", "ignored"}
      BY <2>5, <2>6 DEF Hows
    <2> QED BY <2>7, <2>8, <2>9 DEF In
  <1>16. CASE ReadDone
    <2>1. /\ pc = "extract" /\ pc' = LeaveRead(events, TRUE) /\ caller' = "event"
          /\ NoneComplete /\ UNCHANGED <<clientVars, rxVars, edge, events>>
      BY <1>16 DEF ReadDone, GoOn, NoneComplete
    <2> QED BY <1>1, <1>4, <2>1, LeaveReadIs DEF In
  <1>17. CASE Send
    <2>1. UNCHANGED <<clientVars, rxVars, pc, caller, edge, events>>
      BY <1>17 DEF Send
    <2> QED BY <1>1, <1>4, <2>1
  <1>18. CASE SendAgain
    <2>1. /\ pc = "send" /\ UNCHANGED <<clientVars, rxVars, edge, events>>
          /\ IF caller = "event" THEN pc' = "wait" ELSE pc' = "arm" /\ UNCHANGED caller
      BY <1>18 DEF SendAgain, GoOn
    <2> QED BY <1>1, <1>4, <2>1 DEF In
  <1>19. ASSUME NEW wanted, ModEvent(wanted) PROVE edge => edge'
    BY <1>19 DEF ModEvent
  <1>20. CASE Arm \/ SendDone
    <2>1. /\ pc \in {"send", "arm"} /\ pc' = Return(caller, events, TRUE, TRUE)
          /\ caller' = "event" /\ UNCHANGED <<clientVars, rxVars, events>>
      BY <1>20 DEF Arm, SendDone, GoOn
    <2>2. edge => edge'
      BY <1>19, <1>20 DEF Arm, SendDone
    <2>3. NoneComplete' = NoneComplete /\ Waiting' = Waiting /\ stopped' = stopped
      BY <1>4, <2>1
    <2>4. CASE caller \in {"returned", "ignored"}
      <3>1. pc' = "extract"
        BY <2>1, <2>4, ReturnIs
      <3> QED BY <1>1, <2>1, <2>2, <2>3, <2>4, <3>1 DEF In
    <2>5. CASE caller = "refused"
      BY <1>1, <2>1, <2>3, <2>5 DEF In
    <2>6. CASE caller = "event"
      <3>1. pc' = "wait"
        BY <2>1, <2>6, ReturnIs
      <3> QED BY <1>1, <2>1, <2>2, <2>3, <2>6, <3>1 DEF In
    <2>7. CASE caller = "bus"
      <3>1. pc' = Dispatch(events, TRUE)
        BY <2>1, <2>7, ReturnIs
      <3>2. /\ pc' \in {"wait", "cleanup", "recv", "send"}
            /\ pc' = "wait" => events = {}
            /\ pc' = "send" => "IN" \notin events
        BY <3>1, DispatchIs
      <3> QED BY <1>1, <2>1, <2>2, <2>3, <2>7, <3>2 DEF In
    <2> QED BY <1>2, <2>4, <2>5, <2>6, <2>7 DEF Hows
  <1>21. CASE UNCHANGED vars
    BY <1>1, <1>4, <1>21 DEF vars
  <1> QED BY <1>5, <1>6, <1>7, <1>8, <1>10, <1>11, <1>12, <1>13, <1>14, <1>15, <1>16,
             <1>17, <1>18, <1>20, <1>21 DEF Next, Thread

-----------------------------------------------------------------------------
(* The theorems *)

\* A connection that has just been accepted.
LEMMA InitInv == Init => IInv
  <1> SUFFICES ASSUME Init PROVE IInv
    OBVIOUS
  <1>1. ControlInv /\ RxInv /\ TxInv
    BY InitControl, InitRx, InitTx
  <1>2. OutInv
    BY DEF Init, OutInv
  <1>3. ~Waiting
    BY DEF Init, Waiting
  <1>4. NoneComplete
    <2>1. \A i \in DOMAIN stream : ~(have >= HeaderSize)
      BY ConnectionAssumption DEF Init
    <2> QED BY <2>1 DEF NoneComplete, Complete, AtFront
  <1>5. pc = "wait" /\ caller = "event"
    BY DEF Init
  <1>6. InInv
    BY <1>3, <1>4, <1>5 DEF InInv, Writing
  <1> QED BY <1>1, <1>2, <1>6 DEF IInv

\* The invariant is inductive.
LEMMA NextInv == IInv /\ [Next]_vars => IInv'
  <1> SUFFICES ASSUME IInv, [Next]_vars PROVE IInv'
    OBVIOUS
  <1>1. ControlInv /\ RxInv /\ TxInv /\ OutInv /\ InInv
    BY DEF IInv
  <1>2. stream \in Streams
    BY <1>1 DEF RxInv
  <1>3. ControlInv' /\ RxInv' /\ TxInv' /\ OutInv' /\ InInv'
    BY <1>1, <1>2, NextControl, NextRx, NextTx, NextOut, NextIn
  <1> QED BY <1>3 DEF IInv

\* It holds in every reachable state.
THEOREM Invariance == Spec => []IInv
  <1>1. Init => IInv
    BY InitInv
  <1>2. IInv /\ [Next]_vars => IInv'
    BY NextInv
  <1> QED BY <1>1, <1>2, PTL DEF Spec

\* The variables keep their types: in particular, what is queued is at most the
\* watermark, and the buffer is not overrun.
THEOREM TypeCorrect == Spec => []TypeOK
  <1>1. IInv => TypeOK
    BY DEF IInv, ControlInv, RxInv, TxInv, TypeOK, Pcs, Hows
  <1> QED BY <1>1, Invariance, PTL

\* rx_try_extract_frame: however the stream is cut into segments, the packets are
\* handled in the order in which they were sent.
THEOREM FramesInOrder == Spec => []PacketsInOrder
  <1>1. IInv => PacketsInOrder
    BY DEF IInv, RxInv
  <1> QED BY <1>1, Invariance, PTL

\* rx_try_extract_frame: the payload of a packet that came with no more than a
\* header behind it is read as it was sent, although memmove comes first.
THEOREM PayloadsRead == Spec => []PayloadIntact
  <1>1. IInv => PayloadIntact
    BY DEF IInv, RxInv
  <1> QED BY <1>1, Invariance, PTL

\* enqueue_message and handle_write: what was accepted is read, on its way or
\* queued, in order, through partial sends, and queued counts it.
THEOREM AnswersInOrder == Spec => []RepliesInOrder
  <1>1. IInv => RepliesInOrder
    BY DEF IInv, TxInv
  <1> QED BY <1>1, Invariance, PTL

\* enqueue_message and handle_write: while the thread waits, a queue is watched
\* for room and is told of the room there is.
THEOREM RoomIsHeardOf == Spec => []OutputWatched
  <1>1. IInv => OutputWatched
    BY DEF IInv, OutInv, OutputWatched
  <1> QED BY <1>1, Invariance, PTL

\* handle_read: while the thread waits, nothing that came is left without a ready
\* event, except after the three early returns.
THEOREM InputIsHeardOf == Spec => []InputWatched
  <1>1. IInv => InputWatched
    BY DEF IInv, InInv, InputWatched, Waiting, NoneComplete
  <1> QED BY <1>1, Invariance, PTL
===============================================================================
