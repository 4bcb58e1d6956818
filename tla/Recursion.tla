------------------------------- MODULE Recursion -------------------------------
(***************************************************************************)
(* Least and greatest numbers, and the existence of functions defined by   *)
(* recursion: what the inductions of the proof modules are drawn from.     *)
(***************************************************************************)
EXTENDS Integers, FiniteSetsExt, WellFoundedInduction, TLAPS

-----------------------------------------------------------------------------
(* Least and greatest numbers *)

\* The principle every induction below is drawn from: of the numbers that
\* violate a claim there is a least one.
LEMMA LeastNat ==
  ASSUME NEW T \in SUBSET Nat, T # {}
  PROVE  \E x \in T : \A y \in T : x <= y
  <1>1. PICK x \in T : \A y \in T : ~(<<y, x>> \in OpToRel(<, Nat))
    BY NatLessThanWellFounded, WFMin
  <1>2. ASSUME NEW y \in T PROVE ~(y < x)
    BY <1>1, Zenon DEF OpToRel
  <1>3. ASSUME NEW y \in T PROVE x <= y
    <2>1. x \in Nat /\ y \in Nat
      OBVIOUS
    <2> QED BY <1>2, <2>1
  <1> QED BY <1>3

\* What Min of a set of naturals is.
LEMMA MinIs ==
  ASSUME NEW T \in SUBSET Nat, T # {}
  PROVE  Min(T) \in T /\ \A y \in T : Min(T) <= y
  BY LeastNat DEF Min

\* The greatest of a set of bounded numbers.
LEMMA MaxIs ==
  ASSUME NEW n \in Nat, NEW T \in SUBSET (0..n), T # {}
  PROVE  Max(T) \in T /\ \A y \in T : Max(T) >= y
  <1> DEFINE U == {n - y : y \in T}
  <1>1. U \in SUBSET Nat /\ U # {}
    <2>1. ASSUME NEW y \in T PROVE n - y \in Nat
      <3>1. y \in 0..n
        OBVIOUS
      <3> QED BY <3>1
    <2> QED BY <2>1
  <1>2. PICK u \in U : \A v \in U : u <= v
    BY <1>1, LeastNat
  <1>3. PICK x \in T : u = n - x
    BY <1>2
  <1>4. ASSUME NEW y \in T PROVE x >= y
    <2>1. n - x <= n - y
      BY <1>2, <1>3
    <2> QED BY <2>1
  <1>5. \E z \in T : \A y \in T : z >= y
    BY <1>4
  <1> QED BY <1>5 DEF Max

-----------------------------------------------------------------------------
(* Recursive functions *)

\* f[k] is what step makes of f[k - 1].
Iterates(f, n, V, a, step) ==
  /\ f \in [0..n -> V] /\ f[0] = a
  /\ \A k \in 1..n : f[k] = step[k][f[k - 1]]

\* A function on 0..n that is defined from its previous value exists.
LEMMA IteratesExist ==
  ASSUME NEW n \in Nat, NEW V, NEW a \in V, NEW step,
         \A k \in 1..n, v \in V : step[k][v] \in V
  PROVE  \E f : Iterates(f, n, V, a, step)
  <1> DEFINE T == {m \in 0..n : ~\E f : Iterates(f, m, V, a, step)}
  <1>1. ASSUME NEW m \in T, \A j \in T : m <= j PROVE FALSE
    <2>1. CASE m = 0
      <3> DEFINE f == [k \in 0..0 |-> a]
      <3>1. Iterates(f, 0, V, a, step)
        BY DEF Iterates
      <3> QED BY <2>1, <3>1
    <2>2. CASE m # 0
      <3>1. m - 1 \in 0..n /\ m - 1 \notin T
        BY <1>1, <2>2
      <3>2. PICK f : Iterates(f, m - 1, V, a, step)
        BY <3>1
      <3> DEFINE g == [k \in 0..m |-> IF k < m THEN f[k] ELSE step[m][f[m - 1]]]
      <3>3. step[m][f[m - 1]] \in V
        BY <2>2, <3>2 DEF Iterates
      <3>4. g \in [0..m -> V]
        BY <3>2, <3>3 DEF Iterates
      <3>5. g[0] = a
        BY <2>2, <3>2 DEF Iterates
      <3>6. ASSUME NEW k \in 1..m PROVE g[k] = step[k][g[k - 1]]
        <4>1. g[k - 1] = f[k - 1]
          OBVIOUS
        <4>2. CASE k = m
          BY <4>1, <4>2
        <4>3. CASE k # m
          <5>1. k \in 1..(m - 1)
            BY <4>3
          <5>2. f[k] = step[k][f[k - 1]]
            BY <3>2, <5>1 DEF Iterates
          <5>3. g[k] = f[k]
            BY <5>1
          <5> QED BY <4>1, <5>2, <5>3
        <4> QED BY <4>2, <4>3
      <3>7. Iterates(g, m, V, a, step)
        BY <3>4, <3>5, <3>6 DEF Iterates
      <3> QED BY <3>7
    <2> QED BY <2>1, <2>2
  <1>2. T \in SUBSET Nat
    OBVIOUS
  <1>3. T = {}
    <2> HIDE DEF T
    <2> QED BY <1>1, <1>2, LeastNat
  <1> QED BY <1>3

\* f is defined on S from its value at the next element, until one of St.
RecursesUpTo(f, k, m, S, V, St, base, next, step) ==
  /\ f \in [S -> V]
  /\ \A x \in S : m[x] <= k =>
       f[x] = IF x \in St THEN base[x] ELSE step[x][f[next[x]]]
Recurses(f, S, V, St, base, next, step) ==
  /\ f \in [S -> V]
  /\ \A x \in S : f[x] = IF x \in St THEN base[x] ELSE step[x][f[next[x]]]

\* Such a function exists when a bounded measure decreases towards St.
LEMMA RecursionExists ==
  ASSUME NEW S, NEW V, NEW d \in V, NEW St \in SUBSET S, NEW n \in Nat,
         NEW base, NEW next, NEW step, NEW m,
         \A x \in S : m[x] \in 0..n,
         \A x \in St : base[x] \in V,
         \A x \in S \ St : next[x] \in S /\ m[next[x]] < m[x],
         \A x \in S \ St, v \in V : step[x][v] \in V
  PROVE  \E f : Recurses(f, S, V, St, base, next, step)
  <1> DEFINE T == {k \in 0..n : ~\E f : RecursesUpTo(f, k, m, S, V, St, base, next, step)}
  <1>1. ASSUME NEW k \in T, \A j \in T : k <= j PROVE FALSE
    <2>1. CASE k = 0
      <3> DEFINE f == [x \in S |-> IF x \in St THEN base[x] ELSE d]
      <3>1. f \in [S -> V]
        OBVIOUS
      <3>2. ASSUME NEW x \in S, m[x] <= 0
            PROVE  f[x] = IF x \in St THEN base[x] ELSE step[x][f[next[x]]]
        <4>1. x \in St
          <5>1. SUFFICES ASSUME x \notin St PROVE FALSE
            OBVIOUS
          <5>2. m[next[x]] \in 0..n /\ m[next[x]] < m[x] /\ m[x] \in 0..n
            BY <5>1
          <5> QED BY <3>2, <5>2
        <4> QED BY <4>1
      <3> HIDE DEF f
      <3>3. RecursesUpTo(f, 0, m, S, V, St, base, next, step)
        BY <3>1, <3>2 DEF RecursesUpTo
      <3> QED BY <2>1, <3>3
    <2>2. CASE k # 0
      <3>1. k - 1 \in 0..n /\ k - 1 \notin T
        BY <1>1, <2>2
      <3>2. PICK f : RecursesUpTo(f, k - 1, m, S, V, St, base, next, step)
        BY <3>1
      <3> DEFINE g == [x \in S |-> IF x \in St THEN base[x]
                                   ELSE IF m[x] <= k - 1 THEN f[x]
                                   ELSE step[x][f[next[x]]]]
      <3>3. ASSUME NEW x \in S
            PROVE  /\ x \in St => g[x] = base[x]
                   /\ (x \notin St /\ m[x] <= k - 1) => g[x] = f[x]
                   /\ (x \notin St /\ ~(m[x] <= k - 1)) => g[x] = step[x][f[next[x]]]
        OBVIOUS
      <3>4. g \in [S -> V]
        BY <3>2 DEF RecursesUpTo
      <3> HIDE DEF g
      <3>5. ASSUME NEW x \in S, m[x] <= k - 1 PROVE g[x] = f[x]
        BY <3>2, <3>3, <3>5 DEF RecursesUpTo
      <3>6. ASSUME NEW x \in S, m[x] <= k
            PROVE  g[x] = IF x \in St THEN base[x] ELSE step[x][g[next[x]]]
        <4>1. CASE x \in St
          BY <3>3, <4>1
        <4>2. CASE x \notin St
          <5>1. next[x] \in S /\ m[next[x]] < m[x] /\ m[next[x]] \in 0..n /\ m[x] \in 0..n
            BY <4>2
          <5>2. m[next[x]] <= k - 1
            BY <3>6, <5>1
          <5>3. g[next[x]] = f[next[x]]
            BY <3>5, <5>1, <5>2
          <5>4. g[x] = step[x][f[next[x]]]
            BY <3>2, <3>3, <4>2 DEF RecursesUpTo
          <5> QED BY <4>2, <5>3, <5>4
        <4> QED BY <4>1, <4>2
      <3>7. RecursesUpTo(g, k, m, S, V, St, base, next, step)
        BY <3>4, <3>6 DEF RecursesUpTo
      <3> QED BY <3>7
    <2> QED BY <2>1, <2>2
  <1>2. T \in SUBSET Nat
    OBVIOUS
  <1>3. T = {}
    <2> HIDE DEF T
    <2> QED BY <1>1, <1>2, LeastNat
  <1>4. PICK f : RecursesUpTo(f, n, m, S, V, St, base, next, step)
    BY <1>3
  <1>5. Recurses(f, S, V, St, base, next, step)
    BY <1>4 DEF RecursesUpTo, Recurses
  <1> QED BY <1>5
===============================================================================
