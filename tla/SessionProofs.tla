----------------------------- MODULE SessionProofs -----------------------------
(***************************************************************************)
(* The session proved for any users, any number of slots and any rules:    *)
(* the operators of the game that it plays, its membership, and the games  *)
(* of any shuffles: where the cards are, and whom a round waits for.       *)
(***************************************************************************)
EXTENDS Session, Recursion, FiniteSetTheorems

-----------------------------------------------------------------------------
(* Decks and cards *)

\* Every deck is made of the first of the cards.
LEMMA CardsAre ==
  /\ IsFiniteSet(Cards) /\ Cardinality(Cards) \in Nat
  /\ Cards = 0..(Cardinality(Cards) - 1) /\ NoCard \notin Cards
  /\ \A r \in Rules : r.nbrCards \in 0..Cardinality(Cards)
  <1> DEFINE T == {r.nbrCards : r \in Rules}
             m == Max(T)
  <1>1. T \in SUBSET (0..255) /\ T # {}
    BY GameAssumption DEF Rules
  <1>2. m \in T /\ \A y \in T : m >= y
    <2>1. 255 \in Nat
      OBVIOUS
    <2> HIDE DEF T
    <2> QED BY <1>1, <2>1, MaxIs
  <1>3. m \in Nat /\ Cards = 0..(m - 1)
    BY <1>1, <1>2 DEF Cards
  <1>4. ASSUME NEW r \in Rules PROVE r.nbrCards \in 0..m
    <2>1. r.nbrCards \in T /\ r.nbrCards \in 0..255
      BY GameAssumption
    <2>2. m >= r.nbrCards
      <3> HIDE DEF T, m
      <3> QED BY <1>2, <2>1
    <2>3. m \in Nat
      BY <1>3
    <2> HIDE DEF m
    <2> QED BY <2>1, <2>2, <2>3
  <1> HIDE DEF m
  <1>5. IsFiniteSet(Cards) /\ Cardinality(Cards) = m
    <2>1. 0 \in Int /\ m - 1 \in Int
      BY <1>3
    <2>2. /\ IsFiniteSet(0..(m - 1))
          /\ Cardinality(0..(m - 1)) = IF 0 > m - 1 THEN 0 ELSE (m - 1) - 0 + 1
      BY <2>1, FS_Interval
    <2> QED BY <1>3, <2>2
  <1> QED BY <1>3, <1>4, <1>5 DEF NoCard

\* The recursion of Shuffled.
Keeps(g, ids, n) ==
  g = [k \in 0..Len(ids) |->
         IF k = 0 THEN << >>
         ELSE IF ids[k] < n THEN Append(g[k - 1], ids[k]) ELSE g[k - 1]]

\* The function that Shuffled recurs on exists.
LEMMA KeepsExist ==
  ASSUME NEW ids \in Seq(Nat), NEW n \in Nat
  PROVE  \E g : Keeps(g, ids, n)
  <1> DEFINE step == [k \in 1..Len(ids) |-> [v \in Seq(Nat) |->
                        IF ids[k] < n THEN Append(v, ids[k]) ELSE v]]
  <1>1. Len(ids) \in Nat /\ << >> \in Seq(Nat) /\ \A k \in 1..Len(ids) : ids[k] \in Nat
    OBVIOUS
  <1>2. ASSUME NEW k \in 1..Len(ids), NEW v \in Seq(Nat)
        PROVE  /\ step[k][v] = IF ids[k] < n THEN Append(v, ids[k]) ELSE v
               /\ step[k][v] \in Seq(Nat)
    BY <1>1
  <1> HIDE DEF step
  <1>3. PICK g : Iterates(g, Len(ids), Seq(Nat), << >>, step)
    BY <1>1, <1>2, IteratesExist
  <1>4. ASSUME NEW k \in 1..Len(ids)
        PROVE  g[k] = IF ids[k] < n THEN Append(g[k - 1], ids[k]) ELSE g[k - 1]
    <2>1. k - 1 \in 0..Len(ids) /\ g[k] = step[k][g[k - 1]]
      BY <1>1, <1>3 DEF Iterates
    <2>2. g[k - 1] \in Seq(Nat)
      BY <1>3, <2>1 DEF Iterates
    <2> QED BY <1>2, <2>1, <2>2
  <1>5. g = [k \in 0..Len(ids) |-> g[k]] /\ g[0] = << >>
    BY <1>3 DEF Iterates
  <1>6. ASSUME NEW k \in 0..Len(ids)
        PROVE  g[k] = IF k = 0 THEN << >>
                      ELSE IF ids[k] < n THEN Append(g[k - 1], ids[k]) ELSE g[k - 1]
    <2>1. CASE k = 0
      BY <1>5, <2>1
    <2>2. CASE k # 0
      <3>1. k \in 1..Len(ids)
        BY <1>1, <2>2
      <3> QED BY <1>4, <2>2, <3>1
    <2> QED BY <2>1, <2>2
  <1> QED BY <1>5, <1>6 DEF Keeps

\* v holds, once each, the cards below n among the first k of ids.
Lists(v, ids, k, n) ==
  /\ v \in Seq(0..(n - 1))
  /\ \A i, j \in 1..Len(v) : v[i] = v[j] => i = j
  /\ \A i \in 1..Len(v) : \E l \in 1..k : v[i] = ids[l]
  /\ \A l \in 1..k : ids[l] < n => \E i \in 1..Len(v) : v[i] = ids[l]

\* One more card looked at.
LEMMA ListsStep ==
  ASSUME NEW ids, NEW n \in Nat, NEW k \in Nat, k > 0, ids[k] \in Nat,
         \A l \in 1..(k - 1) : ids[l] # ids[k],
         NEW v, Lists(v, ids, k - 1, n)
  PROVE  Lists(IF ids[k] < n THEN Append(v, ids[k]) ELSE v, ids, k, n)
  <1>0. \A l \in 1..k : l = k \/ l \in 1..(k - 1)
    OBVIOUS
  <1>10. \A l \in 1..(k - 1) : l \in 1..k
    OBVIOUS
  <1>1. CASE ~(ids[k] < n)
    BY <1>0, <1>10, <1>1 DEF Lists
  <1>2. CASE ids[k] < n
    <2> DEFINE m == Len(v)
               w == Append(v, ids[k])
    <2>1. m \in Nat /\ ids[k] \in 0..(n - 1) /\ v \in Seq(0..(n - 1))
      BY <1>2 DEF Lists
    <2>2. /\ w \in Seq(0..(n - 1)) /\ Len(w) = m + 1 /\ w[m + 1] = ids[k]
          /\ \A i \in 1..m : w[i] = v[i]
      BY <2>1
    <2>3. \A i \in 1..(m + 1) : i = m + 1 \/ i \in 1..m
      BY <2>1
    <2>4. \A i \in 1..m : i \in 1..(m + 1)
      BY <2>1
    <2>5. m + 1 \in 1..(m + 1) /\ k \in 1..k
      BY <2>1
    <2> HIDE DEF w, m
    <2>6. \A i \in 1..m : v[i] # ids[k]
      BY DEF Lists, m
    <2>7. \A i, j \in 1..m : v[i] = v[j] => i = j
      BY DEF Lists, m
    <2>8. \A i, j \in 1..Len(w) : w[i] = w[j] => i = j
      BY <2>2, <2>3, <2>6, <2>7
    <2>9. \A i \in 1..Len(w) : \E l \in 1..k : w[i] = ids[l]
      <3>1. \A i \in 1..m : \E l \in 1..(k - 1) : v[i] = ids[l]
        BY DEF Lists, m
      <3> QED BY <1>10, <2>2, <2>3, <2>5, <3>1
    <2>10. \A l \in 1..k : ids[l] < n => \E i \in 1..Len(w) : w[i] = ids[l]
      <3>1. \A l \in 1..(k - 1) : ids[l] < n => \E i \in 1..m : v[i] = ids[l]
        BY DEF Lists, m
      <3> QED BY <1>0, <2>2, <2>4, <2>5, <3>1
    <2>11. Lists(w, ids, k, n)
      BY <2>2, <2>8, <2>9, <2>10 DEF Lists
    <2> QED BY <1>2, <2>11 DEF w
  <1> QED BY <1>1, <1>2

\* A shuffled deck of n cards holds each of them once.
LEMMA ShuffledIs ==
  ASSUME NEW ids \in Bijection(1..Cardinality(Cards), Cards),
         NEW n \in 0..Cardinality(Cards)
  PROVE  LET v == Shuffled(ids, n)
         IN  /\ v \in Seq(0..(n - 1)) /\ Len(v) = n
             /\ \A i, j \in 1..n : v[i] = v[j] => i = j
             /\ \A card \in 0..(n - 1) : \E i \in 1..n : v[i] = card
  <1> DEFINE N == Cardinality(Cards)
             g == CHOOSE f : Keeps(f, ids, n)
             T == {k \in 0..N : ~Lists(g[k], ids, k, n)}
             v == Shuffled(ids, n)
  <1>1. N \in Nat /\ n \in Nat /\ n <= N /\ Cards = 0..(N - 1)
    BY CardsAre
  <1>2. /\ ids \in [1..N -> Cards] /\ \A i, j \in 1..N : ids[i] = ids[j] => i = j
        /\ \A card \in Cards : \E i \in 1..N : ids[i] = card
    BY Zenon DEF Bijection, Injection, Surjection, IsInjective
  <1> HIDE DEF N
  <1>3. \A i \in 1..N : ids[i] \in 0..(N - 1) /\ ids[i] \in Nat
    BY <1>1, <1>2
  <1>4. ids \in Seq(Nat) /\ Len(ids) = N
    <2>1. ids \in [1..N -> Nat]
      BY <1>2, <1>3
    <2> QED BY <1>1, <2>1
  <1>5. Keeps(g, ids, n)
    <2>1. \E f : Keeps(f, ids, n)
      BY <1>1, <1>4, KeepsExist
    <2> QED BY <2>1, Zenon
  <1>6. v = g[N]
    BY <1>4 DEF Shuffled, Keeps
  <1> HIDE DEF g, v
  <1>7. /\ g[0] = << >>
        /\ \A k \in 1..N : g[k] = IF ids[k] < n THEN Append(g[k - 1], ids[k]) ELSE g[k - 1]
    <2>1. g = [k \in 0..N |-> IF k = 0 THEN << >>
                              ELSE IF ids[k] < n THEN Append(g[k - 1], ids[k])
                                                 ELSE g[k - 1]]
      BY <1>4, <1>5 DEF Keeps
    <2>2. 0 \in 0..N /\ \A k \in 1..N : k \in 0..N /\ k # 0
      BY <1>1
    <2>3. g[0] = << >>
      BY <2>1, <2>2
    <2>4. ASSUME NEW k \in 1..N
          PROVE  g[k] = IF ids[k] < n THEN Append(g[k - 1], ids[k]) ELSE g[k - 1]
      <3>1. k \in 0..N /\ k # 0
        BY <2>2
      <3> QED BY <2>1, <3>1, Zenon
    <2> QED BY <2>3, <2>4
  <1>8. ASSUME NEW k \in T, \A j \in T : k <= j PROVE FALSE
    <2>1. CASE k = 0
      <3>1. Lists(<< >>, ids, 0, n)
        BY <1>1 DEF Lists
      <3> QED BY <1>7, <1>8, <2>1, <3>1
    <2>2. CASE k # 0
      <3>1. k \in 1..N /\ k - 1 \in 0..N /\ k - 1 \notin T /\ k \in Nat /\ k > 0
        BY <1>1, <1>8, <2>2
      <3>2. Lists(g[k - 1], ids, k - 1, n)
        BY <3>1
      <3>3. \A l \in 1..(k - 1) : l \in 1..N /\ l # k
        BY <1>1, <3>1
      <3>4. ids[k] \in Nat /\ \A l \in 1..(k - 1) : ids[l] # ids[k]
        BY <1>2, <1>3, <3>1, <3>3
      <3>5. Lists(g[k], ids, k, n)
        BY <1>1, <1>7, <3>1, <3>2, <3>4, ListsStep
      <3> QED BY <1>8, <3>5
    <2> QED BY <2>1, <2>2
  <1>9. T = {}
    <2>1. T \in SUBSET Nat
      BY <1>1
    <2> HIDE DEF T
    <2> QED BY <1>8, <2>1, LeastNat
  <1>10. Lists(v, ids, N, n)
    BY <1>1, <1>6, <1>9
  <1>11. v \in Seq(0..(n - 1)) /\ \A i, j \in 1..Len(v) : v[i] = v[j] => i = j
    BY <1>10 DEF Lists
  <1>12. ASSUME NEW card \in 0..(n - 1) PROVE \E i \in 1..Len(v) : v[i] = card
    <2>1. card \in Cards /\ card < n
      BY <1>1
    <2>2. PICK l \in 1..N : ids[l] = card
      BY <1>2, <2>1
    <2> QED BY <1>10, <2>1, <2>2 DEF Lists
  <1>13. Len(v) = n
    <2> DEFINE A == 1..Len(v)
               B == 0..(n - 1)
    <2>1. Len(v) \in Nat /\ v \in [A -> B]
      BY <1>11
    <2>2. /\ IsFiniteSet(A) /\ Cardinality(A) = Len(v)
          /\ IsFiniteSet(B) /\ Cardinality(B) = n
      <3>1. 1 \in Int /\ Len(v) \in Int /\ 0 \in Int /\ n - 1 \in Int
        BY <1>1, <2>1
      <3>2. /\ IsFiniteSet(1..Len(v)) /\ IsFiniteSet(0..(n - 1))
            /\ Cardinality(1..Len(v)) = IF 1 > Len(v) THEN 0 ELSE Len(v) - 1 + 1
            /\ Cardinality(0..(n - 1)) = IF 0 > n - 1 THEN 0 ELSE (n - 1) - 0 + 1
        BY <3>1, FS_Interval
      <3> QED BY <1>1, <2>1, <3>2
    <2>3. v \in Bijection(A, B)
      BY <1>11, <1>12, <2>1 DEF Bijection, Injection, Surjection, IsInjective
    <2>4. Cardinality(A) = Cardinality(B)
      <3> HIDE DEF A, B
      <3> QED BY <2>2, <2>3, FS_Bijection DEF ExistsBijection
    <2> QED BY <2>2, <2>4
  <1> QED BY <1>11, <1>12, <1>13 DEF v

\* The n cards of a deck after its first a.
Slice(v, a, n) == {v[k] : k \in (a + 1)..(a + n)}

\* The cards of a subsequence are those of a slice.
LEMMA SliceIs ==
  ASSUME NEW D, NEW v \in Seq(D), NEW a \in Nat, NEW n \in Nat, a + n <= Len(v)
  PROVE  ToSet(SubSeq(v, a + 1, a + n)) = Slice(v, a, n)
  <1> DEFINE w == SubSeq(v, a + 1, a + n)
  <1>1. Len(v) \in Nat /\ DOMAIN v = 1..Len(v)
    OBVIOUS
  <1>2. DOMAIN w = 1..n /\ \A i \in 1..n : w[i] = v[a + i]
    OBVIOUS
  <1>3. \A k \in (a + 1)..(a + n) : k - a \in 1..n /\ a + (k - a) = k
    OBVIOUS
  <1>4. \A i \in 1..n : a + i \in (a + 1)..(a + n)
    OBVIOUS
  <1> HIDE DEF w
  <1>5. \A k \in (a + 1)..(a + n) : w[k - a] = v[k]
    BY <1>2, <1>3
  <1>6. ASSUME NEW c \in ToSet(w) PROVE \E k \in (a + 1)..(a + n) : c = v[k]
    <2>1. PICK i \in 1..n : c = w[i]
      BY <1>2 DEF ToSet
    <2> QED BY <1>2, <1>4, <2>1
  <1>7. ASSUME NEW k \in (a + 1)..(a + n) PROVE v[k] \in ToSet(w)
    <2>1. k - a \in DOMAIN w /\ w[k - a] = v[k]
      BY <1>2, <1>3, <1>5
    <2> QED BY <2>1, Zenon DEF ToSet
  <1> QED BY <1>6, <1>7 DEF w, Slice

\* The recursion of HeadsOf: the last kind of head goes to all that are left.
Weights(nbHead) == (nbHead * (nbHead + 1)) \div 2
Share(n, nbHead, h, v) == v + (n * (nbHead - h + 1)) \div Weights(nbHead)
GivenAt(g, n, nbHead, h) == CASE h = 0 -> 0
                              [] h = nbHead -> n
                              [] OTHER -> Min({n, Share(n, nbHead, h, g[h - 1])})
Gives(g, n, nbHead) == g = [h \in 0..nbHead |-> GivenAt(g, n, nbHead, h)]

\* The function that HeadsOf recurs on exists.
LEMMA GivesExist ==
  ASSUME NEW n \in Nat, NEW nbHead \in Nat, nbHead > 0
  PROVE  \E g : Gives(g, n, nbHead)
  <1> DEFINE step == [h \in 1..nbHead |-> [v \in Nat |->
                        IF h = nbHead THEN n ELSE Min({n, Share(n, nbHead, h, v)})]]
  <1>1. ASSUME NEW h \in 1..nbHead, NEW v \in Nat
        PROVE  /\ step[h][v] = IF h = nbHead THEN n ELSE Min({n, Share(n, nbHead, h, v)})
               /\ step[h][v] \in Nat
    <2>1. nbHead * (nbHead + 1) \in Nat /\ nbHead * (nbHead + 1) >= 2
      <3>1. nbHead * nbHead >= 1 /\ nbHead * nbHead \in Nat
        OBVIOUS
      <3>2. nbHead * (nbHead + 1) = nbHead * nbHead + nbHead
        OBVIOUS
      <3> QED BY <3>1, <3>2
    <2>2. Weights(nbHead) \in Nat /\ Weights(nbHead) > 0
      BY <2>1 DEF Weights
    <2>3. n * (nbHead - h + 1) \in Nat
      OBVIOUS
    <2>4. \A a, b \in Nat : b > 0 => a \div b \in Nat
      OBVIOUS
    <2>5. Share(n, nbHead, h, v) \in Nat
      BY <2>2, <2>3, <2>4 DEF Share
    <2>6. Min({n, Share(n, nbHead, h, v)}) \in Nat
      <3> DEFINE S == {n, Share(n, nbHead, h, v)}
      <3>1. S \in SUBSET Nat /\ S # {}
        BY <2>5
      <3>2. Min(S) \in S
        <4> HIDE DEF S
        <4> QED BY <3>1, MinIs
      <3> QED BY <3>1, <3>2
    <2> QED BY <2>6
  <1> HIDE DEF step
  <1>2. PICK g : Iterates(g, nbHead, Nat, 0, step)
    BY <1>1, IteratesExist
  <1>3. ASSUME NEW h \in 1..nbHead
        PROVE  g[h] = IF h = nbHead THEN n ELSE Min({n, Share(n, nbHead, h, g[h - 1])})
    <2>1. h - 1 \in 0..nbHead /\ g[h] = step[h][g[h - 1]]
      BY <1>2 DEF Iterates
    <2>2. g[h - 1] \in Nat
      BY <1>2, <2>1 DEF Iterates
    <2> QED BY <1>1, <2>1, <2>2
  <1>4. g = [h \in 0..nbHead |-> g[h]] /\ g[0] = 0
    BY <1>2 DEF Iterates
  <1>5. ASSUME NEW h \in 0..nbHead
        PROVE  g[h] = GivenAt(g, n, nbHead, h)
    <2>1. CASE h = 0
      BY <1>4, <2>1 DEF GivenAt
    <2>2. CASE h # 0
      <3>1. h \in 1..nbHead
        BY <2>2
      <3> QED BY <1>3, <2>2, <3>1 DEF GivenAt
    <2> QED BY <2>1, <2>2
  <1> QED BY <1>4, <1>5 DEF Gives

\* Every card of a shuffled deck has heads.
Covers(ids, n) ==
  Len(ids) = n /\ \A card \in 0..(n - 1) : \E i \in 1..n : ids[i] = card

HeadsOfDeck(n) == [0..(n - 1) -> 0..255]

\* Every card of the deck gets heads that fit a byte.
LEMMA HeadsAre ==
  ASSUME NEW ids, NEW n \in Nat, Covers(ids, n), NEW nbHead \in 0..255
  PROVE  HeadsOf(ids, nbHead) \in HeadsOfDeck(n)
  <1> DEFINE g == CHOOSE f : Gives(f, n, nbHead)
             Set(card) == {h \in 1..nbHead : \E k \in 1..g[h] : ids[k] = card}
  <1>1. HeadsOf(ids, nbHead) =
          [card \in 0..(n - 1) |-> IF nbHead = 0 THEN 0 ELSE Min(Set(card))]
    BY DEF Covers, HeadsOf, Gives, GivenAt, Share, Weights
  <1>2. ASSUME NEW card \in 0..(n - 1), nbHead # 0
        PROVE  Min(Set(card)) \in 0..255
    <2>1. \E f : Gives(f, n, nbHead)
      BY <1>2, GivesExist
    <2>2. Gives(g, n, nbHead)
      BY <2>1, Zenon
    <2>3. nbHead \in 0..nbHead /\ nbHead \in 1..nbHead
      BY <1>2
    <2> HIDE DEF g
    <2>4. g[nbHead] = n
      BY <1>2, <2>2, <2>3 DEF Gives, GivenAt
    <2>5. Set(card) # {} /\ Set(card) \in SUBSET Nat /\ Set(card) \in SUBSET (0..255)
      <3>1. PICK i \in 1..n : ids[i] = card
        BY DEF Covers
      <3>2. nbHead \in Set(card)
        BY <2>3, <2>4, <3>1
      <3>3. \A h \in 1..nbHead : h \in Nat /\ h \in 0..255
        OBVIOUS
      <3> QED BY <3>2, <3>3
    <2>6. Min(Set(card)) \in Set(card)
      <3> HIDE DEF Set
      <3> QED BY <2>5, MinIs
    <2> HIDE DEF Set
    <2> QED BY <2>5, <2>6
  <1> HIDE DEF Set
  <1> QED BY <1>1, <1>2 DEF HeadsOfDeck

\* The sets of places of a sequence, one place of them, and the rest.
One(P) == CHOOSE x \in P : TRUE

\* Places of a row that have still to be summed.
LEMMA PlacesOf ==
  ASSUME NEW D, NEW v \in Seq(D), NEW P \in SUBSET DOMAIN v
  PROVE  /\ Len(v) \in Nat /\ IsFiniteSet(P) /\ Cardinality(P) \in 0..Len(v)
         /\ P # {} => /\ One(P) \in P /\ v[One(P)] \in D
                      /\ P \ {One(P)} \in SUBSET DOMAIN v
                      /\ Cardinality(P \ {One(P)}) = Cardinality(P) - 1
  <1>1. Len(v) \in Nat /\ DOMAIN v = 1..Len(v) /\ \A x \in DOMAIN v : v[x] \in D
    OBVIOUS
  <1>2. IsFiniteSet(DOMAIN v) /\ Cardinality(DOMAIN v) = Len(v)
    <2>1. 1 \in Int /\ Len(v) \in Int
      BY <1>1
    <2>2. /\ IsFiniteSet(1..Len(v))
          /\ Cardinality(1..Len(v)) = IF 1 > Len(v) THEN 0 ELSE Len(v) - 1 + 1
      BY <2>1, FS_Interval
    <2> QED BY <1>1, <2>2
  <1>3. IsFiniteSet(P) /\ Cardinality(P) \in 0..Len(v)
    <2>1. IsFiniteSet(P) /\ Cardinality(P) <= Len(v)
      BY <1>2, FS_Subset
    <2>2. Cardinality(P) \in Nat
      BY <2>1, FS_CardinalityType
    <2> QED BY <1>1, <2>1, <2>2
  <1>4. ASSUME P # {}
        PROVE  /\ One(P) \in P /\ v[One(P)] \in D
               /\ P \ {One(P)} \in SUBSET DOMAIN v
               /\ Cardinality(P \ {One(P)}) = Cardinality(P) - 1
    <2>1. One(P) \in P
      BY <1>4 DEF One
    <2>2. Cardinality(P \ {One(P)}) = Cardinality(P) - 1
      BY <1>3, <2>1, FS_RemoveElement
    <2> QED BY <1>1, <2>1, <2>2
  <1> QED BY <1>1, <1>3, <1>4

\* The recursion of a fold over a sequence.
Sums(f, h, v) ==
  f = [P \in SUBSET DOMAIN v |-> IF P = {} THEN 0 ELSE h[v[One(P)]] + f[P \ {One(P)}]]

\* The function by which the heads of a row are summed exists.
LEMMA SumsExist ==
  ASSUME NEW h, NEW D, NEW v \in Seq(D), \A c \in D : h[c] \in Nat
  PROVE  \E f : Sums(f, h, v)
  <1> DEFINE S == SUBSET DOMAIN v
             m == [P \in S |-> Cardinality(P)]
             base == [P \in S |-> 0]
             next == [P \in S |-> P \ {One(P)}]
             step == [P \in S |-> [u \in Nat |-> h[v[One(P)]] + u]]
  <1>1. {{}} \in SUBSET S /\ 0 \in Nat /\ Len(v) \in Nat
    OBVIOUS
  <1>2. \A P \in S : m[P] = Cardinality(P) /\ m[P] \in 0..Len(v)
    BY PlacesOf
  <1>3. ASSUME NEW P \in S \ {{}}
        PROVE  next[P] = P \ {One(P)} /\ next[P] \in S /\ m[next[P]] < m[P]
    <2>1. /\ P \ {One(P)} \in S /\ Cardinality(P) \in 0..Len(v)
          /\ Cardinality(P \ {One(P)}) = Cardinality(P) - 1
      BY PlacesOf
    <2>2. next[P] = P \ {One(P)} /\ next[P] \in S
      BY <2>1
    <2> HIDE DEF m, next
    <2>3. m[next[P]] = Cardinality(P \ {One(P)}) /\ m[P] = Cardinality(P)
      BY <1>2, <2>2
    <2> QED BY <1>1, <2>1, <2>2, <2>3
  <1>4. ASSUME NEW P \in S \ {{}}, NEW u \in Nat
        PROVE  step[P][u] = h[v[One(P)]] + u /\ step[P][u] \in Nat
    <2>1. v[One(P)] \in D
      BY PlacesOf
    <2> QED BY <2>1
  <1>5. \A P \in {{}} : base[P] = 0 /\ base[P] \in Nat
    OBVIOUS
  <1> HIDE DEF m, base, next, step
  <1>6. PICK f : Recurses(f, S, Nat, {{}}, base, next, step)
    <2> HIDE DEF S
    <2> QED BY <1>1, <1>2, <1>3, <1>4, <1>5, RecursionExists
  <1>7. ASSUME NEW P \in S
        PROVE  f[P] = IF P = {} THEN 0 ELSE h[v[One(P)]] + f[P \ {One(P)}]
    <2>1. CASE P = {}
      BY <1>5, <1>6, <2>1 DEF Recurses
    <2>2. CASE P # {}
      <3> DEFINE Q == P \ {One(P)}
      <3>1. next[P] = Q /\ Q \in S
        BY <1>3, <2>2
      <3> HIDE DEF Q
      <3>2. f[P] = step[P][f[Q]] /\ f[Q] \in Nat
        BY <1>6, <2>2, <3>1 DEF Recurses
      <3>3. f[P] = h[v[One(P)]] + f[Q]
        BY <1>4, <2>2, <3>2
      <3> QED BY <2>2, <3>3 DEF Q
    <2> QED BY <2>1, <2>2
  <1>8. f = [P \in S |-> f[P]]
    BY <1>6 DEF Recurses
  <1> QED BY <1>7, <1>8 DEF Sums

\* A sum of heads is a number.
LEMMA SumsType ==
  ASSUME NEW h, NEW D, NEW v \in Seq(D), \A c \in D : h[c] \in Nat,
         NEW f, Sums(f, h, v)
  PROVE  \A P \in SUBSET DOMAIN v : f[P] \in Nat
  <1> DEFINE S == SUBSET DOMAIN v
             T == {Cardinality(P) : P \in {Q \in S : f[Q] \notin Nat}}
  <1>1. ASSUME NEW k \in T, \A j \in T : k <= j PROVE FALSE
    <2>1. PICK P \in S : f[P] \notin Nat /\ k = Cardinality(P)
      OBVIOUS
    <2>2. f[P] = IF P = {} THEN 0 ELSE h[v[One(P)]] + f[P \ {One(P)}]
      BY DEF Sums
    <2>3. P # {}
      BY <2>1, <2>2
    <2>4. /\ v[One(P)] \in D /\ P \ {One(P)} \in S /\ Cardinality(P) \in 0..Len(v)
          /\ Cardinality(P \ {One(P)}) = Cardinality(P) - 1 /\ Len(v) \in Nat
      BY <2>3, PlacesOf
    <2>5. f[P \ {One(P)}] \notin Nat
      BY <2>1, <2>2, <2>3, <2>4
    <2>6. Cardinality(P) - 1 \in T
      BY <2>4, <2>5
    <2>7. k <= k - 1
      BY <1>1, <2>1, <2>6
    <2>8. k \in Nat
      BY <2>1, <2>4
    <2> QED BY <2>7, <2>8
  <1>2. T \in SUBSET Nat
    <2>1. ASSUME NEW P \in S PROVE Cardinality(P) \in Nat
      <3>1. Cardinality(P) \in 0..Len(v) /\ Len(v) \in Nat
        BY PlacesOf
      <3> QED BY <3>1
    <2> QED BY <2>1
  <1>3. T = {}
    <2> HIDE DEF T
    <2> QED BY <1>1, <1>2, LeastNat
  <1> QED BY <1>3

\* The heads of a row are a number.
LEMMA RowHeadsType ==
  ASSUME NEW g, NEW row, NEW D, g.board[row] \in Seq(D), \A c \in D : g.heads[c] \in Nat
  PROVE  RowHeads(g, row) \in Nat
  <1> DEFINE v == g.board[row]
             f == CHOOSE f : Sums(f, g.heads, v)
  <1>1. RowHeads(g, row) = f[DOMAIN v]
    BY DEF RowHeads, FoldSeq, FoldFunction, FoldFunctionOnSet, MapThenFoldSet, Sums, One
  <1>2. \E e : Sums(e, g.heads, v)
    BY SumsExist
  <1>3. Sums(f, g.heads, v)
    BY <1>2, Zenon
  <1> HIDE DEF f
  <1> QED BY <1>1, <1>3, SumsType

-----------------------------------------------------------------------------
(* Placing the cards of a round *)

\* Slots and rows are numbers.
LEMMA SlotsAndRows ==
  /\ MaxClients \in Nat /\ MaxClients >= 2
  /\ Slots \subseteq Nat /\ IsFiniteSet(Slots) /\ Cardinality(Slots) = MaxClients
  /\ \A g : g.rules \in Rules =>
       /\ Rows(g) \subseteq Nat /\ Rows(g) # {}
       /\ g.rules.nbrCards \in Nat /\ g.rules.nbrCardsLign \in 1..255
       /\ Deck(g) \subseteq Nat /\ Deck(g) \subseteq Cards /\ NoCard \notin Deck(g)
  <1>1. MaxClients \in Nat /\ MaxClients >= 2
    BY GameAssumption
  <1>2. IsFiniteSet(0..(MaxClients - 1)) /\ Cardinality(0..(MaxClients - 1)) = MaxClients
    <2>1. 0 \in Int /\ MaxClients - 1 \in Int
      BY <1>1
    <2>2. IsFiniteSet(0..(MaxClients - 1))
          /\ Cardinality(0..(MaxClients - 1)) = IF 0 > MaxClients - 1 THEN 0
                                                ELSE (MaxClients - 1) - 0 + 1
      BY <2>1, FS_Interval
    <2> QED BY <1>1, <2>2
  <1>3. ASSUME NEW g, g.rules \in Rules
        PROVE  /\ Rows(g) \subseteq Nat /\ Rows(g) # {}
               /\ g.rules.nbrCards \in Nat /\ g.rules.nbrCardsLign \in 1..255
               /\ Deck(g) \subseteq Nat /\ Deck(g) \subseteq Cards /\ NoCard \notin Deck(g)
    <2>1. g.rules.nbrLign \in 1..255 /\ g.rules.nbrCards \in 0..255
          /\ g.rules.nbrCardsLign \in 1..255
      BY <1>3, GameAssumption
    <2>2. g.rules.nbrCards \in 0..Cardinality(Cards) /\ Cardinality(Cards) \in Nat
          /\ Cards = 0..(Cardinality(Cards) - 1)
      BY <1>3, CardsAre
    <2>3. Deck(g) \subseteq Cards
      BY <2>1, <2>2 DEF Deck
    <2>4. Rows(g) \subseteq Nat /\ 0 \in Rows(g)
      BY <2>1 DEF Rows
    <2> QED BY <2>1, <2>3, <2>4 DEF Deck, NoCard
  <1> QED BY <1>1, <1>2, <1>3 DEF Slots

\* The lowest of the cards that wait.
LEMMA LowestSlotIs ==
  ASSUME NEW g, Waiting(g) # {}, \A i \in Waiting(g) : g.ready[i] \in Nat
  PROVE  /\ LowestSlot(g) \in Waiting(g)
         /\ \A j \in Waiting(g) : g.ready[LowestSlot(g)] <= g.ready[j]
  <1> DEFINE U == {g.ready[i] : i \in Waiting(g)}
             Lowest(i) == \A j \in Waiting(g) : \/ g.ready[i] < g.ready[j]
                                                \/ g.ready[i] = g.ready[j] /\ i <= j
  <1>1. PICK u \in U : \A v \in U : u <= v
    <2>1. U \in SUBSET Nat /\ U # {}
      OBVIOUS
    <2> HIDE DEF U
    <2> QED BY <2>1, LeastNat
  <1> DEFINE W == {i \in Waiting(g) : g.ready[i] = u}
  <1>2. PICK i \in W : \A j \in W : i <= j
    <2>1. W \in SUBSET Nat /\ W # {}
      BY SlotsAndRows DEF Waiting
    <2> HIDE DEF W
    <2> QED BY <2>1, LeastNat
  <1>3. ASSUME NEW j \in Waiting(g)
        PROVE  g.ready[i] < g.ready[j] \/ (g.ready[i] = g.ready[j] /\ i <= j)
    <2>1. u <= g.ready[j] /\ g.ready[i] = u
      BY <1>1, <1>2
    <2>2. g.ready[j] = u => i <= j
      BY <1>2
    <2>3. u \in Nat /\ g.ready[j] \in Nat
      BY <1>2
    <2> QED BY <2>1, <2>2, <2>3
  <1>4. \E k \in Waiting(g) : Lowest(k)
    BY <1>2, <1>3
  <1>5. LowestSlot(g) \in Waiting(g) /\ Lowest(LowestSlot(g))
    <2>1. LowestSlot(g) = CHOOSE k \in Waiting(g) : Lowest(k)
      BY DEF LowestSlot
    <2> HIDE DEF Lowest
    <2> QED BY <1>4, <2>1
  <1>6. ASSUME NEW j \in Waiting(g) PROVE g.ready[LowestSlot(g)] <= g.ready[j]
    <2>1. g.ready[LowestSlot(g)] \in Nat /\ g.ready[j] \in Nat
      BY <1>5
    <2>2. g.ready[LowestSlot(g)] < g.ready[j] \/ g.ready[LowestSlot(g)] = g.ready[j]
      BY <1>5
    <2> QED BY <2>1, <2>2
  <1> QED BY <1>5, <1>6

\* The row for a card is one of those that end below it.
LEMMA BestRowIs ==
  ASSUME NEW g, NEW c \in Nat, Fitting(g, c) # {}, Rows(g) \subseteq Nat,
         \A r \in Fitting(g, c) : Last(g.board[r]) \in Nat
  PROVE  BestRow(g, c) \in Fitting(g, c)
  <1> DEFINE F == Fitting(g, c)
             U == {c - Last(g.board[r]) : r \in F}
             Best(r) == \A q \in F : \/ Last(g.board[r]) > Last(g.board[q])
                                     \/ Last(g.board[r]) = Last(g.board[q]) /\ r <= q
  <1>0. \A r \in F : Last(g.board[r]) \in Nat /\ Last(g.board[r]) < c /\ r \in Nat
    BY DEF Fitting
  <1>1. PICK u \in U : \A v \in U : u <= v
    <2>1. U \in SUBSET Nat /\ U # {}
      BY <1>0
    <2> HIDE DEF U
    <2> QED BY <2>1, LeastNat
  <1> DEFINE W == {r \in F : c - Last(g.board[r]) = u}
  <1>2. PICK r \in W : \A q \in W : r <= q
    <2>1. W \in SUBSET Nat /\ W # {}
      BY <1>0
    <2> HIDE DEF W
    <2> QED BY <2>1, LeastNat
  <1>3. ASSUME NEW q \in F
        PROVE  \/ Last(g.board[r]) > Last(g.board[q])
               \/ Last(g.board[r]) = Last(g.board[q]) /\ r <= q
    <2>1. u <= c - Last(g.board[q]) /\ c - Last(g.board[r]) = u
      BY <1>1, <1>2
    <2>2. c - Last(g.board[q]) = u => r <= q
      BY <1>2
    <2>3. Last(g.board[r]) \in Nat /\ Last(g.board[q]) \in Nat
      BY <1>0, <1>2
    <2> QED BY <2>1, <2>2, <2>3
  <1>4. \E k \in F : Best(k)
    BY <1>2, <1>3
  <1>5. BestRow(g, c) = CHOOSE k \in F : Best(k)
    BY DEF BestRow
  <1> HIDE DEF F, Best
  <1>6. BestRow(g, c) \in F
    BY <1>4, <1>5
  <1> QED BY <1>6 DEF F

\* The rules are in use and every card of the deck has heads.
Decked(s) == s.rules \in Rules /\ s.heads \in [Deck(s) -> 0..255]

\* What place_card finds in s.
Position(s) == [rules |-> s.rules, heads |-> s.heads, board |-> s.board,
                ready |-> s.ready, nb_head |-> s.nb_head]

\* A position is made of its parts.
LEMMA PositionParts ==
  ASSUME NEW s, NEW g \in Positions(s)
  PROVE  /\ g.rules = s.rules /\ g.heads = s.heads
         /\ g.board \in [Rows(s) -> Seq(Deck(s))]
         /\ g.ready \in [Slots -> Deck(s) \cup {NoCard}]
         /\ g.nb_head \in [Slots -> 0..255]
         /\ Rows(g) = Rows(s) /\ Deck(g) = Deck(s)
  BY DEF Positions, Rows, Deck

\* And other parts make another position.
With(g, n, b, r) == [g EXCEPT !.nb_head = n, !.board = b, !.ready = r]
Boards(s) == [Rows(s) -> Seq(Deck(s))]
ReadyCards(s) == [Slots -> Deck(s) \cup {NoCard}]
Scores == [Slots -> 0..255]

\* A position with other cards in their types is a position.
LEMMA PositionWith ==
  ASSUME NEW s, NEW g \in Positions(s),
         NEW n \in Scores, NEW b \in Boards(s), NEW r \in ReadyCards(s)
  PROVE  With(g, n, b, r) \in Positions(s)
         /\ With(g, n, b, r).board = b /\ With(g, n, b, r).ready = r
  BY DEF Positions, With, Boards, ReadyCards, Scores

\* The row taken and the card that starts it anew.
Started(g, slot) == IF g.ready[slot] = NoCard THEN << >> ELSE <<g.ready[slot]>>

\* take_line leads from one position to another.
LEMMA TakeLineIn ==
  ASSUME NEW s, Decked(s), NEW g \in Positions(s), NEW row \in Rows(s), NEW slot \in Slots
  PROVE  LET h == TakeLine(g, row, slot)
         IN  /\ h \in Positions(s)
             /\ h.board = [g.board EXCEPT ![row] = Started(g, slot)]
             /\ h.ready = [g.ready EXCEPT ![slot] = NoCard]
  <1> DEFINE b == [g.board EXCEPT ![row] = Started(g, slot)]
             r == [g.ready EXCEPT ![slot] = NoCard]
             n == [g.nb_head EXCEPT ![slot] = (@ + RowHeads(g, row)) % 256]
             h == With(g, n, b, r)
  <1>1. /\ g.board \in [Rows(s) -> Seq(Deck(s))]
        /\ g.ready \in [Slots -> Deck(s) \cup {NoCard}]
        /\ g.nb_head \in [Slots -> 0..255] /\ g.heads = s.heads
    BY PositionParts
  <1>2. TakeLine(g, row, slot) = h
    <2>1. DOMAIN g = {"rules", "heads", "board", "ready", "nb_head"}
      BY DEF Positions
    <2> DEFINE g1 == [g EXCEPT !.nb_head = n]
               g2 == [g1 EXCEPT !.board = b]
    <2>2. TakeLine(g, row, slot) =
            [g EXCEPT !.nb_head = n,
                      !.board[row] = Started(g, slot), !.ready[slot] = NoCard]
      BY DEF TakeLine, Started
    <2> HIDE DEF n
    <2>3. g1.board = g.board /\ g1.ready = g.ready /\ DOMAIN g1 = DOMAIN g
      BY <2>1
    <2>4. TakeLine(g, row, slot) =
            [g1 EXCEPT !.board[row] = Started(g, slot), !.ready[slot] = NoCard]
      BY <2>2
    <2> HIDE DEF g1
    <2>5. TakeLine(g, row, slot) = [g2 EXCEPT !.ready[slot] = NoCard]
      BY <2>3, <2>4
    <2> HIDE DEF b
    <2>6. g2.ready = g.ready
      BY <2>1, <2>3
    <2> HIDE DEF g2
    <2>7. TakeLine(g, row, slot) = [g2 EXCEPT !.ready = r]
      BY <2>5, <2>6
    <2> QED BY <2>7 DEF With, g1, g2
  <1>3. b \in Boards(s)
    <2>1. Started(g, slot) \in Seq(Deck(s))
      BY <1>1 DEF Started
    <2> QED BY <1>1, <2>1 DEF Boards
  <1>4. r \in ReadyCards(s)
    BY <1>1 DEF ReadyCards
  <1>5. n \in Scores
    <2>0. \A x \in 0..255 : x \in Nat
      OBVIOUS
    <2>1. \A c \in Deck(s) : g.heads[c] \in Nat
      <3> HIDE DEF b, r, n, h
      <3> QED BY <1>1, <2>0 DEF Decked
    <2>2. g.board[row] \in Seq(Deck(s))
      BY <1>1
    <2>3. RowHeads(g, row) \in Nat
      BY <2>1, <2>2, RowHeadsType
    <2>4. \A x \in Nat : x % 256 \in 0..255
      OBVIOUS
    <2>5. g.nb_head[slot] \in Nat
      <3> HIDE DEF b, r, n, h
      <3> QED BY <1>1, <2>0
    <2>6. (g.nb_head[slot] + RowHeads(g, row)) % 256 \in 0..255
      BY <2>3, <2>4, <2>5
    <2> QED BY <1>1, <2>6 DEF Scores
  <1> HIDE DEF b, r, n
  <1>6. h \in Positions(s) /\ h.board = b /\ h.ready = r
    BY <1>3, <1>4, <1>5, PositionWith
  <1> QED BY <1>2, <1>6 DEF b, r

\* place_card puts the lowest card on the row that ends nearest below it, or has
\* its owner take that row when it is full.
LEMMA PlaceLowestIn ==
  ASSUME NEW s, Decked(s), NEW g \in Positions(s), Waiting(g) # {}, ~Blocked(g)
  PROVE  LET slot == LowestSlot(g)
             c    == g.ready[slot]
             row  == BestRow(g, c)
             h    == PlaceLowest(g)
         IN  /\ h \in Positions(s)
             /\ slot \in Waiting(g) /\ c \in Deck(s) /\ row \in Fitting(g, c)
             /\ h.ready = [g.ready EXCEPT ![slot] = NoCard]
             /\ h.board = [g.board EXCEPT ![row] =
                             IF Len(@) >= s.rules.nbrCardsLign THEN <<c>>
                                                               ELSE Append(@, c)]
             /\ Waiting(h) = Waiting(g) \ {slot}
  <1> DEFINE slot == LowestSlot(g)
             c    == g.ready[slot]
             row  == BestRow(g, c)
             h    == PlaceLowest(g)
             full == Len(g.board[row]) >= s.rules.nbrCardsLign
  <1>1. /\ g.board \in [Rows(s) -> Seq(Deck(s))]
        /\ g.ready \in [Slots -> Deck(s) \cup {NoCard}]
        /\ g.nb_head \in [Slots -> 0..255] /\ g.heads = s.heads /\ g.rules = s.rules
        /\ Rows(g) = Rows(s) /\ Deck(s) \subseteq Nat /\ NoCard \notin Deck(s)
        /\ Rows(s) \subseteq Nat
    BY PositionParts, SlotsAndRows DEF Decked
  <1>2. slot \in Waiting(g) /\ slot \in Slots
    <2>1. \A i \in Waiting(g) : g.ready[i] \in Nat
      BY <1>1 DEF Waiting
    <2> QED BY <2>1, LowestSlotIs DEF Waiting
  <1>3. c \in Deck(s) /\ c \in Nat /\ c # NoCard
    BY <1>1, <1>2 DEF Waiting
  <1>4. row \in Fitting(g, c) /\ row \in Rows(s)
    <2>1. Fitting(g, c) # {}
      BY DEF Blocked
    <2>2. ASSUME NEW r \in Fitting(g, c) PROVE Last(g.board[r]) \in Nat
      <3>1. g.board[r] \in Seq(Deck(s)) /\ g.board[r] # << >>
        BY <1>1 DEF Fitting
      <3>2. Last(g.board[r]) \in Deck(s)
        <4> DEFINE v == g.board[r]
        <4> HIDE DEF v
        <4>1. v \in Seq(Deck(s)) /\ v # << >>
          BY <3>1 DEF v
        <4>2. v[Len(v)] \in Deck(s)
          BY <4>1
        <4> QED BY <4>2 DEF v, Last
      <3> QED BY <1>1, <3>2
    <2>3. BestRow(g, c) \in Fitting(g, c)
      <3> HIDE DEF c
      <3> QED BY <1>1, <1>3, <2>1, <2>2, BestRowIs
    <2> QED BY <1>1, <2>3 DEF Fitting
  <1>5. CASE full
    <2>1. h = TakeLine(g, row, slot)
      BY <1>1, <1>5 DEF PlaceLowest
    <2>2. Started(g, slot) = <<c>>
      BY <1>3 DEF Started
    <2> HIDE DEF slot, c, row, h
    <2>3. /\ h \in Positions(s) /\ h.board = [g.board EXCEPT ![row] = <<c>>]
          /\ h.ready = [g.ready EXCEPT ![slot] = NoCard]
      BY <1>2, <1>4, <2>1, <2>2, TakeLineIn
    <2>4. Waiting(h) = Waiting(g) \ {slot}
      BY <1>1, <1>2, <2>3 DEF Waiting
    <2>5. h.board = [g.board EXCEPT ![row] =
                       IF Len(@) >= s.rules.nbrCardsLign THEN <<c>> ELSE Append(@, c)]
      BY <1>5, <2>3
    <2> QED BY <1>2, <1>3, <1>4, <2>3, <2>4, <2>5 DEF slot, c, row, h
  <1>6. CASE ~full
    <2> DEFINE b == [g.board EXCEPT ![row] = Append(@, c)]
               r == [g.ready EXCEPT ![slot] = NoCard]
    <2>1. h = [g EXCEPT !.board = b, !.ready = r]
      <3>1. DOMAIN g = {"rules", "heads", "board", "ready", "nb_head"}
        BY DEF Positions
      <3> QED BY <1>1, <1>6, <3>1 DEF PlaceLowest
    <2>2. b \in Boards(s)
      <3>1. g.board[row] \in Seq(Deck(s))
        BY <1>1, <1>4
      <3>2. Append(g.board[row], c) \in Seq(Deck(s))
        BY <1>3, <3>1
      <3> QED BY <1>1, <3>2 DEF Boards
    <2>3. r \in ReadyCards(s)
      BY <1>1 DEF ReadyCards
    <2> HIDE DEF slot, c, row, h
    <2>4. /\ h \in Positions(s) /\ h.board = b /\ h.ready = r
      <3> HIDE DEF b, r
      <3>1. g = [g EXCEPT !.nb_head = g.nb_head]
        BY DEF Positions
      <3>2. h = With(g, g.nb_head, b, r) /\ g.nb_head \in Scores
        BY <1>1, <2>1, <3>1 DEF With, Scores
      <3> QED BY <2>2, <2>3, <3>2, PositionWith
    <2>5. Waiting(h) = Waiting(g) \ {slot}
      BY <1>1, <1>2, <2>4 DEF Waiting
    <2>6. h.board = [g.board EXCEPT ![row] =
                       IF Len(@) >= s.rules.nbrCardsLign THEN <<c>> ELSE Append(@, c)]
      BY <1>6, <2>4
    <2> QED BY <1>2, <1>3, <1>4, <2>4, <2>5, <2>6 DEF slot, c, row, h
  <1> QED BY <1>5, <1>6

\* Where place_card stops.
Settled(g) == Waiting(g) = {} \/ Blocked(g)

\* The recursion of PlaceAll.
Placements(f, s) ==
  f = [g \in Positions(s) |-> IF Settled(g) THEN g ELSE f[PlaceLowest(g)]]

\* How many cards wait; every step places one.
LEMMA WaitingCounts ==
  ASSUME NEW g
  PROVE  /\ IsFiniteSet(Waiting(g)) /\ Cardinality(Waiting(g)) \in 0..MaxClients
         /\ \A i \in Waiting(g) : Cardinality(Waiting(g) \ {i}) = Cardinality(Waiting(g)) - 1
  <1>1. Waiting(g) \subseteq Slots
    BY DEF Waiting
  <1>2. IsFiniteSet(Waiting(g)) /\ Cardinality(Waiting(g)) <= MaxClients
    BY <1>1, SlotsAndRows, FS_Subset
  <1>3. Cardinality(Waiting(g)) \in Nat
    BY <1>2, FS_CardinalityType
  <1> QED BY <1>2, <1>3, SlotsAndRows, FS_RemoveElement

\* The function that place_card recurs on exists: every card placed is one
\* less that waits.
LEMMA PlacementsExist ==
  ASSUME NEW s, Decked(s), NEW p \in Positions(s)
  PROVE  \E f : Placements(f, s)
  <1> DEFINE S == Positions(s)
             St == {g \in S : Settled(g)}
             m == [g \in S |-> Cardinality(Waiting(g))]
             base == [g \in S |-> g]
             next == [g \in S |-> PlaceLowest(g)]
             step == [g \in S |-> [v \in S |-> v]]
  <1>1. St \in SUBSET S /\ MaxClients \in Nat
    BY SlotsAndRows
  <1>2. \A g \in S : m[g] = Cardinality(Waiting(g)) /\ m[g] \in 0..MaxClients
    BY WaitingCounts
  <1>3. ASSUME NEW g \in S \ St
        PROVE  next[g] = PlaceLowest(g) /\ next[g] \in S /\ m[next[g]] < m[g]
    <2>1. Waiting(g) # {} /\ ~Blocked(g)
      BY DEF Settled
    <2>2. /\ PlaceLowest(g) \in S /\ LowestSlot(g) \in Waiting(g)
          /\ Waiting(PlaceLowest(g)) = Waiting(g) \ {LowestSlot(g)}
      BY <2>1, PlaceLowestIn
    <2>3. next[g] = PlaceLowest(g) /\ next[g] \in S
      BY <2>2
    <2> HIDE DEF m, next
    <2>4. Cardinality(Waiting(PlaceLowest(g))) = Cardinality(Waiting(g)) - 1
      BY <2>2, WaitingCounts
    <2>5. m[next[g]] = m[g] - 1 /\ m[g] \in 0..MaxClients
      BY <1>2, <2>3, <2>4
    <2> QED BY <1>1, <2>3, <2>5
  <1>4. \A g \in S \ St, v \in S : step[g][v] = v /\ step[g][v] \in S
    OBVIOUS
  <1>5. \A g \in St : base[g] = g /\ base[g] \in S
    OBVIOUS
  <1> HIDE DEF m, base, next, step
  <1>6. PICK f : Recurses(f, S, S, St, base, next, step)
    <2> HIDE DEF St
    <2> QED BY <1>1, <1>2, <1>3, <1>4, <1>5, RecursionExists
  <1>7. ASSUME NEW g \in S
        PROVE  f[g] = IF Settled(g) THEN g ELSE f[PlaceLowest(g)]
    <2>1. CASE Settled(g)
      BY <1>5, <1>6, <2>1 DEF Recurses
    <2>2. CASE ~Settled(g)
      <3>1. f[g] = step[g][f[next[g]]] /\ g \in S \ St
        BY <1>6, <2>2 DEF Recurses
      <3>2. next[g] \in S /\ next[g] = PlaceLowest(g)
        BY <1>3, <3>1
      <3>3. f[next[g]] \in S
        BY <1>6, <3>2 DEF Recurses
      <3> QED BY <1>4, <2>2, <3>1, <3>2, <3>3
    <2> QED BY <2>1, <2>2
  <1>8. f = [g \in S |-> f[g]]
    BY <1>6 DEF Recurses
  <1> QED BY <1>7, <1>8 DEF Placements

\* What holds of the first position of a round and is kept by each placement
\* holds where place_card stops.
LEMMA PlaceAllIn ==
  ASSUME NEW s, Decked(s), NEW I \in SUBSET Positions(s), Position(s) \in I,
         \A g \in I : ~Settled(g) => PlaceLowest(g) \in I
  PROVE  \E g \in I : /\ Settled(g)
                      /\ PlaceAll(s) = [s EXCEPT !.board = g.board, !.ready = g.ready,
                                                 !.nb_head = g.nb_head]
  <1> DEFINE f == CHOOSE h : Placements(h, s)
             e == f[Position(s)]
             Ends(g) == f[g] \in I /\ Settled(f[g])
             T == {Cardinality(Waiting(g)) : g \in {k \in I : ~Ends(k)}}
  <1>1. PlaceAll(s) = [s EXCEPT !.board = e.board, !.ready = e.ready, !.nb_head = e.nb_head]
    BY DEF PlaceAll, Placements, Position, Settled
  <1>2. Placements(f, s)
    <2>1. \E h : Placements(h, s)
      BY PlacementsExist
    <2> QED BY <2>1, Zenon
  <1> HIDE DEF f
  <1>3. \A g \in I : f[g] = IF Settled(g) THEN g ELSE f[PlaceLowest(g)]
    BY <1>2 DEF Placements
  <1>4. ASSUME NEW k \in T, \A j \in T : k <= j PROVE FALSE
    <2>1. PICK g \in I : ~Ends(g) /\ k = Cardinality(Waiting(g))
      OBVIOUS
    <2>2. ~Settled(g)
      BY <1>3, <2>1
    <2>3. PlaceLowest(g) \in I /\ f[g] = f[PlaceLowest(g)]
      BY <1>3, <2>2
    <2>4. Cardinality(Waiting(PlaceLowest(g))) \in T
      BY <2>1, <2>3
    <2>5. Cardinality(Waiting(PlaceLowest(g))) = k - 1 /\ k \in Nat
      <3>1. LowestSlot(g) \in Waiting(g)
            /\ Waiting(PlaceLowest(g)) = Waiting(g) \ {LowestSlot(g)}
        BY <2>2, PlaceLowestIn DEF Settled
      <3>2. k \in 0..MaxClients /\ MaxClients \in Nat
        BY <2>1, WaitingCounts, SlotsAndRows
      <3> QED BY <2>1, <3>1, <3>2, WaitingCounts
    <2> QED BY <1>4, <2>4, <2>5
  <1>5. T \in SUBSET Nat
    <2>1. ASSUME NEW g \in I PROVE Cardinality(Waiting(g)) \in Nat
      <3>1. Cardinality(Waiting(g)) \in 0..MaxClients /\ MaxClients \in Nat
        BY WaitingCounts, SlotsAndRows
      <3> QED BY <3>1
    <2> QED BY <2>1
  <1>6. T = {}
    <2> HIDE DEF T
    <2> QED BY <1>4, <1>5, LeastNat
  <1>7. Ends(Position(s))
    BY <1>6
  <1> QED BY <1>1, <1>7

-----------------------------------------------------------------------------
(* Where the cards are *)

Sorted(v) == \A i, j \in 1..Len(v) : i < j => v[i] < v[j]

\* No card is in two places: two rows, two slots that wait, or one of those and
\* the hands, whose cards are held; and the rows are in order and not too long.
Neat(s, g, held) ==
  /\ \A r \in Rows(s) : Len(g.board[r]) <= s.rules.nbrCardsLign /\ Sorted(g.board[r])
  /\ \A r, q \in Rows(s) : \A c \in ToSet(g.board[r]) : r # q => c \notin ToSet(g.board[q])
  /\ \A r \in Rows(s) : \A c \in ToSet(g.board[r]) :
       c \notin held /\ \A i \in Waiting(g) : g.ready[i] # c
  /\ \A i, j \in Waiting(g) : i # j => g.ready[i] # g.ready[j]
  /\ \A i \in Waiting(g) : g.ready[i] \notin held

\* The cards of short rows, and of one that a greater card is added to.
LEMMA ShortRows ==
  /\ ToSet(<< >>) = {} /\ Sorted(<< >>) /\ Len(<< >>) = 0
  /\ \A c : ToSet(<<c>>) = {c} /\ Sorted(<<c>>) /\ Len(<<c>>) = 1
  BY DEF ToSet, Sorted

\* A greater card added at the end keeps a row in order.
LEMMA LongerRow ==
  ASSUME NEW v \in Seq(Int), NEW c \in Int, Sorted(v), v # << >>, Last(v) < c
  PROVE  /\ ToSet(Append(v, c)) = ToSet(v) \cup {c}
         /\ Sorted(Append(v, c)) /\ Len(Append(v, c)) = Len(v) + 1
  <1> DEFINE n == Len(v)
             w == Append(v, c)
  <1>1. n \in Nat /\ n > 0 /\ v[n] < c /\ DOMAIN v = 1..n /\ \A i \in 1..n : v[i] \in Int
    BY DEF Last
  <1>2. Len(w) = n + 1 /\ w[n + 1] = c /\ \A i \in 1..n : w[i] = v[i]
    OBVIOUS
  <1>3. DOMAIN w = 1..(n + 1)
    OBVIOUS
  <1> HIDE DEF n, w
  <1>4. \A i \in 1..(n + 1) : i = n + 1 \/ i \in 1..n
    BY <1>1
  <1>5. \A i \in 1..n : i \in 1..(n + 1) /\ (i = n \/ i < n) /\ n \in 1..n
    BY <1>1
  <1>6. n + 1 \in 1..(n + 1)
    BY <1>1
  <1>7. ToSet(w) = ToSet(v) \cup {c}
    BY <1>1, <1>2, <1>3, <1>4, <1>5, <1>6 DEF ToSet
  <1>8. \A i \in 1..n : v[i] < c
    <2>1. ASSUME NEW i \in 1..n, i < n PROVE v[i] < v[n]
      BY <1>5, <2>1 DEF Sorted, n
    <2>2. \A i \in 1..n : v[i] \in Int /\ v[n] \in Int
      BY <1>1, <1>5
    <2> QED BY <1>1, <1>5, <2>1, <2>2
  <1>9. ASSUME NEW i \in 1..(n + 1), NEW j \in 1..(n + 1), i < j PROVE w[i] < w[j]
    <2>1. i \in 1..n
      BY <1>1, <1>9
    <2>2. CASE j = n + 1
      BY <1>2, <1>8, <2>1, <2>2
    <2>3. CASE j # n + 1
      <3>1. j \in 1..n
        BY <1>4, <2>3
      <3>2. v[i] < v[j]
        BY <1>9, <2>1, <3>1 DEF Sorted, n
      <3> QED BY <1>2, <2>1, <3>1, <3>2
    <2> QED BY <2>2, <2>3
  <1>10. Sorted(w)
    BY <1>2, <1>9 DEF Sorted
  <1> QED BY <1>2, <1>7, <1>10 DEF n, w

\* A row changes to hold some of its cards and the one that waited in a slot.
Moved(s, g, h, row, slot, v) ==
  /\ row \in Rows(s) /\ slot \in Slots
  /\ g.board = [r \in Rows(s) |-> g.board[r]] /\ g.ready = [i \in Slots |-> g.ready[i]]
  /\ h.board = [g.board EXCEPT ![row] = v]
  /\ h.ready = [g.ready EXCEPT ![slot] = NoCard]
  /\ \A c \in ToSet(v) : c \in ToSet(g.board[row])
                          \/ (slot \in Waiting(g) /\ c = g.ready[slot])
  /\ Len(v) <= s.rules.nbrCardsLign /\ Sorted(v)

\* A card moved to a row of which nothing else is left keeps cards apart.
LEMMA NeatMove ==
  ASSUME NEW s, NEW g, NEW h, NEW held, Neat(s, g, held),
         NEW row, NEW slot, NEW v, Moved(s, g, h, row, slot, v)
  PROVE  Neat(s, h, held)
  <1>M. /\ row \in Rows(s) /\ slot \in Slots
        /\ g.board = [r \in Rows(s) |-> g.board[r]] /\ g.ready = [i \in Slots |-> g.ready[i]]
        /\ h.board = [g.board EXCEPT ![row] = v]
        /\ h.ready = [g.ready EXCEPT ![slot] = NoCard]
        /\ \A c \in ToSet(v) : c \in ToSet(g.board[row])
                                \/ (slot \in Waiting(g) /\ c = g.ready[slot])
        /\ Len(v) <= s.rules.nbrCardsLign /\ Sorted(v)
    BY DEF Moved
  <1>N. /\ \A r, q \in Rows(s) : \A c \in ToSet(g.board[r]) :
             r # q => c \notin ToSet(g.board[q])
        /\ \A r \in Rows(s) : \A c \in ToSet(g.board[r]) :
             c \notin held /\ \A i \in Waiting(g) : g.ready[i] # c
        /\ \A i, j \in Waiting(g) : i # j => g.ready[i] # g.ready[j]
        /\ \A i \in Waiting(g) : g.ready[i] \notin held
    BY DEF Neat
  <1>1. h.board[row] = v /\ \A r \in Rows(s) : r # row => h.board[r] = g.board[r]
    BY <1>M
  <1>2. /\ h.ready[slot] = NoCard /\ \A i \in Slots : i # slot => h.ready[i] = g.ready[i]
        /\ Waiting(h) = Waiting(g) \ {slot}
    BY <1>M DEF Waiting
  <1>3. \A i \in Waiting(h) : i \in Waiting(g) /\ i # slot /\ h.ready[i] = g.ready[i]
    BY <1>2 DEF Waiting
  <1>4. \A r \in Rows(s) : Len(h.board[r]) <= s.rules.nbrCardsLign /\ Sorted(h.board[r])
    BY <1>1, <1>M DEF Neat
  <1>5. ASSUME NEW r \in Rows(s), NEW c \in ToSet(h.board[r])
        PROVE  \/ c \in ToSet(g.board[r])
               \/ r = row /\ slot \in Waiting(g) /\ c = g.ready[slot]
    BY <1>1, <1>M
  <1>6. ASSUME NEW r \in Rows(s), NEW q \in Rows(s), NEW c \in ToSet(h.board[r]), r # q
        PROVE  c \notin ToSet(h.board[q])
    <2>1. ASSUME c \in ToSet(h.board[q]) PROVE FALSE
      <3>1. \/ c \in ToSet(g.board[r])
            \/ r = row /\ slot \in Waiting(g) /\ c = g.ready[slot]
        BY <1>5
      <3>2. \/ c \in ToSet(g.board[q])
            \/ q = row /\ slot \in Waiting(g) /\ c = g.ready[slot]
        BY <1>5, <2>1
      <3> QED BY <1>6, <1>N, <3>1, <3>2
    <2> QED BY <2>1
  <1>7. ASSUME NEW r \in Rows(s), NEW c \in ToSet(h.board[r])
        PROVE  c \notin held /\ \A i \in Waiting(h) : h.ready[i] # c
    <2>1. CASE c \in ToSet(g.board[r])
      BY <1>3, <1>N, <2>1
    <2>2. CASE slot \in Waiting(g) /\ c = g.ready[slot]
      BY <1>3, <1>N, <2>2
    <2> QED BY <1>5, <2>1, <2>2
  <1>8. \A i, j \in Waiting(h) : i # j => h.ready[i] # h.ready[j]
    BY <1>3 DEF Neat
  <1>9. \A i \in Waiting(h) : h.ready[i] \notin held
    BY <1>3 DEF Neat
  <1> QED BY <1>4, <1>6, <1>7, <1>8, <1>9 DEF Neat

\* Fewer cards held, or waiting, is no less neat.
LEMMA NeatLess ==
  ASSUME NEW s, NEW g, NEW h, NEW held, Neat(s, g, held), NEW less,
         less \subseteq held, h.board = g.board,
         \A i \in Waiting(h) : i \in Waiting(g) /\ h.ready[i] = g.ready[i]
  PROVE  Neat(s, h, less)
  BY DEF Neat

\* The positions that a round leads to from s.
Reached(s, held) ==
  {g \in Positions(s) :
     /\ Neat(s, g, held)
     /\ \A i \in Slots : g.ready[i] \in {s.ready[i], NoCard}
     /\ \A r \in Rows(s) : s.board[r] # << >> => g.board[r] # << >>}

\* One iteration of place_card keeps cards apart.
LEMMA PlaceLowestNeat ==
  ASSUME NEW s, Decked(s), NEW held, NEW g \in Reached(s, held), ~Settled(g)
  PROVE  PlaceLowest(g) \in Reached(s, held)
  <1> DEFINE slot == LowestSlot(g)
             c    == g.ready[slot]
             row  == BestRow(g, c)
             h    == PlaceLowest(g)
             v    == IF Len(g.board[row]) >= s.rules.nbrCardsLign THEN <<c>>
                     ELSE Append(g.board[row], c)
  <1>0. g \in Positions(s) /\ Waiting(g) # {} /\ ~Blocked(g)
    BY DEF Reached, Settled
  <1>1. /\ h \in Positions(s)
        /\ slot \in Waiting(g) /\ c \in Deck(s) /\ row \in Fitting(g, c)
        /\ h.ready = [g.ready EXCEPT ![slot] = NoCard]
        /\ h.board = [g.board EXCEPT ![row] = v]
    BY <1>0, PlaceLowestIn
  <1>2. /\ g.board \in [Rows(s) -> Seq(Deck(s))] /\ Rows(g) = Rows(s)
        /\ g.ready \in [Slots -> Deck(s) \cup {NoCard}]
        /\ Deck(s) \subseteq Int /\ s.rules.nbrCardsLign \in 1..255
    <2>1. Deck(s) \subseteq Nat /\ s.rules.nbrCardsLign \in 1..255
      BY SlotsAndRows DEF Decked
    <2> QED BY <1>0, <2>1, PositionParts
  <1>3. /\ Neat(s, g, held) /\ \A i \in Slots : g.ready[i] \in {s.ready[i], NoCard}
        /\ \A r \in Rows(s) : s.board[r] # << >> => g.board[r] # << >>
    BY DEF Reached
  <1> HIDE DEF slot, c, row, h, v
  <1>4. slot \in Slots /\ row \in Rows(s) /\ g.board[row] # << >> /\ Last(g.board[row]) < c
    BY <1>1, <1>2 DEF Waiting, Fitting
  <1>5. g.board[row] \in Seq(Int) /\ c \in Int /\ Sorted(g.board[row])
    <2>1. g.board[row] \in Seq(Deck(s))
      BY <1>2, <1>4
    <2>2. \A u \in Seq(Deck(s)) : u \in Seq(Int)
      BY <1>2
    <2> QED BY <1>1, <1>2, <1>3, <1>4, <2>1, <2>2 DEF Neat
  <1>W. s.rules.nbrCardsLign \in Int /\ 1 <= s.rules.nbrCardsLign
    <2>1. s.rules.nbrCardsLign \in 1..255
      BY <1>2
    <2> QED BY <2>1
  <1>6. /\ ToSet(v) \subseteq ToSet(g.board[row]) \cup {c}
        /\ Len(v) <= s.rules.nbrCardsLign /\ Sorted(v)
    <2>1. CASE Len(g.board[row]) >= s.rules.nbrCardsLign
      <3>1. v = <<c>>
        BY <2>1 DEF v
      <3>2. ToSet(v) = {c} /\ Sorted(v) /\ Len(v) = 1
        BY <3>1, ShortRows
      <3> QED BY <1>W, <3>2
    <2>2. CASE ~(Len(g.board[row]) >= s.rules.nbrCardsLign)
      <3>1. v = Append(g.board[row], c)
        BY <2>2 DEF v
      <3>2. Len(g.board[row]) \in Nat
        BY <1>5
      <3>3. /\ ToSet(Append(g.board[row], c)) = ToSet(g.board[row]) \cup {c}
            /\ Sorted(Append(g.board[row], c))
            /\ Len(Append(g.board[row], c)) = Len(g.board[row]) + 1
        BY <1>4, <1>5, LongerRow
      <3>4. Len(v) = Len(g.board[row]) + 1
        BY <3>1, <3>3
      <3>5. Len(v) <= s.rules.nbrCardsLign
        BY <1>W, <2>2, <3>2, <3>4
      <3> QED BY <3>1, <3>3, <3>5
    <2> QED BY <2>1, <2>2
  <1>7. c = g.ready[slot]
    BY DEF c
  <1>8. Neat(s, h, held)
    <2>1. \A d \in ToSet(v) : d \in ToSet(g.board[row])
                              \/ (slot \in Waiting(g) /\ d = g.ready[slot])
      BY <1>1, <1>6, <1>7
    <2>2. g.board = [r \in Rows(s) |-> g.board[r]] /\ g.ready = [i \in Slots |-> g.ready[i]]
      BY <1>2
    <2>3. Moved(s, g, h, row, slot, v)
      BY <1>1, <1>4, <1>6, <2>1, <2>2 DEF Moved
    <2> QED BY <1>3, <2>3, NeatMove
  <1>9. \A i \in Slots : h.ready[i] \in {s.ready[i], NoCard}
    BY <1>1, <1>2, <1>3
  <1>10. \A r \in Rows(s) : s.board[r] # << >> => h.board[r] # << >>
    <2>1. CASE Len(g.board[row]) >= s.rules.nbrCardsLign
      <3>1. v = <<c>>
        BY <2>1 DEF v
      <3>2. h.board[row] # << >>
        BY <1>1, <1>2, <1>4, <3>1
      <3> QED BY <1>1, <1>2, <1>3, <3>2
    <2>2. CASE ~(Len(g.board[row]) >= s.rules.nbrCardsLign)
      <3>1. v = Append(g.board[row], c)
        BY <2>2 DEF v
      <3>2. Append(g.board[row], c) # << >>
        BY <1>5
      <3>3. h.board[row] # << >>
        BY <1>1, <1>2, <1>4, <3>1, <3>2
      <3> QED BY <1>1, <1>2, <1>3, <3>3
    <2> QED BY <2>1, <2>2
  <1> QED BY <1>1, <1>8, <1>9, <1>10 DEF Reached, h

\* A round ends where no card waits or none fits, and no card is lost to two
\* places on the way.
LEMMA PlaceAllNeat ==
  ASSUME NEW s, Decked(s), NEW held, Position(s) \in Reached(s, held)
  PROVE  \E g \in Reached(s, held) :
            /\ Settled(g)
            /\ PlaceAll(s) = [s EXCEPT !.board = g.board, !.ready = g.ready,
                                       !.nb_head = g.nb_head]
  <1>1. Reached(s, held) \in SUBSET Positions(s)
    BY DEF Reached
  <1>2. \A g \in Reached(s, held) : ~Settled(g) => PlaceLowest(g) \in Reached(s, held)
    BY PlaceLowestNeat
  <1> QED BY <1>1, <1>2, PlaceAllIn

-----------------------------------------------------------------------------
(* What placing leaves alone *)

\* t is the structure s with other values in the fields of F at most.
Frame(s, t, F) == /\ DOMAIN t = DOMAIN s
                  /\ \A x \in DOMAIN s : x \notin F => t[x] = s[x]

\* Two steps change what either of them does.
LEMMA FrameTrans ==
  ASSUME NEW s, NEW t, NEW u, NEW F, NEW G, Frame(s, t, F), Frame(t, u, G)
  PROVE  Frame(s, u, F \cup G)
  BY DEF Frame

\* place_card changes the board, the cards that wait and the penalties.
LEMMA PlaceAllFrame ==
  ASSUME NEW s
  PROVE  Frame(s, PlaceAll(s), {"board", "ready", "nb_head"})
  <1>1. \A b, r, n : Frame(s, [s EXCEPT !.board = b, !.ready = r, !.nb_head = n],
                           {"board", "ready", "nb_head"})
    BY DEF Frame
  <1> QED BY <1>1, Zenon DEF PlaceAll

\* And so does take_line.
LEMMA TakeLineFrame ==
  ASSUME NEW s, NEW row, NEW slot
  PROVE  Frame(s, TakeLine(s, row, slot), {"board", "ready", "nb_head"})
  BY DEF Frame, TakeLine

-----------------------------------------------------------------------------
(* What the handlers of the session leave alone *)

GameFields == {"board", "ready", "nb_head", "game_state", "extra_wait_from",
               "ready_count"}

\* Resolving a round touches nothing but the game.
LEMMA ResolveFrame ==
  ASSUME NEW s, NEW sent
  PROVE  Frame(s, Resolve(s, sent), GameFields)
  <1> DEFINE p == PlaceAll(s)
  <1>1. Frame(s, p, {"board", "ready", "nb_head"})
    BY PlaceAllFrame
  <1> HIDE DEF p
  <1>2. \A x, y : Frame(p, [p EXCEPT !.game_state = x, !.extra_wait_from = y],
                        {"game_state", "extra_wait_from"})
    BY DEF Frame
  <1>3. \A x, y : Frame(p, [p EXCEPT !.ready_count = x, !.game_state = y],
                        {"game_state", "ready_count"})
    BY DEF Frame
  <1>4. \/ \E x, y : Resolve(s, sent) = [p EXCEPT !.game_state = x, !.extra_wait_from = y]
        \/ \E x, y : Resolve(s, sent) = [p EXCEPT !.ready_count = x, !.game_state = y]
    BY DEF Resolve, AskForRow, p
  <1>5. Frame(p, Resolve(s, sent), GameFields)
    BY <1>2, <1>3, <1>4 DEF Frame, GameFields
  <1> QED BY <1>1, <1>5 DEF Frame, GameFields

\* Neither does start_move.
LEMMA StartMoveFrame ==
  ASSUME NEW s, NEW sent
  PROVE  Frame(s, StartMove(s, sent), GameFields)
  <1> DEFINE t == [s EXCEPT !.ready = [i \in Slots |-> IF i \in Free(s) \ Playing(s)
                                   THEN NoCard ELSE s.ready[i]]]
  <1>1. Frame(s, t, {"ready"})
    BY DEF Frame
  <1>2. Frame(t, Resolve(t, sent), GameFields)
    BY ResolveFrame
  <1>3. StartMove(s, sent) = s \/ StartMove(s, sent) = Resolve(t, sent)
    BY DEF StartMove
  <1> HIDE DEF t
  <1> QED BY <1>1, <1>2, <1>3 DEF Frame, GameFields

\* Nor does a withdrawal, except for the count of the players.
LEMMA WithdrawFrame ==
  ASSUME NEW s, NEW i, NEW sent, "active_players" \in DOMAIN s
  PROVE  /\ Frame(s, Withdraw(s, i, sent), GameFields \cup {"active_players"})
         /\ Withdraw(s, i, sent).active_players = s.active_players - 1
  <1> DEFINE t == [s EXCEPT !.active_players = @ - 1]
             u == [t EXCEPT !.ready[i] = NoCard]
  <1>1. Frame(s, t, {"active_players"}) /\ t.active_players = s.active_players - 1
    BY DEF Frame
  <1>2. Withdraw(s, i, sent) = t \/ Withdraw(s, i, sent) = StartMove(u, sent)
    BY DEF Withdraw
  <1> HIDE DEF t
  <1>3. Frame(t, u, {"ready"})
    BY DEF Frame
  <1>4. Frame(u, StartMove(u, sent), GameFields)
    BY StartMoveFrame
  <1> HIDE DEF u
  <1> QED BY <1>1, <1>2, <1>3, <1>4 DEF Frame, GameFields

-----------------------------------------------------------------------------
(* Membership, as a predicate of any session_t *)

MemberFields == {"player_id", "role", "number_clients", "active_players"}

Roles == {"NONE", "PLAYER", "OBSERVER"}

Members(s) ==
  /\ MemberFields \subseteq DOMAIN s
  /\ s.player_id \in [Slots -> Clients \cup {NoClient}]
  /\ s.role \in [Slots -> Roles]
  /\ s.number_clients = Cardinality(Occupied(s))
  /\ s.active_players = Cardinality(Playing(s))
  /\ s.active_players <= GameCapacity
  /\ \A i \in Slots : s.role[i] = "NONE" <=> i \in Free(s)
  /\ \A i, j \in Occupied(s) : s.player_id[i] = s.player_id[j] => i = j

\* The slots can be counted.
LEMMA SlotsFinite ==
  /\ Slots \subseteq Nat /\ IsFiniteSet(Slots) /\ Cardinality(Slots) = MaxClients
  /\ MaxClients \in Nat /\ MaxClients >= 2
  <1>1. MaxClients \in Nat /\ MaxClients >= 2
    BY GameAssumption
  <1>2. 0 \in Int /\ MaxClients - 1 \in Int
    BY <1>1
  <1>3. IsFiniteSet(0..(MaxClients - 1))
        /\ Cardinality(0..(MaxClients - 1)) = IF 0 > MaxClients - 1 THEN 0
                                              ELSE (MaxClients - 1) - 0 + 1
    BY <1>2, FS_Interval
  <1> QED BY <1>1, <1>3 DEF Slots

\* A set of slots, and the slots without it, have as many as there are slots.
LEMMA SlotSets ==
  ASSUME NEW S \in SUBSET Slots
  PROVE  /\ IsFiniteSet(S) /\ Cardinality(S) \in 0..MaxClients
         /\ Cardinality(S) = MaxClients => S = Slots
         /\ \A i \in Slots : /\ Cardinality(S \ {i}) = IF i \in S THEN Cardinality(S) - 1
                                                       ELSE Cardinality(S)
                            /\ Cardinality(S \cup {i}) = IF i \in S THEN Cardinality(S)
                                                         ELSE Cardinality(S) + 1
  <1>1. IsFiniteSet(S) /\ Cardinality(S) <= MaxClients
        /\ (Cardinality(S) = MaxClients => S = Slots)
    BY SlotsFinite, FS_Subset
  <1>2. Cardinality(S) \in Nat
    BY <1>1, FS_CardinalityType
  <1> QED BY <1>1, <1>2, SlotsFinite, FS_AddElement, FS_RemoveElement

\* The counters of a membership that is in order.
LEMMA MembersCounts ==
  ASSUME NEW s, Members(s)
  PROVE  /\ s.number_clients \in 0..MaxClients /\ s.active_players \in 0..MaxClients
         /\ s.number_clients < MaxClients => Free(s) # {}
         /\ Playing(s) \subseteq Occupied(s)
  <1>1. Occupied(s) \subseteq Slots /\ Playing(s) \subseteq Slots
    BY DEF Occupied, Playing
  <1>2. Free(s) = {} => Occupied(s) = Slots
    BY DEF Occupied
  <1>3. /\ s.number_clients \in 0..MaxClients /\ s.active_players \in 0..MaxClients
        /\ s.number_clients = Cardinality(Occupied(s))
    BY <1>1, SlotSets DEF Members
  <1>4. s.number_clients < MaxClients => Free(s) # {}
    BY <1>2, <1>3, SlotsFinite
  <1>5. Playing(s) \subseteq Occupied(s)
    BY DEF Members, Occupied, Playing
  <1> QED BY <1>3, <1>4, <1>5

\* Operators that leave the fields of the membership alone keep it in order.
LEMMA MembersFrame ==
  ASSUME NEW s, Members(s), NEW t, NEW F, Frame(s, t, F), F \cap MemberFields = {}
  PROVE  Members(t)
  <1>1. /\ t.player_id = s.player_id /\ t.role = s.role
        /\ t.number_clients = s.number_clients /\ t.active_players = s.active_players
        /\ MemberFields \subseteq DOMAIN t
    BY DEF Members, Frame, MemberFields
  <1> QED BY <1>1 DEF Members, Occupied, Playing, Free

\* get_index_by_id finds the slot of a member.
LEMMA IndexIs ==
  ASSUME NEW s, Members(s), NEW c, Member(s, c)
  PROVE  /\ Index(s, c) \in Slots /\ Index(s, c) \in Occupied(s)
         /\ s.role[Index(s, c)] \in {"PLAYER", "OBSERVER"}
         /\ s.player_id[Index(s, c)] = c
  <1> DEFINE T == {i \in Slots : s.role[i] # "NONE" /\ s.player_id[i] = c}
  <1>1. T \in SUBSET Nat /\ T # {}
    BY SlotsFinite DEF Member
  <1>2. Min(T) \in T
    BY <1>1, MinIs
  <1>3. Index(s, c) = Min(T)
    BY DEF Index
  <1> HIDE DEF T
  <1>4. Index(s, c) \in T
    BY <1>2, <1>3
  <1> QED BY <1>4 DEF T, Members, Occupied, Roles

-----------------------------------------------------------------------------
(* The operators that change the membership *)

\* add_player in a session that has room.
LEMMA AddPlayerMembers ==
  ASSUME NEW s, Members(s), NEW c \in Clients, Admissible(s, c),
         NEW newRole \in {"PLAYER", "OBSERVER"},
         newRole = "PLAYER" => s.active_players < GameCapacity
  PROVE  Members(AddPlayer(s, c, newRole))
  <1> DEFINE i == Min(Free(s))
             t == AddPlayer(s, c, newRole)
  <1>1. i \in Free(s) /\ i \in Slots /\ i \notin Occupied(s)
    <2>1. Free(s) # {} /\ Free(s) \in SUBSET Nat
      BY MembersCounts, SlotsFinite DEF Admissible, Free
    <2>2. i \in Free(s)
      BY <2>1, MinIs
    <2> HIDE DEF i
    <2> QED BY <2>2 DEF Free, Occupied
  <1>2. /\ t.player_id = [s.player_id EXCEPT ![i] = c]
        /\ t.role = [s.role EXCEPT ![i] = newRole]
        /\ t.number_clients = s.number_clients + 1
        /\ t.active_players = IF newRole = "PLAYER" THEN s.active_players + 1
                                                    ELSE s.active_players
        /\ DOMAIN t = DOMAIN s
    BY DEF AddPlayer, Members, MemberFields
  <1> HIDE DEF i, t
  <1>3. c # NoClient
    BY SessionAssumption
  <1>4. s.role[i] = "NONE" /\ i \notin Playing(s)
    BY <1>1 DEF Members, Playing
  <1>5. Occupied(t) = Occupied(s) \cup {i} /\ Free(t) = Free(s) \ {i}
    BY <1>1, <1>2, <1>3 DEF Members, Occupied, Free
  <1>6. Playing(t) = IF newRole = "PLAYER" THEN Playing(s) \cup {i} ELSE Playing(s)
    BY <1>1, <1>2, <1>4 DEF Members, Playing
  <1>7. Occupied(s) \in SUBSET Slots /\ Playing(s) \in SUBSET Slots
    BY DEF Occupied, Playing
  <1>8. /\ t.number_clients = Cardinality(Occupied(t))
        /\ t.active_players = Cardinality(Playing(t))
    BY <1>1, <1>2, <1>4, <1>5, <1>6, <1>7, SlotSets DEF Members
  <1>9. t.active_players <= GameCapacity
    <2>1. s.active_players \in Nat /\ GameCapacity \in Nat
      BY MembersCounts, SlotsFinite, SessionAssumption
    <2> QED BY <1>2, <2>1 DEF Members
  <1>10. ASSUME NEW j \in Occupied(s) PROVE s.player_id[j] # c
    <2>1. s.role[j] # "NONE" /\ j \in Slots
      BY DEF Members, Occupied
    <2> QED BY <2>1 DEF Admissible, Member
  <1>11. \A j, k \in Occupied(t) : t.player_id[j] = t.player_id[k] => j = k
    BY <1>1, <1>2, <1>5, <1>7, <1>10 DEF Members
  <1>12. \A j \in Slots : t.role[j] = "NONE" <=> j \in Free(t)
    BY <1>1, <1>2, <1>5 DEF Members
  <1> QED BY <1>2, <1>8, <1>9, <1>11, <1>12 DEF Members, Roles, t

\* The game goes on without a player; his role is changed only afterwards, so
\* that the count is one short until then.
LEMMA WithdrawMembers ==
  ASSUME NEW s, Members(s), NEW i \in Playing(s), NEW sent
  PROVE  LET t == Withdraw(s, i, sent)
         IN  /\ DOMAIN t = DOMAIN s
             /\ t.player_id = s.player_id /\ t.role = s.role
             /\ t.number_clients = s.number_clients
             /\ t.active_players = s.active_players - 1
  <1>1. "active_players" \in DOMAIN s /\ MemberFields \subseteq DOMAIN s
    BY DEF Members, MemberFields
  <1>2. /\ Frame(s, Withdraw(s, i, sent), GameFields \cup {"active_players"})
        /\ Withdraw(s, i, sent).active_players = s.active_players - 1
    BY <1>1, WithdrawFrame
  <1> QED BY <1>1, <1>2 DEF Frame, GameFields, MemberFields

\* remove_player
LEMMA RemovePlayerMembers ==
  ASSUME NEW s, Members(s), NEW c, NEW sent
  PROVE  /\ Members(RemovePlayer(s, c, sent))
         /\ DOMAIN RemovePlayer(s, c, sent) = DOMAIN s
  <1>1. CASE ~Member(s, c)
    BY <1>1 DEF RemovePlayer
  <1>2. CASE Member(s, c)
    <2> DEFINE i == Index(s, c)
               h == IF c = s.id_creator /\ s.number_clients > 1
                    THEN [s EXCEPT !.id_creator = Heir(s, i)] ELSE s
               u == IF s.role[i] = "PLAYER" THEN Withdraw(h, i, sent) ELSE h
               t == RemovePlayer(s, c, sent)
    <2>1. /\ i \in Slots /\ i \in Occupied(s) /\ s.player_id[i] = c
          /\ s.role[i] \in {"PLAYER", "OBSERVER"}
      BY <1>2, IndexIs
    <2>2. t = [u EXCEPT !.number_clients = @ - 1,
                        !.player_id[i] = NoClient, !.role[i] = "NONE",
                        !.is_connected[i] = FALSE,
                        !.hand[i] = NoHand, !.room[i] = 0]
      BY <1>2 DEF RemovePlayer
    <2>3. Frame(s, h, {"id_creator"})
      BY DEF Frame
    <2> HIDE DEF h, t, i
    <2>4. Members(h)
      BY <2>3, MembersFrame DEF MemberFields
    <2>5. /\ h.player_id = s.player_id /\ h.role = s.role /\ DOMAIN h = DOMAIN s
          /\ h.number_clients = s.number_clients /\ h.active_players = s.active_players
          /\ MemberFields \subseteq DOMAIN s
      BY <2>3 DEF Frame, Members, MemberFields
    <2>6. s.role[i] = "PLAYER" => i \in Playing(h)
      BY <2>1, <2>5 DEF Playing
    <2>7. /\ u.player_id = s.player_id /\ u.role = s.role /\ DOMAIN u = DOMAIN s
          /\ u.number_clients = s.number_clients
          /\ u.active_players = IF s.role[i] = "PLAYER" THEN s.active_players - 1
                                                       ELSE s.active_players
      BY <2>4, <2>5, <2>6, WithdrawMembers
    <2> HIDE DEF u
    <2>8. /\ t.player_id = [s.player_id EXCEPT ![i] = NoClient]
          /\ t.role = [s.role EXCEPT ![i] = "NONE"]
          /\ t.number_clients = s.number_clients - 1
          /\ t.active_players = u.active_players
          /\ DOMAIN t = DOMAIN s
      BY <2>2, <2>5, <2>7 DEF MemberFields
    <2>9. Occupied(t) = Occupied(s) \ {i} /\ Free(t) = Free(s) \cup {i}
      BY <2>1, <2>8 DEF Members, Occupied, Free
    <2>10. Playing(t) = Playing(s) \ {i}
      BY <2>1, <2>8 DEF Members, Playing
    <2>11. Occupied(s) \in SUBSET Slots /\ Playing(s) \in SUBSET Slots
           /\ (i \in Playing(s) <=> s.role[i] = "PLAYER")
      BY <2>1 DEF Occupied, Playing
    <2>12. t.number_clients = Cardinality(Occupied(t))
      <3>1. Cardinality(Occupied(s) \ {i}) = Cardinality(Occupied(s)) - 1
        BY <2>1, <2>11, SlotSets
      <3>2. s.number_clients = Cardinality(Occupied(s))
        BY DEF Members
      <3> QED BY <2>8, <2>9, <3>1, <3>2
    <2>17. t.active_players = Cardinality(Playing(t))
      <3>1. Cardinality(Playing(s) \ {i}) = IF i \in Playing(s)
                                            THEN Cardinality(Playing(s)) - 1
                                            ELSE Cardinality(Playing(s))
        BY <2>1, <2>11, SlotSets
      <3>2. s.active_players = Cardinality(Playing(s))
        BY DEF Members
      <3> QED BY <2>7, <2>8, <2>10, <2>11, <3>1, <3>2
    <2>13. t.active_players <= GameCapacity
      <3>1. s.active_players \in Nat /\ GameCapacity \in Nat
        <4>1. s.active_players \in 0..MaxClients /\ MaxClients \in Nat
          BY MembersCounts, SlotsFinite
        <4> QED BY <4>1, SessionAssumption
      <3> QED BY <2>7, <2>8, <3>1 DEF Members
    <2>14. \A j, k \in Occupied(t) : t.player_id[j] = t.player_id[k] => j = k
      BY <2>8, <2>9, <2>11 DEF Members
    <2>15. \A j \in Slots : t.role[j] = "NONE" <=> j \in Free(t)
      BY <2>1, <2>8, <2>9 DEF Members
    <2>16. /\ t.player_id \in [Slots -> Clients \cup {NoClient}]
           /\ t.role \in [Slots -> Roles]
      BY <2>8 DEF Members, Roles
    <2> QED BY <2>5, <2>8, <2>12, <2>17, <2>13, <2>14, <2>15, <2>16 DEF Members, t
  <1> QED BY <1>1, <1>2

\* The loops over players[], which remove one after the other.
RemovalStep(f, n, sent) == RemovePlayer(f[n - 1], f[n - 1].player_id[n - 1], sent)

Removals(f, s, m, sent) ==
  f = [n \in 0..m |-> IF n = 0 THEN s ELSE RemovalStep(f, n, sent)]

\* There is such a chain of any length: a longer one extends a shorter one.
LEMMA RemovalsExist ==
  ASSUME NEW s, NEW sent, NEW m \in Nat
  PROVE  \E f : Removals(f, s, m, sent)
  <1> DEFINE Exists(k) ==
               \E f : f = [n \in 0..k |-> IF n = 0 THEN s ELSE RemovalStep(f, n, sent)]
             T == {k \in Nat : ~Exists(k)}
  <1>1. ASSUME NEW k \in T, \A j \in T : k <= j PROVE FALSE
    <2>1. CASE k = 0
      <3> DEFINE f == [n \in 0..0 |-> s]
      <3>1. f = [n \in 0..0 |-> IF n = 0 THEN s ELSE RemovalStep(f, n, sent)]
        OBVIOUS
      <3> HIDE DEF f
      <3>2. Exists(0)
        BY <3>1
      <3> QED BY <2>1, <3>2
    <2>2. CASE k # 0
      <3>1. k - 1 \in Nat /\ k - 1 \notin T
        BY <1>1, <2>2
      <3>2. PICK f : f = [n \in 0..(k - 1) |-> IF n = 0 THEN s ELSE RemovalStep(f, n, sent)]
        BY <3>1
      <3> DEFINE g == [n \in 0..k |-> IF n < k THEN f[n] ELSE RemovalStep(f, k, sent)]
      <3>3. \A n \in 0..(k - 1) : f[n] = IF n = 0 THEN s ELSE RemovalStep(f, n, sent)
        BY <3>2
      <3>4. \A n \in 0..(k - 1) : g[n] = f[n]
        OBVIOUS
      <3>5. g[k] = RemovalStep(f, k, sent)
        OBVIOUS
      <3>6. g = [n \in 0..k |-> g[n]]
        OBVIOUS
      <3> HIDE DEF g
      <3>7. ASSUME NEW n \in 0..k
            PROVE  g[n] = IF n = 0 THEN s ELSE RemovalStep(g, n, sent)
        <4>1. CASE n = 0
          BY <2>2, <3>3, <3>4, <4>1
        <4>2. CASE n # 0
          <5>1. n - 1 \in 0..(k - 1) /\ (n \in 0..(k - 1) \/ n = k)
            BY <4>2
          <5>2. g[n - 1] = f[n - 1]
            BY <3>4, <5>1
          <5>3. RemovalStep(g, n, sent) = RemovalStep(f, n, sent)
            BY <5>2 DEF RemovalStep
          <5> QED BY <3>3, <3>4, <3>5, <4>2, <5>1, <5>3
        <4> QED BY <4>1, <4>2
      <3>8. g = [n \in 0..k |-> IF n = 0 THEN s ELSE RemovalStep(g, n, sent)]
        BY <3>6, <3>7
      <3>9. Exists(k)
        BY <3>8
      <3> QED BY <3>9
    <2> QED BY <2>1, <2>2
  <1>2. T \in SUBSET Nat
    OBVIOUS
  <1>3. T = {}
    <2> HIDE DEF T
    <2> QED BY <1>1, <1>2, LeastNat
  <1> QED BY <1>3 DEF Removals

\* What RemoveAll is: the last of a chain of removals.
LEMMA RemoveAllIs ==
  ASSUME NEW s, NEW sent
  PROVE  \E f : /\ RemoveAll(s, sent) = f[MaxClients]
                /\ f[0] = s
                /\ \A n \in 1..MaxClients : f[n] = RemovalStep(f, n, sent)
  <1> DEFINE g == CHOOSE f : Removals(f, s, MaxClients, sent)
  <1>1. RemoveAll(s, sent) = g[MaxClients]
    BY DEF RemoveAll, RemovalStep, Removals
  <1>2. \E f : Removals(f, s, MaxClients, sent)
    BY SlotsFinite, RemovalsExist
  <1>3. Removals(g, s, MaxClients, sent)
    BY <1>2, Zenon
  <1>4. g[0] = s /\ \A n \in 1..MaxClients : g[n] = RemovalStep(g, n, sent)
    <2> HIDE DEF g
    <2> QED BY <1>3, SlotsFinite DEF Removals
  <1> QED BY <1>1, <1>4

\* The loops that remove everybody.
LEMMA RemoveAllMembers ==
  ASSUME NEW s, Members(s), NEW sent
  PROVE  Members(RemoveAll(s, sent)) /\ DOMAIN RemoveAll(s, sent) = DOMAIN s
  <1>1. PICK f : /\ RemoveAll(s, sent) = f[MaxClients]
                 /\ f[0] = s
                 /\ \A n \in 1..MaxClients : f[n] = RemovalStep(f, n, sent)
    BY RemoveAllIs
  <1> DEFINE Good(n) == Members(f[n]) /\ DOMAIN f[n] = DOMAIN s
             T == {n \in 0..MaxClients : ~Good(n)}
  <1>2. ASSUME NEW n \in T, \A j \in T : n <= j PROVE FALSE
    <2>1. n # 0
      BY <1>1
    <2>2. n \in 1..MaxClients /\ n - 1 \in 0..MaxClients /\ n - 1 \notin T
      BY <1>2, <2>1, SlotsFinite
    <2>3. Good(n - 1)
      BY <2>2
    <2>4. f[n] = RemovePlayer(f[n - 1], f[n - 1].player_id[n - 1], sent)
      BY <1>1, <2>2 DEF RemovalStep
    <2> QED BY <2>3, <2>4, RemovePlayerMembers
  <1>3. T \in SUBSET Nat
    BY SlotsFinite
  <1>4. T = {}
    <2> HIDE DEF T
    <2> QED BY <1>2, <1>3, LeastNat
  <1>5. Good(MaxClients)
    BY <1>4, SlotsFinite
  <1> QED BY <1>1, <1>5

\* A player who becomes an observer keeps his slot.
LEMMA MakeObserverMembers ==
  ASSUME NEW s, Members(s), NEW c, Member(s, c), NEW sent
  PROVE  Members(MakeObserver(s, c, sent))
  <1> DEFINE i == Index(s, c)
             h == [s EXCEPT !.hand[i] = NoHand, !.room[i] = 0]
             u == Withdraw(h, i, sent)
             t == MakeObserver(s, c, sent)
  <1>1. i \in Slots /\ i \in Occupied(s) /\ s.role[i] \in {"PLAYER", "OBSERVER"}
    BY IndexIs
  <1>2. CASE s.role[i] = "OBSERVER"
    BY <1>2 DEF MakeObserver
  <1>3. CASE s.role[i] = "PLAYER"
    <2>1. t = [u EXCEPT !.role[i] = "OBSERVER"]
      BY <1>3 DEF MakeObserver
    <2>2. Frame(s, h, {"hand", "room"})
      BY DEF Frame
    <2> HIDE DEF h, t, i
    <2>3. Members(h)
      BY <2>2, MembersFrame DEF MemberFields
    <2>4. /\ h.player_id = s.player_id /\ h.role = s.role /\ DOMAIN h = DOMAIN s
          /\ h.number_clients = s.number_clients /\ h.active_players = s.active_players
          /\ MemberFields \subseteq DOMAIN s
      BY <2>2 DEF Frame, Members, MemberFields
    <2>5. i \in Playing(h)
      BY <1>1, <1>3, <2>4 DEF Playing
    <2>6. /\ u.player_id = s.player_id /\ u.role = s.role /\ DOMAIN u = DOMAIN s
          /\ u.number_clients = s.number_clients
          /\ u.active_players = s.active_players - 1
      BY <2>3, <2>4, <2>5, WithdrawMembers
    <2> HIDE DEF u
    <2>7. /\ t.player_id = s.player_id
          /\ t.role = [s.role EXCEPT ![i] = "OBSERVER"]
          /\ t.number_clients = s.number_clients
          /\ t.active_players = s.active_players - 1
          /\ DOMAIN t = DOMAIN s
      BY <2>1, <2>4, <2>6 DEF MemberFields
    <2>8. Occupied(t) = Occupied(s) /\ Free(t) = Free(s)
      BY <2>7 DEF Occupied, Free
    <2>9. Playing(t) = Playing(s) \ {i} /\ i \in Playing(s)
      BY <1>1, <1>3, <2>7 DEF Members, Playing
    <2>10. t.active_players = Cardinality(Playing(t))
      <3>1. Playing(s) \in SUBSET Slots
        BY DEF Playing
      <3>2. Cardinality(Playing(s) \ {i}) = Cardinality(Playing(s)) - 1
        BY <1>1, <2>9, <3>1, SlotSets
      <3>3. s.active_players = Cardinality(Playing(s))
        BY DEF Members
      <3> QED BY <2>7, <2>9, <3>2, <3>3
    <2>11. t.active_players <= GameCapacity
      <3>1. s.active_players \in Nat /\ GameCapacity \in Nat
        <4>1. s.active_players \in 0..MaxClients /\ MaxClients \in Nat
          BY MembersCounts, SlotsFinite
        <4> QED BY <4>1, SessionAssumption
      <3> QED BY <2>7, <3>1 DEF Members
    <2>12. t.number_clients = Cardinality(Occupied(t))
      BY <2>7, <2>8 DEF Members
    <2>13. /\ t.player_id \in [Slots -> Clients \cup {NoClient}]
           /\ t.role \in [Slots -> Roles]
      BY <2>7 DEF Members, Roles
    <2>14. \A j \in Slots : t.role[j] = "NONE" <=> j \in Free(t)
      BY <1>1, <1>3, <2>7, <2>8 DEF Members
    <2>15. \A j, k \in Occupied(t) : t.player_id[j] = t.player_id[k] => j = k
      BY <2>7, <2>8 DEF Members
    <2> QED BY <2>4, <2>7, <2>10, <2>11, <2>12, <2>13, <2>14, <2>15 DEF Members, t
  <1> QED BY <1>1, <1>2, <1>3

\* USER_LEFT and CLOSE keep the membership in order, also when they remove
\* everybody.
LEMMA AfterUserLeftMembers ==
  ASSUME NEW s, Members(s), NEW c, Member(s, c), NEW sent
  PROVE  Members(AfterUserLeft(s, c, sent))
  <1> DEFINE m == MakeObserver(s, c, sent)
             t == [m EXCEPT !.is_connected[Index(s, c)] = FALSE]
             a == RemoveAll(t, sent)
             z == [a EXCEPT !.unregister_send = 1]
  <1>1. AfterUserLeft(s, c, sent) = t \/ AfterUserLeft(s, c, sent) = z
    BY DEF AfterUserLeft
  <1>2. Members(m)
    BY MakeObserverMembers
  <1> HIDE DEF m
  <1>3. Frame(m, t, {"is_connected"})
    BY DEF Frame
  <1> HIDE DEF t
  <1>4. Members(t)
    BY <1>2, <1>3, MembersFrame DEF MemberFields
  <1>5. Members(a)
    BY <1>4, RemoveAllMembers
  <1> HIDE DEF a
  <1>6. Frame(a, z, {"unregister_send"})
    BY DEF Frame
  <1> HIDE DEF z
  <1>7. Members(z)
    BY <1>5, <1>6, MembersFrame DEF MemberFields
  <1> QED BY <1>1, <1>4, <1>7

\* PKT_SESSION_CLOSE
LEMMA AfterCloseMembers ==
  ASSUME NEW s, Members(s), NEW sent
  PROVE  Members(AfterClose(s, sent))
  <1> DEFINE t == [s EXCEPT !.game_state = "INACTIVE"]
             a == RemoveAll(t, sent)
             z == [a EXCEPT !.unregister_send = 1]
  <1>1. AfterClose(s, sent) = z
    BY DEF AfterClose
  <1>2. Frame(s, t, {"game_state"})
    BY DEF Frame
  <1> HIDE DEF t
  <1>3. Members(t)
    BY <1>2, MembersFrame DEF MemberFields
  <1>4. Members(a)
    BY <1>3, RemoveAllMembers
  <1> HIDE DEF a
  <1>5. Frame(a, z, {"unregister_send"})
    BY DEF Frame
  <1> HIDE DEF z
  <1>6. Members(z)
    BY <1>4, <1>5, MembersFrame DEF MemberFields
  <1> QED BY <1>1, <1>6

\* A JOIN that is admitted.
LEMMA AfterJoinMembers ==
  ASSUME NEW s, Members(s), NEW c \in Clients, Admissible(s, c)
  PROVE  Members(AfterJoin(s, c))
  <1> DEFINE h == IF s.number_clients = 0
                  THEN [s EXCEPT !.id_creator = c, !.unregister_send = 0] ELSE s
             newRole == IF s.game_state = "INACTIVE" /\ s.active_players < GameCapacity
                        THEN "PLAYER" ELSE "OBSERVER"
  <1>1. AfterJoin(s, c) = AddPlayer(h, c, newRole)
    BY DEF AfterJoin
  <1>2. Frame(s, h, {"id_creator", "unregister_send"})
    BY DEF Frame
  <1> HIDE DEF h
  <1>3. Members(h)
    BY <1>2, MembersFrame DEF MemberFields
  <1>4. /\ h.player_id = s.player_id /\ h.role = s.role
        /\ h.number_clients = s.number_clients /\ h.active_players = s.active_players
    BY <1>2 DEF Frame, Members, MemberFields
  <1>5. Admissible(h, c)
    BY <1>4 DEF Admissible, Member
  <1>6. newRole \in {"PLAYER", "OBSERVER"}
        /\ (newRole = "PLAYER" => h.active_players < GameCapacity)
    BY <1>4
  <1> HIDE DEF newRole
  <1> QED BY <1>1, <1>3, <1>5, <1>6, AddPlayerMembers

\* The operators of the game that leave the membership alone.
LEMMA GameMembers ==
  ASSUME NEW s, Members(s)
  PROVE  /\ \A sent : Members(StartMove(s, sent)) /\ Members(Resolve(s, sent))
         /\ \A row, slot : Members(TakeLine(s, row, slot))
         /\ \A r : Members(WithRules(s, r))
         /\ \A shuffle : Members(Deal(s, shuffle))
  <1>1. ASSUME NEW sent PROVE Members(StartMove(s, sent)) /\ Members(Resolve(s, sent))
    <2>1. GameFields \cap MemberFields = {}
      BY DEF GameFields, MemberFields
    <2> QED BY <2>1, StartMoveFrame, ResolveFrame, MembersFrame
  <1>2. ASSUME NEW row, NEW slot PROVE Members(TakeLine(s, row, slot))
    <2>1. Frame(s, TakeLine(s, row, slot), {"board", "ready", "nb_head"})
      BY TakeLineFrame
    <2> QED BY <2>1, MembersFrame DEF MemberFields
  <1>3. ASSUME NEW r PROVE Members(WithRules(s, r))
    <2> DEFINE F == {"freed", "rules", "heads", "board", "ready", "ready_count"}
    <2>1. Frame(s, WithRules(s, r), F)
      BY DEF WithRules, Frame
    <2>2. F \cap MemberFields = {}
      BY DEF MemberFields
    <2> QED BY <2>1, <2>2, MembersFrame
  <1>4. ASSUME NEW shuffle PROVE Members(Deal(s, shuffle))
    <2> DEFINE F == {"heads", "board", "hand", "game_state"}
    <2>1. Frame(s, Deal(s, shuffle), F)
      <3>1. \A x, y, z, w : Frame(s, [s EXCEPT !.heads = x, !.board = y, !.hand = z,
                                               !.game_state = w], F)
        BY DEF Frame
      <3>2. \E x, y, z, w : Deal(s, shuffle) = [s EXCEPT !.heads = x, !.board = y,
                                                !.hand = z, !.game_state = w]
        BY DEF Deal
      <3>3. PICK x, y, z, w : Deal(s, shuffle) = [s EXCEPT !.heads = x, !.board = y,
                                                   !.hand = z, !.game_state = w]
        BY <3>2
      <3> HIDE DEF F
      <3>4. Frame(s, [s EXCEPT !.heads = x, !.board = y, !.hand = z,
                               !.game_state = w], F)
        BY <3>1
      <3> QED BY <3>3, <3>4, Zenon
    <2>2. F \cap MemberFields = {}
      BY DEF MemberFields
    <2> QED BY <2>1, <2>2, MembersFrame
  <1> QED BY <1>1, <1>2, <1>3, <1>4

-----------------------------------------------------------------------------
(* The membership of every reachable session *)

\* Nobody is in a session that has just been created.
LEMMA InitMembers == Init => Members(session)
  <1> SUFFICES ASSUME Init PROVE Members(session)
    OBVIOUS
  <1>1. /\ session.player_id = [i \in Slots |-> NoClient]
        /\ session.role = [i \in Slots |-> "NONE"]
        /\ session.number_clients = 0 /\ session.active_players = 0
        /\ MemberFields \subseteq DOMAIN session
    BY DEF Init, MemberFields
  <1>2. Occupied(session) = {} /\ Playing(session) = {} /\ Free(session) = Slots
    BY <1>1 DEF Occupied, Playing, Free
  <1>3. Cardinality({}) = 0
    BY FS_EmptySet
  <1>4. 0 <= GameCapacity
    <2>1. GameCapacity \in 1..255
      BY SessionAssumption
    <2> QED BY <2>1
  <1> QED BY <1>1, <1>2, <1>3, <1>4 DEF Members, Roles

\* Every message keeps it in order.
LEMMA NextMembers == Members(session) /\ [Next]_vars => Members(session)'
  <1> SUFFICES ASSUME Members(session), [Next]_vars PROVE Members(session')
    BY DEF Members, Occupied, Playing, Free
  <1>1. ASSUME NEW c \in Clients, Join(c) PROVE Members(session')
    BY <1>1, AfterJoinMembers DEF Join
  <1>2. ASSUME NEW c \in Clients, Leave(c) PROVE Members(session')
    BY <1>2, RemovePlayerMembers DEF Leave
  <1>3. ASSUME NEW c \in Clients, UserLeft(c) PROVE Members(session')
    BY <1>3, AfterUserLeftMembers DEF UserLeft
  <1>4. ASSUME NEW c \in Clients, Close(c) PROVE Members(session')
    BY <1>4, AfterCloseMembers DEF Close
  <1>5. ASSUME NEW c \in Clients, SetRules(c) PROVE Members(session')
    BY <1>5, GameMembers DEF SetRules
  <1>6. ASSUME NEW c \in Clients, SetRulesWild(c) \/ StartWild(c) \/ InfoReturnWild(c)
                                  \/ ResponseExtraWild(c)
        PROVE Members(session')
    BY <1>6 DEF SetRulesWild, StartWild, InfoReturnWild, ResponseExtraWild
  <1>7. ASSUME NEW c \in Clients, StartSession(c) PROVE Members(session')
    BY <1>7, GameMembers DEF StartSession
  <1>8. ASSUME NEW c \in Clients, InfoReturn(c) PROVE Members(session')
    <2> DEFINE i == Index(session, c)
               g(card) == [session EXCEPT !.hand[i] = @ \ {card}, !.ready[i] = card,
                                          !.ready_count = @ + 1]
    <2>1. PICK card, sent : session' = StartMove(g(card), sent)
      BY <1>8 DEF InfoReturn
    <2>2. Frame(session, g(card), {"hand", "ready", "ready_count"})
      BY DEF Frame
    <2> HIDE DEF g
    <2>3. Members(g(card))
      BY <2>2, MembersFrame DEF MemberFields
    <2> QED BY <2>1, <2>3, GameMembers
  <1>9. ASSUME NEW c \in Clients, ResponseExtra(c) PROVE Members(session')
    <2>1. PICK row, sent : session' = Resolve(TakeLine(session, row, Index(session, c)), sent)
      BY <1>9 DEF ResponseExtra
    <2>2. Members(TakeLine(session, row, Index(session, c)))
      BY GameMembers
    <2> QED BY <2>1, <2>2, GameMembers
  <1>10. CASE InfoReturnRefused
    BY <1>10, GameMembers DEF InfoReturnRefused
  <1>11. CASE EndOfBatch
    <2>1. Frame(session, session', {"unregister_send"})
      BY <1>11 DEF EndOfBatch, Frame
    <2> QED BY <2>1, MembersFrame DEF MemberFields
  <1>12. CASE UNCHANGED vars
    BY <1>12 DEF vars
  <1> QED BY <1>1, <1>2, <1>3, <1>4, <1>5, <1>6, <1>7, <1>8, <1>9, <1>10, <1>11, <1>12
          DEF Next

\* The counters of clients and players agree with the slots, and no client holds
\* two of them, through any sequence of messages.
THEOREM MembershipInOrder == Spec => []MembershipOK
  <1>1. Members(session) => MembershipOK
    BY DEF Members, MembershipOK
  <1> QED BY <1>1, InitMembers, NextMembers, PTL DEF Spec

-----------------------------------------------------------------------------
(* The hands, and the fields that have no part in a round *)

AllFields ==
  MemberFields \cup GameFields
    \cup {"is_connected", "hand", "room", "id_creator", "unregister_send", "rules",
          "freed", "heads"}

States == {"INACTIVE", "WAITING", "WAITING_EXTRA"}
On(s) == s.game_state # "INACTIVE"

\* The type of each field; only players have a hand, and while a game is on they
\* all have one, in arrays that are live.
Equipped(s) ==
  /\ DOMAIN s = AllFields
  /\ s.is_connected \in [Slots -> BOOLEAN]
  /\ s.hand \in [Slots -> (SUBSET Cards) \cup {NoHand}]
  /\ s.room \in [Slots -> 0..255]
  /\ s.id_creator \in Clients \cup {NoClient}
  /\ s.unregister_send \in {0, 1}
  /\ s.game_state \in States
  /\ s.rules \in Rules /\ s.freed \in BOOLEAN
  /\ \A i \in Slots \ Playing(s) : s.hand[i] = NoHand
  /\ On(s) => /\ ~s.freed
              /\ \A i \in Playing(s) : s.hand[i] # NoHand \/ s.rules.nbrCardsPlayer = 0

\* A round resolved is a game still on, or over.
LEMMA ResolveState ==
  ASSUME NEW s, "game_state" \in DOMAIN s, NEW sent
  PROVE  Resolve(s, sent).game_state \in States
  <1> DEFINE p == PlaceAll(s)
  <1>1. "game_state" \in DOMAIN p
    BY PlaceAllFrame DEF Frame
  <1>2. \/ \E y : Resolve(s, sent) = [p EXCEPT !.game_state = "WAITING_EXTRA",
                                               !.extra_wait_from = y]
        \/ \E y \in {"INACTIVE", "WAITING"} :
             Resolve(s, sent) = [p EXCEPT !.ready_count = 0, !.game_state = y]
    BY DEF Resolve, AskForRow, p
  <1> HIDE DEF p
  <1> QED BY <1>1, <1>2 DEF States

\* No round starts a game that is not on.
LEMMA StartMoveState ==
  ASSUME NEW s, DOMAIN s = AllFields, s.game_state \in States, NEW sent
  PROVE  /\ StartMove(s, sent).game_state \in States
         /\ On(StartMove(s, sent)) => On(s)
  <1> DEFINE t == [s EXCEPT !.ready = [i \in Slots |-> IF i \in Free(s) \ Playing(s)
                                   THEN NoCard ELSE s.ready[i]]]
  <1>1. StartMove(s, sent) = s \/ (StartMove(s, sent) = Resolve(t, sent) /\ On(s))
    BY DEF StartMove, Due, On
  <1>2. "game_state" \in DOMAIN t
    BY DEF AllFields, GameFields
  <1> HIDE DEF t
  <1> QED BY <1>1, <1>2, ResolveState

\* A withdrawal never starts a game.
LEMMA WithdrawState ==
  ASSUME NEW s, DOMAIN s = AllFields, s.game_state \in States, NEW i, NEW sent
  PROVE  /\ Withdraw(s, i, sent).game_state \in States
         /\ On(Withdraw(s, i, sent)) => On(s)
  <1> DEFINE t == [s EXCEPT !.active_players = @ - 1]
             u == [t EXCEPT !.ready[i] = NoCard]
  <1>1. DOMAIN t = AllFields /\ t.game_state = s.game_state
    OBVIOUS
  <1>2. Withdraw(s, i, sent) = t \/ Withdraw(s, i, sent) = StartMove(u, sent)
    BY DEF Withdraw
  <1> HIDE DEF t
  <1>3. DOMAIN u = AllFields /\ u.game_state = s.game_state
    BY <1>1
  <1> HIDE DEF u
  <1> QED BY <1>1, <1>2, <1>3, StartMoveState DEF On

EquippedFields == {"is_connected", "hand", "room", "id_creator", "unregister_send",
                   "rules", "freed", "role", "player_id"}

\* An operator that leaves those fields alone, and starts no game.
LEMMA EquippedFrame ==
  ASSUME NEW s, Equipped(s), NEW t, NEW F, Frame(s, t, F), F \cap EquippedFields = {},
         t.game_state \in States, On(t) => On(s)
  PROVE  Equipped(t)
  <1>1. /\ t.is_connected = s.is_connected /\ t.hand = s.hand /\ t.room = s.room
        /\ t.id_creator = s.id_creator /\ t.unregister_send = s.unregister_send
        /\ t.rules = s.rules /\ t.freed = s.freed /\ t.role = s.role
        /\ DOMAIN t = AllFields
    BY DEF Equipped, Frame, EquippedFields, AllFields, MemberFields
  <1>2. Playing(t) = Playing(s)
    BY <1>1 DEF Playing
  <1> QED BY <1>1, <1>2 DEF Equipped

\* The operators on the members: the fields of a slot that is taken or left.
LEMMA AddPlayerEquipped ==
  ASSUME NEW s, Members(s), Equipped(s), Free(s) # {}, NEW c \in Clients,
         NEW newRole \in {"PLAYER", "OBSERVER"}, newRole = "PLAYER" => ~On(s)
  PROVE  Equipped(AddPlayer(s, c, newRole))
  <1> DEFINE i == Min(Free(s))
             room == IF newRole = "PLAYER" THEN s.rules.nbrCardsPlayer ELSE 0
             t == AddPlayer(s, c, newRole)
  <1>1. i \in Free(s) /\ i \in Slots
    <2>1. Free(s) \in SUBSET Nat
      BY SlotsFinite DEF Free
    <2>2. i \in Free(s)
      BY <2>1, MinIs
    <2> HIDE DEF i
    <2> QED BY <2>2 DEF Free
  <1>2. /\ DOMAIN t = AllFields
        /\ t.role = [s.role EXCEPT ![i] = newRole]
        /\ t.is_connected = [s.is_connected EXCEPT ![i] = TRUE]
        /\ t.hand = [s.hand EXCEPT ![i] = IF room > 0 THEN {} ELSE NoHand]
        /\ t.room = [s.room EXCEPT ![i] = room]
        /\ t.id_creator = s.id_creator /\ t.unregister_send = s.unregister_send
        /\ t.game_state = s.game_state /\ t.rules = s.rules /\ t.freed = s.freed
    BY DEF AddPlayer, Equipped, AllFields, MemberFields, GameFields
  <1>3. room \in 0..255
    <2>1. s.rules.nbrCardsPlayer \in 0..255
      BY GameAssumption DEF Equipped
    <2> QED BY <2>1
  <1>4. newRole # "PLAYER" => ~(room > 0)
    OBVIOUS
  <1> HIDE DEF i, t, room
  <1>5. s.role[i] = "NONE"
    BY <1>1 DEF Members
  <1>6. /\ newRole = "PLAYER" => Playing(t) = Playing(s) \cup {i}
        /\ newRole # "PLAYER" => Playing(t) = Playing(s)
    BY <1>1, <1>2, <1>5 DEF Members, Playing
  <1>7. t.hand \in [Slots -> (SUBSET Cards) \cup {NoHand}]
    BY <1>1, <1>2 DEF Equipped
  <1>8. \A j \in Slots \ Playing(t) : t.hand[j] = NoHand
    BY <1>1, <1>2, <1>4, <1>6 DEF Equipped
  <1>9. On(t) => /\ ~t.freed
                 /\ \A j \in Playing(t) : t.hand[j] # NoHand \/ t.rules.nbrCardsPlayer = 0
    <2>1. ASSUME On(t), NEW j \in Playing(t)
          PROVE  t.hand[j] # NoHand \/ t.rules.nbrCardsPlayer = 0
      <3>1. On(s) /\ newRole # "PLAYER" /\ j \in Playing(s)
        BY <1>2, <1>6, <2>1 DEF On
      <3>2. j # i /\ j \in Slots
        BY <1>5, <3>1 DEF Playing
      <3> QED BY <1>2, <3>1, <3>2 DEF Equipped
    <2> QED BY <1>2, <2>1 DEF On, Equipped
  <1>10. /\ t.is_connected \in [Slots -> BOOLEAN] /\ t.room \in [Slots -> 0..255]
         /\ t.id_creator \in Clients \cup {NoClient} /\ t.unregister_send \in {0, 1}
         /\ t.game_state \in States /\ t.rules \in Rules /\ t.freed \in BOOLEAN
    BY <1>1, <1>2, <1>3 DEF Equipped
  <1> QED BY <1>2, <1>7, <1>8, <1>9, <1>10 DEF Equipped, t

\* What a session is where the player of slot i is gone, or an observer: with
\* whatever became of the game, which no round can have started.
Parted(s, t, i) ==
  /\ DOMAIN t = AllFields
  /\ t.role \in {[s.role EXCEPT ![i] = "NONE"], [s.role EXCEPT ![i] = "OBSERVER"]}
  /\ t.is_connected \in {s.is_connected, [s.is_connected EXCEPT ![i] = FALSE]}
  /\ t.hand = [s.hand EXCEPT ![i] = NoHand]
  /\ t.room = [s.room EXCEPT ![i] = 0]
  /\ t.id_creator \in {s.id_creator, s.player_id[0], s.player_id[1]}
  /\ t.unregister_send = s.unregister_send /\ t.rules = s.rules /\ t.freed = s.freed
  /\ t.game_state \in States /\ (On(t) => On(s))

\* A player who is gone, or an observer, takes his hand with him.
LEMMA PartedEquipped ==
  ASSUME NEW s, Members(s), Equipped(s), NEW i \in Slots, NEW t, Parted(s, t, i)
  PROVE  Equipped(t)
  <1>1. Playing(t) = Playing(s) \ {i}
    BY DEF Parted, Members, Playing
  <1>2. /\ t.hand \in [Slots -> (SUBSET Cards) \cup {NoHand}]
        /\ \A j \in Slots : j # i => t.hand[j] = s.hand[j]
        /\ t.hand[i] = NoHand
    BY DEF Parted, Equipped
  <1>3. \A j \in Slots \ Playing(t) : t.hand[j] = NoHand
    <2>1. \A j \in Slots \ Playing(s) : s.hand[j] = NoHand
      BY DEF Equipped
    <2> QED BY <1>1, <1>2, <2>1
  <1>4. On(t) => /\ ~t.freed
                 /\ \A j \in Playing(t) : t.hand[j] # NoHand \/ t.rules.nbrCardsPlayer = 0
    <2>1. Playing(s) \in SUBSET Slots
      BY DEF Playing
    <2> QED BY <1>1, <1>2, <2>1 DEF Equipped, Parted
  <1>5. t.id_creator \in Clients \cup {NoClient}
    <2>1. 0 \in Slots /\ 1 \in Slots
      BY SlotsFinite DEF Slots
    <2>2. s.player_id[0] \in Clients \cup {NoClient} /\ s.player_id[1] \in Clients \cup {NoClient}
      BY <2>1 DEF Members
    <2> QED BY <2>2 DEF Parted, Equipped
  <1>6. t.is_connected \in [Slots -> BOOLEAN] /\ t.room \in [Slots -> 0..255]
    <2>1. s.is_connected \in [Slots -> BOOLEAN] /\ s.room \in [Slots -> 0..255]
      BY DEF Equipped
    <2>2. 0 \in 0..255
      OBVIOUS
    <2>3. /\ t.is_connected \in {s.is_connected, [s.is_connected EXCEPT ![i] = FALSE]}
          /\ t.room = [s.room EXCEPT ![i] = 0]
      BY DEF Parted
    <2>4. t.room \in [Slots -> 0..255]
      BY <2>1, <2>2, <2>3
    <2> QED BY <2>1, <2>3, <2>4
  <1> QED BY <1>2, <1>3, <1>4, <1>5, <1>6 DEF Equipped, Parted

\* remove_player
LEMMA RemovePlayerEquipped ==
  ASSUME NEW s, Members(s), Equipped(s), NEW c, NEW sent
  PROVE  Equipped(RemovePlayer(s, c, sent))
  <1>1. CASE ~Member(s, c)
    BY <1>1 DEF RemovePlayer
  <1>2. CASE Member(s, c)
    <2> DEFINE i == Index(s, c)
               h == IF c = s.id_creator /\ s.number_clients > 1
                    THEN [s EXCEPT !.id_creator = Heir(s, i)] ELSE s
               u == IF s.role[i] = "PLAYER" THEN Withdraw(h, i, sent) ELSE h
               t == RemovePlayer(s, c, sent)
    <2>1. i \in Slots
      BY <1>2, IndexIs
    <2>2. t = [u EXCEPT !.number_clients = @ - 1,
                        !.player_id[i] = NoClient, !.role[i] = "NONE",
                        !.is_connected[i] = FALSE,
                        !.hand[i] = NoHand, !.room[i] = 0]
      BY <1>2 DEF RemovePlayer
    <2>3. Frame(s, h, {"id_creator"})
          /\ h.id_creator \in {s.id_creator, s.player_id[0], s.player_id[1]}
      BY DEF Frame, Heir, Equipped, AllFields
    <2> HIDE DEF h, t, i
    <2>4. DOMAIN h = AllFields /\ h.game_state = s.game_state /\ h.game_state \in States
      BY <2>3 DEF Frame, Equipped, AllFields, GameFields
    <2>5. /\ Frame(h, Withdraw(h, i, sent), GameFields \cup {"active_players"})
          /\ Withdraw(h, i, sent).game_state \in States
          /\ On(Withdraw(h, i, sent)) => On(h)
      BY <2>4, WithdrawFrame, WithdrawState DEF AllFields, MemberFields
    <2>6. /\ Frame(h, u, GameFields \cup {"active_players"})
          /\ u.game_state \in States /\ (On(u) => On(s))
      BY <2>4, <2>5 DEF Frame, On
    <2> HIDE DEF u
    <2>7. /\ u.role = s.role /\ u.is_connected = s.is_connected /\ u.hand = s.hand
          /\ u.room = s.room /\ u.rules = s.rules /\ u.freed = s.freed
          /\ u.id_creator \in {s.id_creator, s.player_id[0], s.player_id[1]}
          /\ u.unregister_send = s.unregister_send /\ DOMAIN u = AllFields
      BY <2>3, <2>4, <2>6 DEF Frame, AllFields, MemberFields, GameFields, Equipped
    <2>8. Parted(s, t, i)
      BY <2>2, <2>6, <2>7 DEF Parted, On, AllFields, MemberFields, GameFields
    <2> QED BY <2>1, <2>8, PartedEquipped DEF t
  <1> QED BY <1>1, <1>2

\* The loops that remove everybody.
LEMMA RemoveAllEquipped ==
  ASSUME NEW s, Members(s), Equipped(s), NEW sent
  PROVE  Equipped(RemoveAll(s, sent))
  <1>1. PICK f : /\ RemoveAll(s, sent) = f[MaxClients]
                 /\ f[0] = s
                 /\ \A n \in 1..MaxClients : f[n] = RemovalStep(f, n, sent)
    BY RemoveAllIs
  <1> DEFINE Good(n) == Members(f[n]) /\ Equipped(f[n])
             T == {n \in 0..MaxClients : ~Good(n)}
  <1>2. ASSUME NEW n \in T, \A j \in T : n <= j PROVE FALSE
    <2>1. n # 0
      BY <1>1
    <2>2. n \in 1..MaxClients /\ n - 1 \in 0..MaxClients /\ n - 1 \notin T
      BY <1>2, <2>1, SlotsFinite
    <2>3. Good(n - 1)
      BY <2>2
    <2>4. f[n] = RemovePlayer(f[n - 1], f[n - 1].player_id[n - 1], sent)
      BY <1>1, <2>2 DEF RemovalStep
    <2> QED BY <2>3, <2>4, RemovePlayerMembers, RemovePlayerEquipped
  <1>3. T \in SUBSET Nat
    BY SlotsFinite
  <1>4. T = {}
    <2> HIDE DEF T
    <2> QED BY <1>2, <1>3, LeastNat
  <1>5. Good(MaxClients)
    BY <1>4, SlotsFinite
  <1> QED BY <1>1, <1>5

\* change_player_role
LEMMA MakeObserverEquipped ==
  ASSUME NEW s, Members(s), Equipped(s), NEW c, Member(s, c), NEW sent
  PROVE  Equipped(MakeObserver(s, c, sent))
  <1> DEFINE i == Index(s, c)
             h == [s EXCEPT !.hand[i] = NoHand, !.room[i] = 0]
             u == Withdraw(h, i, sent)
             t == MakeObserver(s, c, sent)
  <1>1. i \in Slots
    BY IndexIs
  <1>2. CASE s.role[i] = "OBSERVER"
    BY <1>2 DEF MakeObserver
  <1>3. CASE s.role[i] # "OBSERVER"
    <2>1. t = [u EXCEPT !.role[i] = "OBSERVER"]
      BY <1>3 DEF MakeObserver
    <2>2. /\ DOMAIN h = AllFields /\ h.game_state = s.game_state /\ h.game_state \in States
          /\ h.hand = [s.hand EXCEPT ![i] = NoHand] /\ h.room = [s.room EXCEPT ![i] = 0]
          /\ h.role = s.role /\ h.is_connected = s.is_connected
          /\ h.id_creator = s.id_creator /\ h.unregister_send = s.unregister_send
          /\ h.rules = s.rules /\ h.freed = s.freed
      BY DEF Equipped, AllFields, MemberFields, GameFields
    <2> HIDE DEF h, t, i
    <2>3. /\ Frame(h, u, GameFields \cup {"active_players"})
          /\ u.game_state \in States /\ (On(u) => On(h))
      BY <2>2, WithdrawFrame, WithdrawState DEF AllFields, MemberFields
    <2> HIDE DEF u
    <2>4. /\ u.hand = h.hand /\ u.room = h.room
          /\ u.role = h.role /\ u.is_connected = h.is_connected
          /\ u.id_creator = h.id_creator /\ u.unregister_send = h.unregister_send
          /\ u.rules = h.rules /\ u.freed = h.freed /\ DOMAIN u = AllFields
      BY <2>2, <2>3 DEF Frame, AllFields, MemberFields, GameFields
    <2>5. Parted(s, t, i)
      BY <2>1, <2>2, <2>3, <2>4 DEF Parted, On, AllFields, MemberFields, GameFields
    <2> QED BY <1>1, <2>5, PartedEquipped DEF t
  <1> QED BY <1>2, <1>3

-----------------------------------------------------------------------------
(* The cards that are dealt *)

\* The place in the deck of the first card that is dealt to slot i.
First(s, i) == s.rules.nbrLign + Rank(s, i) * s.rules.nbrCardsPlayer

\* How many players sit before slot i.
LEMMA RankIs ==
  ASSUME NEW s, NEW i \in Seated(s)
  PROVE  /\ Rank(s, i) \in Nat /\ Rank(s, i) + 1 <= Cardinality(Seated(s))
         /\ \A j \in Seated(s) : j < i => Rank(s, j) + 1 <= Rank(s, i)
  <1> DEFINE Before(k) == {j \in Seated(s) : j < k}
  <1>1. Seated(s) \in SUBSET Slots /\ Seated(s) \subseteq Nat
    BY SlotsFinite DEF Seated, Playing
  <1>2. \A k \in Seated(s) : /\ Before(k) \in SUBSET Slots /\ k \in Slots /\ k \notin Before(k)
                           /\ Before(k) \cup {k} \in SUBSET Slots
    BY <1>1
  <1>3. \A k \in Seated(s) : /\ Cardinality(Before(k)) \in Nat
                           /\ Cardinality(Before(k) \cup {k}) = Cardinality(Before(k)) + 1
    <2> HIDE DEF Before
    <2>1. ASSUME NEW k \in Seated(s)
          PROVE  /\ Cardinality(Before(k)) \in Nat
                 /\ Cardinality(Before(k) \cup {k}) = Cardinality(Before(k)) + 1
      <3>1. Cardinality(Before(k)) \in 0..MaxClients
            /\ Cardinality(Before(k) \cup {k}) = Cardinality(Before(k)) + 1
        BY <1>2, SlotSets
      <3> QED BY <3>1, SlotsFinite
    <2> QED BY <2>1
  <1>4. ASSUME NEW S \in SUBSET Slots, NEW T \in SUBSET S
        PROVE  Cardinality(T) <= Cardinality(S)
    BY FS_Subset, SlotSets
  <1>5. Before(i) \cup {i} \in SUBSET Seated(s)
    OBVIOUS
  <1>6. ASSUME NEW j \in Seated(s), j < i PROVE Before(j) \cup {j} \in SUBSET Before(i)
    BY <1>1, <1>6
  <1>7. \A k \in Seated(s) : Rank(s, k) = Cardinality(Before(k))
    BY DEF Rank
  <1> HIDE DEF Before
  <1>8. Cardinality(Before(i)) + 1 <= Cardinality(Seated(s))
    BY <1>1, <1>3, <1>4, <1>5
  <1>9. ASSUME NEW j \in Seated(s), j < i
        PROVE  Cardinality(Before(j)) + 1 <= Cardinality(Before(i))
    BY <1>2, <1>3, <1>4, <1>6, <1>9
  <1> QED BY <1>3, <1>7, <1>8, <1>9

\* A player whom the deck suffices for is dealt a slice of it.
LEMMA DealtIs ==
  ASSUME NEW s, s.rules \in Rules, NEW shuffle \in Shuffles, NEW i \in Served(s)
  PROVE  LET ids == Shuffled(shuffle.cards, s.rules.nbrCards)
             n   == s.rules.nbrCardsPlayer
         IN  /\ First(s, i) \in Nat /\ n \in Nat /\ First(s, i) + n <= s.rules.nbrCards
             /\ ToSet(HandDealt(s, ids, i)) = Slice(ids, First(s, i), n)
             /\ ToSet(HandDealt(s, ids, i)) \subseteq Deck(s)
  <1> DEFINE ids == Shuffled(shuffle.cards, s.rules.nbrCards)
             n   == s.rules.nbrCardsPlayer
             l   == s.rules.nbrLign
             r   == Rank(s, i)
             a   == First(s, i)
  <1>1. n \in Nat /\ l \in Nat
    <2>1. s.rules.nbrCardsPlayer \in 0..255 /\ s.rules.nbrLign \in 1..255
      BY GameAssumption
    <2> QED BY <2>1
  <1>2. i \in Seated(s) /\ l + (r + 1) * n <= s.rules.nbrCards
    BY DEF Served
  <1>3. r \in Nat
    BY <1>2, RankIs
  <1>4. ids \in Seq(Deck(s)) /\ Len(ids) = s.rules.nbrCards
    <2>1. shuffle.cards \in Bijection(1..Cardinality(Cards), Cards)
      BY SessionAssumption
    <2>2. s.rules.nbrCards \in 0..Cardinality(Cards)
      BY CardsAre
    <2> QED BY <2>1, <2>2, ShuffledIs DEF Deck
  <1>5. a = l + r * n
    BY DEF First
  <1>6. HandDealt(s, ids, i) = SubSeq(ids, a + 1, a + n)
    BY DEF HandDealt, First
  <1> HIDE DEF ids, n, l, r, a
  <1>7. r * n \in Nat /\ (r + 1) * n = r * n + n
    BY <1>1, <1>3
  <1>8. a \in Nat /\ a + n <= Len(ids)
    BY <1>1, <1>2, <1>4, <1>5, <1>7
  <1>9. ToSet(HandDealt(s, ids, i)) = Slice(ids, a, n)
    BY <1>1, <1>4, <1>6, <1>8, SliceIs
  <1>10. \A k \in (a + 1)..(a + n) : k \in 1..Len(ids)
    BY <1>1, <1>4, <1>8
  <1>11. \A k \in (a + 1)..(a + n) : ids[k] \in Deck(s)
    BY <1>4, <1>10
  <1>12. Slice(ids, a, n) \subseteq Deck(s)
    BY <1>11 DEF Slice
  <1> QED BY <1>1, <1>4, <1>8, <1>9, <1>12 DEF ids, n, a

-----------------------------------------------------------------------------
(* The hands of every reachable session *)

\* USER_LEFT
LEMMA AfterUserLeftEquipped ==
  ASSUME NEW s, Members(s), Equipped(s), NEW c, Member(s, c), NEW sent
  PROVE  Equipped(AfterUserLeft(s, c, sent))
  <1> DEFINE m == MakeObserver(s, c, sent)
             t == [m EXCEPT !.is_connected[Index(s, c)] = FALSE]
             a == RemoveAll(t, sent)
             z == [a EXCEPT !.unregister_send = 1]
  <1>1. AfterUserLeft(s, c, sent) = t \/ AfterUserLeft(s, c, sent) = z
    BY DEF AfterUserLeft
  <1>2. Members(m) /\ Equipped(m) /\ Index(s, c) \in Slots
    BY MakeObserverMembers, MakeObserverEquipped, IndexIs
  <1> HIDE DEF m
  <1>3. Frame(m, t, {"is_connected"})
        /\ t.is_connected = [m.is_connected EXCEPT ![Index(s, c)] = FALSE]
    BY <1>2 DEF Frame, Equipped, AllFields
  <1> HIDE DEF t
  <1>4. Members(t)
    BY <1>2, <1>3, MembersFrame DEF MemberFields
  <1>5. Equipped(t)
    <2>1. /\ t.hand = m.hand /\ t.room = m.room /\ t.id_creator = m.id_creator
          /\ t.unregister_send = m.unregister_send /\ t.rules = m.rules
          /\ t.freed = m.freed /\ t.game_state = m.game_state /\ t.role = m.role
          /\ DOMAIN t = AllFields
      BY <1>2, <1>3 DEF Equipped, Frame, AllFields, MemberFields, GameFields
    <2>2. t.is_connected \in [Slots -> BOOLEAN]
      BY <1>2, <1>3 DEF Equipped
    <2>3. Playing(t) = Playing(m) /\ (On(t) <=> On(m))
      BY <2>1 DEF Playing, On
    <2> QED BY <1>2, <2>1, <2>2, <2>3 DEF Equipped
  <1>6. Members(a) /\ Equipped(a)
    BY <1>4, <1>5, RemoveAllMembers, RemoveAllEquipped
  <1> HIDE DEF a
  <1>7. Equipped(z)
    BY <1>6 DEF Equipped, Playing, On, AllFields, GameFields, MemberFields
  <1> QED BY <1>1, <1>5, <1>7

\* PKT_SESSION_CLOSE
LEMMA AfterCloseEquipped ==
  ASSUME NEW s, Members(s), Equipped(s), NEW sent
  PROVE  Equipped(AfterClose(s, sent))
  <1> DEFINE t == [s EXCEPT !.game_state = "INACTIVE"]
             a == RemoveAll(t, sent)
             z == [a EXCEPT !.unregister_send = 1]
  <1>1. AfterClose(s, sent) = z
    BY DEF AfterClose
  <1>2. Frame(s, t, {"game_state"}) /\ t.game_state = "INACTIVE"
    BY DEF Frame, Equipped, AllFields, GameFields
  <1> HIDE DEF t
  <1>3. Members(t)
    BY <1>2, MembersFrame DEF MemberFields
  <1>4. Equipped(t)
    BY <1>2, EquippedFrame DEF EquippedFields, On, States
  <1>5. Members(a) /\ Equipped(a)
    BY <1>3, <1>4, RemoveAllMembers, RemoveAllEquipped
  <1> HIDE DEF a
  <1> QED BY <1>1, <1>5 DEF Equipped, Playing, On, AllFields, GameFields, MemberFields

\* PKT_SESSION_JOIN
LEMMA AfterJoinEquipped ==
  ASSUME NEW s, Members(s), Equipped(s), NEW c \in Clients, Admissible(s, c)
  PROVE  Equipped(AfterJoin(s, c))
  <1> DEFINE h == IF s.number_clients = 0
                  THEN [s EXCEPT !.id_creator = c, !.unregister_send = 0] ELSE s
             newRole == IF s.game_state = "INACTIVE" /\ s.active_players < GameCapacity
                        THEN "PLAYER" ELSE "OBSERVER"
  <1>1. AfterJoin(s, c) = AddPlayer(h, c, newRole)
    BY DEF AfterJoin
  <1>2. Frame(s, h, {"id_creator", "unregister_send"})
    BY DEF Frame
  <1>3. Equipped(h) /\ h.game_state = s.game_state
    BY DEF Equipped, Playing, On, AllFields, GameFields, MemberFields
  <1> HIDE DEF h
  <1>4. Members(h)
    BY <1>2, MembersFrame DEF MemberFields
  <1>5. Free(h) # {}
    <2>1. Free(h) = Free(s)
      BY <1>2 DEF Frame, Free, Members, MemberFields
    <2> QED BY <2>1, MembersCounts DEF Admissible
  <1>6. newRole \in {"PLAYER", "OBSERVER"} /\ (newRole = "PLAYER" => ~On(h))
    BY <1>3 DEF On
  <1> HIDE DEF newRole
  <1> QED BY <1>1, <1>3, <1>4, <1>5, <1>6, AddPlayerEquipped

-----------------------------------------------------------------------------
(* Who is in the session afterwards *)

\* t has the members of s, but for those of Gone.
Without(s, t, Gone) ==
  /\ t.unregister_send = s.unregister_send
  /\ \A d \in Clients : Member(t, d) <=> Member(s, d) /\ d \notin Gone
  /\ \A i \in Slots : s.player_id[i] = NoClient => t.player_id[i] = NoClient

\* A member is a client with a slot.
LEMMA MemberIs ==
  ASSUME NEW s, Members(s)
  PROVE  /\ \A d : Member(s, d) <=> \E i \in Slots : s.player_id[i] = d /\ d # NoClient
         /\ s.number_clients = 0 <=> \A i \in Slots : s.player_id[i] = NoClient
  <1>1. ASSUME NEW d
        PROVE  Member(s, d) <=> \E i \in Slots : s.player_id[i] = d /\ d # NoClient
    BY DEF Member, Members, Free
  <1>2. s.number_clients = 0 <=> Occupied(s) = {}
    <2>1. IsFiniteSet(Occupied(s)) /\ s.number_clients = Cardinality(Occupied(s))
      <3>1. Occupied(s) \in SUBSET Slots
        BY DEF Occupied
      <3> QED BY <3>1, SlotSets DEF Members
    <2> QED BY <2>1, FS_EmptySet
  <1>3. Occupied(s) = {} <=> \A i \in Slots : s.player_id[i] = NoClient
    BY DEF Occupied, Free
  <1> QED BY <1>1, <1>2, <1>3

\* remove_player lets one member go, or nobody.
LEMMA RemovePlayerWho ==
  ASSUME NEW s, Members(s), Equipped(s), NEW c, NEW sent
  PROVE  LET t == RemovePlayer(s, c, sent)
         IN  /\ Without(s, t, {c})
             /\ \A i \in Slots : s.player_id[i] = c => t.player_id[i] = NoClient
  <1> DEFINE t == RemovePlayer(s, c, sent)
  <1>1. CASE ~Member(s, c)
    <2>1. t = s
      BY <1>1 DEF RemovePlayer
    <2>2. \A i \in Slots : s.player_id[i] = c => c = NoClient
      BY <1>1, MemberIs
    <2> HIDE DEF t
    <2>3. Without(s, t, {c}) /\ \A i \in Slots : s.player_id[i] = c => t.player_id[i] = NoClient
      BY <1>1, <2>1, <2>2 DEF Without
    <2> QED BY <2>3 DEF t
  <1>2. CASE Member(s, c)
    <2> DEFINE i == Index(s, c)
               h == IF c = s.id_creator /\ s.number_clients > 1
                    THEN [s EXCEPT !.id_creator = Heir(s, i)] ELSE s
               u == IF s.role[i] = "PLAYER" THEN Withdraw(h, i, sent) ELSE h
    <2>1. i \in Slots /\ i \in Occupied(s) /\ s.player_id[i] = c
      BY <1>2, IndexIs
    <2>2. t = [u EXCEPT !.number_clients = @ - 1,
                        !.player_id[i] = NoClient, !.role[i] = "NONE",
                        !.is_connected[i] = FALSE,
                        !.hand[i] = NoHand, !.room[i] = 0]
      BY <1>2 DEF RemovePlayer
    <2>3. Frame(s, h, {"id_creator"})
      BY DEF Frame
    <2>4. Members(t)
      BY RemovePlayerMembers
    <2> HIDE DEF h, t, i
    <2>5. DOMAIN h = AllFields
      BY <2>3 DEF Frame, Equipped
    <2>6. Frame(h, Withdraw(h, i, sent), GameFields \cup {"active_players"})
      BY <2>5, WithdrawFrame DEF AllFields, MemberFields
    <2>7. Frame(h, u, GameFields \cup {"active_players"})
      BY <2>6 DEF Frame
    <2> HIDE DEF u
    <2>8. /\ u.player_id = s.player_id /\ u.unregister_send = s.unregister_send
          /\ DOMAIN u = AllFields
      BY <2>3, <2>5, <2>7 DEF Frame, AllFields, MemberFields, GameFields, Equipped
    <2>9. /\ t.player_id = [s.player_id EXCEPT ![i] = NoClient]
          /\ t.unregister_send = s.unregister_send
      BY <2>2, <2>8 DEF AllFields, MemberFields
    <2>10. \A j \in Slots : t.player_id[j] = IF j = i THEN NoClient ELSE s.player_id[j]
      BY <2>1, <2>9 DEF Members
    <2>11. \A j \in Slots : s.player_id[j] = c => j = i
      BY <2>1 DEF Members, Occupied, Free
    <2>12. \A d \in Clients : Member(t, d) <=> Member(s, d) /\ d # c
      <3>1. c # NoClient
        BY <2>1 DEF Occupied, Free
      <3>2. ASSUME NEW d \in Clients PROVE Member(t, d) <=> Member(s, d) /\ d # c
        <4>1. Member(t, d) <=> \E j \in Slots : t.player_id[j] = d /\ d # NoClient
          BY <2>4, MemberIs
        <4>2. Member(s, d) <=> \E j \in Slots : s.player_id[j] = d /\ d # NoClient
          BY MemberIs
        <4> QED BY <2>1, <2>10, <2>11, <3>1, <4>1, <4>2
      <3> QED BY <3>2
    <2>13. /\ Without(s, t, {c})
           /\ \A j \in Slots : s.player_id[j] = c => t.player_id[j] = NoClient
      BY <2>1, <2>9, <2>10, <2>11, <2>12 DEF Without
    <2> QED BY <2>13 DEF t
  <1> QED BY <1>1, <1>2

\* Nobody is in the session any more.
Empty(t) == t.number_clients = 0 /\ \A d \in Clients : ~Member(t, d)

\* The loops over players[] let everybody go.
LEMMA RemoveAllWho ==
  ASSUME NEW s, Members(s), Equipped(s), NEW sent
  PROVE  Empty(RemoveAll(s, sent)) /\ RemoveAll(s, sent).unregister_send = s.unregister_send
  <1>1. PICK f : /\ RemoveAll(s, sent) = f[MaxClients]
                 /\ f[0] = s
                 /\ \A n \in 1..MaxClients : f[n] = RemovalStep(f, n, sent)
    BY RemoveAllIs
  <1> DEFINE Good(n) == /\ Members(f[n]) /\ Equipped(f[n])
                        /\ f[n].unregister_send = s.unregister_send
                        /\ \A i \in 0..(n - 1) : f[n].player_id[i] = NoClient
             T == {n \in 0..MaxClients : ~Good(n)}
  <1>2. ASSUME NEW n \in T, \A j \in T : n <= j PROVE FALSE
    <2>1. n # 0
      BY <1>1
    <2>2. n \in 1..MaxClients /\ n - 1 \in 0..MaxClients /\ n - 1 \notin T
      BY <1>2, <2>1, SlotsFinite
    <2>3. Good(n - 1)
      BY <2>2
    <2> DEFINE c == f[n - 1].player_id[n - 1]
    <2>4. f[n] = RemovePlayer(f[n - 1], c, sent)
      BY <1>1, <2>2 DEF RemovalStep
    <2>5. Members(f[n]) /\ Equipped(f[n])
      BY <2>3, <2>4, RemovePlayerMembers, RemovePlayerEquipped
    <2>6. /\ Without(f[n - 1], f[n], {c})
          /\ \A i \in Slots : f[n - 1].player_id[i] = c => f[n].player_id[i] = NoClient
      BY <2>3, <2>4, RemovePlayerWho
    <2>7. \A i \in 0..(n - 1) : i \in Slots /\ (i \in 0..((n - 1) - 1) \/ i = n - 1)
      BY <2>2, SlotsFinite DEF Slots
    <2>8. \A i \in 0..(n - 1) : f[n].player_id[i] = NoClient
      BY <2>3, <2>6, <2>7 DEF Without
    <2>9. f[n].unregister_send = s.unregister_send
      BY <2>3, <2>6 DEF Without
    <2> QED BY <2>5, <2>8, <2>9
  <1>3. T \in SUBSET Nat
    BY SlotsFinite
  <1>4. T = {}
    <2> HIDE DEF T
    <2> QED BY <1>2, <1>3, LeastNat
  <1>5. Good(MaxClients)
    BY <1>4, SlotsFinite
  <1>6. \A i \in Slots : f[MaxClients].player_id[i] = NoClient
    BY <1>5 DEF Slots
  <1>7. Empty(f[MaxClients])
    BY <1>5, <1>6, MemberIs DEF Empty
  <1> QED BY <1>1, <1>5, <1>7

\* USER_LEFT: either everybody keeps his slot, or nobody does.
LEMMA AfterUserLeftWho ==
  ASSUME NEW s, Members(s), Equipped(s), NEW c, Member(s, c), NEW sent
  PROVE  LET t == AfterUserLeft(s, c, sent)
         IN  \/ Without(s, t, {}) /\ t.number_clients # 0
             \/ Empty(t) /\ t.unregister_send = 1
  <1> DEFINE i == Index(s, c)
             h == [s EXCEPT !.hand[i] = NoHand, !.room[i] = 0]
             w == Withdraw(h, i, sent)
             m == MakeObserver(s, c, sent)
             t == [m EXCEPT !.is_connected[i] = FALSE]
             a == RemoveAll(t, sent)
             z == [a EXCEPT !.unregister_send = 1]
  <1>1. AfterUserLeft(s, c, sent) = t \/ AfterUserLeft(s, c, sent) = z
    BY DEF AfterUserLeft
  <1>2. Members(m) /\ Equipped(m) /\ i \in Slots
    BY MakeObserverMembers, MakeObserverEquipped, IndexIs
  <1>3. m.player_id = s.player_id /\ m.unregister_send = s.unregister_send
    <2>1. m = s \/ m = [w EXCEPT !.role[i] = "OBSERVER"]
      BY DEF MakeObserver
    <2> HIDE DEF m, i
    <2>2. Frame(s, h, {"hand", "room"})
      BY DEF Frame
    <2> HIDE DEF h
    <2>3. DOMAIN h = AllFields
      BY <2>2 DEF Frame, Equipped
    <2>4. Frame(h, w, GameFields \cup {"active_players"})
      BY <2>3, WithdrawFrame DEF AllFields, MemberFields
    <2> HIDE DEF w
    <2>5. /\ w.player_id = s.player_id /\ w.unregister_send = s.unregister_send
          /\ DOMAIN w = AllFields
      BY <2>2, <2>3, <2>4 DEF Frame, AllFields, MemberFields, GameFields, Equipped
    <2> QED BY <2>1, <2>5 DEF AllFields, MemberFields
  <1> HIDE DEF m
  <1>4. Frame(m, t, {"is_connected"})
        /\ t.is_connected = [m.is_connected EXCEPT ![i] = FALSE]
    BY <1>2 DEF Frame, Equipped, AllFields
  <1> HIDE DEF t, i
  <1>5. Members(t)
    BY <1>2, <1>4, MembersFrame DEF MemberFields
  <1>6. /\ t.hand = m.hand /\ t.room = m.room /\ t.id_creator = m.id_creator
        /\ t.unregister_send = m.unregister_send /\ t.rules = m.rules
        /\ t.freed = m.freed /\ t.game_state = m.game_state /\ t.role = m.role
        /\ t.player_id = m.player_id /\ DOMAIN t = AllFields
    BY <1>2, <1>4 DEF Equipped, Frame, AllFields, MemberFields, GameFields
  <1>7. Equipped(t)
    <2>1. t.is_connected \in [Slots -> BOOLEAN]
      BY <1>2, <1>4 DEF Equipped
    <2>2. Playing(t) = Playing(m) /\ (On(t) <=> On(m))
      BY <1>6 DEF Playing, On
    <2> QED BY <1>2, <1>6, <2>1, <2>2 DEF Equipped
  <1>8. Without(s, t, {}) /\ t.number_clients # 0
    <2>1. t.player_id = s.player_id /\ t.unregister_send = s.unregister_send
      BY <1>3, <1>6
    <2>2. ASSUME NEW d PROVE Member(t, d) <=> Member(s, d)
      <3>1. Member(t, d) <=> \E j \in Slots : t.player_id[j] = d /\ d # NoClient
        BY <1>5, MemberIs
      <3>2. Member(s, d) <=> \E j \in Slots : s.player_id[j] = d /\ d # NoClient
        BY MemberIs
      <3> QED BY <2>1, <3>1, <3>2
    <2>3. t.number_clients # 0
      <3>1. \E j \in Slots : s.player_id[j] = c /\ c # NoClient
        BY MemberIs
      <3> QED BY <1>5, <2>1, <3>1, MemberIs
    <2> QED BY <2>1, <2>2, <2>3 DEF Without
  <1>9. Empty(z) /\ z.unregister_send = 1
    <2>1. Empty(a) /\ Members(a) /\ Equipped(a)
      BY <1>5, <1>7, RemoveAllWho, RemoveAllMembers, RemoveAllEquipped
    <2> HIDE DEF a
    <2>2. /\ z.player_id = a.player_id /\ z.role = a.role
          /\ z.number_clients = a.number_clients /\ z.unregister_send = 1
      BY <2>1 DEF Equipped, AllFields
    <2> HIDE DEF z
    <2> QED BY <2>1, <2>2 DEF Empty, Member
  <1> QED BY <1>1, <1>8, <1>9

\* CLOSE: nobody stays.
LEMMA AfterCloseWho ==
  ASSUME NEW s, Members(s), Equipped(s), NEW sent
  PROVE  Empty(AfterClose(s, sent)) /\ AfterClose(s, sent).unregister_send = 1
  <1> DEFINE t == [s EXCEPT !.game_state = "INACTIVE"]
             a == RemoveAll(t, sent)
             z == [a EXCEPT !.unregister_send = 1]
  <1>1. AfterClose(s, sent) = z
    BY DEF AfterClose
  <1>2. Frame(s, t, {"game_state"}) /\ t.game_state = "INACTIVE"
    BY DEF Frame, Equipped, AllFields, GameFields
  <1> HIDE DEF t
  <1>3. Members(t)
    BY <1>2, MembersFrame DEF MemberFields
  <1>4. Equipped(t)
    BY <1>2, EquippedFrame DEF EquippedFields, On, States
  <1>5. Empty(a) /\ Equipped(a)
    BY <1>3, <1>4, RemoveAllWho, RemoveAllEquipped
  <1> HIDE DEF a
  <1>6. /\ z.player_id = a.player_id /\ z.role = a.role
        /\ z.number_clients = a.number_clients /\ z.unregister_send = 1
    BY <1>5 DEF Equipped, AllFields
  <1> HIDE DEF z
  <1> QED BY <1>1, <1>5, <1>6 DEF Empty, Member

\* JOIN: one member more, and an empty session forgets that it wanted to go.
LEMMA AfterJoinWho ==
  ASSUME NEW s, Members(s), Equipped(s), NEW c \in Clients, Admissible(s, c)
  PROVE  LET t == AfterJoin(s, c)
         IN  /\ \A d \in Clients : Member(t, d) <=> Member(s, d) \/ d = c
             /\ t.unregister_send = IF s.number_clients = 0 THEN 0 ELSE s.unregister_send
  <1> DEFINE h == IF s.number_clients = 0
                  THEN [s EXCEPT !.id_creator = c, !.unregister_send = 0] ELSE s
             newRole == IF s.game_state = "INACTIVE" /\ s.active_players < GameCapacity
                        THEN "PLAYER" ELSE "OBSERVER"
             i == Min(Free(h))
             t == AfterJoin(s, c)
  <1>1. t = AddPlayer(h, c, newRole)
    BY DEF AfterJoin
  <1>2. /\ h.player_id = s.player_id /\ h.role = s.role /\ DOMAIN h = AllFields
        /\ h.number_clients = s.number_clients
        /\ h.unregister_send = IF s.number_clients = 0 THEN 0 ELSE s.unregister_send
    BY DEF Equipped, AllFields
  <1>3. Members(t)
    BY AfterJoinMembers
  <1> HIDE DEF h, t, newRole
  <1>4. i \in Slots /\ s.player_id[i] = NoClient
    <2>1. Free(h) = Free(s)
      BY <1>2 DEF Free
    <2>2. Free(h) # {}
      BY <2>1, MembersCounts DEF Admissible
    <2>3. Free(h) \in SUBSET Nat
      BY SlotsFinite DEF Free
    <2>4. i \in Free(h)
      BY <2>2, <2>3, MinIs
    <2> QED BY <2>1, <2>4 DEF Free
  <1>5. /\ t.player_id = [h.player_id EXCEPT ![i] = c]
        /\ t.unregister_send = h.unregister_send
    BY <1>1, <1>2 DEF AddPlayer, AllFields, MemberFields
  <1> HIDE DEF i
  <1>6. \A j \in Slots : t.player_id[j] = IF j = i THEN c ELSE s.player_id[j]
    BY <1>2, <1>4, <1>5 DEF Members
  <1>7. c # NoClient
    BY SessionAssumption
  <1>8. ASSUME NEW d \in Clients PROVE Member(t, d) <=> Member(s, d) \/ d = c
    <2>1. Member(t, d) <=> \E j \in Slots : t.player_id[j] = d /\ d # NoClient
      BY <1>3, MemberIs
    <2>2. Member(s, d) <=> \E j \in Slots : s.player_id[j] = d /\ d # NoClient
      BY MemberIs
    <2> QED BY <1>4, <1>6, <1>7, <2>1, <2>2
  <1>9. /\ \A d \in Clients : Member(t, d) <=> Member(s, d) \/ d = c
        /\ t.unregister_send = IF s.number_clients = 0 THEN 0 ELSE s.unregister_send
    BY <1>2, <1>5, <1>8
  <1> QED BY <1>9 DEF t

-----------------------------------------------------------------------------
(* The hands in a game *)

\* A round, or a row taken, by whom it may be.
LEMMA GameEquipped ==
  ASSUME NEW s, Equipped(s), NEW sent
  PROVE  /\ Equipped(StartMove(s, sent))
         /\ On(s) => Equipped(Resolve(s, sent))
         /\ \A row, slot : /\ Equipped(TakeLine(s, row, slot))
                           /\ On(s) => On(TakeLine(s, row, slot))
  <1>1. GameFields \cap EquippedFields = {} /\ "game_state" \in DOMAIN s
    BY DEF GameFields, EquippedFields, Equipped, AllFields
  <1>2. Equipped(StartMove(s, sent))
    <2>1. Frame(s, StartMove(s, sent), GameFields)
      BY StartMoveFrame
    <2>2. StartMove(s, sent).game_state \in States /\ (On(StartMove(s, sent)) => On(s))
      BY StartMoveState DEF Equipped
    <2> QED BY <1>1, <2>1, <2>2, EquippedFrame
  <1>3. On(s) => Equipped(Resolve(s, sent))
    <2>1. Frame(s, Resolve(s, sent), GameFields)
      BY ResolveFrame
    <2>2. Resolve(s, sent).game_state \in States
      BY <1>1, ResolveState
    <2> QED BY <1>1, <2>1, <2>2, EquippedFrame
  <1>4. ASSUME NEW row, NEW slot
        PROVE  Equipped(TakeLine(s, row, slot)) /\ (On(s) => On(TakeLine(s, row, slot)))
    <2> DEFINE t == TakeLine(s, row, slot)
    <2>1. Frame(s, t, {"board", "ready", "nb_head"})
      BY TakeLineFrame
    <2>2. t.game_state = s.game_state
      BY <1>1, <2>1 DEF Frame
    <2>3. {"board", "ready", "nb_head"} \cap EquippedFields = {}
      BY DEF EquippedFields
    <2> HIDE DEF t
    <2>4. t.game_state \in States /\ (On(t) <=> On(s))
      BY <2>2 DEF Equipped, On
    <2>5. Equipped(t)
      BY <2>1, <2>3, <2>4, EquippedFrame
    <2> QED BY <2>4, <2>5 DEF t
  <1> QED BY <1>2, <1>3, <1>4

\* New rules come between two games.
LEMMA WithRulesEquipped ==
  ASSUME NEW s, Equipped(s), ~On(s), NEW r \in RuleSets
  PROVE  Equipped(WithRules(s, r))
  <1> DEFINE t == WithRules(s, r)
  <1>1. /\ DOMAIN t = AllFields
        /\ t.is_connected = s.is_connected /\ t.hand = s.hand /\ t.room = s.room
        /\ t.id_creator = s.id_creator /\ t.unregister_send = s.unregister_send
        /\ t.game_state = s.game_state /\ t.role = s.role
        /\ t.rules \in {s.rules, r} /\ t.freed \in {s.freed, TRUE}
    BY DEF WithRules, Equipped, AllFields, GameFields, MemberFields
  <1> HIDE DEF t
  <1>2. Playing(t) = Playing(s) /\ ~On(t)
    BY <1>1 DEF Playing, On
  <1>3. t.rules \in Rules
    BY <1>1 DEF Equipped, Rules
  <1> QED BY <1>1, <1>2, <1>3 DEF Equipped, t

\* START that does not crash finds a hand for every player.
LEMMA DealEquipped ==
  ASSUME NEW s, Members(s), Equipped(s), NEW shuffle \in Shuffles, ~StartCrashes(s)
  PROVE  Equipped(Deal(s, shuffle))
  <1> DEFINE ids == Shuffled(shuffle.cards, s.rules.nbrCards)
             dealt == [i \in Slots |-> IF i \in Served(s) /\ s.hand[i] # NoHand
                                      THEN ToSet(HandDealt(s, ids, i)) ELSE s.hand[i]]
             t == Deal(s, shuffle)
  <1>1. /\ DOMAIN t = AllFields
        /\ t.is_connected = s.is_connected /\ t.hand = dealt /\ t.room = s.room
        /\ t.id_creator = s.id_creator /\ t.unregister_send = s.unregister_send
        /\ t.game_state = "WAITING" /\ t.role = s.role
        /\ t.rules = s.rules /\ t.freed = s.freed
    BY DEF Deal, Equipped, AllFields, GameFields, MemberFields
  <1>2. Deck(s) \subseteq Cards /\ NoCard \notin Cards
    BY SlotsAndRows, CardsAre DEF Equipped
  <1>3. ASSUME NEW i \in Slots
        PROVE  /\ dealt[i] \in (SUBSET Cards) \cup {NoHand}
               /\ dealt[i] = NoHand <=> s.hand[i] = NoHand
    <2>1. CASE i \in Served(s) /\ s.hand[i] # NoHand
      <3>1. ToSet(HandDealt(s, ids, i)) \subseteq Deck(s)
        BY <2>1, DealtIs DEF Equipped
      <3>2. dealt[i] = ToSet(HandDealt(s, ids, i))
        BY <2>1
      <3> HIDE DEF dealt, ids
      <3> QED BY <1>2, <2>1, <3>1, <3>2 DEF NoHand
    <2>2. CASE ~(i \in Served(s) /\ s.hand[i] # NoHand)
      <3>1. dealt[i] = s.hand[i]
        BY <2>2
      <3> HIDE DEF dealt
      <3> QED BY <3>1 DEF Equipped
    <2> QED BY <2>1, <2>2
  <1>4. dealt = [i \in Slots |-> dealt[i]]
    OBVIOUS
  <1> HIDE DEF t, dealt
  <1>5. Playing(t) = Playing(s) /\ Playing(s) \in SUBSET Slots
    BY <1>1 DEF Playing
  <1>6. t.hand \in [Slots -> (SUBSET Cards) \cup {NoHand}]
    BY <1>1, <1>3, <1>4
  <1>7. \A i \in Slots \ Playing(t) : t.hand[i] = NoHand
    BY <1>1, <1>3, <1>5 DEF Equipped
  <1>8. Seated(s) = Playing(s)
    BY MembersCounts DEF Seated
  <1>9. ~s.freed /\ \A i \in Playing(s) : s.hand[i] # NoHand \/ s.rules.nbrCardsPlayer = 0
    <2>1. s.rules.nbrCardsPlayer \in Nat
      <3>1. s.rules.nbrCardsPlayer \in 0..255
        BY GameAssumption DEF Equipped
      <3> QED BY <3>1
    <2> QED BY <1>8, <2>1 DEF StartCrashes
  <1>10. \A i \in Playing(t) : t.hand[i] # NoHand \/ t.rules.nbrCardsPlayer = 0
    BY <1>1, <1>3, <1>5, <1>9
  <1>11. t.game_state \in States
    BY <1>1 DEF States
  <1> QED BY <1>1, <1>6, <1>7, <1>9, <1>10, <1>11 DEF Equipped, t

\* A card that a player gives from his hand.
GivenCard(s, i, card) == [s EXCEPT !.hand[i] = @ \ {card}, !.ready[i] = card,
                                   !.ready_count = @ + 1]

\* The hand that gave a card is still a hand.
LEMMA GivenCardIs ==
  ASSUME NEW s, Equipped(s), NEW i \in Slots, s.role[i] = "PLAYER",
         NEW card \in HandOf(s, i)
  PROVE  LET t == GivenCard(s, i, card)
         IN  /\ Equipped(t) /\ Frame(s, t, {"hand", "ready", "ready_count"})
             /\ t.hand = [s.hand EXCEPT ![i] = @ \ {card}]
             /\ t.ready = [s.ready EXCEPT ![i] = card]
             /\ t.ready_count = s.ready_count + 1
             /\ t.hand[i] # NoHand
  <1> DEFINE t == GivenCard(s, i, card)
  <1>1. /\ Frame(s, t, {"hand", "ready", "ready_count"})
        /\ t.hand = [s.hand EXCEPT ![i] = @ \ {card}]
        /\ t.ready = [s.ready EXCEPT ![i] = card]
        /\ t.ready_count = s.ready_count + 1
    BY DEF GivenCard, Frame, Equipped, AllFields, GameFields
  <1> HIDE DEF t
  <1>2. /\ DOMAIN t = AllFields
        /\ t.is_connected = s.is_connected /\ t.room = s.room
        /\ t.id_creator = s.id_creator /\ t.unregister_send = s.unregister_send
        /\ t.game_state = s.game_state /\ t.role = s.role
        /\ t.rules = s.rules /\ t.freed = s.freed
    BY <1>1 DEF Frame, Equipped, AllFields, GameFields, MemberFields
  <1>3. s.hand \in [Slots -> (SUBSET Cards) \cup {NoHand}] /\ NoCard \notin Cards
    BY CardsAre DEF Equipped
  <1>4. s.hand[i] \in SUBSET Cards /\ s.hand[i] # NoHand
    BY <1>3 DEF HandOf
  <1>5. t.hand[i] \in SUBSET Cards /\ t.hand[i] # NoHand
        /\ t.hand \in [Slots -> (SUBSET Cards) \cup {NoHand}]
        /\ \A j \in Slots : j # i => t.hand[j] = s.hand[j]
    BY <1>1, <1>3, <1>4 DEF NoHand
  <1>6. Playing(t) = Playing(s) /\ i \in Playing(s) /\ Playing(s) \in SUBSET Slots
        /\ (On(t) <=> On(s))
    BY <1>2 DEF Playing, On
  <1>7. \A j \in Slots \ Playing(t) : t.hand[j] = NoHand
    BY <1>5, <1>6 DEF Equipped
  <1>8. On(t) => /\ ~t.freed
                 /\ \A j \in Playing(t) : t.hand[j] # NoHand \/ t.rules.nbrCardsPlayer = 0
    BY <1>2, <1>5, <1>6 DEF Equipped
  <1>9. Equipped(t)
    BY <1>2, <1>5, <1>7, <1>8 DEF Equipped
  <1> QED BY <1>1, <1>5, <1>9 DEF t

\* Nobody has a hand in a session that has just been created.
LEMMA InitEquipped == Init => Equipped(session)
  <1> SUFFICES ASSUME Init PROVE Equipped(session)
    OBVIOUS
  <1>1. /\ DOMAIN session = AllFields
        /\ session.is_connected = [i \in Slots |-> FALSE]
        /\ session.hand = [i \in Slots |-> NoHand] /\ session.room = [i \in Slots |-> 0]
        /\ session.id_creator = NoClient /\ session.unregister_send = 0
        /\ session.game_state = "INACTIVE" /\ session.rules = DefaultRules
        /\ session.freed = FALSE
    BY DEF Init, AllFields, MemberFields, GameFields
  <1>2. 0 \in 0..255 /\ DefaultRules \in Rules
    BY DEF Rules
  <1> QED BY <1>1, <1>2 DEF Equipped, On, States

\* Every message keeps the hands in order.
LEMMA NextEquipped ==
  Members(session) /\ Equipped(session) /\ [Next]_vars => Equipped(session)'
  <1> SUFFICES ASSUME Members(session), Equipped(session), [Next]_vars
               PROVE  Equipped(session')
    BY DEF Equipped, Playing, On
  <1>1. ASSUME NEW c \in Clients, Join(c) PROVE Equipped(session')
    BY <1>1, AfterJoinEquipped DEF Join
  <1>2. ASSUME NEW c \in Clients, Leave(c) PROVE Equipped(session')
    BY <1>2, RemovePlayerEquipped DEF Leave
  <1>3. ASSUME NEW c \in Clients, UserLeft(c) PROVE Equipped(session')
    BY <1>3, AfterUserLeftEquipped DEF UserLeft
  <1>4. ASSUME NEW c \in Clients, Close(c) PROVE Equipped(session')
    BY <1>4, AfterCloseEquipped DEF Close
  <1>5. ASSUME NEW c \in Clients, SetRules(c) PROVE Equipped(session')
    BY <1>5, WithRulesEquipped DEF SetRules, RulesAccepted, On
  <1>6. ASSUME NEW c \in Clients, SetRulesWild(c) \/ StartWild(c) \/ InfoReturnWild(c)
                                  \/ ResponseExtraWild(c)
        PROVE Equipped(session')
    BY <1>6 DEF SetRulesWild, StartWild, InfoReturnWild, ResponseExtraWild
  <1>7. ASSUME NEW c \in Clients, StartSession(c) PROVE Equipped(session')
    BY <1>7, DealEquipped DEF StartSession
  <1>8. ASSUME NEW c \in Clients, InfoReturn(c) PROVE Equipped(session')
    <2> DEFINE i == Index(session, c)
    <2>1. i \in Slots /\ session.role[i] = "PLAYER"
      BY <1>8, IndexIs DEF InfoReturn
    <2>2. PICK card \in HandOf(session, i), sent \in SentOutcomes :
               session' = StartMove(GivenCard(session, i, card), sent)
      BY <1>8 DEF InfoReturn, GivenCard
    <2> HIDE DEF i
    <2>3. Equipped(GivenCard(session, i, card))
      BY <2>1, GivenCardIs
    <2> QED BY <2>2, <2>3, GameEquipped
  <1>9. ASSUME NEW c \in Clients, ResponseExtra(c) PROVE Equipped(session')
    <2>1. PICK row, sent : session' = Resolve(TakeLine(session, row, Index(session, c)), sent)
      BY <1>9 DEF ResponseExtra
    <2>2. On(session)
      BY <1>9 DEF ResponseExtra, On
    <2>3. Equipped(TakeLine(session, row, Index(session, c)))
          /\ On(TakeLine(session, row, Index(session, c)))
      BY <2>2, GameEquipped
    <2> QED BY <2>1, <2>3, GameEquipped
  <1>10. CASE InfoReturnRefused
    BY <1>10, GameEquipped DEF InfoReturnRefused
  <1>11. CASE EndOfBatch
    BY <1>11 DEF EndOfBatch, Equipped, Playing, On, AllFields, GameFields, MemberFields
  <1>12. CASE UNCHANGED vars
    BY <1>12 DEF vars
  <1> QED BY <1>1, <1>2, <1>3, <1>4, <1>5, <1>6, <1>7, <1>8, <1>9, <1>10, <1>11, <1>12
          DEF Next

\* The fields of a session keep their types, and only players have hands.
THEOREM Equipment == Spec => [](Members(session) /\ Equipped(session))
  BY InitMembers, NextMembers, InitEquipped, NextEquipped, PTL DEF Spec

\* While a game is on no array has been freed and no player has a null hand,
\* whatever rules were set or refused before.
THEOREM HandsAreAllocated == Spec => []HandsAllocated
  <1>1. Equipped(session) => HandsAllocated
    BY DEF Equipped, On, HandsAllocated
  <1> QED BY <1>1, Equipment, PTL

-----------------------------------------------------------------------------
(* The inductive invariant, as predicates of any session_t *)

\* What an operator of the game may count on.
Formed(s) ==
  /\ DOMAIN s = AllFields
  /\ s.game_state \in States /\ s.rules \in Rules
  /\ s.hand \in [Slots -> (SUBSET Cards) \cup {NoHand}]
  /\ s.player_id \in [Slots -> Clients \cup {NoClient}]
  /\ s.heads = NoHeads \/ s.heads \in [Deck(s) -> 0..255]
  /\ s.board \in Boards(s) /\ s.ready \in ReadyCards(s) /\ s.nb_head \in Scores
  /\ s.ready_count \in 0..MaxClients
  /\ s.extra_wait_from \in Clients \cup {NoClient}

\* While a game is on, its cards are those of the deck in use.
DeckInUse(s) ==
  On(s) => /\ s.heads \in [Deck(s) -> 0..255]
           /\ \A i \in Slots : HandOf(s, i) \subseteq Deck(s)

Held(s) == UNION {HandOf(s, i) : i \in Slots}

\* No card is in two places.
Apart(s) ==
  /\ Neat(s, s, Held(s))
  /\ \A i, j \in Slots : i # j => \A c \in HandOf(s, i) : c \notin HandOf(s, j)

\* While a game is on no row is empty, if the deck has a card for each and who is
\* asked for a row is always heard of: another has no card to start it with.
Filled(s) ==
  On(s) /\ ~BusMayFill /\ s.rules.nbrLign <= s.rules.nbrCards =>
    \A r \in Rows(s) : s.board[r] # << >>

Sound(s) == Formed(s) /\ DeckInUse(s) /\ Apart(s) /\ Filled(s)

\* Only the players of P have cards to place, of which no more are there than
\* were counted; a game that waits for a row has counted enough of them.
Counted(s, P) ==
  /\ Waiting(s) \subseteq P
  /\ Cardinality(Waiting(s)) <= s.ready_count
  /\ s.game_state = "WAITING_EXTRA" =>
       s.ready_count >= s.active_players /\ s.ready_count > 0

\* Who has given no card for the round can still give one.
CanGive(s, P) ==
  s.game_state = "WAITING" /\ Ample(s.rules) =>
    \A i \in P : s.ready[i] = NoCard => HandOf(s, i) # {}

\* The row is really needed, and its chooser the one whose answer is awaited.
Asked(s) ==
  s.game_state = "WAITING_EXTRA" =>
    /\ Blocked(s)
    /\ BusMayFill \/ s.player_id[LowestSlot(s)] = s.extra_wait_from

\* A round that is due has been resolved.
NotDue(s) ==
  s.game_state = "WAITING" => s.ready_count = 0 \/ s.ready_count < s.active_players

InPlay(s, P) == On(s) => Counted(s, P) /\ CanGive(s, P) /\ Asked(s) /\ NotDue(s)

\* Between two games no card waits to be placed.
Idle(s) == ~On(s) => Waiting(s) = {} /\ s.ready_count = 0

-----------------------------------------------------------------------------
(* Structures that agree on the cards *)

SameCards(s, t) == t.board = s.board /\ t.ready = s.ready /\ t.rules = s.rules

\* The choice of the lowest card depends on the cards that wait alone.
LowestOf(ready) ==
  CHOOSE i \in {k \in Slots : ready[k] # NoCard} :
    \A j \in {k \in Slots : ready[k] # NoCard} :
       \/ ready[i] < ready[j]
       \/ ready[i] = ready[j] /\ i <= j

\* The lowest card depends on the cards that wait alone.
LEMMA LowestSlotOf == ASSUME NEW s PROVE LowestSlot(s) = LowestOf(s.ready)
  BY DEF LowestSlot, LowestOf, Waiting

\* What follows from the cards, the rows and the rules alone.
LEMMA SameCardsAs ==
  ASSUME NEW s, NEW t, SameCards(s, t)
  PROVE  /\ Waiting(t) = Waiting(s) /\ Rows(t) = Rows(s) /\ Deck(t) = Deck(s)
         /\ LowestSlot(t) = LowestSlot(s)
         /\ Blocked(t) <=> Blocked(s)
         /\ Boards(t) = Boards(s) /\ ReadyCards(t) = ReadyCards(s)
         /\ \A held : Neat(s, s, held) => Neat(t, t, held)
  <1>1. Waiting(t) = Waiting(s) /\ Rows(t) = Rows(s) /\ Deck(t) = Deck(s)
    BY DEF SameCards, Waiting, Rows, Deck
  <1>2. LowestSlot(t) = LowestSlot(s)
    BY LowestSlotOf DEF SameCards
  <1>3. Blocked(t) <=> Blocked(s)
    <2>1. \A c : Fitting(t, c) = Fitting(s, c)
      BY <1>1 DEF Fitting, SameCards
    <2> QED BY <1>1, <1>2, <2>1 DEF Blocked, SameCards
  <1>4. Boards(t) = Boards(s) /\ ReadyCards(t) = ReadyCards(s)
    BY <1>1 DEF Boards, ReadyCards
  <1>5. ASSUME NEW held, Neat(s, s, held) PROVE Neat(t, t, held)
    BY <1>1, <1>5 DEF Neat, SameCards
  <1> QED BY <1>1, <1>2, <1>3, <1>4, <1>5

-----------------------------------------------------------------------------
(* A round *)

\* place_card starts from a position in which the cards are apart.
LEMMA PositionReached ==
  ASSUME NEW s, Sound(s), On(s)
  PROVE  Decked(s) /\ Position(s) \in Reached(s, Held(s))
  <1>1. Decked(s)
    BY DEF Sound, Formed, DeckInUse, Decked
  <1>2. Position(s) \in Positions(s)
    BY <1>1 DEF Position, Positions, Sound, Formed, Decked, Boards, ReadyCards, Scores
  <1>3. Position(s) \in Reached(s, Held(s))
    <2>1. Position(s).board = s.board /\ Position(s).ready = s.ready
      BY DEF Position
    <2>2. Waiting(Position(s)) = Waiting(s)
      BY <2>1 DEF Waiting
    <2>3. Neat(s, Position(s), Held(s))
      BY <2>1, <2>2 DEF Neat, Sound, Apart
    <2> QED BY <1>2, <2>1, <2>3 DEF Reached
  <1> QED BY <1>1, <1>3

\* What place_card leaves: a position that is settled, of some of the cards that
\* waited.
LEMMA PlaceAllSound ==
  ASSUME NEW s, Sound(s), On(s)
  PROVE  LET p == PlaceAll(s)
         IN  /\ Sound(p) /\ Frame(s, p, {"board", "ready", "nb_head"})
             /\ Settled(p)
             /\ \A i \in Waiting(p) : i \in Waiting(s) /\ p.ready[i] = s.ready[i]
  <1> DEFINE p == PlaceAll(s)
  <1>1. Decked(s) /\ Position(s) \in Reached(s, Held(s))
    BY PositionReached
  <1>4. PICK g \in Reached(s, Held(s)) :
          /\ Settled(g)
          /\ p = [s EXCEPT !.board = g.board, !.ready = g.ready, !.nb_head = g.nb_head]
    BY <1>1, PlaceAllNeat
  <1>5. Frame(s, p, {"board", "ready", "nb_head"})
    BY PlaceAllFrame
  <1>6. DOMAIN s = AllFields
    BY DEF Sound, Formed
  <1>7. p.board = g.board /\ p.ready = g.ready /\ p.nb_head = g.nb_head
    BY <1>4, <1>6 DEF AllFields, GameFields
  <1> HIDE DEF p
  <1>8. /\ p.game_state = s.game_state /\ p.rules = s.rules /\ p.hand = s.hand
        /\ p.player_id = s.player_id /\ p.heads = s.heads
        /\ p.ready_count = s.ready_count /\ p.extra_wait_from = s.extra_wait_from
        /\ DOMAIN p = AllFields
    BY <1>5, <1>6 DEF Frame, AllFields, GameFields, MemberFields
  <1>9. /\ g.rules = s.rules /\ g.board \in Boards(s) /\ g.ready \in ReadyCards(s)
        /\ g.nb_head \in Scores /\ Neat(s, g, Held(s))
        /\ \A i \in Slots : g.ready[i] \in {s.ready[i], NoCard}
        /\ \A r \in Rows(s) : s.board[r] # << >> => g.board[r] # << >>
    BY PositionParts DEF Reached, Boards, ReadyCards, Scores
  <1>10. SameCards(g, p)
    BY <1>7, <1>8, <1>9 DEF SameCards
  <1>11. Settled(p)
    BY <1>4, <1>10, SameCardsAs DEF Settled
  <1>12. Deck(p) = Deck(s) /\ Rows(p) = Rows(s) /\ Boards(p) = Boards(s)
         /\ ReadyCards(p) = ReadyCards(s)
    BY <1>8 DEF Deck, Rows, Boards, ReadyCards
  <1>13. (On(p) <=> On(s)) /\ \A i \in Slots : HandOf(p, i) = HandOf(s, i)
    BY <1>8 DEF On, HandOf
  <1>14. Formed(p)
    BY <1>7, <1>8, <1>9, <1>12 DEF Formed, Sound
  <1>15. DeckInUse(p)
    BY <1>8, <1>12, <1>13 DEF DeckInUse, Sound
  <1>16. Apart(p)
    <2>1. Held(p) = Held(s)
      BY <1>13 DEF Held
    <2>2. Waiting(p) = Waiting(g)
      BY <1>10, SameCardsAs
    <2>3. Neat(p, p, Held(s))
      BY <1>7, <1>8, <1>9, <1>12, <2>2 DEF Neat
    <2> QED BY <1>13, <2>1, <2>3 DEF Apart, Sound
  <1>17. \A i \in Waiting(p) : i \in Waiting(s) /\ p.ready[i] = s.ready[i]
    BY <1>7, <1>9 DEF Waiting
  <1>18. Filled(p)
    BY <1>7, <1>8, <1>9, <1>12, <1>13 DEF Sound, Filled
  <1> QED BY <1>5, <1>11, <1>14, <1>15, <1>16, <1>17, <1>18 DEF Sound, p

CardFields == {"board", "ready", "nb_head", "heads", "rules", "hand", "player_id"}

\* Fields that have no card in them may change within their types, but no game
\* be started.
LEMMA SoundFrame ==
  ASSUME NEW s, Sound(s), NEW t, NEW F, Frame(s, t, F), F \cap CardFields = {},
         t.game_state \in States, On(t) => On(s), t.ready_count \in 0..MaxClients,
         t.extra_wait_from \in Clients \cup {NoClient}
  PROVE  /\ Sound(t) /\ SameCards(s, t)
         /\ t.hand = s.hand /\ t.player_id = s.player_id
  <1>1. /\ t.board = s.board /\ t.ready = s.ready /\ t.nb_head = s.nb_head
        /\ t.heads = s.heads /\ t.rules = s.rules /\ t.hand = s.hand
        /\ t.player_id = s.player_id /\ DOMAIN t = AllFields
    BY DEF Sound, Formed, Frame, CardFields, AllFields, MemberFields, GameFields
  <1>2. SameCards(s, t)
    BY <1>1 DEF SameCards
  <1>3. /\ Deck(t) = Deck(s) /\ Boards(t) = Boards(s) /\ ReadyCards(t) = ReadyCards(s)
        /\ \A held : Neat(s, s, held) => Neat(t, t, held)
    BY <1>2, SameCardsAs
  <1>4. \A i \in Slots : HandOf(t, i) = HandOf(s, i)
    BY <1>1 DEF HandOf
  <1>5. Held(t) = Held(s)
    BY <1>4 DEF Held
  <1>6. Formed(t)
    BY <1>1, <1>3 DEF Sound, Formed
  <1>7. DeckInUse(t)
    BY <1>1, <1>3, <1>4 DEF Sound, DeckInUse
  <1>8. Apart(t)
    BY <1>3, <1>4, <1>5 DEF Sound, Apart
  <1>9. Filled(t)
    BY <1>1 DEF Sound, Filled, Rows
  <1> QED BY <1>1, <1>2, <1>6, <1>7, <1>8, <1>9 DEF Sound

\* Fewer cards that wait.
LEMMA FewerWait ==
  ASSUME NEW s, NEW t, Waiting(t) \subseteq Waiting(s)
  PROVE  Cardinality(Waiting(t)) <= Cardinality(Waiting(s))
  BY WaitingCounts, FS_Subset

\* A game that is on and has counted a card of every player in P, who alone have
\* cards to place.
MayResolve(s, P) ==
  /\ Sound(s) /\ On(s) /\ P \subseteq Seated(s) /\ Waiting(s) \subseteq P
  /\ Cardinality(Waiting(s)) <= s.ready_count
  /\ s.ready_count >= s.active_players /\ s.ready_count > 0

\* A round resolved leaves the cards apart and the game in order.
LEMMA ResolveSound ==
  ASSUME NEW s, NEW P, MayResolve(s, P), NEW sent \in SentOutcomes
  PROVE  LET t == Resolve(s, sent) IN Sound(t) /\ InPlay(t, P) /\ Idle(t)
  <1> DEFINE p == PlaceAll(s)
             t == Resolve(s, sent)
             owner == p.player_id[LowestSlot(p)]
             asked == IF sent /\ owner # NoClient THEN owner ELSE p.extra_wait_from
             next == IF \E i \in Seated(p) : OutOfCards(p, i) THEN "INACTIVE" ELSE "WAITING"
  <1>1. /\ Sound(p) /\ Frame(s, p, {"board", "ready", "nb_head"})
        /\ Settled(p)
        /\ \A i \in Waiting(p) : i \in Waiting(s) /\ p.ready[i] = s.ready[i]
    BY PlaceAllSound DEF MayResolve
  <1>2. /\ Blocked(p) => t = [p EXCEPT !.game_state = "WAITING_EXTRA",
                                       !.extra_wait_from = asked]
        /\ ~Blocked(p) => t = [p EXCEPT !.ready_count = 0, !.game_state = next]
    BY DEF Resolve, AskForRow
  <1> HIDE DEF p, t
  <1>3. /\ DOMAIN s = AllFields /\ DOMAIN p = AllFields
        /\ p.game_state = s.game_state /\ p.ready_count = s.ready_count
        /\ p.active_players = s.active_players /\ p.player_id = s.player_id
        /\ p.role = s.role /\ On(p)
    BY <1>1 DEF MayResolve, Sound, Formed, Frame, AllFields, GameFields, MemberFields, On
  <1>4. Waiting(p) \subseteq P /\ Cardinality(Waiting(p)) <= Cardinality(Waiting(s))
    BY <1>1, FewerWait DEF MayResolve
  <1>5. Seated(p) = Seated(s)
    BY <1>3 DEF Seated, Playing, Occupied, Free
  <1>6. p.player_id \in [Slots -> Clients \cup {NoClient}]
        /\ p.extra_wait_from \in Clients \cup {NoClient} /\ p.ready_count \in 0..MaxClients
    BY <1>1 DEF Sound, Formed
  <1>7. CASE Blocked(p)
    <2>1. LowestSlot(p) \in P /\ LowestSlot(p) \in Slots /\ owner # NoClient
      <3>1. Waiting(p) # {}
        BY <1>7 DEF Blocked
      <3>2. \A i \in Waiting(p) : p.ready[i] \in Nat
        <4>1. p.ready \in [Slots -> Deck(p) \cup {NoCard}] /\ p.rules \in Rules
          BY <1>1 DEF Sound, Formed, ReadyCards
        <4>2. Deck(p) \subseteq Nat
          BY <4>1, SlotsAndRows
        <4> QED BY <4>1, <4>2 DEF Waiting
      <3>3. LowestSlot(p) \in Waiting(p)
        BY <3>1, <3>2, LowestSlotIs
      <3>4. LowestSlot(p) \in P /\ LowestSlot(p) \in Slots
        BY <1>4, <3>3 DEF Waiting
      <3>5. LowestSlot(p) \in Seated(p)
        BY <1>5, <3>4 DEF MayResolve
      <3> QED BY <3>4, <3>5 DEF Seated, Occupied, Free
    <2> HIDE DEF owner
    <2>2. asked \in Clients \cup {NoClient} /\ (sent => asked = owner)
      BY <1>6, <2>1 DEF owner
    <2> HIDE DEF asked
    <2>3. /\ Frame(p, t, {"game_state", "extra_wait_from"})
          /\ t.game_state = "WAITING_EXTRA" /\ t.extra_wait_from = asked
          /\ t.ready_count = s.ready_count /\ t.active_players = s.active_players
      BY <1>2, <1>3, <1>7 DEF Frame, AllFields, GameFields, MemberFields
    <2>4. Sound(t) /\ SameCards(p, t) /\ t.player_id = p.player_id
      BY <1>1, <1>3, <1>6, <2>2, <2>3, SoundFrame DEF CardFields, On, States
    <2>5. Waiting(t) = Waiting(p) /\ Blocked(t) /\ LowestSlot(t) = LowestSlot(p)
      BY <1>7, <2>4, SameCardsAs
    <2>6. sent \/ BusMayFill
      BY DEF SentOutcomes
    <2>7. Asked(t)
      BY <2>2, <2>3, <2>4, <2>5, <2>6 DEF Asked, owner
    <2>8. Counted(t, P)
      <3>1. Cardinality(Waiting(t)) \in Int /\ Cardinality(Waiting(s)) \in Int
            /\ s.ready_count \in Int
        <4>1. Cardinality(Waiting(t)) \in 0..MaxClients /\ Cardinality(Waiting(s)) \in 0..MaxClients
              /\ s.ready_count \in 0..MaxClients
          BY <1>3, <1>6, WaitingCounts
        <4> QED BY <4>1
      <3>2. Cardinality(Waiting(t)) <= t.ready_count
        BY <1>4, <2>3, <2>5, <3>1 DEF MayResolve
      <3> QED BY <1>4, <2>3, <2>5, <3>2 DEF Counted, MayResolve
    <2>9. CanGive(t, P) /\ NotDue(t) /\ Idle(t)
      BY <2>3 DEF CanGive, NotDue, Idle, On
    <2> QED BY <2>4, <2>7, <2>8, <2>9 DEF InPlay, t
  <1>8. CASE ~Blocked(p)
    <2>1. Waiting(p) = {} /\ next \in {"INACTIVE", "WAITING"}
      BY <1>1, <1>8 DEF Settled
    <2>2. next = "WAITING" => \A i \in Seated(p) : p.hand[i] \notin {NoHand, {}}
      BY DEF OutOfCards
    <2> HIDE DEF next
    <2>3. /\ Frame(p, t, {"game_state", "ready_count"})
          /\ t.game_state = next /\ t.ready_count = 0
          /\ t.extra_wait_from = p.extra_wait_from
      BY <1>2, <1>3, <1>8 DEF Frame, AllFields, GameFields, MemberFields
    <2>4. 0 \in 0..MaxClients
      BY SlotsAndRows
    <2>5. Sound(t) /\ SameCards(p, t) /\ t.hand = p.hand
      BY <1>1, <1>3, <1>6, <2>1, <2>3, <2>4, SoundFrame DEF CardFields, States
    <2>6. Waiting(t) = {}
      BY <2>1, <2>5, SameCardsAs
    <2>7. Counted(t, P)
      BY <2>1, <2>3, <2>6, FS_EmptySet DEF Counted
    <2>8. CanGive(t, P)
      BY <1>5, <2>2, <2>3, <2>5 DEF CanGive, HandOf, MayResolve
    <2>9. Asked(t) /\ NotDue(t) /\ Idle(t)
      BY <2>1, <2>3, <2>6 DEF Asked, NotDue, Idle
    <2> QED BY <2>5, <2>7, <2>8, <2>9 DEF InPlay, t
  <1> QED BY <1>7, <1>8

\* What start_move may find: a round that is perhaps due.
MayMove(s, P) ==
  /\ Sound(s) /\ s.active_players \in Nat /\ P \subseteq Seated(s)
  /\ On(s) => Counted(s, P) /\ CanGive(s, P)

\* start_move, whether or not the round is due.
LEMMA StartMoveSound ==
  ASSUME NEW s, NEW P, MayMove(s, P), NEW sent \in SentOutcomes
  PROVE  LET t == StartMove(s, sent)
         IN  Sound(t) /\ InPlay(t, P) /\ (On(s) \/ Idle(s) => Idle(t))
  <1> DEFINE h == [s EXCEPT !.ready = [i \in Slots |-> IF i \in Free(s) \ Playing(s)
                                   THEN NoCard ELSE s.ready[i]]]
             t == StartMove(s, sent)
  <1>1. s.ready_count \in Nat /\ s.active_players \in Nat
    <2>1. s.ready_count \in 0..MaxClients
      BY DEF MayMove, Sound, Formed
    <2> QED BY <2>1, SlotsAndRows DEF MayMove
  <1>2. CASE Due(s)
    <2>1. t = Resolve(h, sent)
      BY <1>2 DEF StartMove
    <2>2. On(s) /\ s.ready_count >= s.active_players /\ s.ready_count > 0
      BY <1>2 DEF Due, On
    <2>3. [i \in Slots |-> IF i \in Free(s) \ Playing(s) THEN NoCard ELSE s.ready[i]] = s.ready
      <3>1. s.ready = [i \in Slots |-> s.ready[i]]
        BY DEF MayMove, Sound, Formed, ReadyCards
      <3>2. ASSUME NEW i \in Slots, i \in Free(s) \ Playing(s) PROVE s.ready[i] = NoCard
        <4>1. i \notin Waiting(s)
          BY <2>2, <3>2 DEF MayMove, Counted, Seated
        <4> QED BY <4>1 DEF Waiting
      <3> QED BY <3>1, <3>2
    <2>4. Frame(s, h, {"ready"}) /\ h.ready = s.ready
      BY <2>3 DEF Frame, MayMove, Sound, Formed, AllFields, GameFields
    <2> HIDE DEF h
    <2>5. Frame(s, h, {})
      BY <2>4 DEF Frame
    <2>6. /\ h.game_state = s.game_state /\ h.ready_count = s.ready_count
          /\ h.extra_wait_from = s.extra_wait_from /\ h.active_players = s.active_players
          /\ h.role = s.role /\ h.player_id = s.player_id
      BY <2>5 DEF Frame, MayMove, Sound, Formed, AllFields, GameFields, MemberFields
    <2>7. Sound(h) /\ SameCards(s, h)
      BY <2>5, <2>6, SoundFrame DEF MayMove, Sound, Formed, On
    <2>8. Waiting(h) = Waiting(s) /\ Seated(h) = Seated(s) /\ On(h)
      BY <2>2, <2>6, <2>7, SameCardsAs DEF Seated, Playing, Occupied, Free, On
    <2>9. MayResolve(h, P)
      BY <2>2, <2>6, <2>7, <2>8 DEF MayResolve, MayMove, Counted
    <2> HIDE DEF t
    <2> QED BY <2>1, <2>9, ResolveSound DEF t
  <1>3. CASE ~Due(s)
    <2>1. t = s
      BY <1>3 DEF StartMove
    <2> HIDE DEF t
    <2>2. On(s) => s.game_state \in {"WAITING", "WAITING_EXTRA"}
      BY DEF MayMove, Sound, Formed, States, On
    <2>3. On(s) => s.ready_count = 0 \/ s.ready_count < s.active_players
      BY <1>1, <1>3, <2>2 DEF Due
    <2>4. On(s) => s.game_state = "WAITING"
      BY <1>1, <2>2, <2>3 DEF MayMove, Counted
    <2>5. InPlay(s, P)
      BY <2>3, <2>4 DEF InPlay, MayMove, Asked, NotDue
    <2>6. On(s) => Idle(s)
      BY DEF Idle
    <2> QED BY <2>1, <2>5, <2>6 DEF MayMove, t
  <1> QED BY <1>2, <1>3

\* A slot is taken or left, by no player of P, in a structure that is otherwise
\* the same to the cards.
SeatChanged(s, t, i) ==
  /\ DOMAIN t = AllFields /\ i \in Slots
  /\ SameCards(s, t) /\ t.heads = s.heads /\ t.nb_head = s.nb_head
  /\ t.ready_count = s.ready_count /\ t.game_state = s.game_state
  /\ t.extra_wait_from = s.extra_wait_from
  /\ On(s) => t.active_players = s.active_players
  /\ \A j \in Slots \ {i} : t.hand[j] = s.hand[j] /\ t.player_id[j] = s.player_id[j]
  /\ t.hand[i] \in {NoHand, {}, s.hand[i]}
  /\ t.hand = [j \in Slots |-> t.hand[j]]
  /\ t.player_id \in [Slots -> Clients \cup {NoClient}]

\* A seat emptied or taken leaves the cards apart.
LEMMA SeatChangedSound ==
  ASSUME NEW s, Sound(s), NEW i, NEW t, SeatChanged(s, t, i)
  PROVE  /\ Sound(t) /\ (Idle(s) => Idle(t)) /\ (On(t) <=> On(s))
         /\ \A P : P \subseteq Slots /\ i \notin P /\ InPlay(s, P) => InPlay(t, P)
         /\ \A P : On(s) /\ Counted(s, P) => Counted(t, P)
         /\ \A P : P \subseteq Slots /\ i \notin P /\ CanGive(s, P) => CanGive(t, P)
  <1>1. /\ Waiting(t) = Waiting(s) /\ Rows(t) = Rows(s) /\ Deck(t) = Deck(s)
        /\ LowestSlot(t) = LowestSlot(s) /\ (Blocked(t) <=> Blocked(s))
        /\ Boards(t) = Boards(s) /\ ReadyCards(t) = ReadyCards(s)
        /\ \A held : Neat(s, s, held) => Neat(t, t, held)
    BY SameCardsAs DEF SeatChanged
  <1>2. t.board = s.board /\ t.ready = s.ready /\ t.rules = s.rules
    BY DEF SeatChanged, SameCards
  <1>3. /\ \A j \in Slots \ {i} : HandOf(t, j) = HandOf(s, j)
        /\ \A j \in Slots : HandOf(t, j) \subseteq HandOf(s, j)
    BY DEF SeatChanged, HandOf
  <1>4. Held(t) \subseteq Held(s)
    BY <1>3 DEF Held
  <1>5. t.hand \in [Slots -> (SUBSET Cards) \cup {NoHand}]
    <2>1. \A j \in Slots : t.hand[j] \in (SUBSET Cards) \cup {NoHand}
      BY DEF SeatChanged, Sound, Formed
    <2> QED BY <2>1 DEF SeatChanged
  <1>6. On(t) <=> On(s)
    BY DEF SeatChanged, On
  <1>7. Formed(t)
    BY <1>1, <1>2, <1>5 DEF Sound, Formed, SeatChanged
  <1>8. DeckInUse(t)
    BY <1>1, <1>3, <1>6 DEF Sound, DeckInUse, SeatChanged
  <1>9. Apart(t)
    <2>1. Neat(t, t, Held(s))
      BY <1>1 DEF Sound, Apart
    <2>2. Neat(t, t, Held(t))
      BY <1>4, <2>1 DEF Neat
    <2> QED BY <1>3, <2>2 DEF Sound, Apart
  <1>10. Idle(s) => Idle(t)
    BY <1>1, <1>6 DEF Idle, SeatChanged
  <1>11. ASSUME NEW P, On(s), Counted(s, P) PROVE Counted(t, P)
    BY <1>1, <1>11 DEF Counted, SeatChanged
  <1>12. ASSUME NEW P, P \subseteq Slots, i \notin P, CanGive(s, P) PROVE CanGive(t, P)
    BY <1>2, <1>3, <1>12 DEF CanGive, SeatChanged
  <1>13. ASSUME NEW P, P \subseteq Slots, i \notin P, InPlay(s, P) PROVE InPlay(t, P)
    <2>1. CASE ~On(s)
      BY <1>6, <2>1 DEF InPlay
    <2>2. CASE On(s)
      <3>1. Counted(s, P) /\ CanGive(s, P) /\ Asked(s) /\ NotDue(s)
        BY <1>13, <2>2 DEF InPlay
      <3>2. NotDue(t)
        BY <2>2, <3>1 DEF NotDue, SeatChanged
      <3>3. Asked(t)
        <4>1. ASSUME t.game_state = "WAITING_EXTRA", ~BusMayFill
              PROVE  t.player_id[LowestSlot(t)] = t.extra_wait_from
          <5>1. Blocked(s) /\ s.player_id[LowestSlot(s)] = s.extra_wait_from
            BY <3>1, <4>1 DEF Asked, SeatChanged
          <5>2. LowestSlot(s) \in Slots \ {i}
            <6>1. Waiting(s) # {}
              BY <5>1 DEF Blocked
            <6>2. \A j \in Waiting(s) : s.ready[j] \in Nat
              <7>1. s.ready \in [Slots -> Deck(s) \cup {NoCard}] /\ s.rules \in Rules
                BY DEF Sound, Formed, ReadyCards
              <7>2. Deck(s) \subseteq Nat
                BY <7>1, SlotsAndRows
              <7> QED BY <7>1, <7>2 DEF Waiting
            <6>3. LowestSlot(s) \in Waiting(s)
              BY <6>1, <6>2, LowestSlotIs
            <6> QED BY <1>13, <3>1, <6>3 DEF Waiting, Counted
          <5> QED BY <1>1, <5>1, <5>2 DEF SeatChanged
        <4> QED BY <1>1, <3>1, <4>1 DEF Asked, SeatChanged
      <3>4. Counted(t, P)
        BY <1>11, <2>2, <3>1
      <3>5. CanGive(t, P)
        BY <1>12, <1>13, <3>1
      <3> QED BY <3>2, <3>3, <3>4, <3>5 DEF InPlay
    <2> QED BY <2>1, <2>2
  <1>14. Filled(t)
    BY <1>1, <1>2, <1>6 DEF Sound, Filled
  <1> QED BY <1>6, <1>7, <1>8, <1>9, <1>10, <1>11, <1>12, <1>13, <1>14 DEF Sound

-----------------------------------------------------------------------------
(* Coming and going *)

\* Slot i goes, and those of P stay.
MayPart(s, i, P) ==
  /\ Sound(s) /\ i \in Slots /\ i \notin P /\ P \subseteq Seated(s)
  /\ s.active_players \in Nat \ {0}
  /\ On(s) => Counted(s, P \cup {i}) /\ CanGive(s, P)

\* The player in slot i is withdrawn, and the round may be due without him.
Left(s, i) == [s EXCEPT !.active_players = @ - 1, !.ready[i] = NoCard]

\* The others can go on, whether or not it is due.
LEMMA LeftMayMove ==
  ASSUME NEW s, NEW i, NEW P, MayPart(s, i, P), On(s)
  PROVE  MayMove(Left(s, i), P)
  <1> DEFINE u == Left(s, i)
  <1>1. /\ DOMAIN u = AllFields /\ u.ready = [s.ready EXCEPT ![i] = NoCard]
        /\ u.game_state = s.game_state /\ u.ready_count = s.ready_count
        /\ u.extra_wait_from = s.extra_wait_from /\ u.role = s.role
        /\ u.player_id = s.player_id /\ u.board = s.board
        /\ u.hand = s.hand /\ u.rules = s.rules /\ u.heads = s.heads
        /\ u.nb_head = s.nb_head /\ u.active_players = s.active_players - 1
        /\ On(u)
    BY DEF Left, MayPart, Sound, Formed, AllFields, GameFields, MemberFields, On
  <1> HIDE DEF u
  <1>2. /\ Deck(u) = Deck(s) /\ Rows(u) = Rows(s) /\ Boards(u) = Boards(s)
        /\ ReadyCards(u) = ReadyCards(s)
        /\ \A j \in Slots : HandOf(u, j) = HandOf(s, j)
    BY <1>1 DEF Deck, Rows, Boards, ReadyCards, HandOf
  <1>3. s.ready \in [Slots -> Deck(s) \cup {NoCard}] /\ i \in Slots
    BY DEF MayPart, Sound, Formed, ReadyCards
  <1>4. /\ u.ready \in [Slots -> Deck(s) \cup {NoCard}]
        /\ \A j \in Slots : j # i => u.ready[j] = s.ready[j]
        /\ u.ready[i] = NoCard
    BY <1>1, <1>3
  <1>5. Waiting(u) = Waiting(s) \ {i} /\ \A j \in Waiting(u) : u.ready[j] = s.ready[j]
    BY <1>4 DEF Waiting
  <1>6. Formed(u)
    BY <1>1, <1>2, <1>4 DEF MayPart, Sound, Formed, ReadyCards
  <1>7. DeckInUse(u)
    BY <1>1, <1>2 DEF MayPart, Sound, DeckInUse, On
  <1>8. Apart(u)
    <2>1. Neat(s, s, Held(s)) /\ u.board = s.board /\ Held(u) = Held(s)
      BY <1>1, <1>2 DEF MayPart, Sound, Apart, Held
    <2>2. Neat(s, u, Held(s))
      BY <1>5, <2>1, NeatLess
    <2>3. Neat(u, u, Held(u))
      BY <1>1, <1>2, <2>1, <2>2 DEF Neat
    <2> QED BY <1>2, <2>3 DEF MayPart, Sound, Apart
  <1>9. Counted(u, P)
    <2>1. Counted(s, P \cup {i}) /\ s.active_players \in Nat
      BY DEF MayPart
    <2>2. Cardinality(Waiting(u)) <= Cardinality(Waiting(s))
      BY <1>5, FewerWait
    <2>3. Cardinality(Waiting(u)) \in Int /\ Cardinality(Waiting(s)) \in Int
          /\ s.ready_count \in Int
      <3>1. Cardinality(Waiting(u)) \in 0..MaxClients /\ Cardinality(Waiting(s)) \in 0..MaxClients
            /\ s.ready_count \in 0..MaxClients
        BY WaitingCounts DEF MayPart, Sound, Formed
      <3> QED BY <3>1
    <2>4. Cardinality(Waiting(u)) <= u.ready_count
      BY <1>1, <2>1, <2>2, <2>3 DEF Counted
    <2>5. Waiting(u) \subseteq P
      BY <1>5, <2>1 DEF Counted
    <2>6. u.game_state = "WAITING_EXTRA" =>
            u.ready_count >= u.active_players /\ u.ready_count > 0
      BY <1>1, <2>1, <2>3 DEF Counted
    <2> QED BY <2>4, <2>5, <2>6 DEF Counted
  <1>10. CanGive(u, P)
    <2>1. CanGive(s, P) /\ i \notin P /\ P \subseteq Slots
      BY DEF MayPart, Seated, Playing
    <2> QED BY <1>1, <1>2, <1>4, <2>1 DEF CanGive
  <1>11. u.active_players \in Nat /\ P \subseteq Seated(u)
    BY <1>1 DEF MayPart, Seated, Playing, Occupied, Free
  <1>12. Filled(u)
    BY <1>1, <1>2 DEF MayPart, Sound, Filled
  <1>13. MayMove(u, P)
    BY <1>6, <1>7, <1>8, <1>9, <1>10, <1>11, <1>12 DEF MayMove, Sound
  <1> QED BY <1>13 DEF u

\* The round that a player leaves goes on without him.
LEMMA WithdrawSound ==
  ASSUME NEW s, NEW i, NEW P, MayPart(s, i, P), NEW sent \in SentOutcomes
  PROVE  LET t == Withdraw(s, i, sent)
         IN  Sound(t) /\ InPlay(t, P) /\ (Idle(s) => Idle(t))
  <1> DEFINE a == [s EXCEPT !.active_players = @ - 1]
             u == Left(s, i)
             t == Withdraw(s, i, sent)
  <1>1. /\ ~On(s) => t = a
        /\ On(s) => t = StartMove(u, sent)
    BY DEF Withdraw, Left, On
  <1>2. Frame(s, a, {"active_players"})
    BY DEF Frame, MayPart, Sound, Formed, AllFields, MemberFields
  <1> HIDE DEF a, t
  <1>3. CASE ~On(s)
    <2>1. {"active_players"} \cap CardFields = {}
      BY DEF CardFields
    <2>2. /\ a.game_state = s.game_state /\ a.ready_count = s.ready_count
          /\ a.extra_wait_from = s.extra_wait_from /\ (On(a) <=> On(s))
      BY <1>2 DEF Frame, MayPart, Sound, Formed, AllFields, GameFields, MemberFields, On
    <2>3. a.game_state \in States /\ a.ready_count \in 0..MaxClients
          /\ a.extra_wait_from \in Clients \cup {NoClient}
      BY <2>2 DEF MayPart, Sound, Formed
    <2>4. Sound(s)
      BY DEF MayPart
    <2>5. Sound(a) /\ SameCards(s, a)
      BY <1>2, <2>1, <2>2, <2>3, <2>4, SoundFrame
    <2>6. Waiting(a) = Waiting(s)
      BY <2>5, SameCardsAs
    <2>7. InPlay(a, P) /\ (Idle(s) => Idle(a))
      BY <1>3, <2>2, <2>6 DEF InPlay, Idle
    <2> QED BY <1>1, <1>3, <2>5, <2>7 DEF t
  <1>4. CASE On(s)
    <2>1. MayMove(u, P)
      BY <1>4, LeftMayMove
    <2>2. On(u)
      BY <1>4 DEF Left, MayPart, Sound, Formed, AllFields, GameFields, On
    <2> HIDE DEF u
    <2> QED BY <1>1, <1>4, <2>1, <2>2, StartMoveSound DEF t
  <1> QED BY <1>3, <1>4

\* What holds of a session between two messages.
Whole(s) == Members(s) /\ Equipped(s) /\ Sound(s) /\ InPlay(s, Playing(s))

\* Who plays has a seat, and is counted.
LEMMA PlayersSeated ==
  ASSUME NEW s, Members(s)
  PROVE  /\ Seated(s) = Playing(s) /\ Playing(s) \subseteq Slots
         /\ \A i \in Playing(s) : s.active_players \in Nat \ {0}
         /\ s.active_players \in Nat
  <1>1. Seated(s) = Playing(s) /\ Playing(s) \in SUBSET Slots
    BY MembersCounts DEF Seated, Playing
  <1>2. s.active_players \in 0..MaxClients /\ s.active_players = Cardinality(Playing(s))
    BY MembersCounts DEF Members
  <1>3. ASSUME NEW i \in Playing(s) PROVE s.active_players # 0
    <2>1. /\ Cardinality(Playing(s) \ {i}) = Cardinality(Playing(s)) - 1
          /\ Playing(s) \ {i} \in SUBSET Slots
      BY <1>1, SlotSets
    <2>2. Cardinality(Playing(s) \ {i}) \in 0..MaxClients
      BY <2>1, SlotSets
    <2> QED BY <1>2, <2>1, <2>2, SlotsFinite
  <1> QED BY <1>1, <1>2, <1>3, SlotsFinite

\* remove_player
LEMMA RemovePlayerSound ==
  ASSUME NEW s, Whole(s), NEW c, NEW sent \in SentOutcomes
  PROVE  LET t == RemovePlayer(s, c, sent)
         IN  Whole(t) /\ (Idle(s) => Idle(t))
  <1> DEFINE t == RemovePlayer(s, c, sent)
  <1>0. Members(s) /\ Equipped(s) /\ Sound(s) /\ InPlay(s, Playing(s))
    BY DEF Whole
  <1>1. Members(t) /\ Equipped(t)
    BY <1>0, RemovePlayerMembers, RemovePlayerEquipped
  <1>2. CASE ~Member(s, c)
    BY <1>2 DEF RemovePlayer
  <1>3. CASE Member(s, c)
    <2> DEFINE i == Index(s, c)
               h == IF c = s.id_creator /\ s.number_clients > 1
                    THEN [s EXCEPT !.id_creator = Heir(s, i)] ELSE s
               u == IF s.role[i] = "PLAYER" THEN Withdraw(h, i, sent) ELSE h
               P == Playing(s) \ {i}
    <2>1. i \in Slots /\ s.role[i] \in {"PLAYER", "OBSERVER"}
      BY <1>0, <1>3, IndexIs
    <2>2. t = [u EXCEPT !.number_clients = @ - 1,
                        !.player_id[i] = NoClient, !.role[i] = "NONE",
                        !.is_connected[i] = FALSE,
                        !.hand[i] = NoHand, !.room[i] = 0]
      BY <1>3 DEF RemovePlayer
    <2>3. Frame(s, h, {"id_creator"})
      BY DEF Frame
    <2> HIDE DEF h, t, i
    <2>4. /\ DOMAIN h = AllFields /\ h.game_state = s.game_state
          /\ h.ready_count = s.ready_count /\ h.extra_wait_from = s.extra_wait_from
          /\ h.active_players = s.active_players /\ h.role = s.role
          /\ h.player_id = s.player_id /\ (On(h) <=> On(s))
      BY <1>0, <2>3 DEF Frame, Sound, Formed, AllFields, GameFields, MemberFields, On
    <2>5. Sound(h) /\ SameCards(s, h) /\ h.hand = s.hand
      BY <1>0, <2>3, <2>4, SoundFrame DEF CardFields, Sound, Formed
    <2>6. /\ Waiting(h) = Waiting(s) /\ (Blocked(h) <=> Blocked(s))
          /\ LowestSlot(h) = LowestSlot(s) /\ h.ready = s.ready /\ h.rules = s.rules
      BY <2>5, SameCardsAs DEF SameCards
    <2>7. Seated(h) = Playing(s) /\ Playing(s) \subseteq Slots
      <3>1. Seated(h) = Seated(s)
        BY <2>4 DEF Seated, Playing, Occupied, Free
      <3> QED BY <1>0, <3>1, PlayersSeated
    <2>8. InPlay(h, Playing(s)) /\ (Idle(s) => Idle(h))
      BY <1>0, <2>4, <2>5, <2>6
         DEF InPlay, Idle, Counted, CanGive, Asked, NotDue, HandOf
    <2>9. Sound(u) /\ InPlay(u, P) /\ (Idle(s) => Idle(u))
      <3>1. CASE s.role[i] = "PLAYER"
        <4>1. i \in Playing(s) /\ Playing(s) = P \cup {i}
          BY <2>1, <3>1 DEF Playing
        <4>2. h.active_players \in Nat \ {0}
          BY <1>0, <2>4, <4>1, PlayersSeated
        <4>3. On(h) => Counted(h, P \cup {i}) /\ CanGive(h, P)
          BY <2>8, <4>1 DEF InPlay, CanGive
        <4>4. MayPart(h, i, P)
          BY <2>1, <2>5, <2>7, <4>2, <4>3 DEF MayPart
        <4> HIDE DEF P
        <4> QED BY <2>8, <3>1, <4>4, WithdrawSound
      <3>2. CASE s.role[i] # "PLAYER"
        <4>1. P = Playing(s)
          BY <3>2 DEF Playing
        <4> QED BY <2>5, <2>8, <3>2, <4>1
      <3> QED BY <3>1, <3>2
    <2>10. /\ u.role = s.role /\ u.player_id = s.player_id /\ DOMAIN u = AllFields
      <3>1. Frame(h, Withdraw(h, i, sent), GameFields \cup {"active_players"})
        BY <2>4, WithdrawFrame DEF AllFields, MemberFields
      <3>2. Frame(h, u, GameFields \cup {"active_players"})
        BY <3>1 DEF Frame
      <3> HIDE DEF u
      <3> QED BY <2>4, <3>2 DEF Frame, AllFields, GameFields, MemberFields
    <2> HIDE DEF u
    <2>11. /\ DOMAIN t = AllFields /\ SameCards(u, t)
           /\ t.heads = u.heads /\ t.nb_head = u.nb_head
           /\ t.ready_count = u.ready_count /\ t.game_state = u.game_state
           /\ t.extra_wait_from = u.extra_wait_from /\ t.active_players = u.active_players
           /\ t.hand = [u.hand EXCEPT ![i] = NoHand]
           /\ t.player_id = [u.player_id EXCEPT ![i] = NoClient]
           /\ t.role = [u.role EXCEPT ![i] = "NONE"]
      BY <2>2, <2>10 DEF SameCards, AllFields, GameFields, MemberFields
    <2>12. SeatChanged(u, t, i)
      <3>1. u.hand \in [Slots -> (SUBSET Cards) \cup {NoHand}]
            /\ u.player_id \in [Slots -> Clients \cup {NoClient}]
        BY <2>9 DEF Sound, Formed
      <3>2. /\ \A j \in Slots \ {i} : t.hand[j] = u.hand[j] /\ t.player_id[j] = u.player_id[j]
            /\ t.hand[i] = NoHand /\ t.hand = [j \in Slots |-> t.hand[j]]
            /\ t.player_id \in [Slots -> Clients \cup {NoClient}]
        BY <2>1, <2>11, <3>1
      <3> QED BY <2>1, <2>11, <3>2 DEF SeatChanged
    <2>13. Sound(t) /\ InPlay(t, P) /\ (Idle(s) => Idle(t))
      BY <2>7, <2>9, <2>12, SeatChangedSound
    <2>14. P = Playing(t)
      BY <1>0, <2>1, <2>10, <2>11 DEF Playing, Members
    <2> QED BY <1>1, <2>13, <2>14 DEF Whole, t
  <1> QED BY <1>0, <1>1, <1>2, <1>3

\* The loops that remove everybody.
LEMMA RemoveAllSound ==
  ASSUME NEW s, Whole(s), NEW sent \in SentOutcomes
  PROVE  Whole(RemoveAll(s, sent))
  <1>1. PICK f : /\ RemoveAll(s, sent) = f[MaxClients]
                 /\ f[0] = s
                 /\ \A n \in 1..MaxClients : f[n] = RemovalStep(f, n, sent)
    BY RemoveAllIs
  <1> DEFINE T == {n \in 0..MaxClients : ~Whole(f[n])}
  <1>2. ASSUME NEW n \in T, \A j \in T : n <= j PROVE FALSE
    <2>1. n # 0
      BY <1>1
    <2>2. n \in 1..MaxClients /\ n - 1 \in 0..MaxClients /\ n - 1 \notin T
      BY <1>2, <2>1, SlotsFinite
    <2>3. Whole(f[n - 1])
      BY <2>2
    <2>4. f[n] = RemovePlayer(f[n - 1], f[n - 1].player_id[n - 1], sent)
      BY <1>1, <2>2 DEF RemovalStep
    <2> QED BY <2>3, <2>4, RemovePlayerSound
  <1>3. T \in SUBSET Nat
    BY SlotsFinite
  <1>4. T = {}
    <2> HIDE DEF T
    <2> QED BY <1>2, <1>3, LeastNat
  <1>5. Whole(f[MaxClients])
    BY <1>4, SlotsFinite
  <1> QED BY <1>1, <1>5

\* A player who goes leaves a game that the others can go on with.
LEMMA PlayerMayPart ==
  ASSUME NEW s, Whole(s), NEW i \in Slots, s.role[i] = "PLAYER"
  PROVE  MayPart(s, i, Playing(s) \ {i})
  <1> DEFINE P == Playing(s) \ {i}
  <1>1. Members(s) /\ Sound(s) /\ InPlay(s, Playing(s))
    BY DEF Whole
  <1>2. i \in Playing(s) /\ Playing(s) = P \cup {i}
    BY DEF Playing
  <1>3. Seated(s) = Playing(s) /\ s.active_players \in Nat \ {0}
    BY <1>1, <1>2, PlayersSeated
  <1>4. On(s) => Counted(s, P \cup {i}) /\ CanGive(s, P)
    BY <1>1, <1>2 DEF InPlay, CanGive
  <1> QED BY <1>1, <1>2, <1>3, <1>4 DEF MayPart

\* So does one whose hand is freed first, as change_player_role does.
LEMMA HandFreedMayPart ==
  ASSUME NEW s, Whole(s), NEW i \in Slots, s.role[i] = "PLAYER", NEW h,
         DOMAIN h = AllFields, SameCards(s, h), h.heads = s.heads, h.nb_head = s.nb_head,
         h.ready_count = s.ready_count, h.game_state = s.game_state,
         h.extra_wait_from = s.extra_wait_from, h.active_players = s.active_players,
         h.hand = [s.hand EXCEPT ![i] = NoHand],
         h.player_id = s.player_id, h.role = s.role
  PROVE  MayPart(h, i, Playing(s) \ {i}) /\ Sound(h) /\ (Idle(s) => Idle(h))
  <1> DEFINE P == Playing(s) \ {i}
  <1>0. Members(s) /\ Equipped(s) /\ Sound(s) /\ InPlay(s, Playing(s))
    BY DEF Whole
  <1>1. SeatChanged(s, h, i)
    <2>1. s.hand \in [Slots -> (SUBSET Cards) \cup {NoHand}]
          /\ s.player_id \in [Slots -> Clients \cup {NoClient}]
      BY <1>0 DEF Sound, Formed
    <2>2. /\ \A j \in Slots \ {i} : h.hand[j] = s.hand[j]
          /\ h.hand[i] = NoHand /\ h.hand = [j \in Slots |-> h.hand[j]]
      BY <2>1
    <2> QED BY <2>1, <2>2 DEF SeatChanged
  <1>2. i \in Playing(s) /\ Playing(s) = P \cup {i} /\ Playing(s) \subseteq Slots
    BY DEF Playing
  <1>3. Sound(h) /\ (Idle(s) => Idle(h)) /\ (On(h) <=> On(s))
    BY <1>0, <1>1, SeatChangedSound
  <1>4. On(h) => Counted(h, P \cup {i}) /\ CanGive(h, P)
    <2>1. On(s) => Counted(s, Playing(s)) /\ CanGive(s, P)
      BY <1>0 DEF InPlay, CanGive
    <2>2. P \subseteq Slots /\ i \notin P
      BY <1>2
    <2> HIDE DEF P
    <2> QED BY <1>0, <1>1, <1>2, <1>3, <2>1, <2>2, SeatChangedSound
  <1>5. Seated(h) = Playing(s)
    <2>1. Seated(h) = Seated(s)
      BY DEF Seated, Playing, Occupied, Free
    <2> QED BY <1>0, <2>1, PlayersSeated
  <1>6. h.active_players \in Nat \ {0}
    BY <1>0, <1>2, PlayersSeated
  <1>7. MayPart(h, i, P)
    BY <1>2, <1>3, <1>4, <1>5, <1>6 DEF MayPart
  <1> QED BY <1>3, <1>7

\* change_player_role
LEMMA MakeObserverSound ==
  ASSUME NEW s, Whole(s), NEW c, Member(s, c), NEW sent \in SentOutcomes
  PROVE  LET t == MakeObserver(s, c, sent)
         IN  Whole(t) /\ (Idle(s) => Idle(t))
  <1> DEFINE i == Index(s, c)
             h == [s EXCEPT !.hand[i] = NoHand, !.room[i] = 0]
             u == Withdraw(h, i, sent)
             t == MakeObserver(s, c, sent)
             P == Playing(s) \ {i}
  <1>0. Members(s) /\ Equipped(s) /\ Sound(s) /\ InPlay(s, Playing(s))
    BY DEF Whole
  <1>1. i \in Slots /\ s.role[i] \in {"PLAYER", "OBSERVER"}
    BY <1>0, IndexIs
  <1>2. CASE s.role[i] = "OBSERVER"
    BY <1>2 DEF MakeObserver
  <1>3. CASE s.role[i] = "PLAYER"
    <2>1. t = [u EXCEPT !.role[i] = "OBSERVER"]
      BY <1>3 DEF MakeObserver
    <2>2. Members(t) /\ Equipped(t)
      BY <1>0, MakeObserverMembers, MakeObserverEquipped
    <2>3. /\ DOMAIN h = AllFields /\ SameCards(s, h)
          /\ h.heads = s.heads /\ h.nb_head = s.nb_head
          /\ h.ready_count = s.ready_count /\ h.game_state = s.game_state
          /\ h.extra_wait_from = s.extra_wait_from /\ h.active_players = s.active_players
          /\ h.hand = [s.hand EXCEPT ![i] = NoHand]
          /\ h.player_id = s.player_id /\ h.role = s.role
      BY <1>0 DEF SameCards, Sound, Formed, AllFields, GameFields, MemberFields
    <2> HIDE DEF h, t, i
    <2>5. i \in Playing(s) /\ Playing(s) = P \cup {i} /\ Playing(s) \subseteq Slots
      BY <1>1, <1>3 DEF Playing
    <2>6. MayPart(h, i, P) /\ Sound(h) /\ (Idle(s) => Idle(h))
      BY <1>1, <1>3, <2>3, HandFreedMayPart
    <2>11. Sound(u) /\ InPlay(u, P) /\ (Idle(h) => Idle(u))
      <3> HIDE DEF P
      <3> QED BY <2>6, WithdrawSound
    <2>12. u.role = s.role /\ DOMAIN u = AllFields
      <3>1. Frame(h, u, GameFields \cup {"active_players"})
        BY <2>3, WithdrawFrame DEF AllFields, MemberFields
      <3> HIDE DEF u
      <3> QED BY <2>3, <3>1 DEF Frame, AllFields, GameFields, MemberFields
    <2> HIDE DEF u
    <2>13. Frame(u, t, {"role"}) /\ t.role = [s.role EXCEPT ![i] = "OBSERVER"]
      BY <2>1, <2>12 DEF Frame, AllFields, MemberFields
    <2>14. /\ t.game_state = u.game_state /\ t.ready_count = u.ready_count
           /\ t.extra_wait_from = u.extra_wait_from /\ t.active_players = u.active_players
           /\ (On(t) <=> On(u))
      BY <2>12, <2>13 DEF Frame, AllFields, GameFields, MemberFields, On
    <2>15. Sound(t) /\ SameCards(u, t) /\ t.hand = u.hand /\ t.player_id = u.player_id
      BY <2>11, <2>13, <2>14, SoundFrame DEF CardFields, Sound, Formed
    <2>16. /\ Waiting(t) = Waiting(u) /\ (Blocked(t) <=> Blocked(u))
           /\ LowestSlot(t) = LowestSlot(u) /\ t.ready = u.ready /\ t.rules = u.rules
      BY <2>15, SameCardsAs DEF SameCards
    <2>17. InPlay(t, P) /\ (Idle(u) => Idle(t))
      <3> HIDE DEF P
      <3> QED BY <2>11, <2>14, <2>15, <2>16
              DEF InPlay, Idle, Counted, CanGive, Asked, NotDue, HandOf
    <2>18. Playing(t) = P
      BY <1>0, <1>1, <2>13 DEF Playing, Members
    <2> QED BY <2>2, <2>6, <2>11, <2>15, <2>17, <2>18 DEF Whole, t
  <1> QED BY <1>1, <1>2, <1>3

\* A change of fields that are neither of the cards nor of the game.
LEMMA WholeFrame ==
  ASSUME NEW s, Whole(s), NEW t, Equipped(t),
         NEW F, Frame(s, t, F), F \cap (CardFields \cup GameFields \cup MemberFields) = {}
  PROVE  Whole(t) /\ (Idle(s) => Idle(t))
  <1>1. Members(s) /\ Equipped(s) /\ Sound(s) /\ InPlay(s, Playing(s))
    BY DEF Whole
  <1>2. F \cap MemberFields = {} /\ F \cap CardFields = {} /\ F \cap GameFields = {}
    OBVIOUS
  <1>3. Members(t)
    BY <1>1, <1>2, MembersFrame
  <1>4. /\ t.game_state = s.game_state /\ t.ready_count = s.ready_count
        /\ t.extra_wait_from = s.extra_wait_from /\ t.active_players = s.active_players
        /\ t.role = s.role /\ (On(t) <=> On(s))
    BY <1>1, <1>2 DEF Sound, Formed, Frame, AllFields, GameFields, MemberFields, On
  <1>5. Sound(t) /\ SameCards(s, t) /\ t.hand = s.hand /\ t.player_id = s.player_id
    BY <1>1, <1>2, <1>4, SoundFrame DEF Sound, Formed
  <1>6. /\ Waiting(t) = Waiting(s) /\ (Blocked(t) <=> Blocked(s))
        /\ LowestSlot(t) = LowestSlot(s) /\ t.ready = s.ready /\ t.rules = s.rules
        /\ Playing(t) = Playing(s)
    BY <1>4, <1>5, SameCardsAs DEF SameCards, Playing
  <1>7. InPlay(t, Playing(t)) /\ (Idle(s) => Idle(t))
    BY <1>1, <1>4, <1>5, <1>6
       DEF InPlay, Idle, Counted, CanGive, Asked, NotDue, HandOf
  <1> QED BY <1>3, <1>5, <1>7 DEF Whole

\* Fields that have no part in the hands.
LEMMA EquippedFlags ==
  ASSUME NEW s, Equipped(s), NEW t, NEW F, Frame(s, t, F),
         F \cap {"hand", "room", "rules", "freed", "role", "game_state"} = {},
         t.is_connected \in [Slots -> BOOLEAN], t.unregister_send \in {0, 1},
         t.id_creator \in Clients \cup {NoClient}
  PROVE  Equipped(t)
  <1>1. /\ t.hand = s.hand /\ t.room = s.room /\ t.rules = s.rules
        /\ t.freed = s.freed /\ t.game_state = s.game_state /\ t.role = s.role
        /\ DOMAIN t = AllFields
    BY DEF Equipped, Frame, AllFields, MemberFields, GameFields
  <1>2. Playing(t) = Playing(s) /\ (On(t) <=> On(s))
    BY <1>1 DEF Playing, On
  <1> QED BY <1>1, <1>2 DEF Equipped

\* USER_LEFT and CLOSE leave a session that is whole, though one that asks to be
\* unregistered.
LEMMA UnregisteringSound ==
  ASSUME NEW s, Whole(s)
  PROVE  LET t == [s EXCEPT !.unregister_send = 1]
         IN  Whole(t) /\ t.unregister_send = 1
  <1> DEFINE t == [s EXCEPT !.unregister_send = 1]
             F == {"unregister_send"}
  <1>1. Equipped(s)
    BY DEF Whole
  <1>2. Frame(s, t, F) /\ t.unregister_send = 1 /\ t.is_connected = s.is_connected
        /\ t.id_creator = s.id_creator
    BY <1>1 DEF Frame, Equipped, AllFields
  <1> HIDE DEF t
  <1>3. F \cap {"hand", "room", "rules", "freed", "role", "game_state"} = {}
        /\ F \cap (CardFields \cup GameFields \cup MemberFields) = {}
    BY DEF CardFields, GameFields, MemberFields
  <1>4. t.is_connected \in [Slots -> BOOLEAN] /\ t.unregister_send \in {0, 1}
        /\ t.id_creator \in Clients \cup {NoClient}
    BY <1>1, <1>2 DEF Equipped
  <1> HIDE DEF F
  <1>5. Equipped(t)
    BY <1>1, <1>2, <1>3, <1>4, EquippedFlags
  <1> QED BY <1>2, <1>3, <1>5, WholeFrame DEF t

\* USER_LEFT, after which the session may ask to be unregistered.
LEMMA AfterUserLeftSound ==
  ASSUME NEW s, Whole(s), NEW c, Member(s, c), NEW sent \in SentOutcomes
  PROVE  LET t == AfterUserLeft(s, c, sent)
         IN  Whole(t) /\ (Idle(s) => t.unregister_send = 1 \/ Idle(t))
  <1> DEFINE m == MakeObserver(s, c, sent)
             t == [m EXCEPT !.is_connected[Index(s, c)] = FALSE]
             a == RemoveAll(t, sent)
             z == [a EXCEPT !.unregister_send = 1]
             F == {"is_connected"}
  <1>1. AfterUserLeft(s, c, sent) = t \/ AfterUserLeft(s, c, sent) = z
    BY DEF AfterUserLeft
  <1>2. Whole(m) /\ (Idle(s) => Idle(m)) /\ Index(s, c) \in Slots
    BY MakeObserverSound, IndexIs DEF Whole
  <1> HIDE DEF m
  <1>3. Equipped(m)
    BY <1>2 DEF Whole
  <1>4. Frame(m, t, F) /\ t.is_connected = [m.is_connected EXCEPT ![Index(s, c)] = FALSE]
        /\ t.unregister_send = m.unregister_send /\ t.id_creator = m.id_creator
    BY <1>3 DEF Frame, Equipped, AllFields
  <1> HIDE DEF t
  <1>5. F \cap {"hand", "room", "rules", "freed", "role", "game_state"} = {}
        /\ F \cap (CardFields \cup GameFields \cup MemberFields) = {}
    BY DEF CardFields, GameFields, MemberFields
  <1>6. t.is_connected \in [Slots -> BOOLEAN] /\ t.unregister_send \in {0, 1}
        /\ t.id_creator \in Clients \cup {NoClient}
    BY <1>2, <1>3, <1>4 DEF Equipped
  <1> HIDE DEF F
  <1>7. Equipped(t)
    BY <1>3, <1>4, <1>5, <1>6, EquippedFlags
  <1>8. Whole(t) /\ (Idle(s) => Idle(t))
    BY <1>2, <1>4, <1>5, <1>7, WholeFrame
  <1>9. Whole(a)
    BY <1>8, RemoveAllSound
  <1> HIDE DEF a
  <1>10. Whole(z) /\ z.unregister_send = 1
    BY <1>9, UnregisteringSound
  <1> HIDE DEF z
  <1> QED BY <1>1, <1>8, <1>10

\* The game is stopped before everybody is removed: cards may be left waiting,
\* but nothing more is handled.
LEMMA AfterCloseSound ==
  ASSUME NEW s, Whole(s), NEW sent \in SentOutcomes
  PROVE  LET t == AfterClose(s, sent) IN Whole(t) /\ t.unregister_send = 1
  <1> DEFINE t == [s EXCEPT !.game_state = "INACTIVE"]
             a == RemoveAll(t, sent)
             z == [a EXCEPT !.unregister_send = 1]
  <1>0. Members(s) /\ Equipped(s) /\ Sound(s) /\ InPlay(s, Playing(s))
    BY DEF Whole
  <1>1. AfterClose(s, sent) = z
    BY DEF AfterClose
  <1>2. Frame(s, t, {"game_state"}) /\ t.game_state = "INACTIVE"
        /\ t.ready_count = s.ready_count /\ t.extra_wait_from = s.extra_wait_from
    BY <1>0 DEF Frame, Equipped, AllFields, GameFields
  <1> HIDE DEF t
  <1>3. Members(t)
    BY <1>0, <1>2, MembersFrame DEF MemberFields
  <1>4. Equipped(t) /\ ~On(t)
    BY <1>0, <1>2, EquippedFrame DEF EquippedFields, On, States
  <1>5. Sound(t)
    BY <1>0, <1>2, <1>4, SoundFrame DEF CardFields, Sound, Formed, States
  <1>6. Whole(t)
    BY <1>3, <1>4, <1>5 DEF Whole, InPlay
  <1>7. Whole(a)
    BY <1>6, RemoveAllSound
  <1> HIDE DEF a
  <1> QED BY <1>1, <1>7, UnregisteringSound

\* Who joins gets an empty hand, and plays only when no game is on.
LEMMA AfterJoinSound ==
  ASSUME NEW s, Whole(s), NEW c \in Clients, Admissible(s, c)
  PROVE  LET t == AfterJoin(s, c) IN Whole(t) /\ (Idle(s) => Idle(t))
  <1> DEFINE h == IF s.number_clients = 0
                  THEN [s EXCEPT !.id_creator = c, !.unregister_send = 0] ELSE s
             newRole == IF s.game_state = "INACTIVE" /\ s.active_players < GameCapacity
                        THEN "PLAYER" ELSE "OBSERVER"
             i == Min(Free(h))
             room == IF newRole = "PLAYER" THEN h.rules.nbrCardsPlayer ELSE 0
             t == AfterJoin(s, c)
  <1>0. Members(s) /\ Equipped(s) /\ Sound(s) /\ InPlay(s, Playing(s))
    BY DEF Whole
  <1>1. Members(t) /\ Equipped(t)
    BY <1>0, AfterJoinMembers, AfterJoinEquipped
  <1>2. t = AddPlayer(h, c, newRole)
    BY DEF AfterJoin
  <1> HIDE DEF t
  <1>3. /\ DOMAIN h = AllFields /\ SameCards(s, h)
        /\ h.heads = s.heads /\ h.nb_head = s.nb_head
        /\ h.ready_count = s.ready_count /\ h.game_state = s.game_state
        /\ h.extra_wait_from = s.extra_wait_from /\ h.active_players = s.active_players
        /\ h.hand = s.hand /\ h.player_id = s.player_id /\ h.role = s.role
    BY <1>0 DEF SameCards, Sound, Formed, AllFields, GameFields, MemberFields
  <1> HIDE DEF h
  <1>4. /\ DOMAIN t = AllFields /\ SameCards(h, t)
        /\ t.heads = h.heads /\ t.nb_head = h.nb_head
        /\ t.ready_count = h.ready_count /\ t.game_state = h.game_state
        /\ t.extra_wait_from = h.extra_wait_from
        /\ t.active_players = IF newRole = "PLAYER" THEN h.active_players + 1
                                                    ELSE h.active_players
        /\ t.hand = [h.hand EXCEPT ![i] = IF room > 0 THEN {} ELSE NoHand]
        /\ t.player_id = [h.player_id EXCEPT ![i] = c]
        /\ t.role = [h.role EXCEPT ![i] = newRole]
    BY <1>2, <1>3 DEF AddPlayer, SameCards, AllFields, GameFields, MemberFields
  <1>5. i \in Free(s) /\ i \in Slots
    <2>1. Free(h) = Free(s)
      BY <1>3 DEF Free
    <2>2. Free(s) # {} /\ Free(s) \in SUBSET Nat
      BY <1>0, MembersCounts, SlotsFinite DEF Admissible, Free
    <2>3. i \in Free(h)
      BY <2>1, <2>2, MinIs
    <2> HIDE DEF i
    <2> QED BY <2>1, <2>3 DEF Free
  <1>6. On(s) => newRole # "PLAYER"
    BY DEF On
  <1> HIDE DEF i, room, newRole
  <1>7. SeatChanged(s, t, i)
    <2>1. s.hand \in [Slots -> (SUBSET Cards) \cup {NoHand}]
          /\ s.player_id \in [Slots -> Clients \cup {NoClient}]
      BY <1>0 DEF Sound, Formed
    <2>2. /\ \A j \in Slots \ {i} : t.hand[j] = s.hand[j] /\ t.player_id[j] = s.player_id[j]
          /\ t.hand[i] \in {NoHand, {}} /\ t.hand = [j \in Slots |-> t.hand[j]]
          /\ t.player_id \in [Slots -> Clients \cup {NoClient}]
      BY <1>3, <1>4, <1>5, <2>1
    <2>3. SameCards(s, t)
      BY <1>3, <1>4 DEF SameCards
    <2> QED BY <1>3, <1>4, <1>5, <1>6, <2>2, <2>3 DEF SeatChanged
  <1>8. i \notin Playing(s) /\ Playing(s) \subseteq Slots
    BY <1>0, <1>5 DEF Members, Playing
  <1>9. Sound(t) /\ (Idle(s) => Idle(t)) /\ (On(t) <=> On(s)) /\ InPlay(t, Playing(s))
    BY <1>0, <1>7, <1>8, SeatChangedSound
  <1>10. On(s) => Playing(t) = Playing(s)
    BY <1>0, <1>3, <1>4, <1>5, <1>6, <1>8 DEF Playing, Members
  <1>11. InPlay(t, Playing(t))
    BY <1>9, <1>10 DEF InPlay
  <1> QED BY <1>1, <1>9, <1>11 DEF Whole, t

-----------------------------------------------------------------------------
(* Rules and dealing *)

\* SET_GAME_RULES between two games.
LEMMA WithRulesSound ==
  ASSUME NEW s, Whole(s), ~On(s), Idle(s), NEW r \in RuleSets
  PROVE  LET t == WithRules(s, r) IN Whole(t) /\ Idle(t)
  <1> DEFINE t == WithRules(s, r)
  <1>0. Members(s) /\ Equipped(s) /\ Sound(s)
    BY DEF Whole
  <1>1. Members(t) /\ Equipped(t)
    BY <1>0, GameMembers, WithRulesEquipped
  <1>2. CASE InitFails(r)
    <2>1. Frame(s, t, {"freed"})
      BY <1>2 DEF WithRules, Frame
    <2>2. {"freed"} \cap (CardFields \cup GameFields \cup MemberFields) = {}
      BY DEF CardFields, GameFields, MemberFields
    <2> HIDE DEF t
    <2>3. Whole(t) /\ Idle(t)
      BY <1>1, <2>1, <2>2, WholeFrame
    <2> QED BY <2>3 DEF t
  <1>3. CASE ~InitFails(r)
    <2>1. /\ DOMAIN t = AllFields
          /\ t.rules = r /\ t.heads = NoHeads /\ t.board = EmptyBoard(r)
          /\ t.ready = [i \in Slots |-> NoCard] /\ t.ready_count = 0
          /\ t.game_state = s.game_state /\ t.hand = s.hand /\ t.player_id = s.player_id
          /\ t.nb_head = s.nb_head /\ t.extra_wait_from = s.extra_wait_from
      BY <1>0, <1>3 DEF WithRules, Sound, Formed, AllFields, GameFields, MemberFields
    <2> HIDE DEF t
    <2>2. ~On(t) /\ Waiting(t) = {} /\ Idle(t)
      BY <2>1 DEF On, Waiting, Idle
    <2>3. t.board = [row \in Rows(t) |-> << >>]
      BY <2>1 DEF EmptyBoard, Rows
    <2>4. t.board \in Boards(t) /\ t.ready \in ReadyCards(t)
      BY <2>1, <2>3 DEF Boards, ReadyCards
    <2>5. t.rules \in Rules /\ 0 \in 0..MaxClients
      BY <2>1, SlotsAndRows DEF Rules
    <2>6. Formed(t)
      BY <1>0, <2>1, <2>4, <2>5 DEF Sound, Formed
    <2>7. DeckInUse(t)
      BY <2>2 DEF DeckInUse
    <2>8. Neat(t, t, Held(t))
      <3>1. 0 <= t.rules.nbrCardsLign
        <4>1. t.rules.nbrCardsLign \in 1..255
          BY <2>5, SlotsAndRows
        <4> QED BY <4>1
      <3>2. ToSet(<< >>) = {} /\ Sorted(<< >>) /\ Len(<< >>) = 0
        BY ShortRows
      <3>3. \A row \in Rows(t) : t.board[row] = << >>
        BY <2>3
      <3> QED BY <2>2, <3>1, <3>2, <3>3 DEF Neat
    <2>9. \A i \in Slots : HandOf(t, i) = HandOf(s, i)
      BY <2>1 DEF HandOf
    <2>10. Sound(t)
      BY <1>0, <2>2, <2>6, <2>7, <2>8, <2>9 DEF Sound, Apart, Filled
    <2> QED BY <1>1, <2>2, <2>10 DEF Whole, InPlay, t
  <1> QED BY <1>2, <1>3

\* Rules that leave cards for everybody who may play serve everybody who does.
LEMMA AllServed ==
  ASSUME NEW s, Members(s), s.rules \in Rules, Ample(s.rules)
  PROVE  Served(s) = Seated(s)
  <1> DEFINE n == s.rules.nbrCardsPlayer
             l == s.rules.nbrLign
  <1>1. n \in Nat /\ l \in Nat /\ GameCapacity \in Nat /\ s.rules.nbrCards \in Nat
    <2>1. s.rules.nbrCardsPlayer \in 0..255 /\ s.rules.nbrLign \in 1..255
          /\ s.rules.nbrCards \in 0..255
      BY GameAssumption
    <2>2. GameCapacity \in 1..255
      BY SessionAssumption
    <2> QED BY <2>1, <2>2
  <1>2. l + n * GameCapacity <= s.rules.nbrCards
    BY DEF Ample
  <1>3. ASSUME NEW i \in Seated(s) PROVE l + (Rank(s, i) + 1) * n <= s.rules.nbrCards
    <2>1. Rank(s, i) \in Nat /\ Rank(s, i) + 1 <= Cardinality(Seated(s))
      BY RankIs
    <2>2. Cardinality(Seated(s)) = s.active_players /\ s.active_players <= GameCapacity
          /\ s.active_players \in Nat
      BY PlayersSeated DEF Members
    <2> DEFINE k == Rank(s, i) + 1
    <2>3. k \in Nat /\ k <= GameCapacity
      BY <1>1, <2>1, <2>2
    <2> HIDE DEF k, n, l
    <2>4. k * n <= n * GameCapacity /\ k * n \in Nat /\ n * GameCapacity \in Nat
      BY <1>1, <2>3
    <2>5. l + k * n <= s.rules.nbrCards
      BY <1>1, <1>2, <2>4
    <2> QED BY <2>5 DEF k, n, l
  <1> QED BY <1>3 DEF Served

\* The slices of two players have no card in common, and none with the rows.
LEMMA SlicesApart ==
  ASSUME NEW s, s.rules \in Rules, NEW ids,
         \A k, m \in 1..s.rules.nbrCards : ids[k] = ids[m] => k = m,
         NEW shuffle \in Shuffles
  PROVE  /\ \A i, j \in Served(s) : i # j =>
              \A c \in Slice(ids, First(s, i), s.rules.nbrCardsPlayer) :
                 c \notin Slice(ids, First(s, j), s.rules.nbrCardsPlayer)
         /\ \A i \in Served(s) : \A row \in Rows(s) : row < s.rules.nbrCards =>
              ids[row + 1] \notin Slice(ids, First(s, i), s.rules.nbrCardsPlayer)
  <1> DEFINE n == s.rules.nbrCardsPlayer
             l == s.rules.nbrLign
             N == s.rules.nbrCards
  <1>1. n \in Nat /\ l \in Nat /\ l > 0 /\ N \in Nat
    <2>1. s.rules.nbrCardsPlayer \in 0..255 /\ s.rules.nbrLign \in 1..255
          /\ s.rules.nbrCards \in 0..255
      BY GameAssumption
    <2> QED BY <2>1
  <1>2. ASSUME NEW i \in Served(s)
        PROVE  /\ i \in Seated(s) /\ i \in Nat /\ Rank(s, i) \in Nat
               /\ First(s, i) \in Nat /\ First(s, i) + n <= N
               /\ First(s, i) = l + Rank(s, i) * n /\ l <= First(s, i)
    <2>1. i \in Seated(s) /\ i \in Nat
      BY SlotsFinite DEF Served, Seated, Playing
    <2>2. Rank(s, i) \in Nat
      BY <2>1, RankIs
    <2>3. First(s, i) = l + Rank(s, i) * n
      BY DEF First
    <2>4. First(s, i) \in Nat /\ First(s, i) + n <= N
      BY DealtIs
    <2> HIDE DEF n, l, N
    <2>5. Rank(s, i) * n \in Nat
      BY <1>1, <2>2
    <2>6. l <= First(s, i)
      BY <1>1, <2>3, <2>5
    <2> QED BY <2>1, <2>2, <2>3, <2>4, <2>6
  <1> HIDE DEF n, l, N
  <1>3. ASSUME NEW i \in Served(s), NEW j \in Served(s), i < j
        PROVE  First(s, i) + n <= First(s, j)
    <2>1. Rank(s, i) + 1 <= Rank(s, j)
      BY <1>2, <1>3, RankIs
    <2> DEFINE a == Rank(s, i)
               b == Rank(s, j)
    <2>2. a \in Nat /\ b \in Nat /\ a + 1 <= b
      BY <1>2, <2>1
    <2>3. First(s, i) = l + a * n /\ First(s, j) = l + b * n
      BY <1>2
    <2> HIDE DEF a, b
    <2>4. (a + 1) * n <= b * n /\ (a + 1) * n = a * n + n /\ a * n \in Nat /\ b * n \in Nat
      BY <1>1, <2>2
    <2> QED BY <1>1, <2>3, <2>4
  <1>4. ASSUME NEW i \in Served(s), NEW c \in Slice(ids, First(s, i), n)
        PROVE  \E k \in 1..N : c = ids[k] /\ First(s, i) < k /\ k <= First(s, i) + n
    <2>1. PICK k \in (First(s, i) + 1)..(First(s, i) + n) : c = ids[k]
      BY <1>4 DEF Slice
    <2>2. k \in 1..N /\ First(s, i) < k /\ k <= First(s, i) + n
      BY <1>1, <1>2
    <2> QED BY <2>1, <2>2
  <1>5. \A k, m \in 1..N : ids[k] = ids[m] => k = m
    BY DEF N
  <1>6. ASSUME NEW i \in Served(s), NEW j \in Served(s), i < j,
               NEW c \in Slice(ids, First(s, i), n), c \in Slice(ids, First(s, j), n)
        PROVE  FALSE
    <2>1. PICK k \in 1..N : c = ids[k] /\ First(s, i) < k /\ k <= First(s, i) + n
      BY <1>4
    <2>2. PICK m \in 1..N : c = ids[m] /\ First(s, j) < m /\ m <= First(s, j) + n
      BY <1>4, <1>6
    <2>3. k = m
      BY <1>5, <2>1, <2>2
    <2>4. First(s, i) + n <= First(s, j)
      BY <1>3, <1>6
    <2> QED BY <1>1, <1>2, <2>1, <2>2, <2>3, <2>4
  <1>7. ASSUME NEW i \in Served(s), NEW row \in Rows(s), row < N,
               ids[row + 1] \in Slice(ids, First(s, i), n)
        PROVE  FALSE
    <2>1. PICK k \in 1..N : ids[row + 1] = ids[k] /\ First(s, i) < k /\ k <= First(s, i) + n
      BY <1>4, <1>7
    <2>2. row \in Nat /\ row + 1 <= l
      BY <1>1 DEF Rows, l
    <2>3. row + 1 \in 1..N
      BY <1>1, <1>7, <2>2
    <2>4. row + 1 = k
      BY <1>5, <2>1, <2>3
    <2> QED BY <1>1, <1>2, <2>1, <2>2, <2>4
  <1>8. \A i, j \in Served(s) : i # j => i < j \/ j < i
    BY <1>2
  <1>9. ASSUME NEW i \in Served(s), NEW j \in Served(s), i # j,
               NEW c \in Slice(ids, First(s, i), n)
        PROVE  c \notin Slice(ids, First(s, j), n)
    BY <1>6, <1>8, <1>9
  <1> QED BY <1>7, <1>9 DEF n, N

\* START between two games deals each card at most once, if the players whom the
\* deck does not suffice for hold no cards of a former game.
LEMMA DealSound ==
  ASSUME NEW s, Whole(s), ~On(s), Idle(s), ~StartCrashes(s),
         \A i \in Seated(s) \ Served(s) : HandOf(s, i) = {},
         NEW shuffle \in Shuffles
  PROVE  LET t == Deal(s, shuffle) IN Whole(t) /\ On(t)
  <1> DEFINE ids == Shuffled(shuffle.cards, s.rules.nbrCards)
             n == s.rules.nbrCardsPlayer
             N == s.rules.nbrCards
             heads == HeadsOf(Shuffled(shuffle.heads, s.rules.nbrCards), s.rules.nbHead)
             board == [row \in Rows(s) |->
                         IF row < s.rules.nbrCards THEN <<ids[row + 1]>> ELSE << >>]
             hand == [i \in Slots |-> IF i \in Served(s) /\ s.hand[i] # NoHand
                                      THEN ToSet(HandDealt(s, ids, i)) ELSE s.hand[i]]
             t == Deal(s, shuffle)
  <1>0. Members(s) /\ Equipped(s) /\ Sound(s)
    BY DEF Whole
  <1>1. Members(t) /\ Equipped(t)
    BY <1>0, GameMembers, DealEquipped
  <1>2. /\ DOMAIN t = AllFields
        /\ t.heads = heads /\ t.board = board /\ t.hand = hand /\ t.game_state = "WAITING"
        /\ t.ready = s.ready /\ t.nb_head = s.nb_head /\ t.ready_count = s.ready_count
        /\ t.rules = s.rules /\ t.player_id = s.player_id /\ t.role = s.role
        /\ t.extra_wait_from = s.extra_wait_from /\ t.active_players = s.active_players
    BY <1>0 DEF Deal, Sound, Formed, AllFields, GameFields, MemberFields
  <1>3. s.rules \in Rules /\ N \in 0..Cardinality(Cards) /\ N \in Nat /\ n \in Nat
        /\ s.rules.nbHead \in 0..255 /\ 1 <= s.rules.nbrCardsLign
    <2>1. s.rules \in Rules
      BY <1>0 DEF Sound, Formed
    <2>2. s.rules.nbrCards \in 0..255 /\ s.rules.nbrCardsPlayer \in 0..255
          /\ s.rules.nbHead \in 0..255 /\ s.rules.nbrCardsLign \in 1..255
      BY <2>1, GameAssumption
    <2>3. N \in 0..Cardinality(Cards)
      BY <2>1, CardsAre
    <2> QED BY <2>1, <2>2, <2>3
  <1>4. {shuffle.heads, shuffle.cards} \subseteq Bijection(1..Cardinality(Cards), Cards)
    BY SessionAssumption
  <1>5. /\ ids \in Seq(0..(N - 1)) /\ Len(ids) = N
        /\ \A i, j \in 1..N : ids[i] = ids[j] => i = j
    <2>1. shuffle.cards \in Bijection(1..Cardinality(Cards), Cards)
      BY <1>4
    <2> HIDE DEF N
    <2>2. N \in 0..Cardinality(Cards)
      BY <1>3
    <2> QED BY <2>1, <2>2, ShuffledIs DEF N
  <1>6. heads \in [Deck(s) -> 0..255]
    <2> DEFINE hs == Shuffled(shuffle.heads, s.rules.nbrCards)
    <2>1. shuffle.heads \in Bijection(1..Cardinality(Cards), Cards)
      BY <1>4
    <2>2. Len(hs) = N /\ \A card \in 0..(N - 1) : \E i \in 1..N : hs[i] = card
      BY <1>3, <2>1, ShuffledIs
    <2>3. heads = HeadsOf(hs, s.rules.nbHead)
      OBVIOUS
    <2> HIDE DEF hs, heads, N
    <2>4. Covers(hs, N)
      BY <2>2 DEF Covers
    <2>5. HeadsOf(hs, s.rules.nbHead) \in HeadsOfDeck(N)
      BY <1>3, <2>4, HeadsAre
    <2> QED BY <2>3, <2>5 DEF Deck, HeadsOfDeck, N
  <1>7. Deck(t) = Deck(s) /\ Rows(t) = Rows(s) /\ Boards(t) = Boards(s)
        /\ ReadyCards(t) = ReadyCards(s) /\ Deck(s) = 0..(N - 1)
    BY <1>2 DEF Deck, Rows, Boards, ReadyCards
  <1>8. ASSUME NEW row \in Rows(s)
        PROVE  \/ t.board[row] = << >>
               \/ /\ row < N /\ row + 1 \in 1..N /\ ids[row + 1] \in Deck(s)
                  /\ t.board[row] = <<ids[row + 1]>>
    <2>1. row \in Nat
      BY <1>3, SlotsAndRows
    <2>2. t.board[row] = IF row < N THEN <<ids[row + 1]>> ELSE << >>
      BY <1>2
    <2>3. row < N => row + 1 \in 1..N
      BY <1>3, <2>1
    <2> HIDE DEF ids, N, t
    <2>4. row < N => ids[row + 1] \in Deck(s)
      BY <1>5, <1>7, <2>3
    <2> QED BY <2>2, <2>3, <2>4
  <1>9. board = [row \in Rows(s) |-> board[row]]
    OBVIOUS
  <1>10. ASSUME NEW i \in Slots, HandOf(t, i) # {}
         PROVE  i \in Served(s) /\ HandOf(t, i) = Slice(ids, First(s, i), n)
                /\ Slice(ids, First(s, i), n) \subseteq Deck(s)
    <2>1. CASE i \in Served(s) /\ s.hand[i] # NoHand
      <3>1. t.hand[i] = ToSet(HandDealt(s, ids, i))
        BY <1>2, <2>1
      <3>2. ToSet(HandDealt(s, ids, i)) = Slice(ids, First(s, i), n)
            /\ ToSet(HandDealt(s, ids, i)) \subseteq Deck(s)
        BY <1>3, <2>1, DealtIs
      <3>3. NoCard \notin Deck(s)
        BY <1>3, SlotsAndRows
      <3> HIDE DEF t, ids, n
      <3>4. t.hand[i] # NoHand
        BY <3>1, <3>2, <3>3 DEF NoHand
      <3> QED BY <2>1, <3>1, <3>2, <3>4 DEF HandOf
    <2>2. CASE ~(i \in Served(s) /\ s.hand[i] # NoHand)
      <3>1. t.hand[i] = s.hand[i]
        BY <1>2, <2>2
      <3>2. HandOf(t, i) = HandOf(s, i)
        BY <3>1 DEF HandOf
      <3>3. s.hand[i] # NoHand
        BY <1>10, <3>2 DEF HandOf
      <3>4. i \in Playing(s)
        BY <1>0, <3>3 DEF Equipped
      <3>5. i \in Seated(s) \ Served(s)
        BY <1>0, <2>2, <3>3, <3>4, PlayersSeated
      <3> QED BY <1>10, <3>2, <3>5
    <2> QED BY <2>1, <2>2
  <1>11. On(t) /\ Waiting(t) = {} /\ t.ready_count = 0
    <2>1. Waiting(s) = {} /\ s.ready_count = 0
      BY DEF Idle
    <2> HIDE DEF t
    <2> QED BY <1>2, <2>1 DEF On, Waiting
  <1> HIDE DEF t, ids, heads, board, hand, n, N
  <1>12. t.board \in Boards(t)
    <2>1. ASSUME NEW row \in Rows(s) PROVE t.board[row] \in Seq(Deck(s))
      <3>1. \A c \in Deck(s) : <<c>> \in Seq(Deck(s))
        OBVIOUS
      <3>2. << >> \in Seq(Deck(s))
        OBVIOUS
      <3> QED BY <1>8, <3>1, <3>2
    <2> QED BY <1>2, <1>7, <1>9, <2>1 DEF Boards
  <1>13. Formed(t)
    BY <1>0, <1>1, <1>2, <1>6, <1>7, <1>12 DEF Sound, Formed, Equipped
  <1>14. DeckInUse(t)
    BY <1>2, <1>6, <1>7, <1>10 DEF DeckInUse
  <1>15. /\ \A i, j \in Served(s) : i # j =>
              \A c \in Slice(ids, First(s, i), n) : c \notin Slice(ids, First(s, j), n)
         /\ \A i \in Served(s) : \A row \in Rows(s) : row < N =>
              ids[row + 1] \notin Slice(ids, First(s, i), n)
    BY <1>3, <1>5, SlicesApart DEF n, N
  <1>16. \A i, j \in Slots : i # j => \A c \in HandOf(t, i) : c \notin HandOf(t, j)
    BY <1>10, <1>15
  <1>17. Neat(t, t, Held(t))
    <2>1. /\ ToSet(<< >>) = {} /\ Sorted(<< >>) /\ Len(<< >>) = 0
          /\ \A c : ToSet(<<c>>) = {c} /\ Sorted(<<c>>) /\ Len(<<c>>) = 1
      BY ShortRows
    <2>2. \A row \in Rows(t) : /\ Sorted(t.board[row])
                               /\ Len(t.board[row]) \in {0, 1}
      BY <1>7, <1>8, <2>1
    <2>3. \A row \in Rows(t) : Len(t.board[row]) <= t.rules.nbrCardsLign
      <3>1. s.rules.nbrCardsLign \in Int
        <4>1. s.rules.nbrCardsLign \in 1..255
          BY <1>3, SlotsAndRows
        <4> QED BY <4>1
      <3>2. t.rules.nbrCardsLign \in Int /\ 1 <= t.rules.nbrCardsLign
        BY <1>2, <1>3, <3>1
      <3>3. \A k \in {0, 1} : k <= t.rules.nbrCardsLign
        BY <3>2
      <3> QED BY <2>2, <3>3
    <2>4. ASSUME NEW row \in Rows(t), NEW c \in ToSet(t.board[row])
          PROVE  row < N /\ row + 1 \in 1..N /\ c = ids[row + 1]
      <3>1. t.board[row] # << >>
        BY <2>1, <2>4
      <3>2. row < N /\ row + 1 \in 1..N /\ t.board[row] = <<ids[row + 1]>>
        BY <1>7, <1>8, <3>1
      <3>3. c \in ToSet(<<ids[row + 1]>>)
        BY <2>4, <3>2
      <3> QED BY <2>1, <3>2, <3>3
    <2>5. ASSUME NEW row \in Rows(t), NEW q \in Rows(t), NEW c \in ToSet(t.board[row]),
                 row # q, c \in ToSet(t.board[q])
          PROVE  FALSE
      <3>1. row + 1 = q + 1
        BY <1>5, <2>4, <2>5
      <3>2. row \in Nat /\ q \in Nat
        BY <1>3, <1>7, SlotsAndRows
      <3> QED BY <2>5, <3>1, <3>2
    <2>6. ASSUME NEW row \in Rows(t), NEW c \in ToSet(t.board[row]), c \in Held(t)
          PROVE  FALSE
      <3>1. PICK i \in Slots : c \in HandOf(t, i)
        BY <2>6 DEF Held
      <3>2. i \in Served(s) /\ c \in Slice(ids, First(s, i), n)
        BY <1>10, <3>1
      <3> QED BY <1>7, <1>15, <2>4, <3>2
    <2> QED BY <1>11, <2>2, <2>3, <2>5, <2>6 DEF Neat
  <1>18. Sound(t)
    <2>1. Filled(t)
      <3> SUFFICES ASSUME t.rules.nbrLign <= t.rules.nbrCards, NEW row \in Rows(s)
                   PROVE  t.board[row] # << >>
        BY <1>7 DEF Filled
      <3>1. row < N
        <4>1. s.rules.nbrLign \in 1..255
          BY <1>3, GameAssumption
        <4> QED BY <1>2, <1>3, <4>1 DEF Rows, N
      <3>2. t.board[row] = <<ids[row + 1]>>
        BY <1>2, <3>1 DEF board, N
      <3> QED BY <3>2, ShortRows
    <2> QED BY <1>13, <1>14, <1>16, <1>17, <2>1 DEF Sound, Apart
  <1>19. CanGive(t, Playing(t))
    <2>1. ASSUME Ample(s.rules), NEW i \in Playing(s) PROVE HandOf(t, i) # {}
      <3>1. i \in Served(s) /\ i \in Slots /\ n > 0
        <4>1. n \in Nat /\ n # 0
          BY <1>3, <2>1 DEF Ample, n
        <4>2. Served(s) = Seated(s) /\ Seated(s) = Playing(s) /\ Playing(s) \subseteq Slots
          BY <1>0, <1>3, <2>1, AllServed, PlayersSeated
        <4> QED BY <4>1, <4>2
      <3>2. s.hand[i] # NoHand
        BY <1>0, <3>1, PlayersSeated DEF StartCrashes, Served, n
      <3>3. t.hand[i] = ToSet(HandDealt(s, ids, i))
        BY <1>2, <3>1, <3>2 DEF hand
      <3>4. /\ ToSet(HandDealt(s, ids, i)) = Slice(ids, First(s, i), n)
            /\ ToSet(HandDealt(s, ids, i)) \subseteq Deck(s)
            /\ First(s, i) \in Nat
        BY <1>3, <3>1, DealtIs DEF ids, n
      <3>5. First(s, i) + 1 \in (First(s, i) + 1)..(First(s, i) + n)
        BY <1>3, <3>1, <3>4
      <3>6. Slice(ids, First(s, i), n) # {}
        BY <3>5 DEF Slice
      <3>7. NoCard \notin Deck(s)
        BY <1>3, SlotsAndRows
      <3> QED BY <3>3, <3>4, <3>6, <3>7 DEF HandOf, NoHand
    <2>2. Playing(t) = Playing(s)
      BY <1>2 DEF Playing
    <2> QED BY <1>2, <2>1, <2>2 DEF CanGive
  <1>20. Counted(t, Playing(t)) /\ Asked(t) /\ NotDue(t)
    BY <1>2, <1>11, FS_EmptySet DEF Counted, Asked, NotDue
  <1> QED BY <1>1, <1>11, <1>18, <1>19, <1>20 DEF Whole, InPlay, t

-----------------------------------------------------------------------------
(* Cards and rows given by the players *)

\* start_move after a card was given.
LEMMA StartMoveWhole ==
  ASSUME NEW s, Members(s), Equipped(s), MayMove(s, Playing(s)), NEW sent \in SentOutcomes
  PROVE  LET t == StartMove(s, sent)
         IN  Whole(t) /\ (On(s) \/ Idle(s) => Idle(t))
  <1> DEFINE t == StartMove(s, sent)
  <1>1. Members(t) /\ Equipped(t)
    BY GameMembers, GameEquipped
  <1>2. Sound(t) /\ InPlay(t, Playing(s)) /\ (On(s) \/ Idle(s) => Idle(t))
    BY StartMoveSound
  <1>3. Playing(t) = Playing(s)
    <2>1. Frame(s, t, GameFields)
      BY StartMoveFrame
    <2> HIDE DEF t
    <2> QED BY <2>1 DEF Frame, Members, MemberFields, GameFields, Playing
  <1> QED BY <1>1, <1>2, <1>3 DEF Whole

\* handle_result_of_play after a row was chosen.
LEMMA ResolveWhole ==
  ASSUME NEW s, Members(s), Equipped(s), MayResolve(s, Playing(s)), NEW sent \in SentOutcomes
  PROVE  LET t == Resolve(s, sent) IN Whole(t) /\ Idle(t)
  <1> DEFINE t == Resolve(s, sent)
  <1>1. Members(t) /\ Equipped(t)
    BY GameMembers, GameEquipped DEF MayResolve
  <1>2. Sound(t) /\ InPlay(t, Playing(s)) /\ Idle(t)
    BY ResolveSound
  <1>3. Playing(t) = Playing(s)
    <2>1. Frame(s, t, GameFields)
      BY ResolveFrame
    <2> HIDE DEF t
    <2> QED BY <2>1 DEF Frame, Members, MemberFields, GameFields, Playing
  <1> QED BY <1>1, <1>2, <1>3 DEF Whole

\* A player's card goes from his hand to the cards that wait.
LEMMA GivenCardSound ==
  ASSUME NEW s, Whole(s), s.game_state = "WAITING", NEW i \in Playing(s),
         s.ready[i] = NoCard, NEW card \in HandOf(s, i)
  PROVE  LET t == GivenCard(s, i, card)
         IN  Members(t) /\ Equipped(t) /\ MayMove(t, Playing(t)) /\ On(t)
  <1> DEFINE t == GivenCard(s, i, card)
             P == Playing(s)
  <1>0. Members(s) /\ Equipped(s) /\ Sound(s) /\ InPlay(s, P) /\ On(s)
    BY DEF Whole, On
  <1>1. i \in Slots /\ s.role[i] = "PLAYER"
    BY DEF Playing
  <1>2. /\ Equipped(t) /\ Frame(s, t, {"hand", "ready", "ready_count"})
        /\ t.hand = [s.hand EXCEPT ![i] = @ \ {card}]
        /\ t.ready = [s.ready EXCEPT ![i] = card]
        /\ t.ready_count = s.ready_count + 1
        /\ t.hand[i] # NoHand
    BY <1>0, <1>1, GivenCardIs
  <1> HIDE DEF t
  <1>3. Members(t)
    BY <1>0, <1>2, MembersFrame DEF MemberFields
  <1>4. /\ DOMAIN t = AllFields
        /\ t.game_state = s.game_state /\ t.rules = s.rules /\ t.player_id = s.player_id
        /\ t.heads = s.heads /\ t.board = s.board /\ t.nb_head = s.nb_head
        /\ t.extra_wait_from = s.extra_wait_from /\ t.role = s.role
        /\ t.active_players = s.active_players /\ On(t)
    BY <1>0, <1>2 DEF Frame, Sound, Formed, AllFields, GameFields, MemberFields, On
  <1>5. /\ Deck(t) = Deck(s) /\ Rows(t) = Rows(s) /\ Boards(t) = Boards(s)
        /\ ReadyCards(t) = ReadyCards(s) /\ Playing(t) = P /\ Seated(t) = Seated(s)
    BY <1>4 DEF Deck, Rows, Boards, ReadyCards, Playing, Seated, Occupied, Free
  <1>6. card \in Deck(s) /\ s.ready \in [Slots -> Deck(s) \cup {NoCard}] /\ NoCard \notin Deck(s)
        /\ s.hand \in [Slots -> (SUBSET Cards) \cup {NoHand}]
    BY <1>0, <1>1, SlotsAndRows DEF Sound, Formed, DeckInUse, ReadyCards
  <1>7. /\ t.ready \in [Slots -> Deck(s) \cup {NoCard}] /\ t.ready[i] = card
        /\ \A j \in Slots : j # i => t.ready[j] = s.ready[j]
    BY <1>1, <1>2, <1>6
  <1>8. Waiting(t) = Waiting(s) \cup {i} /\ i \notin Waiting(s)
    BY <1>1, <1>6, <1>7 DEF Waiting
  <1>9. /\ HandOf(t, i) = HandOf(s, i) \ {card}
        /\ \A j \in Slots : j # i => HandOf(t, j) = HandOf(s, j)
    <2>1. s.hand[i] # NoHand
      BY DEF HandOf
    <2> QED BY <1>1, <1>2, <1>6, <2>1 DEF HandOf
  <1>10. t.ready_count \in 0..MaxClients /\ s.ready_count \in Nat
    <2>1. s.ready_count \in 0..MaxClients /\ s.active_players \in 0..MaxClients
          /\ MaxClients \in Nat /\ MaxClients >= 2
      BY <1>0, MembersCounts, SlotsAndRows DEF Sound, Formed
    <2>2. s.ready_count = 0 \/ s.ready_count < s.active_players
      BY <1>0 DEF InPlay, NotDue
    <2> QED BY <1>2, <2>1, <2>2
  <1>11. Formed(t)
    BY <1>0, <1>2, <1>4, <1>5, <1>7, <1>10 DEF Sound, Formed, ReadyCards, Equipped
  <1>12. DeckInUse(t)
    BY <1>0, <1>1, <1>4, <1>5, <1>9 DEF Sound, DeckInUse
  <1>13. /\ card \in Held(s) /\ card \notin Held(t) /\ Held(t) \subseteq Held(s)
         /\ \A j, k \in Slots : j # k => \A c \in HandOf(t, j) : c \notin HandOf(t, k)
    <2>1. \A j, k \in Slots : j # k => \A c \in HandOf(s, j) : c \notin HandOf(s, k)
      BY <1>0 DEF Sound, Apart
    <2>2. \A j \in Slots : HandOf(t, j) \subseteq HandOf(s, j) /\ card \notin HandOf(t, j)
      BY <1>1, <1>9, <2>1
    <2> QED BY <1>1, <2>1, <2>2 DEF Held
  <1>14. Neat(t, t, Held(t))
    <2>1. Neat(s, s, Held(s))
      BY <1>0 DEF Sound, Apart
    <2>2. \A r \in Rows(t) : Len(t.board[r]) <= t.rules.nbrCardsLign /\ Sorted(t.board[r])
      BY <1>4, <1>5, <2>1 DEF Neat
    <2>3. \A r, q \in Rows(t) : \A c \in ToSet(t.board[r]) : r # q => c \notin ToSet(t.board[q])
      BY <1>4, <1>5, <2>1 DEF Neat
    <2>4. \A r \in Rows(t) : \A c \in ToSet(t.board[r]) :
             c \notin Held(s) /\ \A j \in Waiting(s) : s.ready[j] # c
      BY <1>4, <1>5, <2>1 DEF Neat
    <2>5. \A r \in Rows(t) : \A c \in ToSet(t.board[r]) :
             c \notin Held(t) /\ \A j \in Waiting(t) : t.ready[j] # c
      BY <1>7, <1>8, <1>13, <2>4 DEF Waiting
    <2>6. \A j \in Waiting(s) : s.ready[j] \notin Held(s)
      BY <2>1 DEF Neat
    <2>7. \A j, k \in Waiting(s) : j # k => s.ready[j] # s.ready[k]
      BY <2>1 DEF Neat
    <2>8. \A j \in Waiting(s) : j # i /\ t.ready[j] = s.ready[j]
      BY <1>7, <1>8 DEF Waiting
    <2>9. \A j, k \in Waiting(t) : j # k => t.ready[j] # t.ready[k]
      BY <1>7, <1>8, <1>13, <2>6, <2>7, <2>8
    <2>10. \A j \in Waiting(t) : t.ready[j] \notin Held(t)
      BY <1>7, <1>8, <1>13, <2>6, <2>8
    <2> QED BY <2>2, <2>3, <2>5, <2>9, <2>10 DEF Neat
  <1>15. Sound(t)
    <2>1. Filled(t)
      BY <1>0, <1>4, <1>5 DEF Sound, Filled
    <2> QED BY <1>11, <1>12, <1>13, <1>14, <2>1 DEF Sound, Apart
  <1>16. Counted(t, P)
    <2>1. Counted(s, P)
      BY <1>0 DEF InPlay
    <2>2. Waiting(s) \in SUBSET Slots
      BY DEF Waiting
    <2>3. Cardinality(Waiting(t)) = Cardinality(Waiting(s)) + 1
          /\ Cardinality(Waiting(s)) \in 0..MaxClients
      BY <1>1, <1>8, <2>2, SlotSets
    <2>4. Cardinality(Waiting(t)) <= t.ready_count
      BY <1>2, <1>10, <2>1, <2>3, SlotsFinite DEF Counted
    <2> QED BY <1>4, <1>8, <2>1, <2>4 DEF Counted
  <1>17. CanGive(t, P)
    <2>1. CanGive(s, P) /\ P \subseteq Slots
      BY <1>0 DEF InPlay, Playing
    <2> QED BY <1>4, <1>6, <1>7, <1>9, <2>1 DEF CanGive
  <1>18. t.active_players \in Nat /\ P \subseteq Seated(t)
    BY <1>0, <1>4, <1>5, PlayersSeated
  <1>19. MayMove(t, Playing(t))
    BY <1>5, <1>15, <1>16, <1>17, <1>18 DEF MayMove
  <1> QED BY <1>2, <1>3, <1>4, <1>19 DEF t

\* Who is asked for a row has a card to start it with.
LEMMA ChooserIs ==
  ASSUME NEW s, Whole(s), s.game_state = "WAITING_EXTRA", NEW c,
         c = s.extra_wait_from, Member(s, c), ~BusMayFill
  PROVE  Index(s, c) \in Waiting(s) /\ Index(s, c) = LowestSlot(s)
  <1> DEFINE l == LowestSlot(s)
  <1>1. Members(s) /\ Sound(s) /\ Counted(s, Playing(s)) /\ Asked(s)
    BY DEF Whole, InPlay, On
  <1>2. Blocked(s) /\ s.player_id[l] = c
    BY <1>1 DEF Asked
  <1>3. l \in Waiting(s)
    <2>1. s.ready \in [Slots -> Deck(s) \cup {NoCard}] /\ Deck(s) \subseteq Nat
      BY <1>1, SlotsAndRows DEF Sound, Formed, ReadyCards
    <2>2. \A i \in Waiting(s) : s.ready[i] \in Nat
      BY <2>1 DEF Waiting
    <2> QED BY <1>2, <2>2, LowestSlotIs DEF Blocked
  <1>4. Index(s, c) \in Occupied(s) /\ s.player_id[Index(s, c)] = c
    BY <1>1, IndexIs
  <1> HIDE DEF l
  <1>5. l \in Occupied(s)
    BY <1>1, <1>3, PlayersSeated DEF Counted, Seated
  <1>6. l = Index(s, c)
    BY <1>1, <1>2, <1>4, <1>5 DEF Members
  <1> QED BY <1>3, <1>6 DEF l

\* The row that was asked for is taken, and the round may go on.
LEMMA RowTakenSound ==
  ASSUME NEW s, Whole(s), s.game_state = "WAITING_EXTRA",
         NEW row \in Rows(s), NEW i \in Slots, BusMayFill \/ i \in Waiting(s)
  PROVE  LET t == TakeLine(s, row, i)
         IN  Members(t) /\ Equipped(t) /\ MayResolve(t, Playing(t))
  <1> DEFINE t == TakeLine(s, row, i)
             v == Started(s, i)
             P == Playing(s)
  <1>0. Members(s) /\ Equipped(s) /\ Sound(s) /\ InPlay(s, P) /\ On(s)
    BY DEF Whole, On
  <1>1. Members(t) /\ Equipped(t)
    BY <1>0, GameMembers, GameEquipped
  <1>2. /\ t.board = [s.board EXCEPT ![row] = v]
        /\ t.ready = [s.ready EXCEPT ![i] = NoCard]
        /\ t.nb_head = [s.nb_head EXCEPT ![i] = (@ + RowHeads(s, row)) % 256]
    BY <1>0 DEF TakeLine, Started, Sound, Formed, AllFields, GameFields
  <1>3. Frame(s, t, {"board", "ready", "nb_head"})
    BY TakeLineFrame
  <1> HIDE DEF t
  <1>4. /\ DOMAIN t = AllFields
        /\ t.game_state = s.game_state /\ t.rules = s.rules /\ t.player_id = s.player_id
        /\ t.heads = s.heads /\ t.hand = s.hand /\ t.ready_count = s.ready_count
        /\ t.extra_wait_from = s.extra_wait_from /\ t.role = s.role
        /\ t.active_players = s.active_players /\ On(t)
    BY <1>0, <1>3 DEF Frame, Sound, Formed, AllFields, GameFields, MemberFields, On
  <1>5. /\ Deck(t) = Deck(s) /\ Rows(t) = Rows(s) /\ Boards(t) = Boards(s)
        /\ ReadyCards(t) = ReadyCards(s) /\ Playing(t) = P /\ Seated(t) = Seated(s)
        /\ \A j \in Slots : HandOf(t, j) = HandOf(s, j)
    BY <1>4 DEF Deck, Rows, Boards, ReadyCards, Playing, Seated, Occupied, Free, HandOf
  <1>6. /\ s.board \in [Rows(s) -> Seq(Deck(s))]
        /\ s.ready \in [Slots -> Deck(s) \cup {NoCard}]
        /\ s.nb_head \in [Slots -> 0..255] /\ s.heads \in [Deck(s) -> 0..255]
        /\ s.rules \in Rules
    BY <1>0 DEF Sound, Formed, DeckInUse, Boards, ReadyCards, Scores
  <1>7. v = << >> \/ (i \in Waiting(s) /\ s.ready[i] \in Deck(s) /\ v = <<s.ready[i]>>)
    BY <1>6 DEF Started, Waiting
  <1>8. v \in Seq(Deck(s))
    <2>1. \A c \in Deck(s) : <<c>> \in Seq(Deck(s))
      OBVIOUS
    <2>2. << >> \in Seq(Deck(s))
      OBVIOUS
    <2> HIDE DEF v
    <2> QED BY <1>7, <2>1, <2>2
  <1>9. t.nb_head \in [Slots -> 0..255]
    <2>1. RowHeads(s, row) \in Nat
      <3>1. s.board[row] \in Seq(Deck(s)) /\ \A c \in Deck(s) : s.heads[c] \in Nat
        <4>1. \A x \in 0..255 : x \in Nat
          OBVIOUS
        <4> QED BY <1>6, <4>1
      <3> QED BY <3>1, RowHeadsType
    <2>2. s.nb_head[i] \in Nat
      <3>1. s.nb_head[i] \in 0..255
        BY <1>6
      <3> QED BY <3>1
    <2>3. \A x \in Nat : x % 256 \in 0..255
      OBVIOUS
    <2>4. s.nb_head[i] + RowHeads(s, row) \in Nat
      BY <2>1, <2>2
    <2>5. (s.nb_head[i] + RowHeads(s, row)) % 256 \in 0..255
      BY <2>3, <2>4
    <2> QED BY <1>2, <1>6, <2>5
  <1>10. /\ ToSet(<< >>) = {} /\ Sorted(<< >>) /\ Len(<< >>) = 0
         /\ \A c : ToSet(<<c>>) = {c} /\ Sorted(<<c>>) /\ Len(<<c>>) = 1
    BY ShortRows
  <1>11. /\ Sorted(v) /\ Len(v) <= s.rules.nbrCardsLign
         /\ \A c \in ToSet(v) : i \in Waiting(s) /\ c = s.ready[i]
    <2>1. s.rules.nbrCardsLign \in Int /\ 1 <= s.rules.nbrCardsLign
      <3>1. s.rules.nbrCardsLign \in 1..255
        BY <1>6, SlotsAndRows
      <3> QED BY <3>1
    <2> HIDE DEF v
    <2>2. CASE v = << >>
      BY <1>10, <2>1, <2>2
    <2>3. CASE i \in Waiting(s) /\ v = <<s.ready[i]>>
      BY <1>10, <2>1, <2>3
    <2> QED BY <1>7, <2>2, <2>3
  <1> HIDE DEF v
  <1>12. Neat(t, t, Held(t))
    <2>1. s.board = [r \in Rows(s) |-> s.board[r]] /\ s.ready = [j \in Slots |-> s.ready[j]]
      BY <1>6
    <2>2. Moved(s, s, t, row, i, v)
      BY <1>2, <1>11, <2>1 DEF Moved
    <2>3. Neat(s, s, Held(s)) /\ Held(t) = Held(s)
      BY <1>0, <1>5 DEF Sound, Apart, Held
    <2>4. Neat(s, t, Held(s))
      BY <2>2, <2>3, NeatMove
    <2> QED BY <1>4, <1>5, <2>3, <2>4 DEF Neat
  <1>13. Formed(t)
    <2>1. t.board \in [Rows(s) -> Seq(Deck(s))]
      BY <1>2, <1>6, <1>8
    <2>2. t.ready \in [Slots -> Deck(s) \cup {NoCard}]
      BY <1>2, <1>6
    <2> QED BY <1>0, <1>4, <1>5, <1>9, <2>1, <2>2
            DEF Sound, Formed, Boards, ReadyCards, Scores
  <1>14. DeckInUse(t)
    BY <1>0, <1>4, <1>5 DEF Sound, DeckInUse
  <1>15. Sound(t)
    <2>1. Filled(t)
      <3>1. BusMayFill \/ v # << >>
        BY DEF v, Started, Waiting
      <3> QED BY <1>0, <1>2, <1>4, <1>5, <1>6, <3>1 DEF Sound, Filled
    <2> QED BY <1>0, <1>5, <1>12, <1>13, <1>14, <2>1 DEF Sound, Apart
  <1>16. Waiting(t) \subseteq Waiting(s)
    BY <1>2, <1>6 DEF Waiting
  <1>17. MayResolve(t, P)
    <2>1. Counted(s, P)
      BY <1>0 DEF InPlay
    <2>2. Cardinality(Waiting(t)) <= Cardinality(Waiting(s))
      BY <1>16, FewerWait
    <2>3. Cardinality(Waiting(t)) \in Int /\ Cardinality(Waiting(s)) \in Int
          /\ s.ready_count \in Int
      <3>1. Cardinality(Waiting(t)) \in 0..MaxClients /\ Cardinality(Waiting(s)) \in 0..MaxClients
            /\ s.ready_count \in 0..MaxClients
        BY <1>0, WaitingCounts DEF Sound, Formed
      <3> QED BY <3>1
    <2>4. Cardinality(Waiting(t)) <= t.ready_count
      BY <1>4, <2>1, <2>2, <2>3 DEF Counted
    <2>5. P \subseteq Seated(t)
      BY <1>0, <1>5, PlayersSeated
    <2> QED BY <1>4, <1>15, <1>16, <2>1, <2>4, <2>5 DEF MayResolve, Counted
  <1> QED BY <1>1, <1>5, <1>17 DEF t

-----------------------------------------------------------------------------
(* Every message *)

\* The invariant: while the session handles messages it is also settled that no
\* card waits between two games; one that has asked to be unregistered may have
\* left its last round half placed.
GameInv ==
  Whole(session) /\ (session.unregister_send = 0 => Idle(session))

\* What START must find: no game on, and no cards of a former game in the hands
\* of the players whom the deck does not suffice for.
WellStarted ==
  /\ session.game_state = "INACTIVE"
  /\ \A i \in Seated(session) \ Served(session) : HandOf(session, i) = {}

\* Neither is checked by the code: a second START deals anew over the cards on
\* the board, and distrib_cards leaves the hand of a player it has no cards for.
StartsWell == [][\A c \in Clients : StartSession(c) => WellStarted]_vars

\* A session that has just been created has no card anywhere.
LEMMA InitGame == Init => GameInv
  <1> SUFFICES ASSUME Init PROVE GameInv
    OBVIOUS
  <1> DEFINE s == session
  <1>1. Members(s) /\ Equipped(s)
    BY InitMembers, InitEquipped
  <1>2. /\ s.rules = DefaultRules /\ s.heads = NoHeads /\ s.board = EmptyBoard(DefaultRules)
        /\ s.ready = [i \in Slots |-> NoCard] /\ s.ready_count = 0
        /\ s.game_state = "INACTIVE" /\ s.hand = [i \in Slots |-> NoHand]
        /\ s.player_id = [i \in Slots |-> NoClient]
        /\ s.nb_head = [i \in Slots |-> 0] /\ s.extra_wait_from = NoClient
        /\ DOMAIN s = AllFields
    BY DEF Init, AllFields, MemberFields, GameFields
  <1> HIDE DEF s
  <1>3. ~On(s) /\ Waiting(s) = {} /\ Idle(s)
    BY <1>2 DEF On, Waiting, Idle
  <1>4. s.board = [row \in Rows(s) |-> << >>]
    BY <1>2 DEF EmptyBoard, Rows
  <1>5. s.board \in Boards(s) /\ s.ready \in ReadyCards(s)
    BY <1>2, <1>4 DEF Boards, ReadyCards
  <1>6. s.rules \in Rules /\ 0 \in 0..MaxClients /\ s.nb_head \in Scores
    BY <1>2, SlotsAndRows DEF Rules, Scores
  <1>7. Formed(s)
    BY <1>2, <1>5, <1>6 DEF Formed, States
  <1>8. \A i \in Slots : HandOf(s, i) = {}
    BY <1>2 DEF HandOf
  <1>9. Neat(s, s, Held(s))
    <2>1. 0 <= s.rules.nbrCardsLign
      <3>1. s.rules.nbrCardsLign \in 1..255
        BY <1>6, SlotsAndRows
      <3> QED BY <3>1
    <2>2. ToSet(<< >>) = {} /\ Sorted(<< >>) /\ Len(<< >>) = 0
      BY ShortRows
    <2>3. \A row \in Rows(s) : s.board[row] = << >>
      BY <1>4
    <2> QED BY <1>3, <2>1, <2>2, <2>3 DEF Neat
  <1>10. Sound(s)
    BY <1>3, <1>7, <1>8, <1>9 DEF Sound, Apart, DeckInUse, Filled
  <1> QED BY <1>1, <1>3, <1>10 DEF GameInv, Whole, InPlay, s

\* Every message keeps the invariant.
LEMMA NextGame ==
  GameInv /\ [Next]_vars /\ [\A c \in Clients : StartSession(c) => WellStarted]_vars
    => GameInv'
  <1> SUFFICES ASSUME GameInv, [Next]_vars,
                      [\A c \in Clients : StartSession(c) => WellStarted]_vars
               PROVE  Whole(session') /\ (session'.unregister_send = 0 => Idle(session'))
    BY DEF GameInv, Whole, Members, Equipped, Sound, InPlay, Idle, On, Playing, Occupied,
           Free, Formed, DeckInUse, Apart, Held, HandOf, Deck, Boards, ReadyCards, Rows, Filled,
           Neat, Counted, CanGive, Asked, NotDue, Waiting, Blocked, LowestSlot, Fitting
  <1> DEFINE Kept == Whole(session') /\ (session'.unregister_send = 0 => Idle(session'))
  <1>0. Whole(session) /\ (Handling => Idle(session))
    BY DEF GameInv, Handling
  <1>1. ASSUME NEW c \in Clients, Join(c) PROVE Kept
    BY <1>0, <1>1, AfterJoinSound DEF Join
  <1>2. ASSUME NEW c \in Clients, Leave(c) PROVE Kept
    <2>1. PICK sent \in SentOutcomes : session' = RemovePlayer(session, c, sent)
      BY <1>2 DEF Leave
    <2>2. Idle(session)
      BY <1>0, <1>2 DEF Leave
    <2> QED BY <1>0, <2>1, <2>2, RemovePlayerSound
  <1>3. ASSUME NEW c \in Clients, UserLeft(c) PROVE Kept
    <2>1. PICK sent \in SentOutcomes : session' = AfterUserLeft(session, c, sent)
      BY <1>3 DEF UserLeft
    <2>2. Member(session, c) /\ Idle(session)
      BY <1>0, <1>3 DEF UserLeft
    <2>3. Whole(session') /\ (session'.unregister_send = 1 \/ Idle(session'))
      BY <1>0, <2>1, <2>2, AfterUserLeftSound
    <2> QED BY <2>3
  <1>4. ASSUME NEW c \in Clients, Close(c) PROVE Kept
    <2>1. PICK sent \in SentOutcomes : session' = AfterClose(session, sent)
      BY <1>4 DEF Close
    <2>2. Whole(session') /\ session'.unregister_send = 1
      BY <1>0, <2>1, AfterCloseSound
    <2> QED BY <2>2
  <1>5. ASSUME NEW c \in Clients, SetRules(c) PROVE Kept
    <2>1. PICK r \in RuleSets : RulesAccepted(c, r) /\ session' = WithRules(session, r)
      BY <1>5 DEF SetRules
    <2>2. ~On(session) /\ Idle(session)
      BY <1>0, <2>1 DEF RulesAccepted, On
    <2> QED BY <1>0, <2>1, <2>2, WithRulesSound
  <1>6. ASSUME NEW c \in Clients, SetRulesWild(c) \/ StartWild(c) \/ InfoReturnWild(c)
                                  \/ ResponseExtraWild(c)
        PROVE Kept
    <2>1. session' = session
      BY <1>6 DEF SetRulesWild, StartWild, InfoReturnWild, ResponseExtraWild
    <2> QED BY <2>1 DEF GameInv
  <1>7. ASSUME NEW c \in Clients, StartSession(c) PROVE Kept
    <2>1. PICK shuffle \in Shuffles : session' = Deal(session, shuffle)
      BY <1>7 DEF StartSession
    <2>2. ~StartCrashes(session) /\ Idle(session) /\ deals' # deals
      <3>1. deals' = deals + 1 /\ Handling /\ ~StartCrashes(session)
        BY <1>7 DEF StartSession, StartAccepted
      <3> QED BY <1>0, <3>1
    <2>3. WellStarted
      BY <1>7, <2>2 DEF vars
    <2>4. Whole(session') /\ On(session')
      BY <1>0, <2>1, <2>2, <2>3, DealSound DEF WellStarted, On
    <2> QED BY <2>4 DEF Idle
  <1>8. ASSUME NEW c \in Clients, InfoReturn(c) PROVE Kept
    <2> DEFINE i == Index(session, c)
    <2>1. /\ Member(session, c) /\ session.ready[i] = NoCard /\ session.role[i] = "PLAYER"
          /\ session.game_state = "WAITING" /\ i \in Slots
      BY <1>0, <1>8, IndexIs DEF InfoReturn, Whole
    <2>2. PICK card \in HandOf(session, i), sent \in SentOutcomes :
               session' = StartMove(GivenCard(session, i, card), sent)
      BY <1>8 DEF InfoReturn, GivenCard
    <2>3. i \in Playing(session)
      BY <2>1 DEF Playing
    <2> HIDE DEF i
    <2> DEFINE t == GivenCard(session, i, card)
    <2>4. Members(t) /\ Equipped(t) /\ MayMove(t, Playing(t)) /\ On(t)
      BY <1>0, <2>1, <2>3, GivenCardSound
    <2> HIDE DEF t
    <2>5. LET u == StartMove(t, sent) IN Whole(u) /\ (On(t) \/ Idle(t) => Idle(u))
      BY <2>4, StartMoveWhole
    <2> QED BY <2>2, <2>4, <2>5 DEF t
  <1>9. ASSUME NEW c \in Clients, ResponseExtra(c) PROVE Kept
    <2> DEFINE i == Index(session, c)
    <2>1. /\ session.game_state = "WAITING_EXTRA" /\ i \in Slots
      BY <1>0, <1>9, IndexIs DEF ResponseExtra, Whole
    <2>2. PICK row \in Rows(session), sent \in SentOutcomes :
               session' = Resolve(TakeLine(session, row, i), sent)
      BY <1>9 DEF ResponseExtra
    <2>5. BusMayFill \/ i \in Waiting(session)
      BY <1>0, <1>9, ChooserIs DEF ResponseExtra
    <2> HIDE DEF i
    <2> DEFINE t == TakeLine(session, row, i)
    <2>3. Members(t) /\ Equipped(t) /\ MayResolve(t, Playing(t))
      BY <1>0, <2>1, <2>5, RowTakenSound
    <2> HIDE DEF t
    <2>4. LET u == Resolve(t, sent) IN Whole(u) /\ Idle(u)
      BY <2>3, ResolveWhole
    <2> QED BY <2>2, <2>4 DEF t
  <1>10. CASE InfoReturnRefused
    <2>1. PICK sent \in SentOutcomes : session' = StartMove(session, sent)
      BY <1>10 DEF InfoReturnRefused
    <2>2. Idle(session) /\ Members(session) /\ Equipped(session)
      BY <1>0, <1>10 DEF InfoReturnRefused, Whole
    <2>3. MayMove(session, Playing(session))
      BY <1>0, PlayersSeated DEF MayMove, Whole, InPlay
    <2> QED BY <2>1, <2>2, <2>3, StartMoveWhole
  <1>11. CASE EndOfBatch
    <2>1. Whole(session') /\ session'.unregister_send = 1
      BY <1>0, <1>11, UnregisteringSound DEF EndOfBatch
    <2> QED BY <2>1
  <1>12. CASE UNCHANGED vars
    BY <1>12 DEF vars, GameInv
  <1> QED BY <1>1, <1>2, <1>3, <1>4, <1>5, <1>6, <1>7, <1>8, <1>9, <1>10, <1>11, <1>12
          DEF Next

-----------------------------------------------------------------------------
(* What the invariant says of the game *)

\* The counter of deals stays within its bound, and what the model calls a fault
\* is recorded as one.
Numbered == deals \in 0..MaxDeals /\ fault \in BOOLEAN

\* Nothing has been dealt at the start.
LEMMA InitNumbered == Init => Numbered
  <1>1. 0 \in 0..MaxDeals
    BY SessionAssumption
  <1> QED BY <1>1 DEF Init, Numbered

\* Only START counts as a deal.
LEMMA NextNumbered == Numbered /\ [Next]_vars => Numbered'
  <1> SUFFICES ASSUME Numbered, [Next]_vars PROVE Numbered'
    OBVIOUS
  <1>1. ASSUME NEW c \in Clients, StartAccepted(c) PROVE deals' \in 0..MaxDeals
    BY <1>1, SessionAssumption DEF StartAccepted, Numbered
  <1>2. ASSUME NEW c \in Clients, StartSession(c) \/ StartWild(c) PROVE Numbered'
    BY <1>1, <1>2 DEF StartSession, StartWild, Numbered
  <1>3. ASSUME NEW c \in Clients,
               Join(c) \/ Leave(c) \/ UserLeft(c) \/ Close(c) \/ SetRules(c)
                 \/ SetRulesWild(c) \/ InfoReturn(c) \/ InfoReturnWild(c)
                 \/ ResponseExtra(c) \/ ResponseExtraWild(c)
        PROVE Numbered'
    BY <1>3 DEF Join, Leave, UserLeft, Close, SetRules, SetRulesWild, InfoReturn,
                InfoReturnWild, ResponseExtra, ResponseExtraWild, Numbered
  <1>4. CASE InfoReturnRefused \/ EndOfBatch \/ UNCHANGED vars
    BY <1>4 DEF InfoReturnRefused, EndOfBatch, vars, Numbered
  <1> QED BY <1>2, <1>3, <1>4 DEF Next

\* The invariant holds of every session that is started well.
THEOREM GamesInOrder == Spec /\ StartsWell => [](GameInv /\ Numbered)
  BY InitGame, NextGame, InitNumbered, NextNumbered, PTL DEF Spec, StartsWell

\* The invariant gives every field its type.
LEMMA InvariantTypes == GameInv /\ Numbered => TypeOK
  <1> SUFFICES ASSUME GameInv, Numbered PROVE TypeOK
    OBVIOUS
  <1> DEFINE s == session
  <1>1. Members(s) /\ Equipped(s) /\ Sound(s)
    BY DEF GameInv, Whole
  <1> HIDE DEF s
  <1>2. s.rules \in Rules /\ Deck(s) \subseteq Cards
    BY <1>1, SlotsAndRows DEF Sound, Formed
  <1>3. s.board \in [Rows(s) -> Seq(Cards)]
    <2>1. \A v \in Seq(Deck(s)) : v \in Seq(Cards)
      BY <1>2
    <2>2. s.board \in [Rows(s) -> Seq(Deck(s))]
      BY <1>1 DEF Sound, Formed, Boards
    <2> QED BY <2>1, <2>2
  <1>4. s.ready \in [Slots -> Cards \cup {NoCard}]
    BY <1>1, <1>2 DEF Sound, Formed, ReadyCards
  <1>5. s.heads = NoHeads \/ DOMAIN s.heads = 0..(s.rules.nbrCards - 1)
    BY <1>1 DEF Sound, Formed, Deck
  <1>6. s.number_clients \in 0..MaxClients /\ s.active_players \in 0..MaxClients
    BY <1>1, MembersCounts
  <1>7. s.nb_head \in [Slots -> 0..255] /\ s.ready_count \in 0..MaxClients
        /\ s.extra_wait_from \in Clients \cup {NoClient}
    BY <1>1 DEF Sound, Formed, Scores
  <1>8. s.player_id \in [Slots -> Clients \cup {NoClient}]
        /\ s.role \in [Slots -> {"NONE", "PLAYER", "OBSERVER"}]
    BY <1>1 DEF Members, Roles
  <1>9. /\ s.is_connected \in [Slots -> BOOLEAN]
        /\ s.hand \in [Slots -> (SUBSET Cards) \cup {NoHand}]
        /\ s.room \in [Slots -> 0..255] /\ s.id_creator \in Clients \cup {NoClient}
        /\ s.unregister_send \in {0, 1}
        /\ s.game_state \in {"INACTIVE", "WAITING", "WAITING_EXTRA"}
        /\ s.freed \in BOOLEAN
    BY <1>1 DEF Equipped, States
  <1> QED BY <1>2, <1>3, <1>4, <1>5, <1>6, <1>7, <1>8, <1>9 DEF TypeOK, Numbered, s

\* Every field of the session keeps its type: the boards have the rows of the
\* rules, the scores the width of a byte, the counter of cards given at most one
\* for every slot.
THEOREM TypeCorrect == Spec /\ StartsWell => []TypeOK
  BY InvariantTypes, GamesInOrder, PTL

\* The invariant keeps the places of the cards apart.
LEMMA InvariantDistinct == GameInv => CardsDistinct
  <1> SUFFICES ASSUME GameInv PROVE CardsDistinct
    OBVIOUS
  <1> DEFINE s == session
  <1>1. Sound(s)
    BY DEF GameInv, Whole
  <1> HIDE DEF s
  <1>2. /\ Neat(s, s, Held(s))
        /\ \A i, j \in Slots : i # j => \A c \in HandOf(s, i) : c \notin HandOf(s, j)
    BY <1>1 DEF Sound, Apart
  <1>3. \A i \in Slots : \A c \in HandOf(s, i) : c \in Held(s)
    BY DEF Held
  <1>4. ASSUME NEW r \in Rows(s)
        PROVE  /\ Len(s.board[r]) <= s.rules.nbrCardsLign /\ IsSorted(s.board[r], <)
               /\ \A q \in Rows(s) \ {r} :
                    ToSet(s.board[r]) \cap ToSet(s.board[q]) = {}
    <2>1. Len(s.board[r]) <= s.rules.nbrCardsLign /\ Sorted(s.board[r])
      BY <1>2 DEF Neat
    <2>2. \A q \in Rows(s) \ {r} : \A c \in ToSet(s.board[r]) : c \notin ToSet(s.board[q])
      BY <1>2 DEF Neat
    <2>3. IsSorted(s.board[r], <)
      BY <2>1 DEF IsSorted, Sorted
    <2> QED BY <2>1, <2>2, <2>3
  <1>5. ASSUME NEW i \in Slots, NEW j \in Slots
        PROVE  /\ i # j => HandOf(s, i) \cap HandOf(s, j) = {}
               /\ i # j /\ i \in Waiting(s) => s.ready[i] # s.ready[j]
               /\ i \in Waiting(s) => s.ready[i] \notin HandOf(s, j)
    <2>1. i # j => HandOf(s, i) \cap HandOf(s, j) = {}
      BY <1>2
    <2>2. i # j /\ i \in Waiting(s) => s.ready[i] # s.ready[j]
      <3>1. CASE j \in Waiting(s)
        BY <1>2, <3>1 DEF Neat
      <3>2. CASE j \notin Waiting(s)
        BY <3>2 DEF Waiting
      <3> QED BY <3>1, <3>2
    <2>3. i \in Waiting(s) => s.ready[i] \notin HandOf(s, j)
      BY <1>2, <1>3 DEF Neat
    <2> QED BY <2>1, <2>2, <2>3
  <1>6. OnBoard(s) \cap PutAside(s) = {}
    BY <1>2 DEF Neat, OnBoard, PutAside
  <1>7. \A i \in Slots : OnBoard(s) \cap HandOf(s, i) = {}
    BY <1>2, <1>3 DEF Neat, OnBoard
  <1> QED BY <1>4, <1>5, <1>6, <1>7 DEF CardsDistinct, s

\* A card of the deal is in one place at most, on the board, put aside or in a
\* hand, and the rows are in increasing order and not too long.
THEOREM CardsStayDistinct == Spec /\ StartsWell => []CardsDistinct
  BY InvariantDistinct, GamesInOrder, PTL

\* By the invariant, who chooses a row is a player.
LEMMA InvariantChooser == GameInv => ExtraWaitOK
  <1> SUFFICES ASSUME GameInv PROVE ExtraWaitOK
    OBVIOUS
  <1> SUFFICES ASSUME session.game_state = "WAITING_EXTRA"
               PROVE  /\ Blocked(session)
                      /\ session.role[LowestSlot(session)] = "PLAYER"
                      /\ \/ BusMayFill
                         \/ session.player_id[LowestSlot(session)]
                              = session.extra_wait_from
    BY DEF ExtraWaitOK
  <1> DEFINE s == session
  <1>1. Counted(s, Playing(s)) /\ Asked(s) /\ Sound(s)
    BY DEF GameInv, Whole, InPlay, On
  <1>2. Blocked(s) /\ (BusMayFill \/ s.player_id[LowestSlot(s)] = s.extra_wait_from)
    BY <1>1 DEF Asked
  <1>3. \A i \in Waiting(s) : s.ready[i] \in Nat
    <2>1. Deck(s) \subseteq Nat
      BY <1>1, SlotsAndRows DEF Sound, Formed
    <2> QED BY <1>1, <2>1 DEF Sound, Formed, ReadyCards, Waiting
  <1>4. LowestSlot(s) \in Waiting(s)
    BY <1>2, <1>3, LowestSlotIs DEF Blocked
  <1>5. s.role[LowestSlot(s)] = "PLAYER"
    BY <1>1, <1>4 DEF Counted, Playing
  <1> QED BY <1>2, <1>5

\* A session that waits for a row waits for a player who still plays, whose card
\* is the lowest and fits nowhere, and who is the one it will listen to.
THEOREM ChooserIsAwaited == Spec /\ StartsWell => []ExtraWaitOK
  BY InvariantChooser, GamesInOrder, PTL

\* By the invariant, some player has given no card yet, and has one.
LEMMA InvariantPlayer == GameInv => SomeoneCanPlay
  <1> SUFFICES ASSUME GameInv PROVE SomeoneCanPlay
    OBVIOUS
  <1> DEFINE s == session
             P == Playing(s)
  <1> SUFFICES ASSUME s.game_state = "WAITING", s.active_players > 0, Ample(s.rules)
               PROVE  \E i \in P : s.ready[i] = NoCard /\ HandOf(s, i) # {}
    BY DEF SomeoneCanPlay
  <1>1. Members(s) /\ Counted(s, P) /\ CanGive(s, P) /\ NotDue(s)
    BY DEF GameInv, Whole, InPlay, On
  <1>2. Cardinality(Waiting(s)) < Cardinality(P) /\ P \subseteq Slots
    <2>1. Cardinality(Waiting(s)) \in Nat /\ s.active_players = Cardinality(P)
          /\ s.active_players \in Nat /\ P \subseteq Slots
      BY <1>1, PlayersSeated, WaitingCounts DEF Members
    <2>2. Cardinality(Waiting(s)) <= s.ready_count
          /\ (s.ready_count = 0 \/ s.ready_count < s.active_players)
      BY <1>1 DEF Counted, NotDue
    <2>3. s.ready_count \in Nat
      BY SlotsFinite DEF GameInv, Whole, Sound, Formed
    <2> QED BY <2>1, <2>2, <2>3
  <1>3. PICK i \in P : i \notin Waiting(s)
    <2>1. Waiting(s) \subseteq P
      BY <1>1 DEF Counted
    <2>2. ASSUME P \subseteq Waiting(s) PROVE FALSE
      <3>1. P = Waiting(s)
        BY <2>1, <2>2
      <3> HIDE DEF P, s
      <3>2. Cardinality(P) \in Nat
        BY <1>2, SlotSets, SlotsFinite
      <3> QED BY <1>2, <3>1, <3>2
    <2> QED BY <2>2
  <1>4. s.ready[i] = NoCard
    BY <1>2, <1>3 DEF Waiting
  <1> QED BY <1>1, <1>3, <1>4 DEF CanGive

\* A game that waits for cards has a player who can still give one.
THEOREM RoundCanGoOn == Spec /\ StartsWell => []SomeoneCanPlay
  BY InvariantPlayer, GamesInOrder, PTL

-----------------------------------------------------------------------------
(* Sessions that are started well *)

\* When no rules leave a player without cards and START comes between games,
\* every START finds what the results above ask for.
THEOREM AmpleGamesStartWell ==
  ASSUME ~MidGameStart, \A r \in Rules : Ample(r)
  PROVE  Spec => StartsWell
  <1>1. Members(session) /\ Equipped(session)
          => [\A c \in Clients : StartSession(c) => WellStarted]_vars
    <2> SUFFICES ASSUME Members(session), Equipped(session),
                        NEW c \in Clients, StartSession(c)
                 PROVE  WellStarted
      OBVIOUS
    <2>1. session.game_state = "INACTIVE"
      BY DEF StartSession, StartAccepted
    <2>2. Served(session) = Seated(session)
      BY AllServed DEF Equipped
    <2> QED BY <2>1, <2>2 DEF WellStarted
  <1> QED BY <1>1, Equipment, PTL DEF StartsWell

\* A session where nothing has been dealt yet.
Fresh(s) == ~On(s) /\ s.hand \in [Slots -> {NoHand, {}}]

\* It stays so when a hand is given back, or an empty one allocated.
LEMMA FreshAs ==
  ASSUME NEW s, Fresh(s), NEW t, t.game_state = s.game_state, NEW i \in Slots,
         t.hand \in {s.hand, [s.hand EXCEPT ![i] = NoHand], [s.hand EXCEPT ![i] = {}]}
  PROVE  Fresh(t)
  BY DEF Fresh, On

\* Nobody's departure starts a game.
LEMMA WithdrawFresh ==
  ASSUME NEW s, ~On(s), DOMAIN s = AllFields, NEW i, NEW sent
  PROVE  LET t == Withdraw(s, i, sent)
         IN  DOMAIN t = AllFields /\ t.game_state = s.game_state /\ t.hand = s.hand
  BY DEF Withdraw, On, AllFields, GameFields, MemberFields

\* remove_player before the first deal.
LEMMA RemovePlayerFresh ==
  ASSUME NEW s, Members(s), Equipped(s), Fresh(s), NEW c, NEW sent
  PROVE  Fresh(RemovePlayer(s, c, sent))
  <1>1. CASE ~Member(s, c)
    BY <1>1 DEF RemovePlayer
  <1>2. CASE Member(s, c)
    <2> DEFINE i == Index(s, c)
               h == IF c = s.id_creator /\ s.number_clients > 1
                    THEN [s EXCEPT !.id_creator = Heir(s, i)] ELSE s
               u == IF s.role[i] = "PLAYER" THEN Withdraw(h, i, sent) ELSE h
               t == RemovePlayer(s, c, sent)
    <2>1. i \in Slots
      BY <1>2, IndexIs
    <2>2. t = [u EXCEPT !.number_clients = @ - 1,
                        !.player_id[i] = NoClient, !.role[i] = "NONE",
                        !.is_connected[i] = FALSE,
                        !.hand[i] = NoHand, !.room[i] = 0]
      BY <1>2 DEF RemovePlayer
    <2>3. DOMAIN h = AllFields /\ h.game_state = s.game_state /\ h.hand = s.hand
      BY DEF Equipped, AllFields, GameFields
    <2> HIDE DEF h, t, i
    <2>4. DOMAIN u = AllFields /\ u.game_state = s.game_state /\ u.hand = s.hand
      BY <2>3, WithdrawFresh DEF Fresh, On
    <2> HIDE DEF u
    <2>5. t.game_state = s.game_state /\ t.hand = [s.hand EXCEPT ![i] = NoHand]
      BY <2>2, <2>4 DEF AllFields, MemberFields, GameFields
    <2> QED BY <2>1, <2>5, FreshAs DEF t
  <1> QED BY <1>1, <1>2

\* The loops that remove everybody, before the first deal.
LEMMA RemoveAllFresh ==
  ASSUME NEW s, Members(s), Equipped(s), Fresh(s), NEW sent
  PROVE  Fresh(RemoveAll(s, sent))
  <1>1. PICK f : /\ RemoveAll(s, sent) = f[MaxClients]
                 /\ f[0] = s
                 /\ \A n \in 1..MaxClients : f[n] = RemovalStep(f, n, sent)
    BY RemoveAllIs
  <1> DEFINE Good(n) == Members(f[n]) /\ Equipped(f[n]) /\ Fresh(f[n])
             T == {n \in 0..MaxClients : ~Good(n)}
  <1>2. ASSUME NEW n \in T, \A j \in T : n <= j PROVE FALSE
    <2>1. n # 0
      BY <1>1
    <2>2. n \in 1..MaxClients /\ n - 1 \in 0..MaxClients /\ n - 1 \notin T
      BY <1>2, <2>1, SlotsFinite
    <2>3. Good(n - 1)
      BY <2>2
    <2>4. f[n] = RemovePlayer(f[n - 1], f[n - 1].player_id[n - 1], sent)
      BY <1>1, <2>2 DEF RemovalStep
    <2> QED BY <2>3, <2>4, RemovePlayerMembers, RemovePlayerEquipped, RemovePlayerFresh
  <1>3. T \in SUBSET Nat
    BY SlotsFinite
  <1>4. T = {}
    <2> HIDE DEF T
    <2> QED BY <1>2, <1>3, LeastNat
  <1>5. Good(MaxClients)
    BY <1>4, SlotsFinite
  <1> QED BY <1>1, <1>5

\* change_player_role before the first deal.
LEMMA MakeObserverFresh ==
  ASSUME NEW s, Members(s), Equipped(s), Fresh(s), NEW c, Member(s, c), NEW sent
  PROVE  Fresh(MakeObserver(s, c, sent))
  <1> DEFINE i == Index(s, c)
             h == [s EXCEPT !.hand[i] = NoHand, !.room[i] = 0]
             u == Withdraw(h, i, sent)
             t == MakeObserver(s, c, sent)
  <1>1. i \in Slots
    BY IndexIs
  <1>2. CASE s.role[i] = "OBSERVER"
    BY <1>2 DEF MakeObserver
  <1>3. CASE s.role[i] # "OBSERVER"
    <2>1. t = [u EXCEPT !.role[i] = "OBSERVER"]
      BY <1>3 DEF MakeObserver
    <2>2. /\ DOMAIN h = AllFields /\ h.game_state = s.game_state
          /\ h.hand = [s.hand EXCEPT ![i] = NoHand]
      BY DEF Equipped, AllFields, MemberFields, GameFields
    <2> HIDE DEF h, t, i
    <2>3. DOMAIN u = AllFields /\ u.game_state = h.game_state /\ u.hand = h.hand
      BY <2>2, WithdrawFresh DEF Fresh, On
    <2> HIDE DEF u
    <2>4. t.game_state = s.game_state /\ t.hand = [s.hand EXCEPT ![i] = NoHand]
      BY <2>1, <2>2, <2>3 DEF AllFields, MemberFields, GameFields
    <2> QED BY <1>1, <2>4, FreshAs DEF t
  <1> QED BY <1>2, <1>3

\* The messages that come before the first deal.
LEMMA MessagesFresh ==
  ASSUME NEW s, Members(s), Equipped(s), Fresh(s)
  PROVE  /\ \A c \in Clients : Admissible(s, c) => Fresh(AfterJoin(s, c))
         /\ \A c, sent : Member(s, c) => Fresh(AfterUserLeft(s, c, sent))
         /\ \A sent : Fresh(AfterClose(s, sent)) /\ StartMove(s, sent) = s
         /\ \A r : Fresh(WithRules(s, r))
         /\ Fresh([s EXCEPT !.unregister_send = 1])
  <1>0. DOMAIN s = AllFields /\ s.game_state = "INACTIVE"
    BY DEF Equipped, Fresh, On
  <1>1. ASSUME NEW c \in Clients, Admissible(s, c) PROVE Fresh(AfterJoin(s, c))
    <2> DEFINE h == IF s.number_clients = 0
                    THEN [s EXCEPT !.id_creator = c, !.unregister_send = 0] ELSE s
               newRole == IF s.game_state = "INACTIVE" /\ s.active_players < GameCapacity
                          THEN "PLAYER" ELSE "OBSERVER"
               i == Min(Free(h))
               t == AddPlayer(h, c, newRole)
    <2>1. AfterJoin(s, c) = t
      BY DEF AfterJoin
    <2>2. /\ DOMAIN h = AllFields /\ h.game_state = s.game_state /\ h.hand = s.hand
          /\ h.player_id = s.player_id
      BY <1>0 DEF AllFields, GameFields, MemberFields
    <2> HIDE DEF h, newRole
    <2>3. i \in Slots
      <3>1. Free(h) # {} /\ Free(h) \in SUBSET Nat
        BY <1>1, <2>2, MembersCounts, SlotsFinite DEF Admissible, Free
      <3>2. i \in Free(h)
        BY <3>1, MinIs
      <3> HIDE DEF i
      <3> QED BY <3>2 DEF Free
    <2>4. t.game_state = s.game_state
          /\ t.hand \in {[s.hand EXCEPT ![i] = NoHand], [s.hand EXCEPT ![i] = {}]}
      BY <2>2 DEF AddPlayer, AllFields, GameFields, MemberFields
    <2> HIDE DEF t, i
    <2> QED BY <2>1, <2>3, <2>4, FreshAs
  <1>2. ASSUME NEW c, NEW sent, Member(s, c) PROVE Fresh(AfterUserLeft(s, c, sent))
    <2> DEFINE m == MakeObserver(s, c, sent)
               t == [m EXCEPT !.is_connected[Index(s, c)] = FALSE]
               a == RemoveAll(t, sent)
               z == [a EXCEPT !.unregister_send = 1]
    <2>1. AfterUserLeft(s, c, sent) = t \/ AfterUserLeft(s, c, sent) = z
      BY DEF AfterUserLeft
    <2>2. Members(m) /\ Equipped(m) /\ Fresh(m) /\ Index(s, c) \in Slots
      BY <1>2, MakeObserverMembers, MakeObserverEquipped, MakeObserverFresh, IndexIs
    <2> HIDE DEF m
    <2>3. Members(t)
      <3>1. Frame(m, t, {"is_connected"})
        BY DEF Frame
      <3> HIDE DEF t
      <3> QED BY <2>2, <3>1, MembersFrame DEF MemberFields
    <2>4. Equipped(t)
      <3>1. Frame(m, t, {"is_connected"}) /\ t.is_connected \in [Slots -> BOOLEAN]
        BY <2>2 DEF Frame, Equipped, AllFields
      <3>2. t.unregister_send \in {0, 1} /\ t.id_creator \in Clients \cup {NoClient}
        BY <2>2 DEF Equipped, AllFields
      <3> HIDE DEF t
      <3> QED BY <2>2, <3>1, <3>2, EquippedFlags
    <2>5. Fresh(t)
      BY <2>2 DEF Fresh, On, Equipped, AllFields, GameFields
    <2> HIDE DEF t
    <2>6. Fresh(a) /\ Equipped(a)
      BY <2>3, <2>4, <2>5, RemoveAllFresh, RemoveAllEquipped
    <2> HIDE DEF a
    <2>7. Fresh(z)
      BY <2>6 DEF Fresh, On, Equipped, AllFields, GameFields
    <2> QED BY <2>1, <2>5, <2>7
  <1>3. ASSUME NEW sent PROVE Fresh(AfterClose(s, sent)) /\ StartMove(s, sent) = s
    <2> DEFINE t == [s EXCEPT !.game_state = "INACTIVE"]
               a == RemoveAll(t, sent)
    <2>1. Frame(s, t, {"game_state"}) /\ t.game_state = "INACTIVE"
      BY <1>0 DEF Frame, AllFields, GameFields
    <2>2. t.hand = s.hand
      BY <1>0 DEF AllFields
    <2> HIDE DEF t
    <2>3. Members(t) /\ Equipped(t) /\ Fresh(t)
      <3>1. Members(t)
        BY <2>1, MembersFrame DEF MemberFields
      <3>2. Equipped(t)
        BY <2>1, EquippedFrame DEF EquippedFields, On, States
      <3> QED BY <2>1, <2>2, <3>1, <3>2 DEF Fresh, On
    <2>4. Fresh(a) /\ Equipped(a)
      BY <2>3, RemoveAllFresh, RemoveAllEquipped
    <2>5. AfterClose(s, sent) = [a EXCEPT !.unregister_send = 1]
      BY DEF AfterClose, t
    <2> HIDE DEF a
    <2>6. Fresh([a EXCEPT !.unregister_send = 1])
      BY <2>4 DEF Fresh, On, Equipped, AllFields, GameFields
    <2>7. StartMove(s, sent) = s
      BY <1>0 DEF StartMove, Due
    <2> QED BY <2>5, <2>6, <2>7
  <1>4. ASSUME NEW r PROVE Fresh(WithRules(s, r))
    BY <1>0 DEF WithRules, Fresh, On, AllFields, GameFields, MemberFields
  <1>5. Fresh([s EXCEPT !.unregister_send = 1])
    BY <1>0 DEF Fresh, On, AllFields, GameFields, MemberFields
  <1> QED BY <1>1, <1>2, <1>3, <1>4, <1>5

\* No game comes before the first deal.
Undealt == deals = 0 => Fresh(session)

\* Nothing has been dealt at the start.
LEMMA InitUndealt == Init => Undealt
  BY DEF Init, Undealt, Fresh, On

\* No message but START deals cards.
LEMMA NextUndealt ==
  Members(session) /\ Equipped(session) /\ Numbered /\ Undealt /\ [Next]_vars => Undealt'
  <1> SUFFICES ASSUME Members(session), Equipped(session), Numbered, Undealt,
                      [Next]_vars, deals' = 0
               PROVE  Fresh(session')
    BY DEF Undealt, Fresh, On
  <1> DEFINE s == session
  <1>1. ASSUME NEW c \in Clients PROVE ~StartAccepted(c)
    BY SessionAssumption DEF StartAccepted, Numbered
  <1>2. ASSUME deals = 0
        PROVE  /\ Fresh(s) /\ s.game_state = "INACTIVE" /\ s' = s => Fresh(s')
               /\ Fresh(s)
    BY <1>2 DEF Undealt
  <1>3. CASE UNCHANGED vars
    BY <1>3 DEF vars, Undealt
  <1>4. ASSUME Next, deals = 0 PROVE Fresh(session')
    <2>1. Fresh(s) /\ s.game_state = "INACTIVE"
      BY <1>4 DEF Undealt, Fresh, On
    <2>2. /\ \A c \in Clients : Admissible(s, c) => Fresh(AfterJoin(s, c))
          /\ \A c, sent : Member(s, c) => Fresh(AfterUserLeft(s, c, sent))
          /\ \A sent : Fresh(AfterClose(s, sent)) /\ StartMove(s, sent) = s
          /\ \A r : Fresh(WithRules(s, r))
          /\ Fresh([s EXCEPT !.unregister_send = 1])
      BY <2>1, MessagesFresh
    <2>3. ASSUME NEW c \in Clients, Join(c) \/ UserLeft(c) \/ Close(c) \/ SetRules(c)
          PROVE  Fresh(session')
      BY <2>2, <2>3 DEF Join, UserLeft, Close, SetRules
    <2>4. ASSUME NEW c \in Clients, Leave(c) PROVE Fresh(session')
      BY <2>1, <2>4, RemovePlayerFresh DEF Leave
    <2>5. ASSUME NEW c \in Clients, SetRulesWild(c) \/ InfoReturnWild(c)
                                      \/ ResponseExtraWild(c)
          PROVE  Fresh(session')
      BY <2>1, <2>5 DEF SetRulesWild, InfoReturnWild, ResponseExtraWild
    <2>6. ASSUME NEW c \in Clients PROVE ~InfoReturn(c) /\ ~ResponseExtra(c)
                                           /\ ~StartSession(c) /\ ~StartWild(c)
      BY <1>1, <2>1 DEF InfoReturn, ResponseExtra, StartSession, StartWild
    <2>7. CASE InfoReturnRefused
      BY <2>1, <2>2, <2>7 DEF InfoReturnRefused
    <2>8. CASE EndOfBatch
      BY <2>2, <2>8 DEF EndOfBatch
    <2> QED BY <1>4, <2>3, <2>4, <2>5, <2>6, <2>7, <2>8 DEF Next
  <1>5. ASSUME Next, deals # 0 PROVE FALSE
    <2>1. deals' = deals \/ deals' = deals + 1
      BY <1>5 DEF Next, Join, Leave, UserLeft, Close, SetRules, SetRulesWild,
                  StartSession, StartWild, StartAccepted, InfoReturn, InfoReturnWild,
                  ResponseExtra, ResponseExtraWild, InfoReturnRefused, EndOfBatch
    <2> QED BY <1>5, <2>1, SessionAssumption DEF Numbered
  <1> QED BY <1>3, <1>4, <1>5

\* The first game of a session always starts well, under any rules.
THEOREM FirstGameStartsWell ==
  ASSUME ~MidGameStart, MaxDeals = 1
  PROVE  Spec => StartsWell
  <1>1. Undealt /\ Numbered
          => [\A c \in Clients : StartSession(c) => WellStarted]_vars
    <2> SUFFICES ASSUME Undealt, Numbered, NEW c \in Clients, StartSession(c)
                 PROVE  WellStarted
      OBVIOUS
    <2>1. session.game_state = "INACTIVE" /\ deals = 0
      BY DEF StartSession, StartAccepted, Numbered
    <2>2. Fresh(session)
      BY <2>1 DEF Undealt
    <2>3. \A i \in Seated(session) : HandOf(session, i) = {}
      BY <2>2 DEF Fresh, Seated, Playing, HandOf
    <2> QED BY <2>1, <2>3 DEF WellStarted
  <1> QED BY <1>1, InitMembers, NextMembers, InitEquipped, NextEquipped, InitNumbered,
             NextNumbered, InitUndealt, NextUndealt, PTL DEF Spec, StartsWell
=============================================================================
