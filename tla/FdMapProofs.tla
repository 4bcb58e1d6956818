---------------------------- MODULE FdMapProofs -----------------------------
(***************************************************************************)
(* FdMap proved for every set of objects, every initial capacity and every *)
(* width of the capacity: types, what the table holds, and the refinement  *)
(* of the registry.                                                        *)
(***************************************************************************)
EXTENDS FdMap, FiniteSetTheorems, TLAPS

-----------------------------------------------------------------------------
(* The inductive invariant.  Its parts are operators of an array b with a  *)
(* capacity c, of a next id n and of the live objects l, so that the       *)
(* lemmas apply before and after a step.                                   *)

At(b, c, id) == IF 0 <= id /\ id < c THEN b[id] ELSE Null

\* Every object that is alive is found, and only those, each under one id.
Sound(b, c, n, l) ==
  /\ \A object \in l : \E id \in 1..(n - 1) : At(b, c, id) = object
  /\ \A id \in Int : At(b, c, id) # Null =>
       /\ At(b, c, id) \in l /\ id \in 1..(n - 1)
       /\ \A other \in Int : At(b, c, other) = At(b, c, id) => other = id

IInv == TypeOK /\ (Small => Sound(buffer, capacity, next_id, live))

\* Reading a slot of the table, whoever waits for it.
LEMMA GetIsAt == \A id : Get(id) = At(buffer, capacity, id)
  BY DEF Get, At

\* The table of a server that has just started.
LEMMA InitIInv == Init => IInv
  <1> SUFFICES ASSUME Init PROVE IInv
    OBVIOUS
  <1>1. TypeOK
    BY FdMapAssumption DEF Init, TypeOK
  <1>2. Sound(buffer, capacity, next_id, live)
    BY FdMapAssumption DEF Init, Sound, At
  <1> QED BY <1>1, <1>2 DEF IInv

-----------------------------------------------------------------------------
(* Types *)

\* What the arithmetic of slots needs to know of remainders.
LEMMA Remainder ==
  ASSUME NEW m \in Nat \ {0}, NEW k \in Nat
  PROVE  k % m \in 0..(m - 1) /\ k % m <= k /\ (k < m => k % m = k)
  OBVIOUS

\* fd_map_set keeps the types of the table.
LEMMA SetType ==
  ASSUME TypeOK, NEW id \in Nat, NEW object \in Objects, Set(id, object)
  PROVE  /\ DOMAIN buffer' \subseteq Nat /\ 0..(capacity' - 1) \subseteq DOMAIN buffer'
         /\ \A i \in DOMAIN buffer' : buffer'[i] \in Objects \cup {Null}
         /\ capacity' \in 0..(Modulus - 1)
  <1>1. CASE id < capacity
    BY <1>1 DEF Set, TypeOK
  <1>2. CASE ~(id < capacity)
    <2> DEFINE k == (id + 1) * 2
    <2>1. k \in Nat /\ capacity' = k % Modulus
      BY <1>2 DEF Set
    <2>2. capacity' \in 0..(Modulus - 1) /\ capacity' <= k
      BY <2>1, Remainder, FdMapAssumption
    <2>3. DOMAIN buffer' = 0..(k - 1)
      BY <1>2 DEF Set
    <2>4. ASSUME NEW i \in DOMAIN buffer' PROVE buffer'[i] \in Objects \cup {Null}
      <3>1. i \in 0..(k - 1)
        BY <2>3
      <3>2. buffer'[i] = IF i = id THEN object
                         ELSE IF i < capacity THEN buffer[i] ELSE Null
        BY <1>2, <3>1 DEF Set
      <3>3. i < capacity => i \in DOMAIN buffer
        BY <3>1 DEF TypeOK
      <3> QED BY <3>2, <3>3 DEF TypeOK
    <2> HIDE DEF k
    <2> QED BY <2>1, <2>2, <2>3, <2>4
  <1> QED BY <1>1, <1>2

-----------------------------------------------------------------------------
(* What Set does to the table *)

\* Up to half the range of the capacity, Set changes one entry of the table.
LEMMA SetEffect ==
  ASSUME TypeOK, NEW id \in Nat, NEW object \in Objects, Set(id, object),
         2 * (id + 1) < Modulus
  PROVE  \A i \in Int : At(buffer', capacity', i)
                          = IF i = id THEN object ELSE At(buffer, capacity, i)
  <1>1. CASE id < capacity
    BY <1>1 DEF Set, TypeOK, At
  <1>2. CASE ~(id < capacity)
    <2> DEFINE k == (id + 1) * 2
    <2>1. k \in Nat /\ id < k /\ capacity <= k
      BY <1>2 DEF TypeOK
    <2>2. capacity' = k
      <3>1. capacity' = k % Modulus /\ k < Modulus
        BY <1>2 DEF Set
      <3> HIDE DEF k
      <3> QED BY <2>1, <3>1, Remainder, FdMapAssumption
    <2>3. \A i \in 0..(k - 1) : buffer'[i] = IF i = id THEN object
                                 ELSE IF i < capacity THEN buffer[i] ELSE Null
      BY <1>2 DEF Set
    <2> HIDE DEF k
    <2> QED BY <2>1, <2>2, <2>3, <1>2 DEF At, TypeOK
  <1> QED BY <1>1, <1>2

\* The table stays sound when a new object is put where there was none.
LEMMA SoundRegister ==
  ASSUME NEW b, NEW c, NEW b2, NEW c2, NEW n \in Nat, NEW n2 \in Nat, n <= n2,
         NEW l, NEW object, object \notin l, Null \notin l \cup {object},
         NEW id \in 1..(n2 - 1), At(b, c, id) = Null,
         Sound(b, c, n, l),
         \A i \in Int : At(b2, c2, i) = IF i = id THEN object ELSE At(b, c, i)
  PROVE  Sound(b2, c2, n2, l \cup {object})
  <1> DEFINE old(i) == At(b, c, i)
             new(i) == At(b2, c2, i)
  <1>1. \A i \in Int : new(i) = IF i = id THEN object ELSE old(i)
    OBVIOUS
  <1>2. ASSUME NEW o \in l \cup {object} PROVE \E i \in 1..(n2 - 1) : new(i) = o
    <2>1. CASE o = object
      BY <2>1, <1>1
    <2>2. CASE o \in l
      <3>1. PICK i \in 1..(n - 1) : old(i) = o
        BY <2>2 DEF Sound
      <3>2. i # id /\ i \in 1..(n2 - 1)
        <4>1. o # Null
          BY <2>2
        <4> QED BY <3>1, <4>1
      <3> QED BY <3>1, <3>2, <1>1
    <2> QED BY <2>1, <2>2
  <1>3. ASSUME NEW i \in Int, new(i) # Null
        PROVE  /\ new(i) \in l \cup {object} /\ i \in 1..(n2 - 1)
               /\ \A other \in Int : new(other) = new(i) => other = i
    <2>0. \A j \in Int : old(j) # Null => /\ old(j) \in l /\ j \in 1..(n - 1)
                                          /\ \A k \in Int : old(k) = old(j) => k = j
      BY DEF Sound
    <2> HIDE DEF old, new
    <2>1. CASE i = id
      BY <2>1, <2>0, <1>1
    <2>2. CASE i # id
      BY <2>2, <2>0, <1>1, <1>3
    <2> QED BY <2>1, <2>2
  <1> QED BY <1>2, <1>3 DEF Sound

\* The table stays sound when an entry is cleared and its object freed.
LEMMA SoundUnregister ==
  ASSUME NEW b, NEW c, NEW b2, NEW c2, NEW n \in Nat, NEW l, Null \notin l,
         NEW id \in Int, At(b, c, id) # Null,
         Sound(b, c, n, l),
         \A i \in Int : At(b2, c2, i) = IF i = id THEN Null ELSE At(b, c, i)
  PROVE  Sound(b2, c2, n, l \ {At(b, c, id)})
  <1> DEFINE old(i) == At(b, c, i)
             new(i) == At(b2, c2, i)
  <1>0. /\ \A o \in l : \E i \in 1..(n - 1) : old(i) = o
        /\ \A j \in Int : old(j) # Null => /\ old(j) \in l /\ j \in 1..(n - 1)
                                          /\ \A k \in Int : old(k) = old(j) => k = j
    BY DEF Sound
  <1>1. \A i \in Int : new(i) = IF i = id THEN Null ELSE old(i)
    OBVIOUS
  <1>2. old(id) # Null
    OBVIOUS
  <1> HIDE DEF old, new
  <1>3. ASSUME NEW o \in l \ {old(id)} PROVE \E i \in 1..(n - 1) : new(i) = o
    <2>1. PICK i \in 1..(n - 1) : old(i) = o
      BY <1>0
    <2> QED BY <2>1, <1>1
  <1>4. ASSUME NEW i \in Int, new(i) # Null
        PROVE  /\ new(i) \in l \ {old(id)} /\ i \in 1..(n - 1)
               /\ \A other \in Int : new(other) = new(i) => other = i
    BY <1>0, <1>1, <1>2, <1>4
  <1> QED BY <1>3, <1>4 DEF Sound, old, new

-----------------------------------------------------------------------------
(* The steps *)

\* The id that is reused is below the capacity and the next id, and is free.
LEMMA ReuseIdEffect ==
  ASSUME TypeOK, NEW object \in Objects, ReuseId(object)
  PROVE  \E id \in 1..(next_id - 1) : /\ At(buffer, capacity, id) = Null
                                      /\ Set(id, object)
  BY DEF ReuseId, FreeIds, TypeOK, At

\* Nothing is found at the next id.
LEMMA NextIdFree ==
  ASSUME TypeOK, Sound(buffer, capacity, next_id, live)
  PROVE  At(buffer, capacity, next_id) = Null
  BY DEF TypeOK, Sound

\* Both ways to register an object under an id.
LEMMA RegisterSound ==
  ASSUME TypeOK, NEW n \in {next_id, next_id + 1}, 2 * n < Modulus,
         Sound(buffer, capacity, next_id, live),
         NEW object \in Objects, Allocate(object),
         NEW id \in 1..(n - 1), Set(id, object),
         At(buffer, capacity, id) = Null
  PROVE  /\ Sound(buffer', capacity', n, live')
         /\ \A i \in Int : At(buffer', capacity', i)
                           = IF i = id THEN object ELSE At(buffer, capacity, i)
  <1>1. /\ next_id \in Nat /\ n \in Nat /\ next_id <= n
        /\ id \in Nat /\ 2 * (id + 1) < Modulus
    BY FdMapAssumption DEF TypeOK
  <1>2. \A i \in Int : At(buffer', capacity', i)
                          = IF i = id THEN object ELSE At(buffer, capacity, i)
    BY <1>1, SetEffect
  <1>3. live' = live \cup {object} /\ object \notin live
    BY DEF Allocate
  <1>4. Null \notin live \cup {object}
    BY FdMapAssumption DEF TypeOK
  <1>5. Sound(buffer', capacity', n, live \cup {object})
    BY <1>1, <1>2, <1>3, <1>4, SoundRegister
  <1> QED BY <1>2, <1>3, <1>5

\* A failed creation moves the next id over a free entry.
LEMMA FailSound ==
  ASSUME TypeOK, Sound(buffer, capacity, next_id, live), FailWithNextId
  PROVE  Sound(buffer', capacity', next_id', live')
  <1>1. next_id \in Nat /\ next_id' = next_id + 1
    BY DEF TypeOK, FailWithNextId
  <1>2. 1..(next_id - 1) \subseteq 1..(next_id' - 1)
    BY <1>1
  <1>3. buffer' = buffer /\ capacity' = capacity /\ live' = live
    BY DEF FailWithNextId
  <1> QED BY <1>2, <1>3 DEF Sound

\* Unregistering a connection keeps the invariant.
LEMMA UnregisterSound ==
  ASSUME TypeOK, Sound(buffer, capacity, next_id, live),
         NEW id \in 1..(next_id - 1), Unregister(id)
  PROVE  /\ Sound(buffer', capacity', next_id', live')
         /\ \A i \in Int : At(buffer', capacity', i)
                           = IF i = id THEN Null ELSE At(buffer, capacity, i)
         /\ At(buffer, capacity, id) # Null
  <1>1. /\ At(buffer, capacity, id) # Null /\ id \in Int /\ next_id \in Nat
        /\ live' = live \ {At(buffer, capacity, id)} /\ next_id' = next_id
    BY GetIsAt DEF Unregister, TypeOK
  <1>2. \A i \in Int : At(buffer', capacity', i)
                          = IF i = id THEN Null ELSE At(buffer, capacity, i)
    BY DEF Unregister, TypeOK, At
  <1>3. Null \notin live
    BY FdMapAssumption DEF TypeOK
  <1>4. Sound(buffer', capacity', next_id, live \ {At(buffer, capacity, id)})
    BY <1>1, <1>2, <1>3, SoundUnregister
  <1> QED BY <1>1, <1>2, <1>4

\* Each step keeps the types.
LEMMA StepType ==
  ASSUME TypeOK, Next
  PROVE  TypeOK'
  <1>1. ASSUME NEW object \in Objects, ReuseId(object) PROVE TypeOK'
    <2>1. PICK id \in 1..(next_id - 1) : Set(id, object)
      BY <1>1, ReuseIdEffect
    <2>2. next_id' = next_id /\ live' = live \cup {object}
      BY <1>1 DEF ReuseId, Allocate
    <2>3. id \in Nat
      BY DEF TypeOK
    <2> QED BY <2>1, <2>2, <2>3, SetType DEF TypeOK
  <1>2. ASSUME NEW object \in Objects, TakeNextId(object) PROVE TypeOK'
    <2>1. Set(next_id, object) /\ next_id \in Nat
      BY <1>2 DEF TakeNextId, TypeOK
    <2>2. next_id' = next_id + 1 /\ live' = live \cup {object}
      BY <1>2 DEF TakeNextId, Allocate
    <2> QED BY <2>1, <2>2, SetType DEF TypeOK
  <1>3. CASE FailWithNextId
    BY <1>3 DEF FailWithNextId, TypeOK
  <1>4. ASSUME NEW id \in 1..(next_id - 1), Unregister(id) PROVE TypeOK'
    BY <1>4 DEF Unregister, TypeOK
  <1> QED BY <1>1, <1>2, <1>3, <1>4 DEF Next

\* The next id only grows.
LEMMA WasSmall ==
  ASSUME TypeOK, Next, Small'
  PROVE  Small
  <1>1. next_id \in Nat /\ Modulus \in Nat /\ 2 * next_id' < Modulus
    BY FdMapAssumption DEF TypeOK, Small
  <1>2. CASE next_id' = next_id
    BY <1>1, <1>2 DEF Small
  <1>3. CASE next_id' = next_id + 1
    <2>1. 2 * (next_id + 1) < Modulus
      BY <1>1, <1>3
    <2> QED BY <1>1, <2>1 DEF Small
  <1>4. next_id' \in {next_id, next_id + 1}
    BY DEF Next, ReuseId, TakeNextId, FailWithNextId, Unregister
  <1> QED BY <1>2, <1>3, <1>4

\* Each step keeps the table sound, until the capacity may overflow.
LEMMA StepSound ==
  ASSUME IInv, Next, Small'
  PROVE  Sound(buffer', capacity', next_id', live')
  <1>1. TypeOK /\ next_id \in Nat /\ Modulus \in Nat /\ 2 * next_id' < Modulus
    BY FdMapAssumption DEF IInv, TypeOK, Small
  <1>3. Sound(buffer, capacity, next_id, live)
    BY <1>1, WasSmall DEF IInv
  <1>4. ASSUME NEW object \in Objects, ReuseId(object)
        PROVE  Sound(buffer', capacity', next_id', live')
    <2>1. PICK id \in 1..(next_id - 1) : /\ At(buffer, capacity, id) = Null
                                        /\ Set(id, object)
      BY <1>1, <1>4, ReuseIdEffect
    <2>2. next_id' = next_id /\ Allocate(object)
      BY <1>4 DEF ReuseId
    <2> QED BY <1>1, <1>3, <2>1, <2>2, RegisterSound
  <1>5. ASSUME NEW object \in Objects, TakeNextId(object)
        PROVE  Sound(buffer', capacity', next_id', live')
    <2>1. next_id' = next_id + 1 /\ Allocate(object) /\ Set(next_id, object)
      BY <1>5 DEF TakeNextId
    <2>2. next_id \in 1..((next_id + 1) - 1) /\ At(buffer, capacity, next_id) = Null
      BY <1>1, <1>3, NextIdFree DEF TypeOK
    <2>3. 2 * (next_id + 1) < Modulus
      BY <1>1, <2>1
    <2> QED BY <1>1, <1>3, <2>1, <2>2, <2>3, RegisterSound
  <1>6. CASE FailWithNextId
    BY <1>1, <1>3, <1>6, FailSound
  <1>7. ASSUME NEW id \in 1..(next_id - 1), Unregister(id)
        PROVE  Sound(buffer', capacity', next_id', live')
    BY <1>1, <1>3, <1>7, UnregisterSound
  <1> QED BY <1>4, <1>5, <1>6, <1>7 DEF Next

\* The inductive invariant holds in every state.
THEOREM Invariance == Spec => []IInv
  <1>1. IInv /\ UNCHANGED vars => IInv'
    BY DEF IInv, TypeOK, Small, vars
  <1>2. IInv /\ Next => IInv'
    BY StepType, StepSound DEF IInv
  <1> QED
    BY InitIInv, <1>1, <1>2, PTL DEF Spec

-----------------------------------------------------------------------------
(* The properties *)

\* The array, the capacity and the ids keep their types, overflow included.
THEOREM TypeCorrect == Spec => []TypeOK
  BY Invariance, PTL DEF IInv

\* No object that is not freed is forgotten, and none that is freed is found,
\* for every initial capacity and every width of the capacity.
THEOREM NoneForgotten == Spec => []NothingForgotten
  <1>1. IInv => NothingForgotten
    <2> SUFFICES ASSUME IInv, Small PROVE
          /\ \A object \in live : \E id \in 1..(next_id - 1) : Get(id) = object
          /\ \A id \in 0..(capacity - 1) :
               Get(id) # Null =>
                 /\ Get(id) \in live /\ id \in 1..(next_id - 1)
                 /\ \A other \in 0..(capacity - 1) : Get(other) = Get(id) => other = id
      BY DEF NothingForgotten
    <2>1. Sound(buffer, capacity, next_id, live)
      BY DEF IInv
    <2>2. \A id \in 0..(capacity - 1) : id \in Int
      OBVIOUS
    <2> QED BY <2>1, <2>2, GetIsAt DEF Sound
  <1> QED BY Invariance, <1>1, PTL

-----------------------------------------------------------------------------
(* The ids in use *)

\* As many objects as there are ids in use from 1 to m.
LEMMA IdsCounted ==
  ASSUME NEW b, NEW c, NEW n, NEW l, Sound(b, c, n, l), IsFiniteSet(l),
         NEW m \in Int, \A id \in 1..m : At(b, c, id) # Null
  PROVE  m <= Cardinality(l)
  <1> DEFINE f == [id \in 1..m |-> At(b, c, id)]
  <1>1. Cardinality(l) \in Nat
    BY FS_CardinalityType
  <1>2. CASE m <= 0
    BY <1>1, <1>2
  <1>3. CASE m > 0
    <2>1. \A id \in 1..m : id \in Int
      OBVIOUS
    <2>2. f \in [1..m -> l]
      BY <2>1 DEF Sound
    <2>3. \A i, j \in 1..m : f[i] = f[j] => i = j
      BY <2>1 DEF Sound
    <2> HIDE DEF f
    <2>4. f \in Injection(1..m, l)
      BY <2>2, <2>3 DEF Injection, IsInjective
    <2>5. Cardinality(1..m) <= Cardinality(l)
      BY <2>4, FS_Injection
    <2>6. Cardinality(1..m) = m
      <3>1. 1 \in Int
        OBVIOUS
      <3> QED BY <1>3, <3>1, FS_Interval
    <2> QED BY <2>5, <2>6
  <1> QED BY <1>2, <1>3

\* The next id is above the capacity by the failures at most, and when no id below
\* it is free, all of those below the capacity but the last are in use.
CountInv ==
  /\ IsFiniteSet(live) /\ Cardinality(live) <= peak
  /\ peak \in Nat /\ failed \in Nat
  /\ Small => next_id <= capacity + failed /\ next_id <= peak + failed + 2

\* A server that has just started.
LEMMA InitCount == Init => CountInv
  <1> SUFFICES ASSUME Init PROVE CountInv
    OBVIOUS
  <1>1. IsFiniteSet(live) /\ Cardinality(live) = 0
    BY FS_EmptySet DEF Init
  <1>2. 1 <= InitialCapacity /\ InitialCapacity \in Int
    BY FdMapAssumption
  <1> QED BY <1>1, <1>2 DEF Init, CountInv

\* peak follows the number of objects.
LEMMA AllocateCount ==
  ASSUME CountInv, NEW object, Allocate(object)
  PROVE  /\ IsFiniteSet(live') /\ Cardinality(live') <= peak' /\ peak' \in Nat
         /\ Cardinality(live) + 1 <= peak' /\ peak <= peak' /\ failed' = failed
  <1>1. IsFiniteSet(live) /\ Cardinality(live) <= peak /\ peak \in Nat
    BY DEF CountInv
  <1>2. live' = live \cup {object} /\ object \notin live
    BY DEF Allocate
  <1>3. IsFiniteSet(live') /\ Cardinality(live') = Cardinality(live) + 1
    BY <1>1, <1>2, FS_AddElement
  <1>4. Cardinality(live) \in Nat
    BY <1>1, FS_CardinalityType
  <1>5. peak' = (IF Cardinality(live') > peak THEN peak + 1 ELSE peak) /\ failed' = failed
    BY DEF Allocate
  <1> QED BY <1>1, <1>3, <1>4, <1>5

\* How many objects there are when no id is free.
LEMMA NoneFree ==
  ASSUME TypeOK, CountInv, Sound(buffer, capacity, next_id, live), FreeIds = {}
  PROVE  \/ next_id < capacity /\ next_id <= Cardinality(live) + 1
         \/ next_id >= capacity /\ capacity <= Cardinality(live) + 2
  <1>1. capacity \in Int /\ next_id \in Int
    <2>1. capacity \in 0..(Modulus - 1)
      BY DEF TypeOK
    <2> QED BY <2>1, FdMapAssumption DEF TypeOK
  <1>2. Cardinality(live) \in Nat /\ IsFiniteSet(live)
    BY FS_CardinalityType DEF CountInv
  <1>3. CASE next_id < capacity
    <2>1. \A id \in 1..(next_id - 1) : At(buffer, capacity, id) # Null
      BY <1>1, <1>3 DEF FreeIds, At
    <2>2. next_id - 1 \in Int
      BY <1>1
    <2>3. next_id - 1 <= Cardinality(live)
      BY <1>2, <2>1, <2>2, IdsCounted
    <2> QED BY <1>1, <1>2, <1>3, <2>3
  <1>4. CASE next_id >= capacity
    <2>1. \A id \in 1..(capacity - 2) : At(buffer, capacity, id) # Null
      BY <1>1, <1>4 DEF FreeIds, At
    <2>2. capacity - 2 \in Int
      BY <1>1
    <2>3. capacity - 2 <= Cardinality(live)
      BY <1>2, <2>1, <2>2, IdsCounted
    <2> QED BY <1>1, <1>2, <1>4, <2>3
  <1> QED BY <1>1, <1>3, <1>4

\* The capacity after an object was registered: it does not shrink, and is above
\* the id.
LEMMA SetCapacity ==
  ASSUME TypeOK, NEW id \in Nat, NEW object, Set(id, object), 2 * (id + 1) < Modulus
  PROVE  capacity' \in Nat /\ capacity <= capacity' /\ id < capacity'
  <1>1. capacity \in Nat /\ Modulus \in Nat
    <2>1. capacity \in 0..(Modulus - 1)
      BY DEF TypeOK
    <2> QED BY <2>1, FdMapAssumption
  <1>2. CASE id < capacity
    BY <1>1, <1>2 DEF Set
  <1>3. CASE ~(id < capacity)
    <2>1. capacity' = ((id + 1) * 2) % Modulus
      BY <1>3 DEF Set
    <2>2. (id + 1) * 2 \in Nat /\ (id + 1) * 2 < Modulus /\ (id + 1) * 2 > id
      BY <1>1
    <2>3. ((id + 1) * 2) % Modulus = (id + 1) * 2
      BY <1>1, <2>2
    <2> QED BY <1>1, <1>3, <2>1, <2>2, <2>3
  <1> QED BY <1>2, <1>3

\* What the steps need to know of sums.
LEMMA Sums ==
  /\ \A a, b, d, e \in Nat : a <= b + d /\ b <= e => a <= e + d /\ a <= d + e
  /\ \A a, b, d, e \in Nat : a <= b + d + 2 /\ b <= e => a <= e + d + 2
  /\ \A a, b, d, e \in Nat : a <= b + 2 + d /\ b + 1 <= e => a + 1 <= e + d + 2
  /\ \A a, d, e \in Nat : a < e => a + 1 <= e + d
  OBVIOUS

\* Each step keeps the counts.
LEMMA StepCount ==
  ASSUME IInv, CountInv, Next
  PROVE  CountInv'
  <1>1. /\ TypeOK /\ next_id \in Nat \ {0} /\ Modulus \in Nat /\ capacity \in Nat
        /\ peak \in Nat /\ failed \in Nat /\ Cardinality(live) \in Nat
        /\ IsFiniteSet(live) /\ Cardinality(live) <= peak
    <2>1. capacity \in 0..(Modulus - 1)
      BY DEF TypeOK, IInv
    <2> QED BY <2>1, FdMapAssumption, FS_CardinalityType DEF IInv, TypeOK, CountInv
  <1>2. Small' => /\ Sound(buffer, capacity, next_id, live)
                  /\ next_id <= capacity + failed /\ next_id <= peak + failed + 2
                  /\ 2 * next_id' < Modulus
    BY <1>1, WasSmall DEF IInv, CountInv, Small
  <1>3. ASSUME NEW object \in Objects, ReuseId(object) PROVE CountInv'
    <2>1. PICK id \in 1..(next_id - 1) : Set(id, object)
      BY <1>1, <1>3, ReuseIdEffect
    <2>2. next_id' = next_id /\ Allocate(object)
      BY <1>3 DEF ReuseId
    <2>3. /\ IsFiniteSet(live') /\ Cardinality(live') <= peak' /\ peak' \in Nat
          /\ peak <= peak' /\ failed' = failed
      BY <2>2, AllocateCount
    <2>4. ASSUME Small' PROVE next_id' <= capacity' + failed' /\ next_id' <= peak' + failed' + 2
      <3>1. id \in Nat /\ 2 * (id + 1) < Modulus
        BY <1>1, <1>2, <2>2, <2>4
      <3>2. capacity' \in Nat /\ capacity <= capacity'
        BY <1>1, <2>1, <3>1, SetCapacity
      <3>3. /\ next_id \in Nat /\ capacity \in Nat /\ failed \in Nat /\ peak \in Nat
            /\ next_id <= capacity + failed /\ next_id <= peak + failed + 2
            /\ next_id' = next_id /\ failed' = failed /\ peak' \in Nat /\ peak <= peak'
        BY <1>1, <1>2, <2>2, <2>3, <2>4
      <3>4. next_id <= capacity' + failed /\ next_id <= peak' + failed + 2
        BY <3>2, <3>3, Sums
      <3> QED BY <3>3, <3>4
    <2> QED BY <1>1, <2>3, <2>4 DEF CountInv
  <1>4. ASSUME NEW object \in Objects, TakeNextId(object) PROVE CountInv'
    <2>1. /\ next_id' = next_id + 1 /\ Allocate(object) /\ Set(next_id, object)
          /\ FreeIds = {}
      BY <1>4 DEF TakeNextId
    <2>2. /\ IsFiniteSet(live') /\ Cardinality(live') <= peak' /\ peak' \in Nat
          /\ peak <= peak' /\ failed' = failed /\ Cardinality(live) + 1 <= peak'
      BY <2>1, AllocateCount
    <2>3. ASSUME Small' PROVE next_id' <= capacity' + failed' /\ next_id' <= peak' + failed' + 2
      <3>1. 2 * (next_id + 1) < Modulus
        BY <1>2, <2>1, <2>3
      <3>2. capacity' \in Nat /\ next_id < capacity'
        BY <1>1, <2>1, <3>1, SetCapacity
      <3>3. \/ next_id < capacity /\ next_id <= Cardinality(live) + 1
            \/ next_id >= capacity /\ capacity <= Cardinality(live) + 2
        BY <1>1, <1>2, <2>1, <2>3, NoneFree
      <3>4. next_id <= Cardinality(live) + 2 + failed
        BY <1>1, <1>2, <2>3, <3>3
      <3>5. /\ next_id \in Nat /\ failed \in Nat /\ Cardinality(live) \in Nat
            /\ next_id' = next_id + 1 /\ failed' = failed /\ peak' \in Nat
            /\ Cardinality(live) + 1 <= peak'
        BY <1>1, <2>1, <2>2
      <3>6. next_id + 1 <= capacity' + failed /\ next_id + 1 <= peak' + failed + 2
        BY <3>2, <3>4, <3>5, Sums
      <3> QED BY <3>5, <3>6
    <2> QED BY <1>1, <2>2, <2>3 DEF CountInv
  <1>5. CASE FailWithNextId
    <2>1. /\ next_id' = next_id + 1 /\ failed' = failed + 1 /\ capacity' = capacity
          /\ live' = live /\ peak' = peak
      BY <1>5 DEF FailWithNextId
    <2> QED BY <1>1, <1>2, <2>1 DEF CountInv
  <1>6. ASSUME NEW id \in 1..(next_id - 1), Unregister(id) PROVE CountInv'
    <2>1. /\ live' = live \ {Get(id)} /\ next_id' = next_id /\ failed' = failed
          /\ capacity' = capacity /\ peak' = peak
      BY <1>6 DEF Unregister
    <2>2. live' \in SUBSET live
      BY <2>1
    <2>3. IsFiniteSet(live') /\ Cardinality(live') <= Cardinality(live)
          /\ Cardinality(live') \in Nat
      BY <1>1, <2>2, FS_Subset, FS_CardinalityType
    <2> QED BY <1>1, <1>2, <2>1, <2>3 DEF CountInv
  <1> QED BY <1>3, <1>4, <1>5, <1>6 DEF Next

\* However many objects come and go, the next id exceeds the greatest number of
\* them that were there together by the failures and two at most.
THEOREM IdsStayBounded == Spec => []IdsBounded
  <1>1. IInv /\ CountInv /\ [Next]_vars => CountInv'
    <2>1. IInv /\ CountInv /\ UNCHANGED vars => CountInv'
      BY DEF CountInv, Small, vars
    <2> QED BY <2>1, StepCount
  <1>2. CountInv => IdsBounded
    BY DEF CountInv, IdsBounded
  <1> QED BY <1>1, <1>2, InitCount, Invariance, PTL DEF Spec

-----------------------------------------------------------------------------
(* The refinement of the registry *)

Table(b, c, n) ==
  [id \in {i \in 1..(n - 1) : At(b, c, i) # Null} |-> At(b, c, id)]

\* What registering a connection leaves.
LEMMA RegisteredIs ==
  /\ Registered = Table(buffer, capacity, next_id)
  /\ Registered' = Table(buffer', capacity', next_id')
  BY DEF Registered, Table, Get, At

\* Putting a new object in a free entry registers it.
LEMMA RegisterRefines ==
  ASSUME TypeOK, Sound(buffer, capacity, next_id, live),
         NEW object \in Objects, object \notin live,
         NEW n \in {next_id, next_id + 1}, next_id' = n,
         NEW id \in 1..(n - 1), At(buffer, capacity, id) = Null,
         \A i \in Int : At(buffer', capacity', i)
                           = IF i = id THEN object ELSE At(buffer, capacity, i)
  PROVE  R!Next
  <1> DEFINE ids == {i \in 1..(next_id - 1) : At(buffer, capacity, i) # Null}
             ids2 == {i \in 1..(n - 1) : At(buffer', capacity', i) # Null}
  <1>1. next_id \in Nat /\ n \in Nat /\ object # Null
    BY FdMapAssumption DEF TypeOK
  <1>2. ids2 = ids \cup {id} /\ id \notin ids
    <2>1. \A i \in Int : At(buffer, capacity, i) # Null => i \in 1..(next_id - 1)
      BY DEF Sound
    <2>2. \A i \in 1..(next_id - 1) : i \in 1..(n - 1)
      BY <1>1
    <2>3. \A i \in 1..(n - 1) : i \in Int
      BY <1>1
    <2>4. ASSUME NEW i \in ids2 PROVE i \in ids \cup {id}
      BY <2>1, <2>3
    <2>5. ASSUME NEW i \in ids \cup {id} PROVE i \in ids2
      BY <1>1, <2>2, <2>3
    <2> QED BY <2>4, <2>5
  <1>3. DOMAIN Registered = ids /\ DOMAIN Registered' = ids2
    BY RegisteredIs DEF Table
  <1>4. \A i \in ids : Registered[i] = At(buffer, capacity, i)
    BY RegisteredIs DEF Table
  <1>5. \A i \in ids : Registered[i] # object
    BY <1>1, <1>4 DEF Sound
  <1>6. Registered' = [i \in ids \cup {id} |->
                         IF i = id THEN object ELSE Registered[i]]
    <2>1. Registered' = [i \in ids2 |-> At(buffer', capacity', i)]
      BY RegisteredIs DEF Table
    <2>2. \A i \in ids2 : At(buffer', capacity', i)
                             = IF i = id THEN object ELSE Registered[i]
      BY <1>2, <1>4
    <2> HIDE DEF ids, ids2
    <2> QED BY <1>2, <2>1, <2>2
  <1> HIDE DEF ids, ids2
  <1>7. R!Register(id, object)
    BY <1>2, <1>3, <1>5, <1>6 DEF R!Register, R!Ids
  <1> QED BY <1>2, <1>3, <1>7 DEF R!Next, R!Ids

\* Clearing an entry unregisters its object.
LEMMA UnregisterRefines ==
  ASSUME TypeOK, Sound(buffer, capacity, next_id, live),
         NEW id \in 1..(next_id - 1), Unregister(id)
  PROVE  R!Next
  <1> DEFINE ids == {i \in 1..(next_id - 1) : At(buffer, capacity, i) # Null}
  <1>1. next_id \in Nat /\ next_id' = next_id
    BY DEF TypeOK, Unregister
  <1>2. /\ \A i \in Int : At(buffer', capacity', i)
                           = IF i = id THEN Null ELSE At(buffer, capacity, i)
        /\ id \in ids
    BY UnregisterSound
  <1>3. Registered = [i \in ids |-> At(buffer, capacity, i)]
    BY RegisteredIs DEF Table
  <1>4. Registered' = [i \in ids \ {id} |-> Registered[i]]
    <2> DEFINE ids2 == {i \in 1..(next_id - 1) : At(buffer', capacity', i) # Null}
    <2>1. ids2 = ids \ {id}
      BY <1>1, <1>2
    <2>2. \A i \in ids2 : At(buffer', capacity', i) = Registered[i]
      BY <1>1, <1>2, <1>3, <2>1
    <2>3. Registered' = [i \in ids2 |-> At(buffer', capacity', i)]
      BY <1>1, RegisteredIs DEF Table
    <2> HIDE DEF ids, ids2
    <2> QED BY <2>1, <2>2, <2>3
  <1> HIDE DEF ids
  <1>5. DOMAIN Registered = ids
    BY <1>3
  <1>6. R!Unregister(id)
    BY <1>2, <1>4, <1>5 DEF R!Unregister, R!Ids
  <1> QED BY <1>2, <1>5, <1>6 DEF R!Next, R!Ids

\* A failed creation registers nothing.
LEMMA FailRefines ==
  ASSUME TypeOK, Sound(buffer, capacity, next_id, live), FailWithNextId
  PROVE  Registered' = Registered
  <1>1. /\ next_id \in Nat /\ next_id' = next_id + 1
        /\ buffer' = buffer /\ capacity' = capacity
    BY DEF TypeOK, FailWithNextId
  <1>2. \A i \in Int : At(buffer, capacity, i) # Null => i \in 1..(next_id - 1)
    BY DEF Sound
  <1>3. \A i \in 1..(next_id - 1) : i \in 1..((next_id + 1) - 1)
    BY <1>1
  <1>4. {i \in 1..((next_id + 1) - 1) : At(buffer, capacity, i) # Null}
          = {i \in 1..(next_id - 1) : At(buffer, capacity, i) # Null}
    BY <1>1, <1>2, <1>3
  <1> QED BY <1>1, <1>4, RegisteredIs DEF Table

\* Up to half the range of the capacity the array is the registry: ids are
\* unique, and registering or unregistering one object moves no other.
THEOREM Refinement == Spec => ImplementsRegistry
  <1>1. Init => R!Init
    <2> SUFFICES ASSUME Init PROVE R!Init
      OBVIOUS
    <2>1. \A i \in Int : Get(i) = Null
      BY FdMapAssumption DEF Init, Get
    <2> QED BY <2>1 DEF R!Init, Registered
  <1>2. IInv /\ [Next]_vars => [Small' => R!Next]_Registered
    <2> SUFFICES ASSUME IInv, [Next]_vars, Small', Registered' # Registered
                 PROVE  R!Next
      OBVIOUS
    <2>0. Next
      BY DEF vars, Registered, Get
    <2>1. TypeOK /\ next_id \in Nat /\ Modulus \in Nat
      BY FdMapAssumption DEF IInv, TypeOK
    <2>2. 2 * next_id' < Modulus
      BY DEF Small
    <2>3. Sound(buffer, capacity, next_id, live)
      BY <2>0, <2>1, WasSmall DEF IInv
    <2>4. ASSUME NEW object \in Objects, ReuseId(object) PROVE R!Next
      <3>1. PICK id \in 1..(next_id - 1) : /\ At(buffer, capacity, id) = Null
                                          /\ Set(id, object)
        BY <2>1, <2>4, ReuseIdEffect
      <3>2. next_id' = next_id /\ Allocate(object) /\ object \notin live
        BY <2>4 DEF ReuseId, Allocate
      <3>3. \A i \in Int : At(buffer', capacity', i)
                             = IF i = id THEN object ELSE At(buffer, capacity, i)
        BY <2>1, <2>2, <2>3, <3>1, <3>2, RegisterSound
      <3> QED BY <2>1, <2>3, <3>1, <3>2, <3>3, RegisterRefines
    <2>5. ASSUME NEW object \in Objects, TakeNextId(object) PROVE R!Next
      <3>1. /\ next_id' = next_id + 1 /\ Allocate(object) /\ object \notin live
            /\ Set(next_id, object)
        BY <2>5 DEF TakeNextId, Allocate
      <3>2. next_id \in 1..((next_id + 1) - 1) /\ At(buffer, capacity, next_id) = Null
        BY <2>1, <2>3, NextIdFree DEF TypeOK
      <3>3. 2 * (next_id + 1) < Modulus
        BY <2>2, <3>1
      <3>4. \A i \in Int : At(buffer', capacity', i)
                   = IF i = next_id THEN object ELSE At(buffer, capacity, i)
        BY <2>1, <2>3, <3>1, <3>2, <3>3, RegisterSound
      <3> QED BY <2>1, <2>3, <3>1, <3>2, <3>4, RegisterRefines
    <2>6. ASSUME NEW id \in 1..(next_id - 1), Unregister(id) PROVE R!Next
      BY <2>1, <2>3, <2>6, UnregisterRefines
    <2>7. ~ FailWithNextId
      BY <2>1, <2>3, FailRefines
    <2> QED BY <2>0, <2>4, <2>5, <2>6, <2>7 DEF Next
  <1> QED
    BY <1>1, <1>2, Invariance, PTL DEF Spec, ImplementsRegistry
=============================================================================
