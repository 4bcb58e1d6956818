----------------------------- MODULE LogBusProofs -----------------------------
(***************************************************************************)
(* The log bus proved for any number of logging threads, any buffer size   *)
(* and any number of entries: types, the order of the log, the wake-ups    *)
(* and what the shutdown leaves unwritten.                                 *)
(***************************************************************************)
EXTENDS LogBus, SequenceTheorems, FiniteSetTheorems, TLAPS

-----------------------------------------------------------------------------
(* The inductive invariant *)

Woken == {p \in Producers : producer[p] = "woken"}

\* The log thread holds an entry between taking and writing it; a thread that
\* waits for room has begun to log an entry.
ThreadInv ==
  /\ msg # NoEntry <=> consumer \in {"write", "drainWrite"}
  /\ \A p \in Producers : producer[p] # "ready" => logged[p] >= 1

\* The slots between the two positions are written.
Window(e, r, w) == \A i \in 1..(w - r) : e[(r + (i - 1)) % BufferSize] \in Entries
WindowInv == Window(entries, read_position, write_position)

\* There is a wake-up for every free slot while somebody waits for one, so that
\* the woken threads that fill slots never leave a sleeper beside a free one.
WakeupInv ==
  /\ consumer = "waiting" => Empty
  /\ IsFiniteSet(Woken)
  /\ Sleeping # {} => Count + Cardinality(Woken) >= BufferSize

\* What is due was accepted, and the log thread ends with all of it written.
DueInv ==
  /\ consumer \in {"drain", "drainWrite", "ended"} => ~running
  /\ due \subseteq ToSet(accepted)
  /\ consumer = "ended" => due \subseteq ToSet(file)

IInv == TypeOK /\ ThreadInv /\ WindowInv /\ WakeupInv /\ LoggedInOrder /\ DueInv

-----------------------------------------------------------------------------
(* The positions, which only grow, and the slots they stand for *)

\* The ring has a slot.
LEMMA SizePositive == BufferSize \in Nat \ {0}
  BY LogAssumption

\* A position falls on a slot of the ring.
LEMMA SlotType ==
  ASSUME NEW k \in Nat
  PROVE  k % BufferSize \in 0..(BufferSize - 1)
  BY SizePositive, SMTT(20)

\* Less than a whole turn apart, two positions stand for two slots.
LEMMA SlotsDiffer ==
  ASSUME NEW k \in Nat, NEW w \in Nat, k < w, w - k < BufferSize
  PROVE  k % BufferSize # w % BufferSize
  <1> SUFFICES ASSUME k % BufferSize = w % BufferSize PROVE FALSE
    OBVIOUS
  <1> DEFINE a == k \div BufferSize
             b == w \div BufferSize
             d == b - a
  <1>1. /\ a \in Int /\ b \in Int
        /\ k = BufferSize * a + (k % BufferSize)
        /\ w = BufferSize * b + (w % BufferSize)
    BY SizePositive, SMTT(20)
  <1> HIDE DEF a, b
  <1>2. w - k = BufferSize * d
    BY <1>1, SizePositive, SMTT(20)
  <1>3. d \in Int
    BY <1>1
  <1> HIDE DEF d
  <1>4. CASE d >= 1
    <2>1. BufferSize * d >= BufferSize
      BY <1>3, <1>4, SizePositive, SMTT(20)
    <2> QED BY <1>2, <2>1, SizePositive
  <1>5. CASE d <= 0
    <2>1. BufferSize * d <= 0
      BY <1>3, <1>5, SizePositive, SMTT(20)
    <2> QED BY <1>2, <2>1, SizePositive
  <1> QED BY <1>3, <1>4, <1>5

-----------------------------------------------------------------------------
(* The contents of the buffer as a sequence *)

ContentsOf(e, r, w) == [i \in 1..(w - r) |-> e[(r + (i - 1)) % BufferSize]]

\* The contents as a function of the ring and its positions.
LEMMA ContentsIs ==
  /\ Contents = ContentsOf(entries, read_position, write_position)
  /\ Contents' = ContentsOf(entries', read_position', write_position')
  BY DEF Contents, ContentsOf, Count

\* The contents are as many entries as the positions are apart.
LEMMA ContentsType ==
  ASSUME NEW e, NEW w \in Nat, NEW r \in 0..w, Window(e, r, w)
  PROVE  /\ ContentsOf(e, r, w) \in Seq(Entries)
         /\ Len(ContentsOf(e, r, w)) = w - r
         /\ \A i \in 1..(w - r) :
              ContentsOf(e, r, w)[i] = e[(r + (i - 1)) % BufferSize]
  <1>1. w - r \in Nat
    OBVIOUS
  <1>2. \A i \in 1..(w - r) : e[(r + (i - 1)) % BufferSize] \in Entries
    BY DEF Window
  <1> QED BY <1>1, <1>2 DEF ContentsOf

\* f is the buffer e with x in the slot of position w.
Stored(e, f, w, x) ==
  \A k \in 0..(BufferSize - 1) :
    f[k] = IF k = w % BufferSize THEN x ELSE e[k]

\* t is s with x put at its end, and s with x taken from its front.
Appends(s, x, t) == t = Append(s, x)
Removes(s, x, t) == s = <<x>> \o t

\* Putting an entry in a buffer with room appends it and keeps the others.
LEMMA PutContents ==
  ASSUME NEW e, NEW w \in Nat, NEW r \in 0..w, w - r < BufferSize,
         Window(e, r, w), NEW f, NEW x \in Entries, NEW n \in Nat, n > w, n <= w + 1,
         Stored(e, f, w, x)
  PROVE  /\ Window(f, r, n)
         /\ Appends(ContentsOf(e, r, w), x, ContentsOf(f, r, n))
  <1>1. w % BufferSize \in 0..(BufferSize - 1)
    BY SlotType
  <1>2. f[w % BufferSize] = x
    BY <1>1 DEF Stored
  <1>3. ASSUME NEW i \in 1..(w - r)
        PROVE  f[(r + (i - 1)) % BufferSize] = e[(r + (i - 1)) % BufferSize]
    <2>1. r + (i - 1) \in Nat /\ r + (i - 1) < w /\ w - (r + (i - 1)) < BufferSize
      BY SizePositive
    <2>2. (r + (i - 1)) % BufferSize # w % BufferSize
      BY <2>1, SlotsDiffer
    <2>3. (r + (i - 1)) % BufferSize \in 0..(BufferSize - 1)
      BY <2>1, SlotType
    <2> QED BY <2>2, <2>3 DEF Stored
  <1>4. r + ((n - r) - 1) = w
    OBVIOUS
  <1>5. ASSUME NEW i \in 1..(n - r)
        PROVE  i \in 1..(w - r) \/ i = n - r
    OBVIOUS
  <1>6. Window(f, r, n)
    <2>1. ASSUME NEW i \in 1..(n - r)
          PROVE  f[(r + (i - 1)) % BufferSize] \in Entries
      <3>1. CASE i \in 1..(w - r)
        BY <3>1, <1>3 DEF Window
      <3>2. CASE i = n - r
        BY <3>2, <1>2, <1>4
      <3> QED BY <1>5, <3>1, <3>2
    <2> QED BY <2>1 DEF Window
  <1> DEFINE C == ContentsOf(e, r, w)
             D == ContentsOf(f, r, n)
  <1>7. /\ C \in Seq(Entries) /\ Len(C) = w - r
        /\ \A i \in 1..(w - r) : C[i] = e[(r + (i - 1)) % BufferSize]
    BY ContentsType
  <1>8. /\ D \in Seq(Entries) /\ Len(D) = n - r
        /\ \A i \in 1..(n - r) : D[i] = f[(r + (i - 1)) % BufferSize]
    <2>1. n \in Nat /\ r \in 0..n
      OBVIOUS
    <2> QED BY <1>6, <2>1, ContentsType
  <1> HIDE DEF C, D
  <1>9. ASSUME NEW i \in 1..(w - r) PROVE D[i] = C[i]
    <2>1. i \in 1..(n - r)
      OBVIOUS
    <2> QED BY <2>1, <1>3, <1>7, <1>8
  <1>10. D[n - r] = x
    BY <1>2, <1>4, <1>8
  <1>11. D = Append(C, x)
    BY <1>7, <1>8, <1>9, <1>10
  <1> QED BY <1>6, <1>11 DEF C, D, Appends

\* Taking the oldest entry removes it and keeps the others.
LEMMA TakeContents ==
  ASSUME NEW e, NEW w \in Nat, NEW r \in 0..w, r < w, Window(e, r, w)
  PROVE  /\ e[r % BufferSize] \in Entries
         /\ Window(e, r + 1, w)
         /\ ContentsOf(e, r + 1, w) \in Seq(Entries)
         /\ Removes(ContentsOf(e, r, w), e[r % BufferSize], ContentsOf(e, r + 1, w))
  <1>1. 1 \in 1..(w - r) /\ r + (1 - 1) = r
    OBVIOUS
  <1>2. e[r % BufferSize] \in Entries
    BY <1>1 DEF Window
  <1>3. ASSUME NEW i \in 1..(w - (r + 1))
        PROVE  i + 1 \in 1..(w - r) /\ (r + 1) + (i - 1) = r + ((i + 1) - 1)
    OBVIOUS
  <1>4. Window(e, r + 1, w)
    BY <1>3, Zenon DEF Window
  <1> DEFINE C == ContentsOf(e, r, w)
             D == ContentsOf(e, r + 1, w)
             x == e[r % BufferSize]
  <1>5. /\ C \in Seq(Entries) /\ Len(C) = w - r
        /\ \A i \in 1..(w - r) : C[i] = e[(r + (i - 1)) % BufferSize]
    BY ContentsType
  <1>6. /\ D \in Seq(Entries) /\ Len(D) = w - (r + 1)
        /\ \A i \in 1..(w - (r + 1)) : D[i] = e[((r + 1) + (i - 1)) % BufferSize]
    <2>1. r + 1 \in 0..w
      OBVIOUS
    <2> QED BY <1>4, <2>1, ContentsType
  <1>7. C[1] = x
    BY <1>1, <1>5
  <1> HIDE DEF C, D, x
  <1>8. ASSUME NEW i \in 1..(w - (r + 1)) PROVE D[i] = C[i + 1]
    BY <1>3, <1>5, <1>6
  <1>9. C = <<x>> \o D
    BY <1>5, <1>6, <1>7, <1>8
  <1> QED BY <1>2, <1>4, <1>6, <1>9 DEF C, D, x, Removes

\* No entry is the absence of one.
LEMMA EntryIsSomething ==
  ASSUME NEW entry \in Entries
  PROVE  entry # NoEntry
  <1>1. PICK p \in Producers, k \in 1..MaxLogs : entry = <<p, k>>
    BY DEF Entries
  <1>2. Len(<<p, k>>) = 2 /\ Len(<< >>) = 0
    OBVIOUS
  <1> QED BY <1>1, <1>2 DEF NoEntry

-----------------------------------------------------------------------------
(* The initial state and the steps of the producers *)

\* The log bus as it is created.
LEMMA InitIInv == Init => IInv
  <1> SUFFICES ASSUME Init PROVE IInv
    OBVIOUS
  <1>1. write_position - read_position = 0 /\ 1..0 = {}
    BY DEF Init
  <1>2. TypeOK
    <2>1. << >> \in Seq(Entries)
      OBVIOUS
    <2>2. 0 \in 0..MaxLogs
      BY LogAssumption
    <2> QED BY <1>1, <2>1, <2>2, SizePositive DEF Init, TypeOK, Count
  <1>3. ThreadInv /\ WindowInv /\ DueInv
    BY <1>1 DEF Init, ThreadInv, WindowInv, Window, DueInv
  <1>4. WakeupInv
    <2>1. Woken = {} /\ Sleeping = {}
      BY DEF Init, Woken, Sleeping
    <2> QED BY <2>1, FS_EmptySet DEF Init, WakeupInv
  <1>5. LoggedInOrder
    <2>1. Contents = << >>
      BY <1>1, ContentsIs DEF ContentsOf
    <2> QED BY <2>1 DEF Init, LoggedInOrder
  <1> QED BY <1>2, <1>3, <1>4, <1>5 DEF IInv

\* An entry goes in behind what the log, the log thread and the buffer hold.
LEMMA PutInOrder ==
  ASSUME IInv, NEW p \in Producers, NEW entry \in Entries, ~Full, Put(p, entry)
  PROVE  WindowInv' /\ LoggedInOrder' /\ accepted' \in Seq(Entries)
  <1> DEFINE C == ContentsOf(entries, read_position, write_position)
             D == ContentsOf(entries', read_position', write_position')
             M == IF msg = NoEntry THEN << >> ELSE <<msg>>
  <1>1. /\ read_position' = read_position /\ file' = file /\ msg' = msg
        /\ accepted' = Append(accepted, entry)
    BY DEF Put
  <1>13. /\ write_position' \in Nat /\ write_position' > write_position
        /\ write_position' <= write_position + 1
        /\ write_position \in Nat /\ read_position \in 0..write_position
        /\ write_position - read_position < BufferSize
    BY SizePositive DEF Put, IInv, TypeOK, Full, Count
  <1>2. Stored(entries, entries', write_position, entry)
    BY DEF Stored, Put, IInv, TypeOK
  <1>3. Window(entries, read_position, write_position)
    BY DEF IInv, WindowInv
  <1>4. /\ Window(entries', read_position, write_position')
        /\ Appends(ContentsOf(entries, read_position, write_position), entry,
                   ContentsOf(entries', read_position, write_position'))
    BY <1>13, <1>2, <1>3, PutContents
  <1>5. D = Append(C, entry)
    BY <1>1, <1>4 DEF Appends
  <1>6. C \in Seq(Entries)
    BY <1>13, <1>3, ContentsType
  <1>7. M \in Seq(Entries) /\ file \in Seq(Entries) /\ accepted \in Seq(Entries)
    BY DEF IInv, TypeOK
  <1>8. accepted = (file \o M) \o C
    BY ContentsIs DEF IInv, LoggedInOrder
  <1> HIDE DEF C, D, M
  <1>9. Append((file \o M) \o C, entry) = (file \o M) \o Append(C, entry)
    <2> DEFINE P == file \o M
    <2>1. P \in Seq(Entries)
      BY <1>7
    <2> HIDE DEF P
    <2>2. Append(P \o C, entry) = P \o Append(C, entry)
      BY <1>6, <2>1
    <2> QED BY <2>2 DEF P
  <1>10. accepted' = (file \o M) \o D
    BY <1>1, <1>5, <1>8, <1>9
  <1>11. LoggedInOrder'
    BY <1>1, <1>10, ContentsIs DEF LoggedInOrder, D, M
  <1>12. accepted' \in Seq(Entries)
    BY <1>1, <1>7
  <1> QED BY <1>1, <1>4, <1>11, <1>12 DEF WindowInv

\* Putting fills a slot and uses up a wake-up at most.
LEMMA PutWakeup ==
  ASSUME IInv, NEW p \in Producers, NEW entry, ~Full, Put(p, entry),
         producer[p] \in {"ready", "woken"}
  PROVE  WakeupInv'
  <1>1. /\ write_position' = write_position + 1 /\ read_position' = read_position
        /\ producer' = [producer EXCEPT ![p] = "ready"] /\ consumer' # "waiting"
        /\ producer \in [Producers -> {"ready", "waiting", "woken"}]
        /\ write_position \in Nat /\ read_position \in Nat
    BY DEF Put, IInv, TypeOK
  <1>2. Woken' = Woken \ {p} /\ Sleeping' = Sleeping
    BY <1>1 DEF Woken, Sleeping
  <1>3. /\ IsFiniteSet(Woken) /\ Cardinality(Woken) \in Nat
        /\ Sleeping # {} => Count + Cardinality(Woken) >= BufferSize
    BY FS_CardinalityType DEF IInv, WakeupInv
  <1>4. /\ IsFiniteSet(Woken \ {p})
        /\ Cardinality(Woken \ {p}) =
             IF p \in Woken THEN Cardinality(Woken) - 1 ELSE Cardinality(Woken)
    BY <1>3, FS_RemoveElement, Zenon
  <1>5. Count' = Count + 1 /\ Count \in Int
    BY <1>1 DEF Count
  <1> QED BY <1>1, <1>2, <1>3, <1>4, <1>5, SizePositive DEF WakeupInv

\* An entry put in the ring keeps the invariant.
LEMMA PutIInv ==
  ASSUME IInv, NEW p \in Producers, NEW entry \in Entries, ~Full, Put(p, entry),
         producer[p] \in {"ready", "woken"},
         logged' \in [Producers -> 0..MaxLogs],
         \A q \in Producers : logged'[q] >= logged[q]
  PROVE  IInv'
  <1>1. WindowInv' /\ LoggedInOrder' /\ accepted' \in Seq(Entries)
    BY PutInOrder
  <1>2. WakeupInv'
    BY PutWakeup
  <1>3. TypeOK'
    <2>1. write_position % BufferSize \in 0..(BufferSize - 1)
      BY SlotType DEF IInv, TypeOK
    <2>2. entries' \in [0..(BufferSize - 1) -> Entries \cup {NoEntry}]
      BY <2>1 DEF IInv, TypeOK, Put
    <2>3. write_position' \in Nat /\ read_position' \in 0..write_position'
          /\ Count' <= BufferSize
      BY SizePositive DEF IInv, TypeOK, Put, Full, Count
    <2>4. due' \subseteq Entries
      BY DEF IInv, TypeOK, Put
    <2> QED BY <1>1, <2>2, <2>3, <2>4 DEF IInv, TypeOK, Put
  <1>4. ThreadInv'
    <2>1. msg' # NoEntry <=> consumer' \in {"write", "drainWrite"}
      BY DEF IInv, ThreadInv, Put
    <2>2. ASSUME NEW q \in Producers, producer'[q] # "ready" PROVE logged'[q] >= 1
      <3>1. producer[q] # "ready"
        BY <2>2 DEF IInv, TypeOK, Put
      <3>2. logged[q] \in Int /\ logged'[q] \in Int
        BY DEF IInv, TypeOK
      <3> QED BY <3>1, <3>2 DEF IInv, ThreadInv
    <2> QED BY <2>1, <2>2 DEF ThreadInv
  <1>5. DueInv'
    <2>1. accepted \in Seq(Entries) /\ accepted' = Append(accepted, entry)
      BY DEF IInv, TypeOK, Put
    <2>2. ToSet(accepted) \subseteq ToSet(accepted') /\ entry \in ToSet(accepted')
      BY <2>1 DEF ToSet
    <2>3. due' \subseteq ToSet(accepted')
      BY <2>2 DEF Put, IInv, DueInv
    <2>4. consumer' \in {"drain", "drainWrite", "ended"} =>
             consumer' = consumer /\ ~running
      BY DEF Put, IInv, DueInv
    <2> QED BY <2>3, <2>4 DEF Put, IInv, DueInv
  <1> QED BY <1>1, <1>2, <1>3, <1>4, <1>5 DEF IInv

\* Whatever a producer does keeps the invariant.
LEMMA ProducerIInv ==
  ASSUME IInv, NEW p \in Producers,
         Push(p) \/ PushDropped(p) \/ PushWait(p) \/ PushResume(p)
  PROVE  IInv'
  <1>1. ASSUME Calling(p)
        PROVE  /\ <<p, logged[p] + 1>> \in Entries
               /\ logged' \in [Producers -> 0..MaxLogs]
               /\ \A q \in Producers : logged'[q] >= logged[q]
               /\ producer[p] = "ready"
    <2>1. logged[p] \in 0..MaxLogs /\ logged[p] < MaxLogs /\ MaxLogs \in Nat
      BY <1>1, LogAssumption DEF Calling, IInv, TypeOK
    <2>2. \A q \in Producers : logged[q] \in 0..MaxLogs
      BY DEF IInv, TypeOK
    <2>3. logged' = [logged EXCEPT ![p] = @ + 1] /\ logged \in [Producers -> 0..MaxLogs]
      BY <1>1 DEF Calling, IInv, TypeOK
    <2> QED BY <1>1, <2>1, <2>2, <2>3 DEF Calling, Entries
  <1>2. CASE Push(p)
    BY <1>1, <1>2, PutIInv DEF Push
  <1>3. ASSUME PushDropped(p) \/ PushWait(p) PROVE IInv'
    <2>1. /\ Full /\ Calling(p) /\ UNCHANGED <<busVars, consumer, msg, file,
                                          running, closer, accepted, due>>
          /\ producer' \in {producer, [producer EXCEPT ![p] = "waiting"]}
      BY <1>3 DEF PushDropped, PushWait
    <2>2. TypeOK'
      BY <1>1, <2>1 DEF IInv, TypeOK, busVars, Count
    <2>3. WindowInv' /\ LoggedInOrder' /\ DueInv'
      BY <2>1, ContentsIs DEF IInv, WindowInv, LoggedInOrder, DueInv, busVars
    <2>4. ThreadInv'
      <3>1. ASSUME NEW q \in Producers, producer'[q] # "ready" PROVE logged'[q] >= 1
        <4>1. logged[q] \in Nat /\ logged'[q] \in Nat /\ logged'[q] >= logged[q]
          BY <1>1, <2>1 DEF IInv, TypeOK
        <4>2. CASE q = p
          BY <2>1, <4>1, <4>2 DEF Calling, IInv, TypeOK
        <4>3. CASE q # p
          BY <2>1, <3>1, <4>1, <4>3 DEF IInv, TypeOK, ThreadInv
        <4> QED BY <4>2, <4>3
      <3> QED BY <2>1, <3>1 DEF IInv, ThreadInv
    <2>5. WakeupInv'
      <3>1. Woken' = Woken
        BY <1>1, <2>1 DEF Woken, IInv, TypeOK
      <3>2. Count' = Count /\ Count \in Int /\ Count >= BufferSize /\ Empty' = Empty
        BY <2>1 DEF Count, Full, Empty, busVars, IInv, TypeOK
      <3>3. IsFiniteSet(Woken) /\ Cardinality(Woken) \in Nat
        BY FS_CardinalityType DEF IInv, WakeupInv
      <3> QED BY <2>1, <3>1, <3>2, <3>3, SizePositive DEF IInv, WakeupInv
    <2> QED BY <2>2, <2>3, <2>4, <2>5 DEF IInv
  <1>4. CASE PushResume(p)
    <2>1. producer[p] = "woken" /\ logged' = logged
      BY <1>4 DEF PushResume
    <2>2. logged[p] \in 0..MaxLogs /\ logged[p] >= 1 /\ MaxLogs \in Nat
      BY <2>1, LogAssumption DEF IInv, TypeOK, ThreadInv
    <2>3. <<p, logged[p]>> \in Entries
      BY <2>2 DEF Entries
    <2>4. CASE ~Full
      <3>1. Put(p, <<p, logged[p]>>)
        BY <1>4, <2>4 DEF PushResume
      <3>2. logged' \in [Producers -> 0..MaxLogs] /\ \A q \in Producers : logged'[q] >= logged[q]
        BY <2>1 DEF IInv, TypeOK
      <3> QED BY <2>1, <2>3, <2>4, <3>1, <3>2, PutIInv
    <2>5. CASE Full
      <3>1. /\ producer' = [producer EXCEPT ![p] = "waiting"]
            /\ UNCHANGED <<busVars, consumer, msg, file, running, closer,
                           accepted, due, logged>>
        BY <1>4, <2>5 DEF PushResume
      <3>2. TypeOK' /\ ThreadInv'
        BY <2>1, <3>1 DEF IInv, TypeOK, busVars, Count, ThreadInv
      <3>3. WindowInv' /\ LoggedInOrder' /\ DueInv'
        BY <3>1, ContentsIs DEF IInv, WindowInv, LoggedInOrder, DueInv, busVars
      <3>4. WakeupInv'
        <4>1. Woken' = Woken \ {p}
          BY <3>1 DEF Woken, IInv, TypeOK
        <4>2. Count' = Count /\ Count \in Int /\ Count >= BufferSize /\ Empty' = Empty
          BY <2>5, <3>1 DEF Count, Full, Empty, busVars, IInv, TypeOK
        <4>3. IsFiniteSet(Woken')
          BY <4>1, FS_RemoveElement DEF IInv, WakeupInv
        <4>4. Cardinality(Woken') \in Nat
          BY <4>3, FS_CardinalityType
        <4> QED BY <3>1, <4>2, <4>3, <4>4, SizePositive DEF IInv, WakeupInv
      <3> QED BY <3>2, <3>3, <3>4 DEF IInv
    <2> QED BY <2>4, <2>5
  <1> QED BY <1>2, <1>3, <1>4

-----------------------------------------------------------------------------
(* The steps of the log thread *)

\* The entry taken comes right after those in the file.
LEMMA TakeInOrder ==
  ASSUME IInv, NEW from \in {"pop", "woken", "drain"}, NEW to, Take(from, to)
  PROVE  /\ WindowInv' /\ LoggedInOrder' /\ msg' \in Entries
         /\ read_position' \in 0..write_position'
  <1> DEFINE C == ContentsOf(entries, read_position, write_position)
             D == ContentsOf(entries, read_position + 1, write_position)
             x == entries[read_position % BufferSize]
  <1>1. /\ msg' = x /\ UNCHANGED <<entries, write_position, file, accepted>>
        /\ msg = NoEntry /\ read_position' = read_position + 1
    BY DEF Take, Goes, IInv, ThreadInv
  <1>2. /\ write_position \in Nat /\ read_position \in 0..write_position
        /\ read_position < write_position
        /\ Window(entries, read_position, write_position)
    BY DEF Take, Empty, IInv, TypeOK, WindowInv
  <1>3. /\ x \in Entries /\ D \in Seq(Entries) /\ Removes(C, x, D)
        /\ Window(entries, read_position + 1, write_position)
    BY <1>2, TakeContents
  <1>4. accepted = (file \o << >>) \o C /\ file \in Seq(Entries)
    BY <1>1, ContentsIs DEF IInv, LoggedInOrder, TypeOK
  <1>5. Contents' = D
    BY <1>1, ContentsIs
  <1>6. x # NoEntry
    BY <1>3, EntryIsSomething
  <1>7. C = <<x>> \o D
    BY <1>3 DEF Removes
  <1> HIDE DEF C, D, x
  <1>8. (file \o << >>) \o (<<x>> \o D) = (file \o <<x>>) \o D
    <2>1. <<x>> \in Seq(Entries)
      BY <1>3
    <2> QED BY <1>3, <1>4, <2>1, ConcatAssociative, ConcatEmptySeq
  <1>9. LoggedInOrder'
    BY <1>1, <1>4, <1>5, <1>6, <1>7, <1>8 DEF LoggedInOrder, NoEntry
  <1> QED BY <1>1, <1>2, <1>3, <1>9 DEF WindowInv

\* Taking frees a slot, and wakes a thread if one sleeps.
LEMMA TakeWakeup ==
  ASSUME IInv, NEW from, NEW to \in {"write", "drainWrite"}, Take(from, to)
  PROVE  /\ WakeupInv'
         /\ producer' \in [Producers -> {"ready", "waiting", "woken"}]
         /\ \A p \in Producers : producer'[p] # "ready" => producer[p] # "ready"
  <1>1. /\ read_position' = read_position + 1 /\ write_position' = write_position
        /\ write_position \in Nat /\ read_position \in Nat /\ consumer' # "waiting"
        /\ producer \in [Producers -> {"ready", "waiting", "woken"}]
    BY DEF Take, Goes, IInv, TypeOK
  <1>2. Count' = Count - 1 /\ Count \in Int
    BY <1>1 DEF Count
  <1>3. IsFiniteSet(Woken) /\ Cardinality(Woken) \in Nat
    BY FS_CardinalityType DEF IInv, WakeupInv
  <1>4. CASE Sleeping = {}
    <2>1. producer' = producer
      BY <1>4 DEF Take
    <2>2. Woken' = Woken /\ Sleeping' = {}
      BY <1>4, <2>1 DEF Woken, Sleeping
    <2> QED BY <1>1, <1>3, <2>1, <2>2 DEF WakeupInv
  <1>5. CASE Sleeping # {}
    <2>1. PICK p \in Sleeping : producer' = [producer EXCEPT ![p] = "woken"]
      BY <1>5 DEF Take
    <2>2. p \in Producers /\ producer[p] = "waiting" /\ p \notin Woken
      BY DEF Sleeping, Woken
    <2>3. Woken' = Woken \cup {p}
      BY <1>1, <2>1, <2>2 DEF Woken
    <2>4. IsFiniteSet(Woken') /\ Cardinality(Woken') = Cardinality(Woken) + 1
      BY <1>3, <2>2, <2>3, FS_AddElement
    <2>5. Count + Cardinality(Woken) >= BufferSize
      BY <1>5 DEF IInv, WakeupInv
    <2>6. Count' + Cardinality(Woken') >= BufferSize
      BY <1>2, <1>3, <2>4, <2>5, SizePositive
    <2> QED BY <1>1, <2>1, <2>2, <2>4, <2>6 DEF WakeupInv
  <1> QED BY <1>4, <1>5

\* An entry taken out of the ring keeps the invariant.
LEMMA TakeIInv ==
  ASSUME IInv, NEW from \in {"pop", "woken", "drain"},
         NEW to \in {"write", "drainWrite"}, to = "drainWrite" <=> from = "drain",
         Take(from, to)
  PROVE  IInv'
  <1>1. WindowInv' /\ LoggedInOrder' /\ msg' \in Entries
        /\ read_position' \in 0..write_position'
    BY TakeInOrder
  <1>2. /\ WakeupInv' /\ producer' \in [Producers -> {"ready", "waiting", "woken"}]
        /\ \A p \in Producers : producer'[p] # "ready" => producer[p] # "ready"
    BY TakeWakeup
  <1>3. /\ UNCHANGED <<entries, write_position, logged, file, running, closer,
                      accepted, due>>
        /\ read_position' = read_position + 1 /\ consumer = from /\ consumer' = to
    BY DEF Take, Goes
  <1>4. TypeOK'
    <2>1. Count' <= BufferSize
      BY <1>3, SizePositive DEF IInv, TypeOK, Count
    <2> QED BY <1>1, <1>2, <1>3, <2>1 DEF IInv, TypeOK
  <1>5. ThreadInv'
    <2>1. msg' # NoEntry
      BY <1>1, EntryIsSomething
    <2> QED BY <1>2, <1>3, <2>1 DEF IInv, ThreadInv
  <1>6. DueInv'
    BY <1>3 DEF IInv, DueInv
  <1> QED BY <1>1, <1>2, <1>4, <1>5, <1>6 DEF IInv

\* The steps that leave the buffer and the producers alone, but for the
\* spurious wake-ups.
LEMMA LogThreadIInv ==
  ASSUME IInv, LogThread
  PROVE  IInv'
  <1>1. ASSUME NEW from \in {"start", "check", "pop", "woken", "drain"},
               NEW to \in {"check", "failed", "pop", "drain", "waiting", "ended"},
               Goes(from, to),
               UNCHANGED <<busVars, logged, producer, msg, file, running, closer,
                           accepted, due>>,
               to = "waiting" => Empty,
               to = "drain" => ~running,
               to = "ended" => Empty /\ from = "drain"
        PROVE  IInv'
    <2>1. TypeOK' /\ ThreadInv' /\ WindowInv' /\ LoggedInOrder'
      BY <1>1, ContentsIs
         DEF Goes, IInv, TypeOK, ThreadInv, WindowInv, LoggedInOrder, busVars, Count
    <2>2. WakeupInv'
      BY <1>1 DEF Goes, IInv, WakeupInv, Woken, Sleeping, Count, Empty, busVars
    <2>3. ASSUME to = "ended" PROVE due \subseteq ToSet(file) /\ ~running
      <3>1. msg = NoEntry
        BY <1>1, <2>3 DEF Goes, IInv, ThreadInv
      <3>2. 1..(write_position - read_position) = {}
        BY <1>1, <2>3 DEF Empty, IInv, TypeOK
      <3>3. Contents = << >>
        BY <3>2, ContentsIs DEF ContentsOf
      <3>4. accepted = file
        BY <3>1, <3>3, ConcatEmptySeq DEF IInv, LoggedInOrder, TypeOK
      <3> QED BY <1>1, <2>3, <3>4 DEF Goes, IInv, DueInv
    <2>4. DueInv'
      BY <1>1, <2>3 DEF Goes, IInv, DueInv
    <2> QED BY <2>1, <2>2, <2>4 DEF IInv
  <1>2. CASE OpenFile
    BY <1>1, <1>2 DEF OpenFile
  <1>3. CASE CheckRunning
    BY <1>1, <1>3 DEF CheckRunning
  <1>4. CASE PopBlocking
    BY <1>1, <1>4, TakeIInv DEF PopBlocking, TakeNothing
  <1>5. CASE Drain
    BY <1>1, <1>5, TakeIInv DEF Drain, TakeNothing
  <1>6. CASE WriteEntry
    <2>1. /\ consumer \in {"write", "drainWrite"} /\ msg' = NoEntry
          /\ consumer' = IF consumer = "write" THEN "check" ELSE "drain"
          /\ file' = Append(file, msg)
          /\ UNCHANGED <<busVars, logged, producer, running, closer, accepted, due>>
      BY <1>6 DEF WriteEntry, Goes
    <2>2. msg # NoEntry /\ msg \in Entries /\ file \in Seq(Entries)
      BY <2>1 DEF IInv, ThreadInv, TypeOK
    <2>3. TypeOK' /\ ThreadInv' /\ WindowInv' /\ DueInv'
      <3>1. file' \in Seq(Entries)
        BY <2>1, <2>2
      <3> QED BY <2>1, <3>1
              DEF IInv, TypeOK, ThreadInv, WindowInv, DueInv, busVars, Count
    <2>4. WakeupInv'
      BY <2>1 DEF IInv, WakeupInv, Woken, Sleeping, Count, Empty, busVars
    <2>5. LoggedInOrder'
      <3>1. Append(file, msg) = file \o <<msg>>
        BY <2>2
      <3>2. file' \o << >> = file'
        BY <2>1, <2>2, ConcatEmptySeq
      <3>3. Contents' = Contents
        BY <2>1, ContentsIs DEF busVars
      <3> QED BY <2>1, <2>2, <3>1, <3>2, <3>3 DEF IInv, LoggedInOrder
    <2> QED BY <2>3, <2>4, <2>5 DEF IInv
  <1> QED BY <1>2, <1>3, <1>4, <1>5, <1>6 DEF LogThread

-----------------------------------------------------------------------------
(* The shutdown, the spurious wake-ups, and the invariant *)

\* Shutting the log down keeps the invariant.
LEMMA CloserIInv ==
  ASSUME IInv, Closer
  PROVE  IInv'
  <1> USE DEF IInv, Goes
  <1>1. /\ UNCHANGED <<busVars, logged, producer, msg, file, accepted, due>>
        /\ consumer' = consumer \/ (consumer = "waiting" /\ consumer' = "woken")
        /\ running' = running \/ running' = FALSE
        /\ closer' \in {"stopping", "joining", "joined"}
    BY DEF Closer, StopRunning, StopWaiting, JoinLogThread, TypeOK
  <1>2. TypeOK' /\ ThreadInv' /\ WindowInv' /\ LoggedInOrder'
    BY <1>1, ContentsIs DEF TypeOK, ThreadInv, WindowInv, LoggedInOrder, busVars, Count
  <1>3. WakeupInv'
    <2>1. /\ Woken' = Woken /\ Sleeping' = Sleeping /\ Count' = Count
          /\ Empty' = Empty /\ (consumer' = "waiting" => consumer = "waiting")
      BY <1>1 DEF Woken, Sleeping, Count, Empty, busVars
    <2> QED BY <2>1 DEF WakeupInv
  <1>4. DueInv'
    BY <1>1 DEF DueInv
  <1> QED BY <1>2, <1>3, <1>4

\* A wakeup without a signal keeps the invariant.
LEMMA SpuriousIInv ==
  ASSUME IInv, SpuriousWakeup
  PROVE  IInv'
  <1>1. UNCHANGED <<busVars, logged, msg, file, running, closer, accepted, due>>
    BY DEF SpuriousWakeup
  <1>2. CASE Goes("waiting", "woken") /\ UNCHANGED producer
    <2>1. TypeOK' /\ ThreadInv' /\ WindowInv' /\ LoggedInOrder'
      BY <1>1, <1>2, ContentsIs
         DEF Goes, IInv, TypeOK, ThreadInv, WindowInv, LoggedInOrder, busVars, Count
    <2>2. WakeupInv' /\ DueInv'
      BY <1>1, <1>2
         DEF Goes, IInv, WakeupInv, Woken, Sleeping, Count, Empty, DueInv, busVars
    <2> QED BY <2>1, <2>2 DEF IInv
  <1>3. ASSUME NEW p \in Sleeping, producer' = [producer EXCEPT ![p] = "woken"],
               UNCHANGED consumer
        PROVE  IInv'
    <2>1. /\ p \in Producers /\ producer[p] = "waiting" /\ p \notin Woken
          /\ producer \in [Producers -> {"ready", "waiting", "woken"}]
      BY DEF Sleeping, Woken, IInv, TypeOK
    <2>2. TypeOK' /\ ThreadInv' /\ WindowInv' /\ LoggedInOrder' /\ DueInv'
      BY <1>1, <1>3, <2>1, ContentsIs
         DEF IInv, TypeOK, ThreadInv, WindowInv, LoggedInOrder, DueInv, busVars, Count
    <2>3. IsFiniteSet(Woken) /\ Cardinality(Woken) \in Nat
      BY FS_CardinalityType DEF IInv, WakeupInv
    <2>4. Woken' = Woken \cup {p}
      BY <1>3, <2>1 DEF Woken
    <2>5. IsFiniteSet(Woken') /\ Cardinality(Woken') = Cardinality(Woken) + 1
      BY <2>1, <2>3, <2>4, FS_AddElement
    <2>6. Count + Cardinality(Woken) >= BufferSize
      BY DEF IInv, WakeupInv
    <2>7. Count' = Count /\ Count \in Int
      BY <1>1 DEF busVars, Count, IInv, TypeOK
    <2>8. WakeupInv'
      BY <1>1, <1>3, <2>3, <2>5, <2>6, <2>7, SizePositive
         DEF IInv, WakeupInv, Empty, busVars
    <2> QED BY <2>2, <2>8 DEF IInv
  <1> QED BY <1>2, <1>3 DEF SpuriousWakeup

\* The inductive invariant holds in every reachable state.
THEOREM Invariance == Spec => []IInv
  <1>1. IInv /\ UNCHANGED vars => IInv'
    BY ContentsIs
       DEF vars, busVars, IInv, TypeOK, ThreadInv, WindowInv, WakeupInv, Woken,
           Sleeping, Count, Empty, LoggedInOrder, DueInv
  <1>2. IInv /\ [Next]_vars => IInv'
    BY <1>1, ProducerIInv, LogThreadIInv, CloserIInv, SpuriousIInv DEF Next
  <1> QED
    BY InitIInv, <1>2, PTL DEF Spec

-----------------------------------------------------------------------------
(* The properties *)

\* Every variable of the log keeps its type, and the buffer its bound.
THEOREM TypeCorrect == Spec => []TypeOK
  BY Invariance, PTL DEF IInv

\* The file, the entry being written and the buffer are, in order, the entries
\* accepted: none lost, repeated or overtaken, whoever logs and however often
\* the ring wraps.
THEOREM LogKeepsOrder == Spec => []LoggedInOrder
  BY Invariance, PTL DEF IInv

\* Neither pthread_cond_signal is ever lost: the log thread sleeps only beside
\* an empty buffer, and a thread sleeps beside a free slot only if another one
\* has been woken for it.
THEOREM WakeupsArrive == Spec => []NoLostWakeup
  <1>1. IInv => NoLostWakeup
    <2> SUFFICES ASSUME IInv, Sleeping # {}, ~Full
                 PROVE  \E p \in Producers : producer[p] = "woken"
      BY DEF IInv, WakeupInv, NoLostWakeup
    <2>1. Count + Cardinality(Woken) >= BufferSize /\ Count < BufferSize
          /\ Count \in Int /\ IsFiniteSet(Woken)
      BY SizePositive DEF IInv, TypeOK, WakeupInv, Full, Count
    <2>2. Woken # {}
      BY <2>1, SizePositive, FS_EmptySet
    <2> QED BY <2>2 DEF Woken
  <1> QED BY Invariance, <1>1, PTL

\* The log thread ends with everything in the file that entered the buffer
\* before cleanup_log_thread cleared running.
THEOREM DueIsInFile == Spec => [](consumer = "ended" => due \subseteq ToSet(file))
  <1>1. IInv => (consumer = "ended" => due \subseteq ToSet(file))
    BY DEF IInv, DueInv
  <1> QED BY Invariance, <1>1, PTL
=============================================================================
