------------------------------ MODULE BusProofs ------------------------------
(***************************************************************************)
(* The two layers of session_bus_t.  SpscBuffer, the ring, proved for every *)
(* capacity and every set of values: types, absence of slot races, no torn *)
(* element, and the refinement of the bounded queue.  SessionBus, the queue *)
(* with the counter that announces its messages, proved for every ring     *)
(* capacity, every set of messages and every consumer: the accounting.     *)
(***************************************************************************)
EXTENDS SpscBuffer, SessionBus, TLAPS

-----------------------------------------------------------------------------
(* The inductive invariant *)

\* Slot i lies between tail and head: pushed and not yet freed.
InUse(i) == IF tail <= head THEN tail <= i /\ i < head
                            ELSE tail <= i \/ i < head

\* The producer works on the slot at head, which the full test left free.
ProducerInv ==
  /\ ppc # "idle" => phead = head /\ pdata \in Values
  /\ ppc \in {"copy", "copying", "storeHead"} => NextSlot(head) # tail
  /\ ppc = "storeHead" => buffer[head] = pdata

\* The consumer works on the slot at tail, which the empty test found used,
\* and what it copied is what the slot holds.
ConsumerInv ==
  /\ cpc # "idle" => ctail = tail
  /\ cpc \in {"copy", "copying", "storeTail"} => tail # head
  /\ cpc \in {"copying", "storeTail"} => cdata = buffer[tail]

\* Published slots hold whole elements.
SlotInv == \A i \in Slots : InUse(i) => buffer[i] \in Values

IInv == TypeOK /\ ProducerInv /\ ConsumerInv /\ SlotInv /\ NoTornDelivery

-----------------------------------------------------------------------------
(* Arithmetic of the slot numbers *)

\* The slot after a slot.
LEMMA NextSlotValue ==
  ASSUME NEW i \in Slots
  PROVE  NextSlot(i) = IF i = Capacity - 1 THEN 0 ELSE i + 1
  BY CapacityAssumption, SMTT(20) DEF NextSlot, Slots

\* It is a slot of the ring.
LEMMA NextSlotType ==
  ASSUME NEW i \in Slots
  PROVE  NextSlot(i) \in Slots
  BY NextSlotValue, CapacityAssumption DEF Slots

-----------------------------------------------------------------------------
(* IInv is inductive *)

\* The ring as it is created.
LEMMA InitIInv == Init => IInv
  <1> SUFFICES ASSUME Init PROVE IInv
    OBVIOUS
  <1>1. TypeOK
    BY CapacityAssumption DEF Init, TypeOK, Slots
  <1>2. ProducerInv /\ ConsumerInv /\ NoTornDelivery
    BY DEF Init, ProducerInv, ConsumerInv, NoTornDelivery
  <1>3. SlotInv
    BY CapacityAssumption DEF Init, SlotInv, InUse, Slots
  <1> QED
    BY <1>1, <1>2, <1>3 DEF IInv

\* Each of the producer's steps keeps IInv.
LEMMA PushIInv ==
  ASSUME IInv, Push
  PROVE  IInv'
  <1> USE DEF IInv, TypeOK
  <1>h. head \in Slots /\ NextSlot(head) \in Slots
    BY NextSlotType
  <1>1. ASSUME NEW v \in Values, PushLoadHead(v) PROVE IInv'
    BY <1>1 DEF PushLoadHead, consumerVars, ProducerInv, ConsumerInv, SlotInv,
       InUse, NoTornDelivery
  <1>2. CASE PushFull
    BY <1>2 DEF PushFull, consumerVars, ProducerInv, ConsumerInv, SlotInv,
       InUse, NoTornDelivery
  <1>3. CASE PushLoadTail
    BY <1>3 DEF PushLoadTail, consumerVars, ProducerInv, ConsumerInv, SlotInv,
       InUse, NoTornDelivery
  <1>4. CASE PushCopyBegin
    <2> USE <1>4 DEF PushCopyBegin, consumerVars
    <2>1. phead = head /\ ~InUse(head)
      BY DEF ProducerInv, InUse, Slots
    <2>2. TypeOK' /\ ProducerInv' /\ NoTornDelivery'
      BY DEF ProducerInv, NoTornDelivery
    <2>3. ConsumerInv'
      BY <2>1 DEF ConsumerInv
    <2>4. SlotInv'
      BY <2>1 DEF SlotInv, InUse
    <2> QED BY <2>2, <2>3, <2>4
  <1>5. CASE PushCopyEnd
    <2> USE <1>5 DEF PushCopyEnd, consumerVars
    <2>1. phead = head /\ ~InUse(head)
      BY DEF ProducerInv, InUse, Slots
    <2>2. TypeOK' /\ ProducerInv' /\ NoTornDelivery'
      BY DEF ProducerInv, NoTornDelivery
    <2>3. ConsumerInv'
      BY <2>1 DEF ConsumerInv
    <2>4. SlotInv'
      BY <2>1 DEF SlotInv, InUse
    <2> QED BY <2>2, <2>3, <2>4
  <1>6. CASE PushStoreHead
    <2> USE <1>6 DEF PushStoreHead, consumerVars
    <2>1. phead = head /\ buffer[head] \in Values /\ NextSlot(head) # tail
      BY DEF ProducerInv
    <2>2. TypeOK' /\ ProducerInv' /\ ConsumerInv' /\ NoTornDelivery'
      BY <2>1, <1>h DEF ProducerInv, ConsumerInv, NoTornDelivery
    <2>3. ASSUME NEW i \in Slots, InUse(i)' PROVE InUse(i) \/ i = head
      BY <2>1, <2>3, NextSlotValue DEF InUse, Slots
    <2>4. SlotInv'
      BY <2>1, <2>3 DEF SlotInv
    <2> QED BY <2>2, <2>4
  <1> QED
    BY <1>1, <1>2, <1>3, <1>4, <1>5, <1>6 DEF Push

\* Each of the consumer's steps keeps IInv.
LEMMA PopIInv ==
  ASSUME IInv, Pop
  PROVE  IInv'
  <1> USE DEF IInv, TypeOK
  <1>t. tail \in Slots /\ NextSlot(tail) \in Slots
    BY NextSlotType
  <1>u. tail # head => InUse(tail) /\ buffer[tail] \in Values
    BY DEF InUse, SlotInv, Slots
  <1>1. CASE PopLoadTail
    BY <1>1 DEF PopLoadTail, producerVars, ProducerInv, ConsumerInv, SlotInv,
       InUse, NoTornDelivery
  <1>2. CASE PopEmpty
    BY <1>2 DEF PopEmpty, producerVars, ProducerInv, ConsumerInv, SlotInv,
       InUse, NoTornDelivery
  <1>3. CASE PopLoadHead
    BY <1>3 DEF PopLoadHead, producerVars, ProducerInv, ConsumerInv, SlotInv,
       InUse, NoTornDelivery
  <1>4. CASE PopCopyBegin
    BY <1>4, <1>u DEF PopCopyBegin, producerVars, ProducerInv, ConsumerInv,
       SlotInv, InUse, NoTornDelivery
  <1>5. CASE PopCopyEnd
    BY <1>5 DEF PopCopyEnd, producerVars, ProducerInv, ConsumerInv, SlotInv,
       InUse, NoTornDelivery
  <1>6. CASE PopStoreTail
    <2> USE <1>6 DEF PopStoreTail, producerVars
    <2>1. ctail = tail /\ tail # head /\ cdata \in Values
      BY <1>u DEF ConsumerInv
    <2>2. NextSlot(tail) \in Slots /\ NextSlot(head) # NextSlot(tail)
      BY <2>1, <1>t, NextSlotValue DEF Slots
    <2>3. TypeOK' /\ ProducerInv' /\ ConsumerInv' /\ NoTornDelivery'
      BY <2>1, <2>2 DEF ProducerInv, ConsumerInv, NoTornDelivery
    <2>4. ASSUME NEW i \in Slots, InUse(i)' PROVE InUse(i)
      BY <2>1, <2>4, NextSlotValue DEF InUse, Slots
    <2>5. SlotInv'
      BY <2>4 DEF SlotInv
    <2> QED BY <2>3, <2>5
  <1> QED
    BY <1>1, <1>2, <1>3, <1>4, <1>5, <1>6 DEF Pop

\* The inductive invariant holds in every reachable state.
THEOREM Invariance == Spec => []IInv
  <1>1. IInv /\ UNCHANGED vars => IInv'
    BY DEF IInv, TypeOK, ProducerInv, ConsumerInv, SlotInv, InUse,
       NoTornDelivery, vars, producerVars, consumerVars
  <1>2. IInv /\ [Next]_vars => IInv'
    BY <1>1, PushIInv, PopIInv DEF Next
  <1> QED
    BY InitIInv, <1>2, PTL DEF Spec

-----------------------------------------------------------------------------
(* The safety properties *)

\* Every variable keeps its type, for every capacity.
THEOREM TypeCorrect == Spec => []TypeOK
  BY Invariance, PTL DEF IInv

\* buffer_push and buffer_pop never copy into and out of the same slot at
\* the same time.
THEOREM RaceFree == Spec => []NoSlotRace
  <1>1. IInv => NoSlotRace
    BY DEF IInv, ProducerInv, ConsumerInv, NoSlotRace
  <1> QED
    BY Invariance, <1>1, PTL

\* buffer_pop returns whole elements that were pushed.
THEOREM WholeElements == Spec => []NoTornDelivery
  BY Invariance, PTL DEF IInv

-----------------------------------------------------------------------------
(* The refinement of the bounded queue *)

\* The queue as a function of the slots b and the indices h and t, so that
\* the lemmas apply before and after a step.
SizeOf(h, t) == ((Capacity + h) - t) % Capacity
ContentsOf(b, h, t) == [i \in 1..SizeOf(h, t) |-> b[(t + (i - 1)) % Capacity]]
Used(h, t, i) == IF t <= h THEN t <= i /\ i < h ELSE t <= i \/ i < h

\* The number of slots between two positions.
LEMMA SizeOfValue ==
  ASSUME NEW h \in Slots, NEW t \in Slots
  PROVE  /\ SizeOf(h, t) = IF t <= h THEN h - t ELSE (Capacity + h) - t
         /\ SizeOf(h, t) \in 0..(Capacity - 1)
  BY CapacityAssumption, SMTT(20) DEF SizeOf, Slots

\* The slot of the i-th element read from slot t on.
LEMMA ReadSlotValue ==
  ASSUME NEW t \in Slots, NEW i \in 1..Capacity
  PROVE  (t + (i - 1)) % Capacity =
            IF t + (i - 1) < Capacity THEN t + (i - 1)
                                      ELSE (t + (i - 1)) - Capacity
  BY CapacityAssumption, SMTT(20) DEF Slots

\* The slot to be read is in use.
LEMMA ReadSlotUsed ==
  ASSUME NEW h \in Slots, NEW t \in Slots, NEW i \in 1..SizeOf(h, t)
  PROVE  /\ (t + (i - 1)) % Capacity \in Slots
         /\ Used(h, t, (t + (i - 1)) % Capacity)
  <1>1. i \in 1..Capacity
    BY SizeOfValue, CapacityAssumption DEF Slots
  <1>2. (t + (i - 1)) % Capacity =
           IF t + (i - 1) < Capacity THEN t + (i - 1)
                                     ELSE (t + (i - 1)) - Capacity
    BY <1>1, ReadSlotValue
  <1>3. i <= IF t <= h THEN h - t ELSE (Capacity + h) - t
    BY SizeOfValue
  <1> QED
    BY <1>1, <1>2, <1>3, CapacityAssumption DEF Slots, Used

\* The contents are a sequence of values.
LEMMA ContentsOfType ==
  ASSUME NEW h \in Slots, NEW t \in Slots, NEW b,
         \A i \in Slots : Used(h, t, i) => b[i] \in Values
  PROVE  /\ ContentsOf(b, h, t) \in Seq(Values)
         /\ Len(ContentsOf(b, h, t)) = SizeOf(h, t)
         /\ \A i \in 1..SizeOf(h, t) :
              ContentsOf(b, h, t)[i] = b[(t + (i - 1)) % Capacity]
  <1>1. SizeOf(h, t) \in Nat
    BY SizeOfValue
  <1>2. \A i \in 1..SizeOf(h, t) : b[(t + (i - 1)) % Capacity] \in Values
    BY ReadSlotUsed
  <1> QED
    BY <1>1, <1>2 DEF ContentsOf

\* Advancing head past a full slot appends that slot's element.
LEMMA AdvanceHead ==
  ASSUME NEW h \in Slots, NEW t \in Slots, NEW b, NextSlot(h) # t,
         \A i \in Slots : Used(h, t, i) => b[i] \in Values,
         b[h] \in Values
  PROVE  /\ SizeOf(h, t) < Capacity - 1
         /\ ContentsOf(b, NextSlot(h), t) = Append(ContentsOf(b, h, t), b[h])
  <1> DEFINE n == NextSlot(h)
             C == ContentsOf(b, h, t)
             D == ContentsOf(b, n, t)
             m == SizeOf(h, t)
  <1>1. n \in Slots /\ n = IF h = Capacity - 1 THEN 0 ELSE h + 1
    BY NextSlotType, NextSlotValue
  <1>2. SizeOf(n, t) = m + 1 /\ m < Capacity - 1 /\ m \in Nat
    <2> HIDE DEF n, m
    <2>1. m = IF t <= h THEN h - t ELSE (Capacity + h) - t
      BY SizeOfValue DEF m
    <2>2. SizeOf(n, t) = IF t <= n THEN n - t ELSE (Capacity + n) - t
      BY <1>1, SizeOfValue
    <2>3. n # t
      BY DEF n
    <2> QED BY <2>1, <2>2, <2>3, <1>1, CapacityAssumption DEF Slots
  <1>3. (t + ((m + 1) - 1)) % Capacity = h
    <2>1. m + 1 \in 1..Capacity
      BY <1>2, CapacityAssumption
    <2>2. (t + ((m + 1) - 1)) % Capacity =
             IF t + ((m + 1) - 1) < Capacity THEN t + ((m + 1) - 1)
                                       ELSE (t + ((m + 1) - 1)) - Capacity
      BY <2>1, ReadSlotValue
    <2>3. m = IF t <= h THEN h - t ELSE (Capacity + h) - t
      BY SizeOfValue
    <2> HIDE DEF m
    <2> QED BY <2>2, <2>3, CapacityAssumption DEF Slots
  <1>4. ASSUME NEW i \in Slots, Used(n, t, i) PROVE b[i] \in Values
    <2>1. Used(h, t, i) \/ i = h
      BY <1>1, <1>4, CapacityAssumption DEF Used, Slots
    <2> QED BY <2>1
  <1>5. /\ C \in Seq(Values) /\ Len(C) = m
        /\ \A i \in 1..m : C[i] = b[(t + (i - 1)) % Capacity]
    BY ContentsOfType
  <1>6. /\ D \in Seq(Values) /\ Len(D) = m + 1
        /\ \A i \in 1..(m + 1) : D[i] = b[(t + (i - 1)) % Capacity]
    BY <1>1, <1>2, <1>4, ContentsOfType
  <1>7. D[m + 1] = b[h]
    BY <1>2, <1>3, <1>6
  <1>8. \A i \in 1..m : D[i] = C[i]
    BY <1>2, <1>5, <1>6
  <1>9. D = Append(C, b[h])
    <2> HIDE DEF C, D, m
    <2> QED BY <1>2, <1>5, <1>6, <1>7, <1>8
  <1> QED BY <1>2, <1>9

\* Advancing tail removes the oldest element.
LEMMA AdvanceTail ==
  ASSUME NEW h \in Slots, NEW t \in Slots, NEW b, t # h,
         \A i \in Slots : Used(h, t, i) => b[i] \in Values
  PROVE  /\ ContentsOf(b, h, t) # << >>
         /\ Head(ContentsOf(b, h, t)) = b[t]
         /\ ContentsOf(b, h, NextSlot(t)) = Tail(ContentsOf(b, h, t))
  <1> DEFINE n == NextSlot(t)
             C == ContentsOf(b, h, t)
             D == ContentsOf(b, h, n)
             m == SizeOf(h, t)
  <1>1. n \in Slots /\ n = IF t = Capacity - 1 THEN 0 ELSE t + 1
    BY NextSlotType, NextSlotValue
  <1>2. SizeOf(h, n) = m - 1 /\ m \in 1..(Capacity - 1)
    <2>1. m = IF t <= h THEN h - t ELSE (Capacity + h) - t
      BY SizeOfValue
    <2>2. SizeOf(h, n) = IF n <= h THEN h - n ELSE (Capacity + h) - n
      BY <1>1, SizeOfValue
    <2> HIDE DEF n, m
    <2> QED BY <2>1, <2>2, <1>1, CapacityAssumption DEF Slots
  <1>3. ASSUME NEW i \in 1..(m - 1)
        PROVE  (n + (i - 1)) % Capacity = (t + ((i + 1) - 1)) % Capacity
    <2>1. i \in 1..Capacity /\ i + 1 \in 1..Capacity
      BY <1>2, CapacityAssumption
    <2>2. (n + (i - 1)) % Capacity =
             IF n + (i - 1) < Capacity THEN n + (i - 1)
                                       ELSE (n + (i - 1)) - Capacity
      BY <2>1, <1>1, ReadSlotValue
    <2>3. (t + ((i + 1) - 1)) % Capacity =
             IF t + ((i + 1) - 1) < Capacity THEN t + ((i + 1) - 1)
                                       ELSE (t + ((i + 1) - 1)) - Capacity
      BY <2>1, ReadSlotValue
    <2> HIDE DEF n, m
    <2> QED BY <2>1, <2>2, <2>3, <1>1, CapacityAssumption DEF Slots
  <1>4. ASSUME NEW i \in Slots, Used(h, n, i) PROVE b[i] \in Values
    <2>1. Used(h, t, i)
      BY <1>1, <1>4, CapacityAssumption DEF Used, Slots
    <2> QED BY <2>1
  <1>5. /\ C \in Seq(Values) /\ Len(C) = m
        /\ \A i \in 1..m : C[i] = b[(t + (i - 1)) % Capacity]
    BY ContentsOfType
  <1>6. /\ D \in Seq(Values) /\ Len(D) = m - 1
        /\ \A i \in 1..(m - 1) : D[i] = b[(n + (i - 1)) % Capacity]
    BY <1>1, <1>2, <1>4, ContentsOfType
  <1>7. C[1] = b[t]
    <2>1. 1 \in 1..m /\ 1 \in 1..Capacity
      BY <1>2, CapacityAssumption
    <2>2. (t + (1 - 1)) % Capacity = t
      BY <2>1, ReadSlotValue, CapacityAssumption DEF Slots
    <2> QED BY <2>1, <2>2, <1>5
  <1>8. ASSUME NEW i \in 1..(m - 1) PROVE D[i] = C[i + 1]
    <2>1. i + 1 \in 1..m
      BY <1>2
    <2> QED BY <2>1, <1>3, <1>5, <1>6
  <1>9. C # << >> /\ Head(C) = b[t] /\ D = Tail(C)
    <2> HIDE DEF C, D, m
    <2> QED BY <1>2, <1>5, <1>6, <1>7, <1>8
  <1> QED BY <1>9

-----------------------------------------------------------------------------
(* The steps of the ring as steps of the queue *)

\* The contents as a function of the ring and its positions.
LEMMA ContentsIs ==
  /\ Contents = ContentsOf(buffer, head, tail)
  /\ Contents' = ContentsOf(buffer', head', tail')
  /\ \A i : InUse(i) = Used(head, tail, i)
  BY DEF Contents, ContentsOf, Size, SizeOf, InUse, Used

\* A step that moves no index and leaves the unread slots alone keeps the
\* queue.
LEMMA ContentsStable ==
  ASSUME TypeOK, UNCHANGED <<head, tail>>,
         \A i \in Slots : InUse(i) => buffer'[i] = buffer[i]
  PROVE  Contents' = Contents
  <1>1. \A i \in 1..SizeOf(head, tail) :
           buffer'[(tail + (i - 1)) % Capacity]
              = buffer[(tail + (i - 1)) % Capacity]
    BY ReadSlotUsed, ContentsIs DEF TypeOK
  <1> QED
    BY <1>1, ContentsIs DEF ContentsOf

\* A push appends to the queue, or leaves it alone.
LEMMA PushRefines ==
  ASSUME IInv, Push
  PROVE  [Queue!Next]_(Queue!vars)
  <1>1. CASE PushStoreHead
    <2>1. /\ phead = head /\ pdata \in Values /\ buffer[head] = pdata
          /\ NextSlot(head) # tail /\ head \in Slots /\ tail \in Slots
          /\ \A i \in Slots : Used(head, tail, i) => buffer[i] \in Values
      BY <1>1, ContentsIs DEF PushStoreHead, IInv, TypeOK, ProducerInv, SlotInv
    <2>2. /\ head' = NextSlot(head) /\ UNCHANGED <<buffer, tail, delivered>>
      BY <1>1, <2>1 DEF PushStoreHead
    <2>3. /\ Len(Contents) < Capacity - 1
          /\ Contents' = Append(Contents, pdata)
      BY <2>1, <2>2, AdvanceHead, ContentsOfType, ContentsIs
    <2> QED
      BY <2>1, <2>2, <2>3 DEF Queue!Put, Queue!Next
  <1>2. CASE ~PushStoreHead
    <2>1. /\ UNCHANGED <<head, tail, delivered>>
          /\ \A i \in Slots : InUse(i) => buffer'[i] = buffer[i]
      <3>1. CASE PushCopyBegin
        BY <3>1 DEF PushCopyBegin, consumerVars, IInv, TypeOK, ProducerInv,
           InUse, Slots
      <3>2. CASE PushCopyEnd
        BY <3>2 DEF PushCopyEnd, consumerVars, IInv, TypeOK, ProducerInv,
           InUse, Slots
      <3>3. CASE ~PushCopyBegin /\ ~PushCopyEnd
        BY <1>2, <3>3 DEF Push, PushLoadHead, PushFull, PushLoadTail
      <3> QED BY <3>1, <3>2, <3>3
    <2>2. Contents' = Contents
      BY <2>1, ContentsStable DEF IInv
    <2> QED BY <2>1, <2>2 DEF Queue!vars
  <1> QED BY <1>1, <1>2

\* A pop takes the head of the queue, or leaves it alone.
LEMMA PopRefines ==
  ASSUME IInv, Pop
  PROVE  [Queue!Next]_(Queue!vars)
  <1>1. CASE PopStoreTail
    <2>1. /\ ctail = tail /\ tail # head /\ cdata = buffer[tail]
          /\ head \in Slots /\ tail \in Slots
          /\ \A i \in Slots : Used(head, tail, i) => buffer[i] \in Values
      BY <1>1, ContentsIs DEF PopStoreTail, IInv, TypeOK, ConsumerInv, SlotInv
    <2>2. /\ tail' = NextSlot(tail) /\ UNCHANGED <<buffer, head>>
          /\ delivered' = buffer[tail]
      BY <1>1, <2>1 DEF PopStoreTail
    <2>3. /\ Contents # << >> /\ Head(Contents) = buffer[tail]
          /\ Contents' = Tail(Contents)
      BY <2>1, <2>2, AdvanceTail, ContentsIs
    <2> QED
      BY <2>2, <2>3 DEF Queue!Get, Queue!Next
  <1>2. CASE ~PopStoreTail
    <2>1. UNCHANGED <<buffer, head, tail, delivered>>
      BY <1>2 DEF Pop, PopLoadTail, PopEmpty, PopLoadHead, PopCopyBegin,
         PopCopyEnd, producerVars
    <2>2. Contents' = Contents
      BY <2>1, ContentsStable DEF IInv
    <2> QED BY <2>1, <2>2 DEF Queue!vars
  <1> QED BY <1>1, <1>2

\* Whatever the interleaving of the two threads, the ring behaves as a
\* first-in first-out queue of Capacity - 1 elements.
THEOREM Refinement == Spec => ImplementsBoundedQueue
  <1>1. Init => Queue!Init
    <2> SUFFICES ASSUME Init PROVE Queue!Init
      OBVIOUS
    <2>1. IInv
      BY InitIInv
    <2>2. SizeOf(head, tail) = 0
      BY <2>1, SizeOfValue DEF Init, IInv, TypeOK
    <2>3. Contents = << >>
      BY <2>2, ContentsIs DEF ContentsOf
    <2> QED
      BY <2>3 DEF Init, Queue!Init
  <1>2. IInv /\ [Next]_vars => [Queue!Next]_(Queue!vars)
    <2> SUFFICES ASSUME IInv, [Next]_vars
                 PROVE  [Queue!Next]_(Queue!vars)
      OBVIOUS
    <2>1. CASE UNCHANGED vars
      <3>1. Contents' = Contents /\ delivered' = delivered
        BY <2>1, ContentsStable DEF vars, IInv, TypeOK
      <3> QED BY <3>1 DEF Queue!vars
    <2> QED BY <2>1, PushRefines, PopRefines DEF Next
  <1> QED
    BY <1>1, <1>2, Invariance, PTL DEF Spec, ImplementsBoundedQueue, Queue!Spec

-----------------------------------------------------------------------------
(* The event bus: SessionBus *)

\* The accounting is inductive with the types alone: each step moves one unit
\* between its terms.
BusInv == BusTypeOK /\ Accounting

\* The bus as it is created.
LEMMA InitBusInv == BusInit => BusInv
  <1> SUFFICES ASSUME BusInit PROVE BusInv
    OBVIOUS
  <1>1. queue \in Seq(Messages) /\ Len(queue) = 0
    BY DEF BusInit
  <1>2. BusTypeOK
    BY <1>1 DEF BusInit, BusTypeOK
  <1>3. Accounting
    BY <1>1 DEF BusInit, Accounting
  <1> QED BY <1>2, <1>3 DEF BusInv

\* Whatever a producer does keeps the invariant.
LEMMA ProducerBusInv ==
  ASSUME BusInv, Signal \/ \E m \in Messages : PushMessage(m)
  PROVE  BusInv'
  <1> USE DEF BusInv, BusTypeOK, Accounting
  <1>1. ASSUME NEW m \in Messages, PushMessage(m) PROVE BusInv'
    <2>1. queue' \in Seq(Messages) /\ Len(queue') = Len(queue) + 1
      BY <1>1 DEF PushMessage
    <2>2. BusTypeOK'
      BY <1>1, <2>1 DEF PushMessage
    <2>3. pushing = FALSE /\ pushing' = TRUE
      BY <1>1 DEF PushMessage
    <2>4. Accounting'
      BY <1>1, <2>1, <2>3 DEF PushMessage
    <2> QED BY <2>2, <2>4
  <1>2. CASE Signal
    <2>1. BusTypeOK'
      <3>1. event_fd' \in Nat
        BY <1>2 DEF Signal
      <3>2. pushing' \in BOOLEAN
        BY <1>2 DEF Signal
      <3> QED BY <1>2, <3>1, <3>2 DEF Signal
    <2>2. pushing = TRUE /\ pushing' = FALSE
      BY <1>2 DEF Signal
    <2>3. Accounting'
      BY <1>2, <2>2 DEF Signal
    <2> QED BY <2>1, <2>3
  <1> QED BY <1>1, <1>2

\* Whatever the consumer does keeps the invariant.
LEMMA ConsumerBusInv ==
  ASSUME BusInv, Consume
  PROVE  BusInv'
  <1> USE DEF BusInv, BusTypeOK, Accounting
  <1>1. CASE ReadEvent
    BY <1>1 DEF ReadEvent
  <1>2. ASSUME queue # << >>, queue' = Tail(queue)
        PROVE  /\ Head(queue) \in Messages
               /\ queue' \in Seq(Messages) /\ Len(queue') = Len(queue) - 1
    BY <1>2
  <1>3. CASE PopMessage
    BY <1>2, <1>3 DEF PopMessage
  <1>4. CASE PopAndBreak
    BY <1>2, <1>4 DEF PopAndBreak
  <1> QED BY <1>1, <1>3, <1>4 DEF Consume

\* The inductive invariant holds in every reachable state.
THEOREM BusInvariance == BusSpec => []BusInv
  <1>1. BusInv /\ UNCHANGED busVars => BusInv'
    BY DEF BusInv, BusTypeOK, Accounting, busVars
  <1>2. BusInv /\ [BusNext]_busVars => BusInv'
    BY <1>1, ProducerBusInv, ConsumerBusInv DEF BusNext
  <1> QED
    BY InitBusInv, <1>2, PTL DEF BusSpec

\* Every variable of the bus keeps its type.
THEOREM BusTypeCorrect == BusSpec => []BusTypeOK
  BY BusInvariance, PTL DEF BusInv

\* Every message in the ring is announced exactly once, whatever the
\* interleaving of session_bus_push with the consumer's loop.
THEOREM Announced == BusSpec => []Accounting
  BY BusInvariance, PTL DEF BusInv

\* The consumer's loop never meets BUFFER_EEMPTY while it still has messages
\* to pop.
THEOREM NeverPopsEmpty == BusSpec => [](count > 0 => queue # << >>)
  <1>1. BusInv => (count > 0 => queue # << >>)
    BY DEF BusInv, BusTypeOK, Accounting
  <1> QED
    BY BusInvariance, <1>1, PTL
=============================================================================
