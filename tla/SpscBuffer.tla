----------------------------- MODULE SpscBuffer -----------------------------
(***************************************************************************)
(* The lock-free single-producer single-consumer ring of                   *)
(* src/SupportStructure/spsc_buffer.c, one action per atomic access of     *)
(* buffer_push and buffer_pop.  The two memcpy calls take two steps each,  *)
(* so that a slot read while it is being written shows up as Torn.         *)
(*                                                                         *)
(* The release stores and acquire loads are modelled as sequentially       *)
(* consistent accesses in program order: each index has one writer, and    *)
(* the slot accesses are ordered by the index accesses around them.        *)
(***************************************************************************)
EXTENDS Naturals, Sequences

CONSTANTS Capacity,  \* rb->capacity
          Values,    \* the elements pushed
          NoValue,   \* a slot or a local that was never written
          Torn       \* an element half copied by memcpy

\* buffer_init refuses a capacity that is not a power of two, and only then
\* is "& rb->mask" the remainder modulo the capacity.
ASSUME CapacityAssumption ==
  /\ Capacity \in Nat \ {0}
  /\ \E k \in 0..Capacity : Capacity = 2^k

ASSUME ValuesAssumption == NoValue \notin Values /\ Torn \notin Values

VARIABLES buffer,           \* rb->buffer, a function of the slot number
          head, tail,       \* the two shared atomics
          ppc, phead, pdata,  \* producer: next access, local head, *data
          cpc, ctail, cdata,  \* consumer: next access, local tail, *data
          delivered         \* the last element buffer_pop returned

producerVars == <<ppc, phead, pdata>>
consumerVars == <<cpc, ctail, cdata>>
vars == <<buffer, head, tail, producerVars, consumerVars, delivered>>

Slots == 0..(Capacity - 1)

\* Faulty variant: the mask is forgotten.
NextSlotUnmasked(i) == i + 1

\* (i + 1) & rb->mask
NextSlot(i) == (i + 1) % Capacity

\* buffer_size: (head - tail) & rb->mask
Size == ((Capacity + head) - tail) % Capacity

Init ==
  /\ buffer = [i \in Slots |-> NoValue]
  /\ head = 0 /\ tail = 0
  /\ ppc = "idle" /\ phead = 0 /\ pdata = NoValue
  /\ cpc = "idle" /\ ctail = 0 /\ cdata = NoValue
  /\ delivered = NoValue

-----------------------------------------------------------------------------
(* buffer_push, run by the producer thread *)

\* The call, and the relaxed load of head.
PushLoadHead(v) ==
  /\ ppc = "idle"
  /\ ppc' = "loadTail" /\ phead' = head /\ pdata' = v
  /\ UNCHANGED <<buffer, head, tail, consumerVars, delivered>>

\* The acquire load of tail sees a full ring: return BUFFER_EFULL.
PushFull ==
  /\ ppc = "loadTail" /\ NextSlot(phead) = tail
  /\ ppc' = "idle"
  /\ UNCHANGED <<buffer, head, tail, phead, pdata, consumerVars, delivered>>

\* Faulty variants: a full ring is written to, and the element is published
\* before it is copied.
PushLoadTailUnguarded ==
  /\ ppc = "loadTail"
  /\ ppc' = "copy"
  /\ UNCHANGED <<buffer, head, tail, phead, pdata, consumerVars, delivered>>

PushCopyBeginPublished ==
  /\ ppc = "copy"
  /\ ppc' = "copying"
  /\ buffer' = [buffer EXCEPT ![phead] = Torn]
  /\ head' = NextSlot(phead)
  /\ UNCHANGED <<tail, phead, pdata, consumerVars, delivered>>

\* The acquire load of tail sees room.
PushLoadTail ==
  /\ ppc = "loadTail" /\ NextSlot(phead) # tail
  /\ ppc' = "copy"
  /\ UNCHANGED <<buffer, head, tail, phead, pdata, consumerVars, delivered>>

PushCopyBegin ==
  /\ ppc = "copy"
  /\ ppc' = "copying"
  /\ buffer' = [buffer EXCEPT ![phead] = Torn]
  /\ UNCHANGED <<head, tail, phead, pdata, consumerVars, delivered>>

PushCopyEnd ==
  /\ ppc = "copying"
  /\ ppc' = "storeHead"
  /\ buffer' = [buffer EXCEPT ![phead] = pdata]
  /\ UNCHANGED <<head, tail, phead, pdata, consumerVars, delivered>>

\* The release store that publishes the element, and the return.
PushStoreHead ==
  /\ ppc = "storeHead"
  /\ ppc' = "idle"
  /\ head' = NextSlot(phead)
  /\ UNCHANGED <<buffer, tail, phead, pdata, consumerVars, delivered>>

-----------------------------------------------------------------------------
(* buffer_pop, run by the consumer thread *)

\* The call, and the relaxed load of tail.
PopLoadTail ==
  /\ cpc = "idle"
  /\ cpc' = "loadHead" /\ ctail' = tail
  /\ UNCHANGED <<buffer, head, tail, producerVars, cdata, delivered>>

\* The acquire load of head sees an empty ring: return BUFFER_EEMPTY.
PopEmpty ==
  /\ cpc = "loadHead" /\ ctail = head
  /\ cpc' = "idle"
  /\ UNCHANGED <<buffer, head, tail, producerVars, ctail, cdata, delivered>>

PopLoadHead ==
  /\ cpc = "loadHead" /\ ctail # head
  /\ cpc' = "copy"
  /\ UNCHANGED <<buffer, head, tail, producerVars, ctail, cdata, delivered>>

PopCopyBegin ==
  /\ cpc = "copy"
  /\ cpc' = "copying"
  /\ cdata' = buffer[ctail]
  /\ UNCHANGED <<buffer, head, tail, producerVars, ctail, delivered>>

\* The copy is whole only if the slot did not change under it.
PopCopyEnd ==
  /\ cpc = "copying"
  /\ cpc' = "storeTail"
  /\ cdata' = IF buffer[ctail] = cdata THEN cdata ELSE Torn
  /\ UNCHANGED <<buffer, head, tail, producerVars, ctail, delivered>>

\* The release store that frees the slot, and the return of the element.
PopStoreTail ==
  /\ cpc = "storeTail"
  /\ cpc' = "idle"
  /\ tail' = NextSlot(ctail)
  /\ delivered' = cdata
  /\ UNCHANGED <<buffer, head, producerVars, ctail, cdata>>

-----------------------------------------------------------------------------
Push == \/ \E v \in Values : PushLoadHead(v)
        \/ PushFull
        \/ PushLoadTail
        \/ PushCopyBegin
        \/ PushCopyEnd
        \/ PushStoreHead

Pop == \/ PopLoadTail
       \/ PopEmpty
       \/ PopLoadHead
       \/ PopCopyBegin
       \/ PopCopyEnd
       \/ PopStoreTail

Next == Push \/ Pop

Spec == Init /\ [][Next]_vars

-----------------------------------------------------------------------------
(* Properties *)

\* Every variable has its type.
TypeOK ==
  /\ buffer \in [Slots -> Values \cup {NoValue, Torn}]
  /\ head \in Slots /\ tail \in Slots
  /\ ppc \in {"idle", "loadTail", "copy", "copying", "storeHead"}
  /\ phead \in Slots /\ pdata \in Values \cup {NoValue}
  /\ cpc \in {"idle", "loadHead", "copy", "copying", "storeTail"}
  /\ ctail \in Slots /\ cdata \in Values \cup {NoValue, Torn}
  /\ delivered \in Values \cup {NoValue, Torn}

\* The two threads never touch the same slot at the same time, although
\* neither takes a lock: while the producer copies into a slot, buffer_pop is
\* not copying out of it.
NoSlotRace ==
  ~ /\ ppc \in {"copy", "copying", "storeHead"}
    /\ cpc \in {"copy", "copying", "storeTail"}
    /\ phead = ctail

\* buffer_pop never hands out a half-written element or one never pushed:
\* the one it holds when it frees the slot is a value that was pushed.
NoTornDelivery == delivered \in Values \cup {NoValue}

\* The slots the consumer may still read, oldest first.
Contents == [i \in 1..Size |-> buffer[(tail + (i - 1)) % Capacity]]

\* The ring implements the bounded queue: an element becomes visible at the
\* release store of head, leaves at the release store of tail, and one slot
\* stays unused.
Queue == INSTANCE BoundedQueue WITH queue <- Contents, Bound <- Capacity - 1

ImplementsBoundedQueue == Queue!Spec
=============================================================================
