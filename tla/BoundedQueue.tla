---------------------------- MODULE BoundedQueue ----------------------------
(***************************************************************************)
(* What ring_buffer_t (include/SupportStructure/spsc_buffer.h) promises to *)
(* the two threads that share it: a first-in first-out queue that holds at *)
(* most Bound messages, where putting and getting are single steps.        *)
(***************************************************************************)
EXTENDS Naturals, Sequences

CONSTANTS Values,   \* what is queued (pointers to session_message_t)
          NoValue,  \* the consumer has received nothing yet
          Bound     \* how many messages fit

VARIABLES queue,      \* the messages put and not yet got, oldest first
          delivered   \* the last message the consumer got

vars == <<queue, delivered>>

Init == /\ queue = << >>
        /\ delivered = NoValue

Put(v) == /\ Len(queue) < Bound
          /\ queue' = Append(queue, v)
          /\ UNCHANGED delivered

Get == /\ queue # << >>
       /\ delivered' = Head(queue)
       /\ queue' = Tail(queue)

Next == (\E v \in Values : Put(v)) \/ Get

Spec == Init /\ [][Next]_vars
=============================================================================
