----------------------------- MODULE SessionBus -----------------------------
(***************************************************************************)
(* One direction of session_bus_t (src/SupportStructure/session_bus.c):    *)
(* the ring of pointers, reduced to the bounded queue that SpscBuffer      *)
(* implements, and the eventfd that wakes the consumer.  session_bus_push  *)
(* is two steps, the push and the write(event_fd, 1); the consumer reads   *)
(* the counter once and pops that many messages.                           *)
(*                                                                         *)
(* Both consumers are covered.  The session's loop (session.c:90-111)      *)
(* handles every message of the batch.  The server's loop                  *)
(* (server_session.c:124-174) leaves the batch at the first message about  *)
(* a player that is no longer registered: those are the Breaking messages. *)
(***************************************************************************)
EXTENDS Naturals, Sequences

CONSTANTS Messages,   \* the messages sent, each at most once
          Breaking,   \* those that make the consumer leave its batch
          Bound       \* the capacity of the ring less its unused slot

ASSUME BusAssumption == /\ Bound \in Nat
                        /\ Breaking \subseteq Messages

VARIABLES queue,      \* the ring
          event_fd,   \* the eventfd counter
          pushing,    \* the producer has pushed and not yet written event_fd
          count,      \* messages the consumer still has to pop in this batch
          accepted,   \* the messages session_bus_push returned BUFFER_SUCCESS for
          handled,    \* the messages the consumer popped
          abandoned   \* messages left behind, signalled, by a broken batch

busVars == <<queue, event_fd, pushing, count, accepted, handled, abandoned>>

BusInit ==
  /\ queue = << >>
  /\ event_fd = 0
  /\ pushing = FALSE
  /\ count = 0
  /\ accepted = {} /\ handled = {}
  /\ abandoned = 0

-----------------------------------------------------------------------------
(* Faulty variants of the actions below *)

\* session_bus_push without the write.
SilentSignal == /\ pushing
                /\ pushing' = FALSE
                /\ UNCHANGED <<queue, event_fd, count, accepted, handled, abandoned>>

\* A consumer that pops once per wakeup.
PopOneReadEvent ==
  /\ count = 0 /\ event_fd > 0
  /\ count' = 1
  /\ event_fd' = 0
  /\ UNCHANGED <<queue, pushing, accepted, handled, abandoned>>

\* A batch that does not stop after the announced number.
PopUnannounced ==
  /\ queue # << >>
  /\ Head(queue) \notin Breaking
  /\ queue' = Tail(queue)
  /\ handled' = handled \cup {Head(queue)}
  /\ count' = count - 1
  /\ UNCHANGED <<event_fd, pushing, accepted, abandoned>>

-----------------------------------------------------------------------------
(* session_bus_push *)

PushMessage(m) ==
  /\ ~pushing /\ m \notin accepted
  /\ Len(queue) < Bound
  /\ queue' = Append(queue, m)
  /\ accepted' = accepted \cup {m}
  /\ pushing' = TRUE
  /\ UNCHANGED <<event_fd, count, handled, abandoned>>

Signal == /\ pushing
          /\ event_fd' = event_fd + 1
          /\ pushing' = FALSE
          /\ UNCHANGED <<queue, count, accepted, handled, abandoned>>

-----------------------------------------------------------------------------
(* the consumer *)

\* poll or epoll_wait returns, and the read empties the counter.
ReadEvent == /\ count = 0 /\ event_fd > 0
             /\ count' = event_fd
             /\ event_fd' = 0
             /\ UNCHANGED <<queue, pushing, accepted, handled, abandoned>>

\* Accounting shows that the ring is never empty here, so the loops' break on
\* BUFFER_EEMPTY has no action of its own.
PopMessage == /\ count > 0 /\ queue # << >>
              /\ Head(queue) \notin Breaking
              /\ queue' = Tail(queue)
              /\ handled' = handled \cup {Head(queue)}
              /\ count' = count - 1
              /\ UNCHANGED <<event_fd, pushing, accepted, abandoned>>

\* if (!player) break;
PopAndBreak == /\ count > 0 /\ queue # << >>
               /\ Head(queue) \in Breaking
               /\ queue' = Tail(queue)
               /\ handled' = handled \cup {Head(queue)}
               /\ abandoned' = abandoned + (count - 1)
               /\ count' = 0
               /\ UNCHANGED <<event_fd, pushing, accepted>>

Consume == ReadEvent \/ PopMessage \/ PopAndBreak

BusNext == (\E m \in Messages : PushMessage(m)) \/ Signal \/ Consume

\* The producer thread finishes the call it started, and the consumer thread
\* comes back to poll: neither waits for anything else.
Fairness == WF_busVars(Signal) /\ WF_busVars(Consume)

BusSpec == BusInit /\ [][BusNext]_busVars /\ Fairness

-----------------------------------------------------------------------------
(* Properties *)

BusTypeOK ==
  /\ queue \in Seq(Messages)
  /\ event_fd \in Nat /\ count \in Nat /\ abandoned \in Nat
  /\ pushing \in BOOLEAN
  /\ accepted \subseteq Messages /\ handled \subseteq Messages

\* Every message in the ring is announced exactly once: by the counter, by
\* the batch in progress, by the write about to come, or else it is one that
\* a broken batch left behind.  So the consumer never pops an empty ring
\* (the BUFFER_EEMPTY break of both loops is dead), and with no broken batch
\* no message sits in the ring with nobody due to wake up for it.
Accounting ==
  Len(queue) = event_fd + count + (IF pushing THEN 1 ELSE 0) + abandoned

\* A message that session_bus_push accepted is eventually handled, unless a
\* batch was broken off before.
EventuallyHandled ==
  \A m \in Messages : m \in accepted ~> (m \in handled \/ abandoned > 0)
=============================================================================
