------------------------------- MODULE LogBus -------------------------------
(***************************************************************************)
(* The log: the bounded buffer of src/SupportStructure/log_bus.c with its  *)
(* mutex and its two condition variables, the threads that log (the        *)
(* server's and one per session), the log thread of src/Log/log.c and the  *)
(* shutdown that joins it.                                                 *)
(*                                                                         *)
(* A critical section is one step.  pthread_cond_wait splits a call in     *)
(* two: the thread joins the waiting threads and goes on, once woken, with *)
(* the mutex held again.  A wake-up may be spurious.                       *)
(***************************************************************************)
EXTENDS Integers, FiniteSets, SequencesExt

CONSTANTS Producers,   \* the threads that log
          BufferSize,  \* MPSC_BUFFER_SIZE
          MaxLogs      \* bound on the entries each of them logs

ASSUME LogAssumption ==
  /\ BufferSize \in Nat \ {0}
  /\ \E k \in 0..BufferSize : BufferSize = 2^k   \* "& (SIZE - 1)" needs it
  /\ MaxLogs \in Nat

NoEntry == <<>>
Entries == Producers \X (1..MaxLogs)

VARIABLES
  entries, write_position, read_position,   \* log_bus_t
  logged,     \* how many entries each producer has begun to log
  producer,   \* "ready", or where it is in log_bus_push_blocking
  consumer,   \* where the log thread is
  msg,        \* the entry it has popped
  file,       \* the entries written, in order
  running,    \* log_thread->running
  closer,     \* where cleanup_log_thread is
  accepted,   \* the entries that entered the buffer, in order
  due         \* those that did before running was cleared

busVars == <<entries, write_position, read_position>>
vars == <<busVars, logged, producer, consumer, msg, file, running, closer,
          accepted, due>>

Init ==
  /\ entries = [i \in 0..(BufferSize - 1) |-> NoEntry]
  /\ write_position = 0 /\ read_position = 0
  /\ logged = [p \in Producers |-> 0]
  /\ producer = [p \in Producers |-> "ready"]
  /\ consumer = "start" /\ msg = NoEntry /\ file = << >>
  /\ running = TRUE /\ closer = "idle"
  /\ accepted = << >> /\ due = {}

Count == write_position - read_position
Full == Count >= BufferSize
Empty == read_position >= write_position
Sleeping == {p \in Producers : producer[p] = "waiting"}

-----------------------------------------------------------------------------
(* The producers.  The bus is freed once the log thread is joined. *)

\* Put an entry, and pthread_cond_signal(&bus->not_empty).
Put(p, entry) ==
  /\ entries' = [entries EXCEPT ![write_position % BufferSize] = entry]
  /\ write_position' = write_position + 1
  /\ accepted' = Append(accepted, entry)
  /\ due' = IF running THEN due \cup {entry} ELSE due
  /\ producer' = [producer EXCEPT ![p] = "ready"]
  /\ consumer' = IF consumer = "waiting" THEN "woken" ELSE consumer
  /\ UNCHANGED <<read_position, msg, file, running, closer>>

Calling(p) == /\ closer # "joined" /\ producer[p] = "ready"
              /\ logged[p] < MaxLogs
              /\ logged' = [logged EXCEPT ![p] = @ + 1]

\* Faulty variant: a full buffer is written over.
PushOver(p) == /\ Calling(p)
               /\ Put(p, <<p, logged[p] + 1>>)

\* log_bus_push and log_bus_push_blocking, with room.
Push(p) == /\ ~Full /\ Calling(p)
           /\ Put(p, <<p, logged[p] + 1>>)

\* log_bus_push into a full buffer drops the entry.
PushDropped(p) == /\ Full /\ Calling(p)
                  /\ UNCHANGED <<busVars, producer, consumer, msg, file, running,
                                 closer, accepted, due>>

\* log_bus_push_blocking (the level LOG_SESSION) waits for not_full instead.
PushWait(p) == /\ Full /\ Calling(p)
               /\ producer' = [producer EXCEPT ![p] = "waiting"]
               /\ UNCHANGED <<busVars, consumer, msg, file, running, closer,
                              accepted, due>>

\* Faulty variant: while became if, so a woken thread writes at once.
PushResumeUnchecked(p) ==
  /\ closer # "joined" /\ producer[p] = "woken"
  /\ Put(p, <<p, logged[p]>>)
  /\ UNCHANGED logged

\* A woken thread looks at the buffer again.
PushResume(p) ==
  /\ closer # "joined" /\ producer[p] = "woken"
  /\ IF Full
     THEN /\ producer' = [producer EXCEPT ![p] = "waiting"]
          /\ UNCHANGED <<busVars, consumer, msg, file, running, closer, accepted, due>>
     ELSE Put(p, <<p, logged[p]>>)
  /\ UNCHANGED logged

-----------------------------------------------------------------------------
(* The log thread *)

Goes(from, to) == /\ consumer = from
                  /\ consumer' = to

\* fopen, which may fail and end the thread.
OpenFile == /\ Goes("start", "check") \/ Goes("start", "failed")
            /\ UNCHANGED <<busVars, logged, producer, msg, file, running, closer,
                           accepted, due>>

\* while (self->running)
CheckRunning == /\ Goes("check", IF running THEN "pop" ELSE "drain")
                /\ UNCHANGED <<busVars, logged, producer, msg, file, running,
                               closer, accepted, due>>

\* Faulty variant: nobody is told that there is room again.
TakeSilently(from, to) ==
  /\ ~Empty /\ Goes(from, to)
  /\ msg' = entries[read_position % BufferSize]
  /\ read_position' = read_position + 1
  /\ UNCHANGED <<entries, write_position, logged, producer, file, running, closer,
                 accepted, due>>

\* Take the oldest entry, and pthread_cond_signal(&bus->not_full).
Take(from, to) ==
  /\ ~Empty /\ Goes(from, to)
  /\ msg' = entries[read_position % BufferSize]
  /\ read_position' = read_position + 1
  /\ IF Sleeping = {} THEN UNCHANGED producer
     ELSE \E p \in Sleeping : producer' = [producer EXCEPT ![p] = "woken"]
  /\ UNCHANGED <<entries, write_position, logged, file, running, closer,
                 accepted, due>>

\* Nothing to take.
TakeNothing(from, to) ==
  /\ Empty /\ Goes(from, to)
  /\ UNCHANGED <<busVars, logged, producer, msg, file, running, closer,
                 accepted, due>>

\* log_bus_pop_blocking.  Woken with the buffer still empty it gives up, so
\* that the loop looks at running again.
PopBlocking == \/ Take("pop", "write") \/ TakeNothing("pop", "waiting")
               \/ Take("woken", "write") \/ TakeNothing("woken", "check")

\* Faulty variant: the thread ends without emptying the buffer.
DrainNothing == /\ Goes("drain", "ended")
                /\ UNCHANGED <<busVars, logged, producer, msg, file, running,
                               closer, accepted, due>>

\* log_bus_pop, in the loop that empties the buffer after the shutdown.
Drain == Take("drain", "drainWrite") \/ TakeNothing("drain", "ended")

\* fprintf.
WriteEntry == /\ Goes("write", "check") \/ Goes("drainWrite", "drain")
              /\ file' = Append(file, msg) /\ msg' = NoEntry
              /\ UNCHANGED <<busVars, logged, producer, running, closer,
                             accepted, due>>

-----------------------------------------------------------------------------
(* cleanup_log_thread *)

StopRunning == /\ closer = "idle" /\ closer' = "stopping"
               /\ running' = FALSE
               /\ UNCHANGED <<busVars, logged, producer, consumer, msg, file,
                              accepted, due>>

\* log_bus_stop_waiting, pthread_cond_broadcast(&bus->not_empty).
StopWaiting == /\ closer = "stopping" /\ closer' = "joining"
               /\ consumer' = IF consumer = "waiting" THEN "woken" ELSE consumer
               /\ UNCHANGED <<busVars, logged, producer, msg, file, running,
                              accepted, due>>

\* pthread_join and log_bus_destroy.
JoinLogThread == /\ closer = "joining" /\ closer' = "joined"
                 /\ consumer \in {"ended", "failed"}
                 /\ UNCHANGED <<busVars, logged, producer, consumer, msg, file,
                                running, accepted, due>>

\* POSIX lets a thread leave pthread_cond_wait unasked.
SpuriousWakeup ==
  /\ \/ Goes("waiting", "woken") /\ UNCHANGED producer
     \/ /\ \E p \in Sleeping : producer' = [producer EXCEPT ![p] = "woken"]
        /\ UNCHANGED consumer
  /\ UNCHANGED <<busVars, logged, msg, file, running, closer, accepted, due>>

-----------------------------------------------------------------------------
LogThread == OpenFile \/ CheckRunning \/ PopBlocking \/ Drain \/ WriteEntry
Closer == StopRunning \/ StopWaiting \/ JoinLogThread

Next == \/ LogThread \/ Closer \/ SpuriousWakeup
        \/ \E p \in Producers : \/ Push(p) \/ PushDropped(p) \/ PushWait(p)
                                \/ PushResume(p)

\* The log thread runs, and so does a thread that holds a wake-up.
Fairness == /\ WF_vars(LogThread)
            /\ \A p \in Producers : WF_vars(PushResume(p))

Spec == Init /\ [][Next]_vars /\ Fairness

-----------------------------------------------------------------------------
(* Properties *)

TypeOK ==
  /\ entries \in [0..(BufferSize - 1) -> Entries \cup {NoEntry}]
  /\ write_position \in Nat /\ read_position \in 0..write_position
  /\ Count <= BufferSize
  /\ logged \in [Producers -> 0..MaxLogs]
  /\ producer \in [Producers -> {"ready", "waiting", "woken"}]
  /\ consumer \in {"start", "check", "pop", "waiting", "woken", "write",
                   "drain", "drainWrite", "ended", "failed"}
  /\ msg \in Entries \cup {NoEntry}
  /\ file \in Seq(Entries) /\ accepted \in Seq(Entries)
  /\ running \in BOOLEAN
  /\ closer \in {"idle", "stopping", "joining", "joined"}
  /\ due \subseteq Entries

\* The slots between the two positions, oldest first.
Contents == [i \in 1..Count |-> entries[(read_position + i - 1) % BufferSize]]

\* The log reads as the threads logged: what is written, then the entry being
\* written, then the buffer, is the sequence of the entries accepted, none lost,
\* repeated or overtaken, through full buffers, waiting and shutdown.
LoggedInOrder ==
  accepted = file \o (IF msg = NoEntry THEN << >> ELSE <<msg>>) \o Contents

\* No wake-up is lost: the log thread sleeps only while there is nothing to
\* write, and a thread sleeps for want of room only while there is none or
\* another one has been woken to take it.
NoLostWakeup ==
  /\ consumer = "waiting" => Empty
  /\ Sleeping # {} => Full \/ \E p \in Producers : producer[p] = "woken"

\* Whatever entered the buffer before the shutdown is written, by the loop or by
\* the emptying that follows it, unless the file could not be opened.
DueWritten ==
  \A e \in Entries : e \in due ~> (e \in ToSet(file) \/ consumer = "failed")

\* A thread that waits for room gets it, unless the log thread has ended.
BlockedPushReturns ==
  \A p \in Producers :
    producer[p] = "waiting"
      ~> producer[p] = "ready" \/ consumer \in {"ended", "failed"}
=============================================================================
