------------------------------- MODULE FdMap --------------------------------
(***************************************************************************)
(* The array of src/SupportStructure/fd_map.c, as the server uses it for   *)
(* its players and for its sessions: ids are taken by get_new_client_id or *)
(* get_new_session_id, the lowest that is free below the next one.         *)
(*                                                                         *)
(* capacity is a uint16_t, next_id an int.  An object is what malloc       *)
(* returned, so it differs from those not yet freed.                       *)
(***************************************************************************)
EXTENDS Integers, FiniteSets

CONSTANTS Objects,          \* server_player_t* or server_session_t*
          Null,             \* NULL
          InitialCapacity,  \* 256 for the players, 32 for the sessions
          Modulus,          \* 2^16, the width of capacity
          MaxId,            \* bound on the ids explored
          MaxFailures       \* bound on the creations that fail

ASSUME FdMapAssumption ==
  /\ Null \notin Objects
  /\ Modulus \in Nat \ {0} /\ InitialCapacity \in 1..(Modulus - 1)
  /\ MaxId \in Nat /\ MaxFailures \in Nat

VARIABLES buffer, capacity,  \* fd_map_t
          next_id,           \* server->next_player_id or next_session_id
          live,              \* the objects allocated and not freed
          peak,              \* the most that ever were at a time
          failed             \* creations that took an id and failed

vars == <<buffer, capacity, next_id, live, peak, failed>>

Init ==
  /\ buffer = [i \in 0..(InitialCapacity - 1) |-> Null]
  /\ capacity = InitialCapacity
  /\ next_id = 1 /\ live = {} /\ peak = 0 /\ failed = 0

-----------------------------------------------------------------------------
(* fd_map_get, fd_map_set, fd_map_get_first_null_id *)

Get(id) == IF 0 <= id /\ id < capacity THEN buffer[id] ELSE Null

\* Faulty variant: the memset that follows the realloc starts at the front.
SetClearing(id, object) ==
  IF id < capacity
  THEN /\ buffer' = [buffer EXCEPT ![id] = object]
       /\ UNCHANGED capacity
  ELSE LET new_capacity == (id + 1) * 2
       IN  /\ buffer' = [i \in 0..(new_capacity - 1) |-> IF i = id THEN object ELSE Null]
           /\ capacity' = new_capacity % Modulus

\* Faulty variant: the realloc makes room up to the id only.
SetShort(id, object) ==
  IF id < capacity
  THEN /\ buffer' = [buffer EXCEPT ![id] = object]
       /\ UNCHANGED capacity
  ELSE /\ buffer' = [i \in 0..id |-> IF i = id THEN object
                                    ELSE IF i < capacity THEN buffer[i] ELSE Null]
       /\ capacity' = ((id + 1) * 2) % Modulus

\* Growing keeps what is below the capacity, as the code sees it, and clears
\* the rest.
Set(id, object) ==
  IF id < capacity
  THEN /\ buffer' = [buffer EXCEPT ![id] = object]
       /\ UNCHANGED capacity
  ELSE LET new_capacity == (id + 1) * 2
       IN  /\ buffer' = [i \in 0..(new_capacity - 1) |->
                           IF i = id THEN object
                           ELSE IF i < capacity THEN buffer[i] ELSE Null]
           /\ capacity' = new_capacity % Modulus

\* Faulty variant: the search starts above the lowest id.
FreeIdsFromTwo ==
  LET bound == IF next_id >= capacity THEN capacity - 1 ELSE next_id
  IN  {i \in 2..(bound - 1) : buffer[i] = Null}

\* Faulty variant: the search takes any slot for a free one.
FreeIdsUnchecked ==
  LET bound == IF next_id >= capacity THEN capacity - 1 ELSE next_id
  IN  1..(bound - 1)

FreeIds == LET bound == IF next_id >= capacity THEN capacity - 1 ELSE next_id
           IN  {i \in 1..(bound - 1) : buffer[i] = Null}

-----------------------------------------------------------------------------
(* register_client, create_new_session *)

Allocate(object) == /\ object \notin live
                    /\ live' = live \cup {object}
                    /\ peak' = IF Cardinality(live') > peak THEN peak + 1 ELSE peak
                    /\ UNCHANGED failed

ReuseId(object) ==
  /\ Allocate(object)
  /\ \E id \in FreeIds : /\ \A other \in FreeIds : id <= other
                         /\ Set(id, object)
  /\ UNCHANGED next_id

TakeNextId(object) ==
  /\ FreeIds = {} /\ next_id < MaxId
  /\ Allocate(object)
  /\ Set(next_id, object)
  /\ next_id' = next_id + 1

\* create_new_session fails after it took an id, as it does when the rules do
\* not fit the number of players.  An id below next_id stays free.
FailWithNextId ==
  /\ FreeIds = {} /\ next_id < MaxId /\ failed < MaxFailures
  /\ next_id' = next_id + 1
  /\ failed' = failed + 1
  /\ UNCHANGED <<buffer, capacity, live, peak>>

-----------------------------------------------------------------------------
(* unregister_client, unregister_session *)

\* Faulty variant: the slot keeps the pointer to what is freed.
UnregisterKeeping(id) ==
  /\ Get(id) # Null
  /\ live' = live \ {Get(id)}
  /\ UNCHANGED <<buffer, capacity, next_id, peak, failed>>

Unregister(id) ==
  /\ Get(id) # Null
  /\ buffer' = [buffer EXCEPT ![id] = Null]
  /\ live' = live \ {Get(id)}
  /\ UNCHANGED <<capacity, next_id, peak, failed>>

Next == \/ \E object \in Objects : ReuseId(object) \/ TakeNextId(object)
        \/ FailWithNextId
        \/ \E id \in 1..(next_id - 1) : Unregister(id)

Spec == Init /\ [][Next]_vars

-----------------------------------------------------------------------------
(* Properties *)

TypeOK ==
  /\ DOMAIN buffer \subseteq Nat /\ 0..(capacity - 1) \subseteq DOMAIN buffer
  /\ \A i \in DOMAIN buffer : buffer[i] \in Objects \cup {Null}
  /\ capacity \in 0..(Modulus - 1)
  /\ next_id \in Nat \ {0} /\ live \subseteq Objects

\* No array that the ids given so far ask for is longer than capacity can say.
Small == 2 * next_id < Modulus

\* cleanup_server frees what it finds from 1 to the next id, and a player comes
\* back under his id: as long as the capacity has not overflowed, each object
\* that is not freed is found under one id, below the next one, through any
\* growth, reuse and failure; and what is found is not freed.
NothingForgotten ==
  Small =>
    /\ \A object \in live : \E id \in 1..(next_id - 1) : Get(id) = object
    /\ \A id \in 0..(capacity - 1) :
         Get(id) # Null =>
           /\ Get(id) \in live /\ id \in 1..(next_id - 1)
           /\ \A other \in 0..(capacity - 1) : Get(other) = Get(id) => other = id

\* Ids are reused: however many come and go, the next id stays at the number of
\* those that were there together, but for the failures and for the slot that
\* the search leaves out when the array is about to grow.
IdsBounded == Small => next_id <= peak + failed + 2

\* The table as its users see it.
Registered == [id \in {i \in 1..(next_id - 1) : Get(i) # Null} |-> Get(id)]

R == INSTANCE Registry WITH registered <- Registered

\* The array implements the registry, until the capacity overflows: a step
\* registers one object under an unused id, unregisters one, or changes nothing.
ImplementsRegistry == R!Init /\ [][Small' => R!Next]_Registered
=============================================================================
