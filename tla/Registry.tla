------------------------------ MODULE Registry ------------------------------
(***************************************************************************)
(* What the server's tables of players and of sessions promise: an object  *)
(* is registered under an id of its own, stays there until it is           *)
(* unregistered, and nothing else moves.                                   *)
(***************************************************************************)
EXTENDS Naturals

CONSTANT Objects
VARIABLE registered   \* from the ids in use to the objects

Ids == DOMAIN registered

Init == registered = [id \in {} |-> id]

Register(id, object) ==
  /\ id \notin Ids /\ \A other \in Ids : registered[other] # object
  /\ registered' = [i \in Ids \cup {id} |-> IF i = id THEN object ELSE registered[i]]

Unregister(id) ==
  /\ id \in Ids
  /\ registered' = [i \in Ids \ {id} |-> registered[i]]

Next == \/ \E id \in DOMAIN registered' \ Ids, object \in Objects : Register(id, object)
        \/ \E id \in Ids : Unregister(id)
=============================================================================
