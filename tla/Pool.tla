-------------------------------- MODULE Pool --------------------------------
(***************************************************************************)
(* What MAX_CLIENTS promises: at most capacity connections are being       *)
(* served at any time, and a place is only ever taken when one is free.    *)
(***************************************************************************)
EXTENDS Integers, FiniteSets

CONSTANT Conns  \* the connections

VARIABLES
  capacity,  \* cfg.maxClients, set once
  held       \* the connections that have a place

vars == <<capacity, held>>

Init == capacity \in Nat \ {0} /\ held = {}

Acquire(c) ==
  /\ c \notin held
  /\ Cardinality(held) < capacity
  /\ held' = held \cup {c}
  /\ UNCHANGED capacity

Release(c) ==
  /\ c \in held
  /\ held' = held \ {c}
  /\ UNCHANGED capacity

Next == \E c \in Conns : Acquire(c) \/ Release(c)

Spec == Init /\ [][Next]_vars
=============================================================================
