------------------------------- MODULE PoolSlots -------------------------------
(* The slots of the connection pool, shared by every module that names a       *)
(* connection: a Connection* of the program is the index of its slot.          *)
EXTENDS Integers

CONSTANTS
  MAX_CONNECTIONS,  \* ConnectionPool::MAX_CONNECTIONS (16384 in the program)
  SIZE_MAX          \* the largest size_t

\* The pool is not empty and size_t can hold every head position.
ASSUME PoolAssumption ==
  /\ MAX_CONNECTIONS \in Nat \ {0}
  /\ SIZE_MAX \in Nat
  /\ MAX_CONNECTIONS <= SIZE_MAX

\* The objects of connections_; their addresses never change.
Slots == 0 .. MAX_CONNECTIONS - 1

\* nullptr, where a Connection* is expected.
NoConn == -1
================================================================================
