----------------------------- MODULE SlotAllocator -----------------------------
(* What a pool of connections promises its user, whatever it stores: a slot    *)
(* that is granted was not lent to anybody, a slot that comes back was lent,   *)
(* and the count is the number of slots that are lent.                         *)
EXTENDS Integers, FiniteSets

CONSTANT Slots

VARIABLES
  lent,   \* the slots that users hold
  count   \* what active_count() answers

vars == <<lent, count>>

Init == lent = {} /\ count = 0

Grant(s) ==
  /\ s \in Slots \ lent
  /\ lent' = lent \union {s}
  /\ count' = count + 1

Return(s) ==
  /\ s \in lent
  /\ lent' = lent \ {s}
  /\ count' = count - 1

Next == \E s \in Slots : Grant(s) \/ Return(s)

Spec == Init /\ [][Next]_vars
================================================================================
