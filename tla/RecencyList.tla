------------------------------ MODULE RecencyList ------------------------------
(* What the intrusive keep-alive list stands for: the connections that wait    *)
(* for another request, each once, the one that became idle last in front.     *)
EXTENDS Sequences, SequencesExt

CONSTANT Conns

VARIABLE order

Init == order = <<>>

Insert(c) ==
  /\ c \in Conns \ ToSet(order)
  /\ order' = <<c>> \o order

Drop(c) ==
  \E i \in DOMAIN order : order[i] = c /\ order' = RemoveAt(order, i)

Next == \E c \in Conns : Insert(c) \/ Drop(c)

Spec == Init /\ [][Next]_order
================================================================================
