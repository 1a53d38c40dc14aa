-------------------------- MODULE MCConnectionTable ----------------------------
(* TLC instance of ConnectionTable: four slots, so that the free stack takes   *)
(* every permutation it can, and a removal from the list meets a head, a tail, *)
(* an inner node and a single node.                                            *)
EXTENDS ConnectionTable
================================================================================
