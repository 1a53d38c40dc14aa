-------------------------- MODULE MCConnectionRead -----------------------------
(* TLC instances of ConnectionRead: reads of three bytes, heads that fit one   *)
(* read of a fresh buffer, that end exactly at the limit plus one read, and    *)
(* that exceed it; records that a read takes whole and that it does not.       *)
EXTENDS ConnectionRead
================================================================================
