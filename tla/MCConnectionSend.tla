--------------------------- MODULE MCConnectionSend ----------------------------
(* TLC instances of ConnectionSend: a header of two bytes, a chunk of two      *)
(* bytes, files that are empty, fit a chunk, and take more than one.           *)
EXTENDS ConnectionSend
================================================================================
