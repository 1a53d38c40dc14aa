----------------------------- MODULE MCEventLoop -------------------------------
(* TLC instances of EventLoop.                                                 *)
EXTENDS EventLoop, TLC

\* Which descriptor accept() returns makes no difference.
FdSymmetry == Permutations(Fds)
================================================================================
