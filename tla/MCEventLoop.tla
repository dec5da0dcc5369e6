---------------------------- MODULE MCEventLoop -----------------------------
(* Instances of EventLoop for TLC.                                           *)
EXTENDS EventLoop, TLC
Symmetry == Permutations(Timeouts)
=============================================================================
