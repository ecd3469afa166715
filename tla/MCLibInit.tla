----------------------------- MODULE MCLibInit -----------------------------
(* The instance of LibInit that TLC checks. *)
EXTENDS LibInit, TLC

Symmetry == Permutations(Threads)
=============================================================================
