----------------------------- MODULE MCMempool -----------------------------
(* The instance of Mempool that TLC checks. *)
EXTENDS Mempool
=============================================================================
