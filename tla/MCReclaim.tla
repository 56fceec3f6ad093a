----------------------------- MODULE MCReclaim -----------------------------
(* Model-checking instance of Reclaim. *)
EXTENDS Reclaim
=============================================================================
