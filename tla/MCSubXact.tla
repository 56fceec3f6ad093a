----------------------------- MODULE MCSubXact -----------------------------
(* Model-checking instance of SubXact. *)
EXTENDS SubXact
=============================================================================
