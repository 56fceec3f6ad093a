------------------------------ MODULE MCVisMap ------------------------------
(* Model-checking instance of VisMap. *)
EXTENDS VisMap, TLC

WriterSymmetry == Permutations(Writers)
=============================================================================
