--------------------------- MODULE MCRowConflict ---------------------------
(* Model-checking instances of RowConflict: one row group of three rows, one of *)
(* them deleted, and two groups of one and two rows.                            *)
EXTENDS RowConflict, TLC

Version0(n, g) == [n |-> n, grp |-> g, item |-> n, gen |-> 0]
OneGroup == {Version0(n, 1) : n \in 1..3}
TwoGroups == {Version0(1, 1), Version0(2, 2), Version0(3, 2)}
TxnSymmetry == Permutations(Txns)
=============================================================================
