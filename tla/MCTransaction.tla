--------------------------- MODULE MCTransaction ---------------------------
(* Instances of Transaction for TLC.                                       *)
EXTENDS Transaction, TLC

WriteSymmetry == Permutations(Write)

=============================================================================
