------------------------------- MODULE MCBlob -------------------------------
(* Instances of Blob for TLC: i32 has 3 bits, i64 and usize have 4.        *)
EXTENDS Blob, TLC

CONSTANTS x, y

MCCreated == {<<>>, <<x>>, <<x, x, x>>}
MCOffset == {-8, -3, -1, 0, 1, 7}
RowSymmetry == Permutations(Row)

=============================================================================
