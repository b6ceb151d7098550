------------------------------ MODULE MCSeries ------------------------------
(* Instances of Series for TLC: i64 has 5 bits.                            *)
EXTENDS Series

MCValue == {-16, -3, -2, 0, 1, 2, 5, 15}
MCStep == {-16, -15, -3, -2, -1, 0, 1, 2, 4, 15}

=============================================================================
