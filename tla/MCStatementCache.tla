-------------------------- MODULE MCStatementCache --------------------------
(* Instances of StatementCache for TLC.                                    *)
EXTENDS StatementCache, TLC

CONSTANTS a, b, e, m

MCSql == {a, b, e, m}
MCKind == (a :> "stmt") @@ (b :> "stmt") @@ (e :> "empty") @@ (m :> "multi")
HandleSymmetry == Permutations(Handle)

=============================================================================
