-------------------------- MODULE MCFunctionCalls ---------------------------
(* Instances of FunctionCalls for TLC.                                     *)
EXTENDS FunctionCalls, TLC

CONSTANTS pattern, text, literal, column

\* regexp(pattern, text) with a constant pattern, a function of a literal, and an
\* aggregate of a column.
MCOpOf == [x \in Arg |-> IF x \in {pattern, text} THEN "regexp" ELSE IF x = literal THEN "f" ELSE "agg"]

Symmetry == Permutations(Site) \cup Permutations(Acc) \cup Permutations(Val) \cup Permutations(Aux)

=============================================================================
