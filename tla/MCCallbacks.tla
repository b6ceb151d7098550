---------------------------- MODULE MCCallbacks ----------------------------
(* Instances of Callbacks for TLC.                                         *)
EXTENDS Callbacks, TLC

DataSymmetry == Permutations(Data)

=============================================================================
