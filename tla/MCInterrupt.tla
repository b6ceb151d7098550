---------------------------- MODULE MCInterrupt ----------------------------
(* Instances of Interrupt for TLC.                                         *)
EXTENDS Interrupt

=============================================================================
