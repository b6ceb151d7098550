--------------------------- MODULE MCUnlockNotify ---------------------------
(* Instances of UnlockNotify for TLC.                                      *)
EXTENDS UnlockNotify

=============================================================================
