--------------------------- MODULE MCVirtualTable ---------------------------
(* Instances of VirtualTable, and with it of Callbacks, for TLC.           *)
EXTENDS VirtualTable, TLC

Symmetry ==
    Permutations(Data) \cup Permutations(Module) \cup Permutations(VTable) \cup Permutations(Cursor)

=============================================================================
