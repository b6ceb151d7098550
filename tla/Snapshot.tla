------------------------------ MODULE Snapshot ------------------------------
(***************************************************************************)
(* What an online backup promises: the destination keeps its old content   *)
(* until, in one step, it becomes what the source holds at that moment,    *)
(* and success is reported for that step and no other.                     *)
(***************************************************************************)
CONSTANT Content

VARIABLES src, dst, done

Init == src \in Content /\ dst \in Content /\ ~done

\* Anybody writes to the source, or a new backup begins.
Change == src' \in Content /\ dst' = dst /\ done' \in {done, FALSE}

Copy == src' = src /\ dst' = src /\ done'

Spec == Init /\ [][Change \/ Copy]_<<src, dst, done>>

=============================================================================
