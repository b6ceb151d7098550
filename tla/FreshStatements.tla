--------------------------- MODULE FreshStatements ---------------------------
(***************************************************************************)
(* What Connection::prepare and prepare_cached promise a caller, without   *)
(* a cache: obtaining a statement for a text yields one compiled from that *)
(* text, with no bound value, not started; it then changes only by the     *)
(* caller's own calls, until the caller lets it go.                        *)
(***************************************************************************)
CONSTANTS Handle, Sql, Kind

VARIABLE stmt

None == [state |-> "none"]

New(s) == [state |-> "held", sql |-> s, null |-> Kind[s] = "empty",
           bound |-> FALSE, run |-> "ready", row |-> FALSE]

Init == stmt = [h \in Handle |-> None]

Obtain(h, s) ==
    /\ stmt[h] = None
    /\ Kind[s] # "multi"
    /\ stmt' = [stmt EXCEPT ![h] = New(s)]

\* Binding, stepping and resetting; text and pointer never change.
Call(h) ==
    /\ stmt[h] # None
    /\ \E b, w \in BOOLEAN, r \in {"ready", "row"} :
         /\ w => r = "row"
         /\ stmt' = [stmt EXCEPT ![h] = [state |-> "held", sql |-> @.sql, null |-> @.null,
                                         bound |-> b, run |-> r, row |-> w]]

\* A row in view borrows the statement.
Release(h) ==
    /\ stmt[h] # None /\ ~stmt[h].row
    /\ stmt' = [stmt EXCEPT ![h] = None]

Next == \E h \in Handle : (\E s \in Sql : Obtain(h, s)) \/ Call(h) \/ Release(h)

Spec == Init /\ [][Next]_stmt

==============================================================================
