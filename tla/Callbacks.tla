----------------------------- MODULE Callbacks -----------------------------
(***************************************************************************)
(* The Rust values a connection hands to SQLite as raw pointers: hooks and *)
(* handlers (hooks/mod.rs, hooks/preupdate_hook.rs, busy.rs, trace.rs),    *)
(* client data (inner_connection.rs), SQL functions (functions.rs),        *)
(* collations (collation.rs) and images of databases (serialize.rs).  Each *)
(* is given up with into_raw and freed once, by SQLite or by the setter:   *)
(* a Box by free_boxed_value, an image by sqlite3_free.  A hook's pointer  *)
(* is kept twice: as the argument of SQLite's callback and, with the       *)
(* destructor, as client data under a name of its own.  The objects of     *)
(* virtual tables are more such values: module VirtualTable, which extends *)
(* this one, has their steps.                                              *)
(***************************************************************************)
EXTENDS Integers, FiniteSets

CONSTANTS
    Data,        \* boxes; each is made once
    ClientName,  \* names the application passes to set_clientdata
    Function,    \* names of SQL functions
    Collation,   \* names of collations
    Schema,      \* names of databases that can be deserialized
    Module, VTable, Cursor,  \* SQLite's objects for virtual tables
    Failures,    \* failures that can happen: a subset of AllFailures
    Null,        \* None, a null pointer
    Default      \* SQLite's own callback, which has no box

Hook == {"commit", "rollback", "update", "preupdate", "wal", "progress",
         "authorizer", "trace", "busy"}

\* "name": the name has a NUL byte; "sqlite": SQLite refuses a registration;
\* "preset": it refuses a hook; "nomem": no memory for an entry of client data
\* or a module; "read": the reader of an image fails.
AllFailures == {"name", "sqlite", "preset", "nomem", "read"}

ASSUME FailuresAssumption == Failures \subseteq AllFailures
ASSUME NamesAssumption ==
    /\ ClientName \cap Hook = {}
    /\ Function \cap Collation = {}
    /\ Schema \cap (Function \cup Collation) = {}
    /\ (Module \cup VTable \cup Cursor) \cap (Function \cup Collation \cup Schema) = {}
    /\ Module \cap VTable = {} /\ Module \cap Cursor = {} /\ VTable \cap Cursor = {}
    /\ Null \notin Module \cup VTable
ASSUME NullAssumption == Null \notin Data /\ Default \notin Data /\ Null # Default

Client == Hook \cup ClientName
Registration == Function \cup Collation \cup Schema \cup Module \cup VTable \cup Cursor
Pointer == Data \cup {Null}

VARIABLES
    conn,      \* "open"; "zombie": inside sqlite3_close, client data is gone; "closed"
    tx,        \* a transaction is open
    active,    \* a statement is running
    hook,      \* argument of each hook's callback, Null: no callback
    client,    \* client data by name
    reg,       \* the value held by each function, collation, image or object
    made,      \* boxes made so far
    freed,     \* how often free_boxed_value ran on a box
    leaked     \* boxes whose pointer was dropped

vars == <<conn, tx, active, hook, client, reg, made, freed, leaked>>

TypeOK ==
    /\ conn \in {"open", "zombie", "closed"}
    /\ tx \in BOOLEAN /\ active \in BOOLEAN
    /\ hook \in [Hook -> Pointer \cup {Default}]
    /\ client \in [Client -> Pointer]
    /\ reg \in [Registration -> Pointer]
    /\ made \subseteq Data
    /\ freed \in [Data -> Nat]
    /\ leaked \subseteq Data

\* A new connection has a busy timeout and checkpoints automatically.
Init ==
    /\ conn = "open" /\ tx = FALSE /\ active = FALSE
    /\ hook = [k \in Hook |-> IF k \in {"busy", "wal"} THEN Default ELSE Null]
    /\ client = [n \in Client |-> Null]
    /\ reg = [r \in Registration |-> Null]
    /\ made = {} /\ leaked = {}
    /\ freed = [d \in Data |-> 0]

-----------------------------------------------------------------------------
\* Box::into_raw of a value, or no value at all.
Boxed(d) ==
    /\ d \in Pointer \ made
    /\ made' = IF d = Null THEN made ELSE made \cup {d}

\* free_boxed_value on every box of S.
Frees(S) == freed' = [d \in Data |-> IF d \in S THEN freed[d] + 1 ELSE freed[d]]

\* sqlite3_set_clientdata: the value stored under the name is destroyed and replaced.
Stored(n, d) ==
    /\ client' = [client EXCEPT ![n] = d]
    /\ Frees({client[n]})

\* A new entry has to be allocated; if it cannot be, the new value is destroyed.
NotStored(n, d) ==
    /\ "nomem" \in Failures
    /\ client[n] = Null /\ d # Null
    /\ Frees({d})
    /\ UNCHANGED client

\* Mutation of SetHook: None removes the closure and not the callback.
SetHookKeepsCallback(k, d, p) ==
    /\ conn = "open" /\ ~active
    /\ Boxed(d)
    /\ hook' = IF d = Null THEN hook ELSE [hook EXCEPT ![k] = p]
    /\ Stored(k, d)
    /\ UNCHANGED <<conn, tx, active, reg, leaked>>

\* InnerConnection::set_clientdata for a hook: its preset installs a callback on
\* p, then d is stored.  Setters of hooks take &mut Connection, so no statement
\* is running.
SetHook(k, d, p) ==
    /\ conn = "open" /\ ~active
    /\ Boxed(d)
    /\ hook' = [hook EXCEPT ![k] = p]
    /\ Stored(k, d) \/ NotStored(k, d)
    /\ UNCHANGED <<conn, tx, active, reg, leaked>>

\* The preset returns an error: the box is freed, the callback left alone.
PresetFails(d) ==
    /\ "preset" \in Failures
    /\ conn = "open" /\ ~active
    /\ Boxed(d)
    /\ Frees({d})
    /\ UNCHANGED <<conn, tx, active, hook, client, reg, leaked>>

commit_hook(d) == SetHook("commit", d, d)
rollback_hook(d) == SetHook("rollback", d, d)
update_hook(d) == SetHook("update", d, d)
preupdate_hook(d) == SetHook("preupdate", d, d)
wal_hook(d) == SetHook("wal", d, d)

\* With num_ops below one, or an empty mask, SQLite has no callback.
progress_handler(d) == \E p \in {d, Null} : SetHook("progress", d, p)
trace_v2(d) == \E p \in {d, Null} : SetHook("trace", d, p)

\* sqlite3_busy_handler and sqlite3_set_authorizer return a code.
busy_handler(d) == SetHook("busy", d, d) \/ PresetFails(d)
authorizer(d) == SetHook("authorizer", d, d) \/ PresetFails(d)

\* Connection::set_clientdata.  A refused name drops the value as any other.
SetClientData(n, d) ==
    /\ conn = "open"
    /\ Boxed(d)
    /\ Stored(n, d) \/ NotStored(n, d)
    /\ UNCHANGED <<conn, tx, active, hook, reg, leaked>>

\* Connection::busy_timeout: SQLite's own handler, or none for zero.  It takes
\* &Connection, also while a statement is running.
BusyTimeout ==
    /\ conn = "open"
    /\ \E p \in {Default, Null} : hook' = [hook EXCEPT !["busy"] = p]
    /\ Stored("busy", Null)
    /\ UNCHANGED <<conn, tx, active, reg, made, leaked>>

\* PRAGMA busy_timeout and PRAGMA wal_autocheckpoint replace the callback; the
\* client data stays.
Pragma(k) ==
    /\ conn = "open"
    /\ \E p \in {Default, Null} : hook' = [hook EXCEPT ![k] = p]
    /\ UNCHANGED <<conn, tx, active, client, reg, made, freed, leaked>>

-----------------------------------------------------------------------------
(* Functions, collations and images of databases.                          *)

\* SQLite refuses to change a registration while a statement is running.
Refused(r) == active /\ reg[r] # Null

Registered(r, d) ==
    /\ ~Refused(r)
    /\ reg' = [reg EXCEPT ![r] = d]
    /\ Frees({reg[r]})
    /\ UNCHANGED leaked

\* as_cstr()? fails after Box::into_raw.
BadName(d) ==
    /\ "name" \in Failures
    /\ leaked' = leaked \cup {d}
    /\ UNCHANGED <<reg, freed>>

\* create_scalar_function, create_aggregate_function, create_window_function:
\* SQLite destroys the user data of a function it refuses.
CreateFunction(f, d) ==
    /\ conn = "open" /\ d # Null
    /\ Boxed(d)
    /\ \/ BadName(d)
       \/ Registered(f, d)
       \/ /\ Refused(f) \/ "sqlite" \in Failures
          /\ Frees({d})
          /\ UNCHANGED <<reg, leaked>>
    /\ UNCHANGED <<conn, tx, active, hook, client>>

\* Mutation of CreateCollation: the box of a refused collation is left to SQLite.
CreateCollationNoDrop(c, d) ==
    /\ conn = "open" /\ d # Null
    /\ Boxed(d)
    /\ \/ BadName(d)
       \/ Registered(c, d)
       \/ /\ Refused(c) \/ "sqlite" \in Failures
          /\ UNCHANGED <<reg, freed, leaked>>
    /\ UNCHANGED <<conn, tx, active, hook, client>>

\* create_collation: SQLite does not destroy what it refuses, the setter does.
CreateCollation(c, d) ==
    /\ conn = "open" /\ d # Null
    /\ Boxed(d)
    /\ \/ BadName(d)
       \/ Registered(c, d)
       \/ /\ Refused(c) \/ "sqlite" \in Failures
          /\ Frees({d})
          /\ UNCHANGED <<reg, leaked>>
    /\ UNCHANGED <<conn, tx, active, hook, client>>

\* remove_function and remove_collation; a refusal changes nothing.
Remove(r) ==
    /\ conn = "open"
    /\ Registered(r, Null)
    /\ UNCHANGED <<conn, tx, active, hook, client, made>>

\* Connection::deserialize, which takes &mut Connection.  It gives the image up
\* before it converts the name; SQLite frees an image it refuses, as it does
\* inside a transaction, and the one the database had.
deserialize(s, d) ==
    /\ conn = "open" /\ ~active /\ d # Null
    /\ Boxed(d)
    /\ \/ BadName(d)
       \/ Registered(s, d)
       \/ /\ tx \/ "sqlite" \in Failures
          /\ Frees({d})
          /\ UNCHANGED <<reg, leaked>>
    /\ UNCHANGED <<conn, tx, active, hook, client>>

\* deserialize_read_exact, when the reader fails: nothing owns the buffer yet.
ReadFails(d) ==
    /\ "read" \in Failures
    /\ conn = "open" /\ ~active
    /\ Boxed(d)
    /\ leaked' = leaked \cup {d}
    /\ UNCHANGED <<conn, tx, active, hook, client, reg, freed>>

\* Otherwise it is deserialize.
deserialize_read_exact(s, d) == ReadFails(d) \/ deserialize(s, d)

\* deserialize_bytes: the image is static and never freed.
deserialize_bytes(s) ==
    /\ conn = "open" /\ ~active
    /\ Registered(s, Null)
    /\ UNCHANGED <<conn, tx, active, hook, client, made>>

-----------------------------------------------------------------------------
(* The connection.                                                         *)

\* Statements begin and end, and with them transactions.
RunStatement ==
    /\ conn = "open"
    /\ active' \in BOOLEAN /\ tx' \in BOOLEAN
    /\ UNCHANGED <<conn, hook, client, reg, made, freed, leaked>>

\* InnerConnection::close, from Connection::close and the destructor: no
\* statement is left.  sqlite3_close first destroys the client data.
CloseClientData ==
    /\ conn = "open" /\ ~active
    /\ conn' = "zombie"
    /\ client' = [n \in Client |-> Null]
    /\ Frees({client[n] : n \in Client})
    /\ UNCHANGED <<tx, active, hook, reg, made, leaked>>

\* Then it rolls an open transaction back, which calls the rollback hook, closes
\* the databases and destroys functions, collations and modules.
CloseRest ==
    /\ conn = "zombie"
    /\ conn' = "closed" /\ tx' = FALSE
    /\ hook' = [k \in Hook |-> Null]
    /\ reg' = [r \in Registration |-> Null]
    /\ Frees({reg[r] : r \in Registration})
    /\ UNCHANGED <<active, client, made, leaked>>

Next ==
    \/ \E d \in Pointer :
         \/ commit_hook(d) \/ rollback_hook(d) \/ update_hook(d) \/ preupdate_hook(d)
         \/ wal_hook(d) \/ progress_handler(d) \/ trace_v2(d)
         \/ busy_handler(d) \/ authorizer(d)
    \/ \E k \in {"busy", "wal"} : Pragma(k)
    \/ \E n \in ClientName, d \in Pointer : SetClientData(n, d)
    \/ BusyTimeout
    \/ \E f \in Function, d \in Data : CreateFunction(f, d)
    \/ \E c \in Collation, d \in Data : CreateCollation(c, d)
    \/ \E r \in Function \cup Collation : Remove(r)
    \/ \E s \in Schema, d \in Data : deserialize(s, d) \/ deserialize_read_exact(s, d)
    \/ \E s \in Schema : deserialize_bytes(s)
    \/ RunStatement
    \/ CloseClientData
    \/ CloseRest

Spec == Init /\ [][Next]_vars

-----------------------------------------------------------------------------
(* What the code promises.                                                 *)

Live == {d \in made : freed[d] = 0}

\* SQLite never holds a pointer to a value that was freed: while the connection is
\* open each callback, whatever sequence of setters, pragmas and refusals came
\* before, would run on the closure that is the client data of its own name.
PointersLive ==
    conn = "open" =>
        /\ \A k \in Hook : hook[k] \in Data => hook[k] \in Live /\ client[k] = hook[k]
        /\ \A n \in Client : client[n] \in Data => client[n] \in Live
        /\ \A r \in Registration : reg[r] \in Data => reg[r] \in Live

\* Where the pointer to box d is kept with the duty to free it.
Owners(d) == {n \in Client : client[n] = d} \cup {r \in Registration : reg[r] = d}

\* Every box is freed exactly once: it is owned by one entry, or it was freed
\* once, or it was lost to a refused name or a failing reader and leaks.
EachBoxOnce ==
    \A d \in made : freed[d] + Cardinality(Owners(d)) + (IF d \in leaked THEN 1 ELSE 0) = 1

\* "Register a callback function to be invoked whenever a transaction is rolled
\* back" (hooks/mod.rs:354): when closing the connection rolls a transaction back,
\* the hook that is invoked is still there.
RollbackHookLive ==
    conn = "zombie" /\ tx /\ hook["rollback"] \in Data => hook["rollback"] \in Live

=============================================================================
