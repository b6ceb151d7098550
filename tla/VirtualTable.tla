---------------------------- MODULE VirtualTable ----------------------------
(***************************************************************************)
(* Virtual tables (vtab/mod.rs): the auxiliary data of a module, the table *)
(* object and its cursors are boxes that SQLite holds, next to the values  *)
(* of Callbacks, which this module extends.  SQLite's Module and VTable    *)
(* structures are counted references: a replaced module lives on while a   *)
(* VTable uses it, and a VTable while the schema, a prepared statement or  *)
(* an open transaction refers to it.  When the last reference goes, SQLite *)
(* calls rust_disconnect.  One module name and its tables are modelled: an *)
(* eponymous one and one of the schema, in a database that is not replaced *)
(* by deserialize.                                                         *)
(***************************************************************************)
EXTENDS Callbacks

VARIABLES
    module,  \* the Module registered under the name, or Null
    of,      \* the Module of a VTable and the VTable of a cursor, Null: none
    refs     \* who refers to a VTable

vtab == <<module, of, refs>>
allVars == <<vars, vtab>>

\* "schema" and "epo": a table, stored or eponymous; "list": the connection's list
\* of tables to disconnect; "stmt": prepared statements; "trans": a transaction.
Ref == {"schema", "epo", "list", "stmt", "trans"}

VTypeOK ==
    /\ TypeOK
    /\ module \in Module \cup {Null}
    /\ of \in [VTable \cup Cursor -> Module \cup VTable \cup {Null}]
    /\ refs \in [VTable -> SUBSET Ref]

VInit ==
    /\ Init
    /\ module = Null
    /\ of = [x \in VTable \cup Cursor |-> Null]
    /\ refs = [v \in VTable |-> {}]

Linked(v) == refs[v] \cap {"schema", "epo"} # {}
HasCursor(v) == \E c \in Cursor : of[c] = v

-----------------------------------------------------------------------------
\* The objects of S give their boxes up, which are freed, and h holds d.
Moves(S, h, d) ==
    /\ reg' = [r \in Registration |-> IF r = h THEN d ELSE IF r \in S THEN Null ELSE reg[r]]
    /\ Frees({reg[r] : r \in S})
    /\ UNCHANGED leaked

\* sqlite3VtabUnlock and sqlite3VtabModuleUnref: given the references rf and the
\* registered module m that are left, the objects nothing refers to any more.
DeadTables(rf) == {v \in VTable : of[v] # Null /\ rf[v] = {}}
DeadModules(rf, m) ==
    {o \in Module : o # m /\ \A v \in VTable \ DeadTables(rf) : of[v] # o}

\* Those objects are freed, with rust_disconnect and free_boxed_value, and so is
\* the box of the objects in S.
Settle(rf, S) ==
    /\ refs' = rf
    /\ of' = [x \in VTable \cup Cursor |-> IF x \in DeadTables(rf) THEN Null ELSE of[x]]
    /\ reg' = [r \in Registration |->
                 IF r \in S \cup DeadTables(rf) \cup DeadModules(rf, module) THEN Null ELSE reg[r]]
    /\ Frees({reg[r] : r \in S \cup DeadTables(rf) \cup DeadModules(rf, module)})
    /\ UNCHANGED <<conn, active, hook, client, made, leaked, module>>

\* InnerConnection::create_module, also while statements run.  The name is
\* converted first.  SQLite destroys the data of a module it cannot store; a
\* replaced module loses its eponymous table and its name.
create_module(m, d) ==
    /\ conn = "open"
    /\ m # module /\ \A v \in VTable : of[v] # m
    /\ Boxed(d)
    /\ \/ /\ module' = m
          /\ refs' = [v \in VTable |-> IF "epo" \in refs[v] THEN (refs[v] \ {"epo"}) \cup {"list"}
                                                           ELSE refs[v]]
          /\ Moves(DeadModules(refs, m) \cup {m}, m, d)
          /\ UNCHANGED of
       \/ /\ "nomem" \in Failures
          /\ Frees({d})
          /\ UNCHANGED <<reg, leaked, vtab>>
    /\ UNCHANGED <<conn, tx, active, hook, client>>

\* vtabCallConstructor: a new VTable v of the registered module, known to R.  The
\* constructors box the table after create, connect and sqlite3_declare_vtab have
\* succeeded; otherwise nothing changes.
Construct(v, d, R) ==
    /\ conn = "open"
    /\ module # Null /\ of[v] = Null
    /\ \A w \in VTable : refs[w] \cap R \subseteq {"trans"}
    /\ Boxed(d)
    /\ of' = [of EXCEPT ![v] = module]
    /\ refs' = [refs EXCEPT ![v] = R]
    /\ Moves({v}, v, d)
    /\ UNCHANGED <<conn, tx, active, hook, client, module>>

\* When a statement that names the table is prepared.
rust_connect(v, d) == Construct(v, d, {"schema"}) \/ Construct(v, d, {"epo"})

\* CREATE VIRTUAL TABLE: the table takes part in the transaction.
rust_create(v, d) == active /\ tx /\ Construct(v, d, {"schema", "trans"})

\* Mutation of rust_destroy: the box is dropped whatever destroy returns.
rust_destroyDrops(v) ==
    /\ conn = "open" /\ active /\ tx
    /\ "schema" \in refs[v] /\ ~HasCursor(v)
    /\ \/ Settle([refs EXCEPT ![v] = @ \ {"schema"}], {v}) /\ UNCHANGED tx
       \/ Frees({reg[v]})
          /\ UNCHANGED <<conn, tx, active, hook, client, reg, made, leaked, vtab>>

\* DROP TABLE, which SQLite refuses while a cursor is open.  If destroy fails the
\* table stays and keeps its box.
rust_destroy(v) ==
    /\ conn = "open" /\ active /\ tx
    /\ "schema" \in refs[v] /\ ~HasCursor(v)
    /\ \/ Settle([refs EXCEPT ![v] = @ \ {"schema"}], {v}) /\ UNCHANGED tx
       \/ UNCHANGED allVars

\* A running statement opens a cursor, unless the table was dropped meanwhile.
rust_open(c, v, d) ==
    /\ conn = "open" /\ active
    /\ of[c] = Null
    /\ "stmt" \in refs[v] /\ reg[v] # Null
    /\ Boxed(d)
    /\ of' = [of EXCEPT ![c] = v]
    /\ Moves({c}, c, d)
    /\ UNCHANGED <<conn, tx, active, hook, client, module, refs>>

rust_close(c) ==
    /\ conn = "open" /\ of[c] # Null
    /\ of' = [of EXCEPT ![c] = Null]
    /\ Moves({c}, c, Null)
    /\ UNCHANGED <<conn, tx, active, hook, client, made, module, refs>>

\* A write to the table inside a transaction.
rust_begin(v) ==
    /\ conn = "open" /\ active /\ tx
    /\ Linked(v) /\ "stmt" \in refs[v]
    /\ refs' = [refs EXCEPT ![v] = @ \cup {"trans"}]
    /\ UNCHANGED <<vars, module, of>>

\* The transaction ends: rust_commit or rust_rollback on every table of it.
rust_commit ==
    /\ conn = "open" /\ tx
    /\ tx' = FALSE
    /\ Settle([v \in VTable |-> refs[v] \ {"trans"}], {})

-----------------------------------------------------------------------------
\* Statements that use a table are prepared and finalized.
Prepare(v) ==
    /\ conn = "open" /\ Linked(v)
    /\ refs' = [refs EXCEPT ![v] = @ \cup {"stmt"}]
    /\ UNCHANGED <<vars, module, of>>

Finalize(v) ==
    /\ conn = "open" /\ ~HasCursor(v)
    /\ Settle([refs EXCEPT ![v] = @ \ {"stmt"}], {}) /\ UNCHANGED tx

\* sqlite3SchemaClear: the schema is forgotten, and its tables disconnected when
\* the next statement is prepared, by sqlite3VtabUnlockList.
SchemaClear ==
    /\ conn = "open"
    /\ refs' = [v \in VTable |-> IF "schema" \in refs[v] THEN (refs[v] \ {"schema"}) \cup {"list"}
                                                         ELSE refs[v]]
    /\ UNCHANGED <<vars, module, of>>

UnlockList ==
    /\ conn = "open"
    /\ Settle([v \in VTable |-> refs[v] \ {"list"}], {}) /\ UNCHANGED tx

\* sqlite3_close first disconnects every table and ends the tables' transaction,
\* also when it then finds a statement or a backup and returns SQLITE_BUSY.
CloseDisconnects ==
    /\ conn = "open" /\ ~active
    /\ Settle([v \in VTable |-> refs[v] \cap {"stmt"}], {}) /\ UNCHANGED tx

\* A step of Callbacks: no statement ends with a cursor open, no transaction with
\* tables in it, and the client data goes when all tables are disconnected.
CallbackStep ==
    /\ Next
    /\ ~active' => \A c \in Cursor : of[c] = Null
    /\ conn = "open" /\ tx /\ ~tx' => \A v \in VTable : "trans" \notin refs[v]
    /\ conn' = "zombie" => \A v \in VTable : of[v] = Null
    /\ module' = IF conn' = "closed" THEN Null ELSE module
    /\ UNCHANGED <<of, refs>>

VNext ==
    \/ CallbackStep
    \/ \E m \in Module, d \in Pointer : create_module(m, d)
    \/ \E v \in VTable, d \in Data : rust_connect(v, d) \/ rust_create(v, d)
    \/ \E v \in VTable : rust_destroy(v) \/ rust_begin(v) \/ Prepare(v) \/ Finalize(v)
    \/ \E c \in Cursor, v \in VTable, d \in Data : rust_open(c, v, d)
    \/ \E c \in Cursor : rust_close(c)
    \/ rust_commit
    \/ SchemaClear
    \/ UnlockList
    \/ CloseDisconnects

VSpec == VInit /\ [][VNext]_allVars

-----------------------------------------------------------------------------
(* What the code promises.                                                 *)

\* rust_filter, rust_next, rust_column and, for an error, cursor_error use a
\* cursor's box and the box of its table: while a cursor is open both are live
\* and they belong to a VTable that a statement keeps, whatever was dropped,
\* forgotten or replaced meanwhile.
CursorsLive ==
    \A c \in Cursor : of[c] # Null =>
        /\ reg[c] \in Live /\ reg[of[c]] \in Live
        /\ "stmt" \in refs[of[c]] /\ of[of[c]] # Null

=============================================================================
