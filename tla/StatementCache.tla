--------------------------- MODULE StatementCache ---------------------------
(***************************************************************************)
(* One Connection of rusqlite seen through its prepared statements: the    *)
(* LRU statement cache (cache.rs), the Statement and CachedStatement       *)
(* objects borrowed from the connection (statement.rs, raw_statement.rs),  *)
(* the Rows iterator over a running query (row.rs), and closing the        *)
(* connection (lib.rs, inner_connection.rs).                               *)
(*                                                                         *)
(* A member of Handle is both a Rust statement object and the sqlite3_stmt *)
(* it owns.  open is SQLite's list of unfinalized statements; an object    *)
(* that is held but not open wraps a null pointer, which is what SQLite    *)
(* returns for text that holds no SQL.                                     *)
(***************************************************************************)
EXTENDS Integers, Sequences, FiniteSets

CONSTANTS
    Handle,        \* statement handles that can exist at the same time
    Sql,           \* SQL texts up to surrounding whitespace, which get trims and SQLite skips
    Kind,          \* Kind[s]: "stmt", "empty" (no SQL in it) or "multi" (a second statement follows)
    MaxCapacity,   \* largest capacity the application configures
    Leaks,         \* applications, by what they mem::forget: subsets of {"rows", "stmt"}
    NoSql          \* no text: a handle never compiled, a statement_cache_key of None

ASSUME KindAssumption == Kind \in [Sql -> {"stmt", "empty", "multi"}]
ASSUME CapacityAssumption == MaxCapacity \in Nat
ASSUME LeaksAssumption == Leaks \subseteq SUBSET {"rows", "stmt"}
ASSUME NoSqlAssumption == NoSql \notin Sql

VARIABLES
    conn,      \* "open", "closed", or "lost": dropped although sqlite3_close failed
    open,      \* sqlite3_stmt not finalized yet
    sql,       \* text a handle was compiled from
    key,       \* RawStatement::statement_cache_key
    bound,     \* some parameter holds a value
    run,       \* "row": the last sqlite3_step returned SQLITE_ROW; "ready" after a reset
    held,      \* which object owns the handle: a Statement ("plain"), a CachedStatement ("cached")
    rows,      \* the Rows borrowing the statement: its stmt is Some ("live") or taken ("spent")
    row,       \* Rows::row is Some
    cache,     \* LRU order, least recently inserted first
    capacity,
    leaked,    \* handles whose owner was mem::forgotten
    forgets    \* what this application may mem::forget

vars == <<conn, open, sql, key, bound, run, held, rows, row, cache, capacity, leaked, forgets>>

stmtVars == <<sql, key, bound, run>>
rowsVars == <<rows, row>>

Range(s) == {s[i] : i \in DOMAIN s}

TypeOK ==
    /\ conn \in {"open", "closed", "lost"}
    /\ open \subseteq Handle
    /\ sql \in [Handle -> Sql \cup {NoSql}]
    /\ key \in [Handle -> Sql \cup {NoSql}]
    /\ bound \in [Handle -> BOOLEAN]
    /\ run \in [Handle -> {"ready", "row"}]
    /\ held \in [Handle -> {"none", "plain", "cached"}]
    /\ rows \in [Handle -> {"none", "live", "spent"}]
    /\ row \in [Handle -> BOOLEAN]
    /\ cache \in Seq(Handle)
    /\ capacity \in 0..MaxCapacity
    /\ leaked \subseteq Handle
    /\ forgets \in Leaks

Init ==
    /\ conn = "open"
    /\ open = {}
    /\ sql = [h \in Handle |-> NoSql]
    /\ key = [h \in Handle |-> NoSql]
    /\ bound = [h \in Handle |-> FALSE]
    /\ run = [h \in Handle |-> "ready"]
    /\ held = [h \in Handle |-> "none"]
    /\ rows = [h \in Handle |-> "none"]
    /\ row = [h \in Handle |-> FALSE]
    /\ cache = <<>>
    /\ capacity = MaxCapacity
    /\ leaked = {}
    /\ forgets \in Leaks

-----------------------------------------------------------------------------
(* Preparing.                                                              *)

\* A handle no Rust object and no SQLite statement is using.
Unused(h) == h \notin open /\ held[h] = "none"

\* The statement object a prepare call returns: nothing bound, not started.
NewStatement(h, s, k, owner) ==
    /\ Unused(h)
    /\ Kind[s] # "multi"
    /\ open' = IF Kind[s] = "stmt" THEN open \cup {h} ELSE open
    /\ sql' = [sql EXCEPT ![h] = s]
    /\ key' = [key EXCEPT ![h] = k]
    /\ bound' = [bound EXCEPT ![h] = FALSE]
    /\ run' = [run EXCEPT ![h] = "ready"]
    /\ held' = [held EXCEPT ![h] = owner]

\* Connection::prepare.  A call that fails (SQLite's error, or the
\* MultipleStatement check on the tail) drops what it prepared: a stutter.
Prepare(h, s) ==
    /\ conn = "open"
    /\ NewStatement(h, s, NoSql, "plain")
    /\ UNCHANGED <<conn, rowsVars, cache, capacity, leaked>>

\* Positions of the entry stored under a key; a map has at most one.
At(k) == {i \in DOMAIN cache : key[cache[i]] = k}

\* The sequence without its i-th element.
Without(s, i) == [j \in 1..(Len(s) - 1) |-> IF j < i THEN s[j] ELSE s[j + 1]]

\* Mutation of GetHit: the entry is read, not removed.
GetHitShares(s) ==
    /\ conn = "open"
    /\ \E i \in At(s) :
         /\ held' = [held EXCEPT ![cache[i]] = "cached"]
         /\ key' = [key EXCEPT ![cache[i]] = s]
    /\ UNCHANGED <<conn, open, sql, bound, run, rowsVars, cache, capacity, leaked>>

\* StatementCache::get, the key is in the cache: the entry moves to the caller.
GetHit(s) ==
    /\ conn = "open"
    /\ \E i \in At(s) :
         /\ cache' = Without(cache, i)
         /\ held' = [held EXCEPT ![cache[i]] = "cached"]
         /\ key' = [key EXCEPT ![cache[i]] = s]
    /\ UNCHANGED <<conn, open, sql, bound, run, rowsVars, capacity, leaked>>

\* StatementCache::get, no such key: prepare the trimmed text and record the key.
GetMiss(h, s) ==
    /\ conn = "open"
    /\ At(s) = {}
    /\ NewStatement(h, s, s, "cached")
    /\ UNCHANGED <<conn, rowsVars, cache, capacity, leaked>>

-----------------------------------------------------------------------------
(* Using a statement.                                                      *)

\* &mut access to a statement: held, and no Rows borrows it.
Usable(h) == conn = "open" /\ held[h] # "none" /\ rows[h] = "none"

\* sqlite3_bind fails on a null statement and on one in the middle of a query.
Bindable(h) == h \in open /\ run[h] = "ready"

\* bind_parameters, bind_parameters_named, raw_bind_parameter: values bound
\* before a failure stay bound.
BindParameters(h) ==
    /\ Usable(h) /\ Bindable(h)
    /\ bound' = [bound EXCEPT ![h] = TRUE]
    /\ UNCHANGED <<conn, open, sql, key, run, held, rowsVars, cache, capacity, leaked>>

\* Statement::clear_bindings.
ClearBindings(h) ==
    /\ Usable(h) /\ h \in open
    /\ bound' = [bound EXCEPT ![h] = FALSE]
    /\ UNCHANGED <<conn, open, sql, key, run, held, rowsVars, cache, capacity, leaked>>

\* execute_with_bound_parameters: one sqlite3_step, then a reset whatever it returned.
Execute(h) ==
    /\ Usable(h)
    /\ run' = [run EXCEPT ![h] = "ready"]
    /\ UNCHANGED <<conn, open, sql, key, bound, held, rowsVars, cache, capacity, leaked>>

\* raw_query, and query once its parameters are bound: Rows::new does not step.
Query(h) ==
    /\ Usable(h)
    /\ rows' = [rows EXCEPT ![h] = "live"]
    /\ row' = [row EXCEPT ![h] = FALSE]
    /\ UNCHANGED <<conn, open, stmtVars, held, cache, capacity, leaked>>

\* Rows::advance on SQLITE_ROW.
NextRow(h) ==
    /\ rows[h] = "live" /\ h \in open
    /\ run' = [run EXCEPT ![h] = "row"]
    /\ row' = [row EXCEPT ![h] = TRUE]
    /\ UNCHANGED <<conn, open, sql, key, bound, held, rows, cache, capacity, leaked>>

\* Mutation of NextEnd: the row of the previous advance is kept.
NextEndKeepsRow(h) ==
    /\ rows[h] = "live"
    /\ run' = [run EXCEPT ![h] = "ready"]
    /\ rows' = [rows EXCEPT ![h] = "spent"]
    /\ UNCHANGED <<conn, open, sql, key, bound, held, row, cache, capacity, leaked>>

\* Rows::advance on SQLITE_DONE or an error: reset, then the iterator is fused.
NextEnd(h) ==
    /\ rows[h] = "live"
    /\ run' = [run EXCEPT ![h] = "ready"]
    /\ rows' = [rows EXCEPT ![h] = "spent"]
    /\ row' = [row EXCEPT ![h] = FALSE]
    /\ UNCHANGED <<conn, open, sql, key, bound, held, cache, capacity, leaked>>

\* Mutation of DropRows: no reset.
DropRowsNoReset(h) ==
    /\ rows[h] # "none"
    /\ rows' = [rows EXCEPT ![h] = "none"]
    /\ row' = [row EXCEPT ![h] = FALSE]
    /\ UNCHANGED <<conn, open, stmtVars, held, cache, capacity, leaked>>

\* Rows::drop resets the statement unless advance already did.
DropRows(h) ==
    /\ rows[h] # "none"
    /\ run' = IF rows[h] = "live" THEN [run EXCEPT ![h] = "ready"] ELSE run
    /\ rows' = [rows EXCEPT ![h] = "none"]
    /\ row' = [row EXCEPT ![h] = FALSE]
    /\ UNCHANGED <<conn, open, sql, key, bound, held, cache, capacity, leaked>>

\* mem::forget(rows): the borrow ends and no destructor runs.
ForgetRows(h) ==
    /\ "rows" \in forgets /\ rows[h] # "none"
    /\ rows' = [rows EXCEPT ![h] = "none"]
    /\ row' = [row EXCEPT ![h] = FALSE]
    /\ UNCHANGED <<conn, open, stmtVars, held, cache, capacity, leaked>>

-----------------------------------------------------------------------------
(* Letting a statement go.                                                 *)

\* Statement::drop, Statement::finalize and CachedStatement::discard.
Finalize(h) ==
    /\ Usable(h)
    /\ open' = open \ {h}
    /\ held' = [held EXCEPT ![h] = "none"]
    /\ UNCHANGED <<conn, stmtVars, rowsVars, cache, capacity, leaked>>

\* mem::forget(statement).
ForgetStatement(h) ==
    /\ "stmt" \in forgets /\ Usable(h)
    /\ held' = [held EXCEPT ![h] = "none"]
    /\ leaked' = IF h \in open THEN leaked \cup {h} ELSE leaked
    /\ UNCHANGED <<conn, open, stmtVars, rowsVars, cache, capacity>>

\* LruCache::insert: a value stored under the same key is replaced, the new
\* entry is the most recent, and an entry over capacity is removed from the
\* old end.
Replaced(k) == {cache[i] : i \in At(k)}
Inserted(h) ==
    IF At(key[h]) = {} THEN Append(cache, h)
    ELSE Append(Without(cache, CHOOSE i \in At(key[h]) : TRUE), h)
Shrunk(s, n) == IF Len(s) > n THEN SubSeq(s, Len(s) - n + 1, Len(s)) ELSE s

\* Mutation of CacheStmt: bindings are left in place.
CacheStmtBound(h) ==
    /\ Usable(h) /\ held[h] = "cached"
    /\ held' = [held EXCEPT ![h] = "none"]
    /\ IF h \notin open
       THEN UNCHANGED <<open, cache>>
       ELSE /\ cache' = Shrunk(Inserted(h), capacity)
            /\ open' = (open \ Replaced(key[h])) \ (Range(Inserted(h)) \ Range(cache'))
    /\ UNCHANGED <<conn, stmtVars, rowsVars, capacity, leaked>>

\* Mutation of CacheStmt: a second statement of the same text is kept as well.
CacheStmtAppends(h) ==
    /\ Usable(h) /\ held[h] = "cached"
    /\ held' = [held EXCEPT ![h] = "none"]
    /\ IF h \notin open
       THEN UNCHANGED <<open, bound, cache>>
       ELSE /\ bound' = [bound EXCEPT ![h] = FALSE]
            /\ cache' = Shrunk(Append(cache, h), capacity)
            /\ open' = open \ ((Range(cache) \cup {h}) \ Range(cache'))
    /\ UNCHANGED <<conn, sql, key, run, rowsVars, capacity, leaked>>

\* StatementCache::cache_stmt, from CachedStatement::drop.  A null statement
\* is simply dropped.  Bindings are cleared; the statement is not reset.  The
\* debug_assert on a missing key is not reachable: CachedHasKey, proved in
\* StatementCache_proofs.
CacheStmt(h) ==
    /\ Usable(h) /\ held[h] = "cached"
    /\ held' = [held EXCEPT ![h] = "none"]
    /\ IF h \notin open
       THEN UNCHANGED <<open, bound, cache>>
       ELSE /\ bound' = [bound EXCEPT ![h] = FALSE]
            /\ cache' = Shrunk(Inserted(h), capacity)
            /\ open' = (open \ Replaced(key[h])) \ (Range(Inserted(h)) \ Range(cache'))
    /\ UNCHANGED <<conn, sql, key, run, rowsVars, capacity, leaked>>

\* Mutation of SetCapacity: the most recent entries go first.
SetCapacityNewest(n) ==
    /\ conn = "open"
    /\ capacity' = n
    /\ cache' = IF Len(cache) > n THEN SubSeq(cache, 1, n) ELSE cache
    /\ open' = open \ (Range(cache) \ Range(cache'))
    /\ UNCHANGED <<conn, stmtVars, held, rowsVars, leaked>>

\* set_prepared_statement_cache_capacity: remove_lru until the cache fits.
SetCapacity(n) ==
    /\ conn = "open"
    /\ capacity' = n
    /\ cache' = Shrunk(cache, n)
    /\ open' = open \ (Range(cache) \ Range(cache'))
    /\ UNCHANGED <<conn, stmtVars, held, rowsVars, leaked>>

\* flush_prepared_statement_cache.
Flush ==
    /\ conn = "open"
    /\ cache' = <<>>
    /\ open' = open \ Range(cache)
    /\ UNCHANGED <<conn, stmtVars, held, rowsVars, capacity, leaked>>

\* Mutation of Close: the cache is not flushed first.
CloseNoFlush(onBusy) ==
    /\ conn = "open"
    /\ \A h \in Handle : held[h] = "none"
    /\ conn' = IF open = {} THEN "closed" ELSE onBusy
    /\ UNCHANGED <<open, stmtVars, held, rowsVars, cache, capacity, leaked>>

\* Connection::close and Connection::drop consume the connection, so the
\* borrow checker requires that no statement borrows it.  The cache is flushed
\* first; sqlite3_close answers SQLITE_BUSY while a statement is unfinalized.
\* close then hands the connection back, drop gives it up.
Close(onBusy) ==
    /\ conn = "open"
    /\ \A h \in Handle : held[h] = "none"
    /\ cache' = <<>>
    /\ open' = open \ Range(cache)
    /\ conn' = IF open' = {} THEN "closed" ELSE onBusy
    /\ UNCHANGED <<stmtVars, held, rowsVars, capacity, leaked>>

-----------------------------------------------------------------------------
Use(h) ==
    \/ BindParameters(h) \/ ClearBindings(h) \/ Execute(h)
    \/ Query(h) \/ NextRow(h) \/ NextEnd(h) \/ DropRows(h) \/ ForgetRows(h)
    \/ Finalize(h) \/ ForgetStatement(h) \/ CacheStmt(h)

Step ==
    \/ \E h \in Handle, s \in Sql : Prepare(h, s) \/ GetMiss(h, s)
    \/ \E s \in Sql : GetHit(s)
    \/ \E h \in Handle : Use(h)
    \/ \E n \in 0..MaxCapacity : SetCapacity(n)
    \/ Flush
    \/ \E onBusy \in {"open", "lost"} : Close(onBusy)

Next == Step /\ UNCHANGED forgets

Spec == Init /\ [][Next]_vars

-----------------------------------------------------------------------------
(* What the code promises.                                                 *)

\* The statements the application holds, null ones left out.
HeldOpen == {h \in open : held[h] # "none"}

\* Every unfinalized statement has exactly one owner: the application, the
\* cache, or a forgotten object.  Nothing is finalized while owned (a use after
\* free) and nothing is lost by a hit, a replacement, an eviction or a flush.
OneOwner ==
    /\ open = HeldOpen \cup Range(cache) \cup leaked
    /\ HeldOpen \cap Range(cache) = {}
    /\ HeldOpen \cap leaked = {}
    /\ Range(cache) \cap leaked = {}

\* The cache is a map: one entry per key, no handle twice, and the entry under
\* a key was compiled from that key.
CacheIsAMap ==
    /\ \A i, j \in DOMAIN cache : key[cache[i]] = key[cache[j]] => i = j
    /\ \A i \in DOMAIN cache : key[cache[i]] = sql[cache[i]]

\* The capacity is a bound whatever the order of returns and set_capacity calls.
CacheBounded == Len(cache) <= capacity

\* "returning a previously prepared (but not currently in-use) statement"
\* (cache.rs:11): a cached statement is reset and keeps no value of the
\* previous borrower, although cache_stmt itself never resets.  An application
\* that forgets a Rows gives this up.
CachedIsClean ==
    "rows" \notin forgets =>
        \A i \in DOMAIN cache : run[cache[i]] = "ready" /\ ~bound[cache[i]]

\* A Row the application can see stands on a row of a statement that is still
\* owned by it: Rows never keeps a Row past the end, an error or a reset.
RowIsCurrent ==
    \A h \in Handle : row[h] => run[h] = "row" /\ h \in open /\ held[h] # "none"

\* A closed connection has no statement left in SQLite, and drop loses a
\* connection only when the application itself forgot a statement.
CloseIsClean ==
    /\ conn = "closed" => open = {} /\ cache = <<>>
    /\ conn = "lost" => leaked # {}

\* Evictions go from the old end: a statement is finalized by an eviction only
\* if every older entry is gone too (an entry replaced under its key aside).
EvictsOldest ==
    [][\A i, j \in DOMAIN cache :
         i < j /\ cache[i] \in Range(cache') /\ cache[j] \notin Range(cache')
           => \/ cache[j] \in open'
              \/ \E h \in Range(cache') : key'[h] = key[cache[j]]]_vars

-----------------------------------------------------------------------------
(* prepare_cached is observably prepare.                                   *)

\* What a caller sees of its statements; nothing is promised to one that forgets Rows.
Observed ==
    [h \in Handle |->
        IF held[h] = "none" \/ "rows" \in forgets THEN [state |-> "none"]
        ELSE [state |-> "held", sql |-> sql[h], null |-> h \notin open,
              bound |-> bound[h], run |-> run[h], row |-> row[h]]]

\* With the cache hidden, a statement got from it is a newly prepared one.
Fresh == INSTANCE FreshStatements WITH stmt <- Observed
ImplementsFresh == Fresh!Spec

=============================================================================
