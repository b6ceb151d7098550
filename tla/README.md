# Verification of rusqlite

TLA+ models of rusqlite, the Rust bindings of SQLite, checked with TLC and
partly proved with TLAPS. Paths are relative to the repository; `cache.rs` alone
means `src/cache.rs` of the crate.

rusqlite is mostly a thin layer over a C library, so what can go wrong in it is
seldom an algorithm. It is the *protocol* with SQLite: who owns a pointer, what
is reset before it is used again, which thread may call what, what a destructor
does when the call it makes fails, and where a Rust integer becomes a C `int`.
The models are about these. SQLite itself appears as far as rusqlite relies on
it, modelled from the copy that the crate builds
(`libsqlite3-sys/sqlite3/sqlite3.c`), whose lines `PROJECT.json` names. The few
definitions marked `external` there stand for the `hashlink` crate, Rust's standard
library and the application.

## 1. Inventory

| component | state | operations | interacts with | hard behaviour | what makes it correct |
|---|---|---|---|---|---|
| statement cache and statements (`cache.rs`, `statement.rs`, `raw_statement.rs`, `row.rs`) | LRU map from SQL text to raw statement; `Statement`, `CachedStatement`, `Rows` objects | prepare, prepare_cached, bind, execute, query, advance, drop, discard, set capacity, flush | connection (close), SQLite's statement list | long sequences of calls, reuse after a failed call, eviction, forgotten objects | one owner per `sqlite3_stmt`; a cached statement cannot be told from a new one; close finds nothing open |
| transactions and savepoints (`transaction.rs`) | scope objects with a drop behavior and a `committed` flag | new, commit, rollback, finish, drop, set_drop_behavior | SQLite's savepoint stack | destructors that run after every method, during panics and when COMMIT fails; savepoints with equal names | a scope ends what it began and nothing else |
| interrupt handle, close (`lib.rs`, `inner_connection.rs`) | the pointer, and a copy under a mutex | interrupt, close, drop | any thread | close against interrupt; close refused | the two never overlap; an interrupt gets through |
| unlock notification (`unlock_notify.rs`) | flag, mutex and condition variable in a stack frame | step/prepare loop, callback | SQLite's shared cache, other threads | lost wake-ups, dead frames, deadlock, spurious wake-ups | every wait ends, no callback on a dead frame |
| BLOB I/O (`blob/`) | position, handle | read, write, seek, positional I/O, reopen, close | rows changed by SQL | integer casts, expired handles | a file of fixed size |
| hooks, handlers, client data, functions, collations (`hooks/`, `busy.rs`, `trace.rs`, `functions.rs`, `collation.rs`) | boxed closures owned by SQLite | set, replace, remove, close | pragmas, SQLite's destructors | refused registrations, two registrations for one closure | no call on a freed closure; each box freed once |
| generate_series (`vtab/series.rs`) | plan flags, cursor | best_index, filter, next, eof, column | SQLite's planner | signs, NULL, overflow, promised order | the right rows, once, in the promised order |
| virtual table core (`vtab/mod.rs`) | boxed module data, tables and cursors | create_module, create, connect, open, close, begin, commit, disconnect, destroy | SQLite's schema, prepared statements, transactions, close | a table that is dropped, forgotten or whose module is replaced while it is in use; a failing destroy | each object freed once, none used afterwards |
| array, csv, vtablog (`vtab/`) | what the table or cursor keeps | filter, next, column, update | the core | - | the right rows |
| function calls (`functions.rs`, `context.rs`) | aggregate contexts, auxiliary data of arguments | step, inverse, value, finalize, scalar calls, get_aux, set_aux, get_or_create_aux | SQLite, its planner too | init fails or panics; finalize after an error; data of an earlier row; a box that SQLite frees at once | the accumulator is dropped once; auxiliary data fits its argument |
| backup (`backup.rs`) | backup handle | new, step, run_to_completion, drop, backup, restore | both connections and every writer of the source | no lock is held between two steps; Busy, restart of the copy, retry count | `Done` only for a complete copy of one state of the source |
| sessions (`session.rs`) | session, changeset, iterator, group | attach, changeset, iterate, apply | SQLite, streams | iterator after an error, items in callbacks | no item outlives its iterator |
| parameters (`params.rs`, `bind.rs`, `util/param_cache.rs`) | name cache | positional and named binding | statements | wrong counts, partial binding | every parameter gets the value meant for it |
| rows, columns, value conversions (`row.rs`, `column.rs`, `types/`) | none | to_sql, from_sql, get | - | widths, signs, storage classes | a value written is the value read, or an error |
| serialize, deserialize (`serialize.rs`) | buffer of a database | serialize, deserialize, deserialize_read_exact, deserialize_bytes | SQLite, which takes the buffer over | refused calls, failing readers | the buffer is freed once |
| pragmas (`pragma.rs`), extensions, config, limits, errors, C strings | little or none | single calls | SQLite | quoting | - |
| macros, libsqlite3-sys | - | compile time, generated and vendored code | - | - | out of scope |

`PROJECT.json` lists every component with its status, and the hazards: the places
in the code where a bug would hardly be found by a test, each with the
properties that would find it or the module that is planned for it.

## 2. Modules

A definition keeps the name of the code it models where there is one. An action
is a whole method, destructor included; a method is cut into several actions only
where another thread can step in between.

| module | models | kind |
|---|---|---|
| `StatementCache` | cache, statements, rows, close of one connection | state machine |
| `FreshStatements` | what `prepare` promises, without a cache | abstract specification |
| `Transaction` | Transaction and Savepoint over SQLite's transaction state | state machine |
| `Interrupt` | close and interrupt, one owner thread and any number of handles | concurrent |
| `UnlockNotify` | shared-cache locks, wait_for_unlock_notify and its callback | concurrent |
| `Blob` | Blob on one handle, in machine integers | state machine |
| `BlobFile` | a file of fixed size, in mathematical integers | abstract specification |
| `Series` | one query of generate_series | algorithm, one scan |
| `Callbacks` | every box handed to SQLite by a connection | state machine |
| `VirtualTable` | module data, tables and cursors as further boxes; extends `Callbacks` | state machine, composition |
| `Aggregates` | the calls of aggregate and window functions | state machine |
| `FunctionCalls` | scalar calls and auxiliary data in the same statement; extends `Aggregates` | state machine, composition |
| `Backup` | a backup, its source and its destination | concurrent |
| `Snapshot` | what a backup promises | abstract specification |
| `*_proofs` | theorems about the module they are named after; those about `Callbacks` are in `VirtualTable_proofs`, those about `Aggregates` in `FunctionCalls_proofs`, those about `UnlockNotify` and `Interrupt` in `Threads_proofs` | proofs |
| `MC*` | instances for TLC | - |

An operator called "Mutation of X" is X with a plausible bug. It is used nowhere
in the models; put in the place of X it makes the property it was written for
fail, which shows that the property says something about that code.

### StatementCache

A `Handle` is a Rust statement object together with the `sqlite3_stmt` in it.
`open` is SQLite's list of unfinalized statements, `held` says which Rust object
owns a handle, `cache` is the LRU order. `GetHit` and `GetMiss` are
`StatementCache::get`, `CacheStmt` is `CachedStatement::drop` with `cache_stmt`,
the insertion into `hashlink::LruCache` and the eviction. A SQL text is a model
value; `Kind` says whether it holds one statement, none (SQLite returns a null
pointer) or a second one (`MultipleStatement`). A failed call that changes
nothing is a stutter; one that leaves values bound is `BindParameters`. What a
bound value is does not matter to these properties, so `bound` is a Boolean.
The borrow checker is a guard: `Usable` is the right to use `&mut Statement`.

`Leaks` is a set of applications, each given by the kinds of object it may
`mem::forget`; the variable `forgets` is the one that runs. Safe Rust allows it, and
it matters: `cache_stmt` clears the bindings but does not reset, and only
`Rows::drop` does. If a `Rows` is forgotten, a running statement enters the cache
(`cache.rs:154` against "not currently in-use", `cache.rs:11`). `CachedIsClean` and
`ImplementsFresh` therefore promise nothing to an application that forgets `Rows`;
every other property holds for it too.

### Transaction

`db` is SQLite's view: whether BEGIN was executed, the stack of savepoints with
the contents each restores, the contents seen and the contents on disk. SQL
commands are operators that return the set of outcomes: a COMMIT may find the
database locked, which leaves the transaction open, or fail for good (a full disk),
which rolls it back. `scopes` is the stack of
live Rust objects. Every consuming method is the method *and* the destructor that
follows it, as in the code; `Ending` is what the method leaves to the destructor.
A panic unwinds scope by scope, and a second panic aborts.

### Interrupt

The mutex is held for the whole of `sqlite3_close` and of `sqlite3_interrupt`, so
these are two steps each, entering and leaving. `owned` distinguishes
`Connection::open` from `Connection::from_handle`, whose handle is not shared with
interrupt handles and is closed by someone else (`LenderCloses`).

### UnlockNotify

SQLite's part (table locks, `pWriter`, the pending flag, `pBlockingConnection`,
`pUnlockConnection`, the callback under the static mutex) is modelled beside
rusqlite's: the waiting loop cannot be judged without it. A transaction begins with a
read lock on `Schema` (page 1); DROP TABLE takes a write lock on it. A statement first
begins its transaction, then takes its table lock, and a DROP then finds out whether
the connection itself still reads the table, which is the lock without a blocker.
Transactions begun with BEGIN EXCLUSIVE are left out.
rusqlite's part is the loop, the deadlock error, the notification in the waiter's
frame, and `fired`, split at every point where the mutex or the condition variable is
touched. Every connection runs in transactions of at most `MaxOps` operations.

### Blob

`I32Max` and `I64Max` are parameters, casts are operators, so all of the boundaries
of `i32`, `i64` and `usize` are within a few bytes of each other. `handle` is
SQLite's incremental blob: a change of its row expires it, the next access aborts
it. `Builds` is the choice between debug (overflow panics, assertions run) and
release (sums wrap).

### Series

The initial states are all queries: for each of start, stop and step, no
constraint, one that cannot be used, NULL or a value; and each ORDER BY. The scan
then is deterministic. Arithmetic wraps at `I64Max`.

### Callbacks

A `Data` is a box. `hook[k]` is the pointer SQLite passes to callback k, `client` the
client data that owns the box and has the destructor, `reg` the user data of
functions and collations. `freed` counts calls of `free_boxed_value`. The nine
hook setters are actions of their own over `SetHook`. `RunStatement` makes
registrations refusable, `Pragma` replaces the busy and the WAL callback. A buffer
given to `deserialize` is a box that the schema's name holds. `Failures` lists what
may go wrong; a reader that fails and a name that is refused leak the buffer (`leaked`).

### VirtualTable

Module data, tables and cursors draw on the same boxes. SQLite counts references to
its `Module` and `VTable` structures: `of` is the module of a table and the table of a
cursor, `refs` the set of those who refer to a table (its schema entry, the eponymous
table of its module, the list of tables to be disconnected, prepared statements, an
open transaction). Where the last reference goes, `Settle` calls `rust_disconnect`
and frees what nothing refers to any more. A step of Callbacks is a step here under the
conditions that join the two (`CallbackStep`): the connection becomes a zombie, and
frees the client data, when all tables are disconnected; a refused close has
disconnected them as well (`CloseDisconnects`). One module name with one eponymous and
one stored table at a time are modelled, in a database that `deserialize` does not
replace. A constructor that fails changes nothing. Left out: `xSync`, the savepoint
methods, which rusqlite does not offer, and exhausted memory in `growVTrans`.

### Aggregates

A `Site` is an invocation of a function in a statement, `Acc` a boxed accumulator. `mem`
is SQLite's MEM_Agg: the invocation has a context and SQLite owes it a call of xFinal;
`pac` is the pointer in it. `frame` counts the rows SQLite has in the group or window,
`rows` those the accumulator has seen. The user's code may return an error or panic in
each call, both of which end in `report_error`, after which SQLite makes no call but
xFinal. `StepFirst` and `StepNext` are the two paths of `call_boxed_step`. A panic in the
conversion of the result (`to_sql`, or a `SqlFnArg` returned by an aggregate, which has no
arguments) is outside `catch_unwind` and ends the process (`functions.rs:333`).

### FunctionCalls

Scalar functions run in the statement of Aggregates and share its `stmt`. A call is
several steps, because the function may use its context repeatedly and keep what it
gets: `Call` or `CallPlanning`, then `set_aux`, `get_or_create_aux` and `DropArc` in any
order, then `Return`. `pAuxData` is SQLite's list, by instruction and argument; `count` is
the strong count of an `Arc`, of which SQLite's box holds one and the user at most one
more (`held`), possibly long after the call. `from` remembers which value of the argument
an auxiliary value was made from. Arguments that are not constant have a value only
during a call; constants, which include parameters, get theirs when the statement
begins. The bundled SQLite is built with `SQLITE_ENABLE_STAT4`, so its planner calls
deterministic functions of constants in a context without a statement, where
`sqlite3_set_auxdata` destroys the box before it returns. The step of an aggregate is a
call too (`AggOp`), in which SQLite discards nothing. Left out: triggers, and negative
argument numbers, which SQLite treats as an undocumented cache of the whole statement.

### Backup

A database is a sequence of pages, and a page is the number of the transaction that
wrote it. `file` is what is committed in the source, `seen` what the source connection
sees and `pub` the same without the pages that are only in its cache: it is `pub` that
a backup has been told of. The source is kept with a rollback journal, with a WAL or in
memory (`store`); these differ in who may write beside whom, and in how a rollback
reaches the backup (played back page by page, or by starting the copy again). The
source connection's own changes are passed on to the backup when they are spilled or
committed (`BackupUpdate`); another connection's are noticed by the next step that
begins to read, which starts again (`Looked`). `img` is the destination inside its
transaction, `dst` what is committed in it. `call` says which function runs:
`run_to_completion` goes on at Busy, `backup` does not, `restore` does twice. `StepPages`
stands for the 100 pages of `backup` and `restore`. A transaction either has new data or
repeats what was there (`S = {}`). An empty source is included. Left out: the numbers
`progress` reports, databases of different page sizes, and `StepResult::Locked`:
in the bundled version `sqlite3_backup_step` never meets SQLITE_LOCKED (`ALWAYS` in
`isFatalError`, `sqlite3.c:85044`).

## 3. What is checked

Each passing run visits all reachable states of its instance.

| run | instance | shows |
|---|---|---|
| `statement_cache` | 3 handles, 4 texts (two statements, one empty, one double), capacity 0..2, applications that forget statements and ones that forget rows | `OneOwner`, `CacheIsAMap`, `RowIsCurrent`, `CloseIsClean`, `CachedIsClean`, `EvictsOldest`; `ImplementsFresh`: StatementCache implements FreshStatements |
| `transactions` | 3 nested scopes and 3 open savepoints of the one default name, the outermost a Transaction or a Savepoint; all 4 drop behaviors, panics; the COMMIT of a Transaction may be refused or fail, statements may roll back | `EndsClosed`, `Aligned`, `DropRestores`, `CommitAllOrNothing`, `DurableAtTheEnd` |
| `savepoint_busy_drop` | savepoints only, COMMIT may be refused | `EndsClosed` is **violated** |
| `interrupt` | 2 handles with 2 calls each, 2 closes, owned and borrowed | `NoInterruptOfClosed`, `CloseAssertion`, `InterruptStopsQuery`, `CallsComplete` |
| `unlock_notify` | 2 connections, 2 tables and the schema, read, write and drop, 2 operations per transaction | `CallbackOnLive`, `NoLostWakeup`, `NoWaitCycle`, `WaitEnds`, `SelfLockReturns` |
| `blob_io` | 2 rows of up to 3 bytes, 3-bit i32, 4-bit i64, both builds | `TypeOK`, `BufferSafe`, `CastsExact`; `ImplementsFile`: Blob implements BlobFile |
| `series` | 8 values and 10 steps of a 5-bit i64, extremes included | `RowsMatch`, `OrderHonoured`, `Ends` |
| `series_null` | same | `NullNoRows` is **violated** |
| `callbacks` | 3 boxes, all hooks, one name of client data, one function, one collation, one schema, 2 modules, 2 tables, 1 cursor, all failures but exhausted memory | `PointersLive`, `EachBoxOnce`, `CursorsLive` |
| `rollback_hook_at_close` | 2 boxes, no failures | `RollbackHookLive` is **violated** |
| `function_calls` | 2 invocations of aggregates, 3 accumulators, groups and windows of up to 2 rows; a function of a constant and a varying argument, one of a literal, a step; 2 values, 2 auxiliary values; errors, panics, no memory | `AccOnce`, `NoNullDeref`, `GivenRight`, `AuxFresh`, `AuxLive` |
| `backup` | 3 pages, 2 transactions with new data and any number that repeat what was there, all stores, steps of 1 or 2 pages, locks on either side, I/O errors | `Copied`, `RunCompletes`, `CallsEnd`; `ImplementsSnapshot`: Backup implements Snapshot |

Why the bounds are enough. Three handles are needed for two statements of one text
in use while a third is cached, which is when an insertion replaces and evicts at
once; with capacity 2 the LRU order is observable. Three nested scopes give an
inner, a middle and an outer one, so that the savepoint a late destructor would hit
exists on both sides; with a single name every savepoint can be mistaken for every
other one. Two interrupters suffice
to have one inside the call and one waiting; the proofs remove that bound. Two
connections and two tables contain the deadlock, the self-lock and the blocker that
ends before, during and after registration; safety is proved for any number. With
3-bit integers every buffer length and offset below, at and above each limit is an
input. Series values include both ends of the range, zero, and spans that a step
does and does not divide. Three boxes are a module, its table and a cursor, or a hook
that is replaced while another one or client data is alive; a second module and a second
table allow a replacement while the first are in use. Three accumulators allow an
invocation a second group while another one is in its first; two auxiliary values allow
one to be replaced by, or to be mistaken for, the other. Three pages are one that is
copied, one that is being copied and one that is not, and two changes put one before and
one after a restart. `MaxChanges` bounds only the transactions that bring new data; one that
writes again what was there has the same effect on a backup and may happen for ever, so
that the liveness properties do not rest on that bound. For the safety properties and the refinements the proofs remove the
bounds of all models.

Deadlock is checked in `unlock_notify`, `blob_io` and `backup`. The others switch it off
because a finished program may stop: a closed connection, a scan at its end, used
up bounds, an aborted process.

### Fairness

* `Interrupt`: weak fairness of the steps of a thread inside `interrupt` or `close`,
  which says that the thread is scheduled, and of `QueryInterrupted`: SQLite polls the
  flag while a query runs. Weak fairness is enough for the mutex because each thread
  makes a bounded number of calls. No query has to end by itself, nobody has to
  call anything.
* `UnlockNotify`: weak fairness of the steps inside a call, strong fairness of
  `FiredLock`, which competes with a waiter that keeps waking up spuriously. Nothing
  is assumed of the application: it may keep its transaction open for ever.
  `WaitEnds` accordingly promises a retry once the blocker has ended its
  transaction, not success: with three connections a waiter can keep losing to others.
  `SelfLockReturns` is about a connection that meets its own lock while, from then on, no
  other one is in a transaction.
* `Backup`: a function that loops takes its next step, that is, `thread::sleep` ends.
  Nobody has to release a lock or to stop writing. `RunCompletes` therefore promises an end
  only if, from some point on, nobody writes to the source (`WritingStops`) and neither side
  refuses. Both are needed: a write that SQLite answers with a restart (by another connection,
  or, in memory or on a rollback in a WAL, by the source's own) never refuses a step, but
  if there is one between any two steps, a copy that takes several of them never gets to
  its end: `run_to_completion`, `backup` and `restore` loop on More for ever
  (`backup.rs:304`, `75`, `114`), and none of their comments says so. `CallsEnd` needs only
  `WritingStops`: a locked side makes `backup` and `restore` return.
* `Series`: SQLite goes on reading the cursor.

### Disagreements between code and documentation

1. `savepoint_busy_drop`. A `Savepoint` opened outside a transaction is dropped
   while another connection holds a lock. `ROLLBACK TO` succeeds, `RELEASE` is now the
   commit and fails with SQLITE_BUSY, the destructor ignores it: the transaction
   stays open with no object left (`transaction.rs:350`). `Transaction` does fall
   back to ROLLBACK.
2. `series_null`. A NULL argument sets the range to 1..0, which is empty upwards;
   downwards the first value is `0 - (-1 % step)`, which is 1 for every step above
   one, and a row is returned (`vtab/series.rs:230` against the comment at 220).
3. `rollback_hook_at_close`. `InnerConnection::close` leaves the rollback hook
   installed; `sqlite3_close` destroys the client data, and with it the closure, before
   it rolls back an open transaction and calls the hook (`inner_connection.rs:125`).

Met while modelling, and visible in the models under other constants or as
guards of the properties:

* a `Rows` that is forgotten, see StatementCache above;
* a savepoint dropped with `Ignore` inside one of the same default name is what the
  outer one then releases (`transaction.rs:265`; `Aligned` is stated for scopes that
  were not abandoned);
* after a statement has rolled the transaction back, its `Transaction` object goes on
  in autocommit mode, and what follows is not undone (`transaction.rs:221`; variable
  `lost`);
* `finish` with `DropBehavior::Panic` panics, and so does the destructor that follows:
  the process aborts (`transaction.rs:215`);
* `interrupt` does nothing on a connection made by `from_handle`
  (`inner_connection.rs:35` against `lib.rs:1356`; `InterruptStopsQuery` says "owned");
* the debug assertions of `raw_read_at` fail for buffers longer than `i32::MAX`
  (`blob/pos_io.rs:148` against the comment at 146);
* if memory runs out in `sqlite3_set_clientdata` the new hook is installed and its
  closure freed (`inner_connection.rs:360`; failure `nomem`, excluded from
  `PointersLive`);
* `StepResult::Locked` cannot come from a write in progress on the source connection,
  which is what its documentation says (`backup.rs:156`): `sqlite3_backup_step` returns
  SQLITE_BUSY for that (`sqlite3.c:85167`); `run_to_completion` takes both for a reason to
  go on, and goes on for ever while its own source connection is in a write transaction;
* `restore` counts refused steps in all, not in a row (`backup.rs:120`);
* a table created in a transaction gets `commit` or `rollback` without `begin`;
* `deserialize_read_exact` leaks its buffer when the reader fails, `deserialize` when the
  schema's name is refused (`serialize.rs:133`; variable `leaked`);
* a step of an aggregate may use `get_or_create_aux`, but SQLite discards nothing
  after a step: for an argument that changes from row to row it returns what was made for the
  first row (`functions.rs:201`; SQLite's documentation speaks of "(non-aggregate) SQL
  functions", and `AuxFresh` of scalar ones);
* a name with a NUL byte leaks the closure of `create_*_function` and
  `create_collation` (`functions.rs:623`, `collation.rs:101`; variable `leaked`).

## 4. What is proved

For all values of the constants that satisfy the ASSUMEs of the module.

| module | theorem | says |
|---|---|---|
| `StatementCache_proofs` | `TypeCorrect`, `Ownership`, `CacheMap`, `Bounded`, `CurrentRow`, `CleanClose` | `[]` of `TypeOK`, `OneOwner`, `CacheIsAMap`, `CacheBounded`, `RowIsCurrent`, `CloseIsClean` |
| | `CleanCache`, `OldestFirst` | `[]CachedIsClean`, `EvictsOldest` |
| | `CacheIsTransparent` | `Spec => ImplementsFresh`: StatementCache implements FreshStatements |
| `Transaction_proofs` | `TypeCorrect` | `[]TypeOK` |
| | `RollsBackByDefault`, `AllOrNothing`, `OnlyTheOutermostIsDurable` | `DropRestores`, `CommitAllOrNothing`, `DurableAtTheEnd` |
| | `ScopesAreAligned`, `NothingLeftOpen` | `[]Aligned`, `[]EndsClosed`, both if `"sp" \notin Busy` |
| `Threads_proofs` | `TypeCorrect`, `CallbackSafe`, `WakeupSafe`, `DeadlockFree` | `[]` of `TypeOK`, `CallbackOnLive`, `NoLostWakeup`, `NoWaitCycle`, for UnlockNotify |
| | `HandleTypeCorrect`, `InterruptSafe`, `AssertionHolds` | `[]` of `HTypeOK`, `NoInterruptOfClosed`, `CloseAssertion`, for Interrupt |
| `Blob_proofs` | `TypeCorrect`, `NoOverrun`, `ExactCasts` | `[]` of `TypeOK`, `BufferSafe`, `CastsExact` |
| | `BlobIsAFile` | `Spec => ImplementsFile`: Blob implements BlobFile |
| `Series_proofs` | `TypeCorrect`, `RowsInTurn` | `[]` of `TypeOK`, `InSeries` (the i-th row is the i-th member) |
| | `EachMemberOnce`, `PromisedOrder` | `[]` of `RowsMatch`, `OrderHonoured` |
| `VirtualTable_proofs` | `TypeCorrect`, `BoxesFreedOnce` | `[]` of `TypeOK`, `EachBoxOnce`, for Callbacks alone |
| | `NoDanglingPointer` | `[]PointersLive` if `"nomem" \notin Failures`, for Callbacks alone |
| | `VTypeCorrect`, `ObjectsFreedOnce`, `CursorsSafe` | `[]` of `VTypeOK`, `EachBoxOnce`, `CursorsLive` |
| | `NoDanglingObject` | `[]PointersLive` if `"nomem" \notin Failures` |
| `FunctionCalls_proofs` | `TypeCorrect`, `AccumulatorsOnce`, `InverseSafe`, `GivenCorrect`, `AuxiliaryFresh`, `AuxiliaryLive` | `[]` of `FTypeOK`, `AccOnce`, `NoNullDeref`, `GivenRight`, `AuxFresh`, `AuxLive` |
| `Backup_proofs` | `TypeCorrect`, `CopiedPages` | `[]` of `TypeOK`, `Copied` |
| | `BackupIsSnapshot` | `Spec => Promise!Spec`: Backup implements Snapshot |

Where a type invariant is proved it has no run of its own.

Each file proves an inductive invariant (`IInv`, in Transaction `Inv`, for
Interrupt `HInv`), one lemma per
action or group of actions, and derives the theorems.

* StatementCache: `OneOwner` needs to know that an entry is stored under the key it
  was compiled from (`CacheIsAMap`), otherwise a replacement could finalize a
  foreign statement; that a held `CachedStatement` has its key (`CachedHasKey`, which is
  the `debug_assert` of `cache_stmt`); and that a `Rows` borrows only a held statement
  (`RowsBorrow`). Facts about removing from, appending to and shrinking a sequence are
  lemmas. `CleanCache` adds that a statement without `Rows` is reset unless the
  application forgets `Rows`. For `OldestFirst`, an insertion and `set_capacity` leave a
  suffix of the list. For `CacheIsTransparent`, a hit must look like a preparation,
  which is what `CachedIsClean` and `CacheIsAMap` say of the entry that is taken; every
  other step either is a call of FreshStatements or touches only statements nobody holds.
* Transaction: two invariants. `Tracked`: unless a statement rolled the transaction back,
  there is an increasing map that gives every live Savepoint a savepoint of its name and
  contents in SQLite, with abandoned ones possibly in between, and a live Transaction is the
  outermost scope and restores what is on disk. It holds for all constants, because the
  end of a scope, up to five commands, only ever releases or rolls back to the most recent
  savepoint of its name, and that lies at or above the scope's own (`Pending`, `Released`).
  If no abandoned one shadows it, the two are equal: the savepoints of that name are as
  many as the scopes of that name, so the map is onto them (`OwnSavepoint`).
  `NotCommitted` says that a live scope is not marked, `CurIsDisk` that outside a
  transaction the contents are those on disk. `Held`: while nothing was abandoned, SQLite has
  open exactly what the innermost scopes opened. It fails if the RELEASE of the outermost
  savepoint can be refused, hence the hypothesis `"sp" \notin Busy`; the run
  `savepoint_busy_drop` is the counterexample without it. That the COMMIT of a Transaction is
  refused or fails is included.
* Interrupt: the lock is held exactly by the thread that is past its acquisition
  (`LockHeld`), `sqlite3_close` runs under it (`CloseLocked`), and the shared copy is set
  only while the object is owned and not closed, and as long as an owned connection has
  its own copy (`SharedTracks`).
* UnlockNotify: who holds the static mutex and the notification's mutex (`MainHeld`,
  `MutexHeld`), every pointer SQLite or the callback holds refers to a waiting frame
  (`Pointers`), a waiter whose flag is not set is still known to SQLite or to the
  callback (`Waited`), and the relation waits-for has no cycle. The last is preserved
  because registration is refused when the blocker already leads back to the waiter.
* Blob: on a handle that is not aborted the position is inside the blob (`PosInside`),
  and while SQLite has not noticed a change of the row the size in the handle is the length of
  that row (`SizeCurrent`). The casts are treated in lemmas for integers of any width:
  they stay in their type, are exact on what fits, and never increase a number that is not
  negative, which is why even a length computed from an aborted handle stays within
  the buffer. The refinement has one lemma per method.
* Series: for integers of any width and every query whose sums stay inside i64 (`InI64`,
  which also leaves out the step -2^63, that has no absolute value). The plan's flags say
  what the query says (`Planned`), `filter` takes the range, the step and the direction from
  them (`Scanned`), and rows are read only from then on until `eof` (`ReadInScan`). The
  order needs no multiplication: the value to be read next lies beyond the last one
  (`InOrder`), also if there is a NULL or the range is empty. For the rows, the i-th one is
  the i-th member from the end where the scan starts, and the cursor stands on the one
  after (`InSeries`). A descending scan starts at the largest member, which `filter` finds with
  a remainder (`FirstDownFacts`); that no sum wraps is `WrapFacts`, and `Division` and
  `Multiples` are about a step that is not a constant, for which the solver has no
  arithmetic of its own. At the end the cursor is out of the range, so that a member not
  read would be further on than all that were; reading is then a bijection from the
  positions to the members, hence there are as many rows.
* Callbacks: a box is in one entry at most (`OneEntry`) and made boxes are owned, freed
  once or leaked, exclusively (`Account`). `NoDanglingPointer` adds that a callback's
  argument is the client data of its own name (`HookOwned`).
* VirtualTable: the invariant of Callbacks, and that an open cursor and its table hold their
  boxes and a statement keeps the table (`CursorHeld`), that no cursor is open once the
  connection is being closed (`NoneWhenClosed`), and that a table somebody refers to is not
  reused (`TableKept`). The steps of Callbacks are taken over from its proof.
* Aggregates and FunctionCalls: a context with a pointer owns a live accumulator alone, and that has counted
  exactly the rows of the invocation (`Owned`); an accumulator in no context was dropped
  once (`Settled`). That a failed init leaves a null pointer does no harm to inverse
  because the row is not counted. An `Arc` counts its owners (`Counted`), and an entry for
  an argument that is not constant exists only during the call that made it, because making
  it is what sets `isError` and with it the discarding on return (`Fresh`).
* Backup: what the source connection sees agrees with what is committed as far as it has
  looked (`View`), a backup that has copied pages and has not ended is attached to
  the source, so that it is told
  of changes (`Attached`), every page that counts as copied is right (`Copied`), and a
  backup is done only if `Done` was returned (`DoneKnown`). The step that copies the last page then makes
  the destination equal to the source, which is Snapshot's `Copy`; all other steps leave
  the destination alone.

Only model-checked: the liveness properties (`InterruptStopsQuery`, `CallsComplete`,
`WaitEnds`, `SelfLockReturns`, `Ends`, `RunCompletes`, `CallsEnd`), which are out of reach of
the proof system. Every invariant, action property and refinement that a passing run checks
has a theorem; `Aligned`, `EndsClosed` and `PointersLive` under the hypotheses in the table.

## 5. Plan

Done, in this order: StatementCache, Transaction, Interrupt, UnlockNotify, Blob,
Series, Callbacks, Aggregates, Backup with Snapshot, VirtualTable with the buffers of
`deserialize`, FunctionCalls, and the proofs listed in section 4.

Left to be modelled, the most important first:

1. Parameters and values in one module: positional and named binding with the name
   cache, partial failure, `Row::get`, integer widths and storage classes, i128.
   A value that is read is the value that was bound, or an error.
2. Sessions: lifetimes of iterators and items.

No safety property that a passing run checks is without a proof; the modules above are to
bring their own.

### Not modelled

* Dates, URLs and JSON in `types/`: formatting and parsing by other crates.
* Errors, configuration, limits, pragmas, extension loading: calls that forward to
  SQLite and keep no state of their own; the models keep their success or failure where a
  handler depends on it.
* array, csv and vtablog: what they return is data of other crates or of the
  application; the life of their tables and cursors is VirtualTable's.
* `rusqlite-macros`: compile time only.
* The vendored SQLite (nearly all of the C code of the repository) beyond what rusqlite relies on:
  the SQL compiler, the b-tree, the pager and the operating system layer are a program of
  their own. The parts that decide what rusqlite's code may do are modelled where they
  matter: the statement life cycle, transaction commands, close, interrupt, shared-cache locks and
  unlock notification, blob handles, hooks and client data, references to modules and
  tables, aggregate contexts and auxiliary data, and the backup object with the pager's calls to it.

## 6. Running

    tlc -config MCStatementCache.cfg MCStatementCache      # and so on for each .cfg
    tlapm StatementCache_proofs.tla                        # and the other *_proofs

`PROJECT.json` pairs every run with its module and configuration.
