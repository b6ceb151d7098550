----------------------------- MODULE Interrupt -----------------------------
(***************************************************************************)
(* InterruptHandle against Connection::close (lib.rs, inner_connection.rs).*)
(* The thread that owns the connection runs queries and closes it; other   *)
(* threads hold InterruptHandles.  interrupt_lock protects a copy of the   *)
(* sqlite3 pointer, not the connection: a query runs without it.           *)
(*                                                                         *)
(* The prefix H lets one module of proofs extend this one and UnlockNotify.*)
(***************************************************************************)
EXTENDS Integers

CONSTANTS
    Interrupter,     \* threads that hold an InterruptHandle
    Owner,           \* the thread that uses the connection
    Nobody,          \* the lock is free
    Ownership,       \* values InnerConnection::owned is tried with
    MaxInterrupts,   \* bound on the calls of interrupt per thread
    MaxCloses        \* bound on the attempts to close

ASSUME ThreadAssumption == Owner \notin Interrupter /\ Nobody \notin Interrupter \cup {Owner}
ASSUME OwnershipAssumption == Ownership \subseteq BOOLEAN
ASSUME BoundAssumption == MaxInterrupts \in Nat /\ MaxCloses \in Nat

VARIABLES
    owned,      \* InnerConnection::owned
    db,         \* InnerConnection::db: "ptr" or "null"
    shared,     \* the copy under interrupt_lock: "ptr" or "null"
    lock,       \* holder of interrupt_lock
    sqlite,     \* the sqlite3 object: "open", "closing" (inside sqlite3_close), "closed"
    isInterrupted, \* SQLite's interrupt flag
    unfinished, \* a statement, blob or backup is unfinished: sqlite3_close refuses
    owner,      \* the owning thread: "idle", "query", "close" (wants the lock), "locked", "gone"
    intr,       \* each handle: "idle", "waiting", "locked", "calling" (inside sqlite3_interrupt)
    left,       \* calls of interrupt each thread has left
    closes      \* attempts to close left

hvars == <<owned, db, shared, lock, sqlite, isInterrupted, unfinished, owner, intr, left, closes>>

HTypeOK ==
    /\ owned \in BOOLEAN
    /\ db \in {"ptr", "null"} /\ shared \in {"ptr", "null"}
    /\ lock \in Interrupter \cup {Owner, Nobody}
    /\ sqlite \in {"open", "closing", "closed"}
    /\ isInterrupted \in BOOLEAN /\ unfinished \in BOOLEAN
    /\ owner \in {"idle", "query", "close", "locked", "gone"}
    /\ intr \in [Interrupter -> {"idle", "waiting", "locked", "calling"}]
    /\ left \in [Interrupter -> 0..MaxInterrupts]
    /\ closes \in 0..MaxCloses

\* InnerConnection::new.
HInit ==
    /\ owned \in Ownership
    /\ db = "ptr"
    /\ shared = IF owned THEN "ptr" ELSE "null"
    /\ lock = Nobody
    /\ sqlite = "open"
    /\ isInterrupted = FALSE /\ unfinished = FALSE
    /\ owner = "idle"
    /\ intr = [i \in Interrupter |-> "idle"]
    /\ left = [i \in Interrupter |-> MaxInterrupts]
    /\ closes = MaxCloses

-----------------------------------------------------------------------------
(* The owning thread.                                                      *)

\* RawStatement::step.  sqlite3_step clears the interrupt flag unless another
\* statement is active.
StartQuery ==
    /\ owner = "idle" /\ db = "ptr"
    /\ owner' = "query"
    /\ isInterrupted' \in IF unfinished THEN {FALSE, isInterrupted} ELSE {FALSE}
    /\ UNCHANGED <<owned, db, shared, lock, sqlite, unfinished, intr, left, closes>>

\* The query ends by itself; nothing says it ever does.
QueryEnds ==
    /\ owner = "query"
    /\ owner' = "idle"
    /\ UNCHANGED <<owned, db, shared, lock, sqlite, isInterrupted, unfinished, intr, left, closes>>

\* SQLite notices the flag: SQLITE_INTERRUPT.
QueryInterrupted ==
    /\ owner = "query" /\ isInterrupted
    /\ owner' = "idle"
    /\ UNCHANGED <<owned, db, shared, lock, sqlite, isInterrupted, unfinished, intr, left, closes>>

\* A statement, blob or backup is left unfinished, or finished after all.
LeaveUnfinished ==
    /\ owner = "idle" /\ db = "ptr"
    /\ unfinished' = ~unfinished
    /\ UNCHANGED <<owned, db, shared, lock, sqlite, isInterrupted, owner, intr, left, closes>>

\* InnerConnection::close, up to interrupt_lock.lock(); with a null db it
\* returns at once.
CloseStart ==
    /\ owner = "idle" /\ db = "ptr" /\ closes > 0
    /\ owner' = "close"
    /\ closes' = closes - 1
    /\ UNCHANGED <<owned, db, shared, lock, sqlite, isInterrupted, unfinished, intr, left>>

CloseLock ==
    /\ owner = "close" /\ lock = Nobody
    /\ lock' = Owner
    /\ owner' = "locked"
    /\ UNCHANGED <<owned, db, shared, sqlite, isInterrupted, unfinished, intr, left, closes>>

\* A borrowed handle is only forgotten.
CloseBorrowed ==
    /\ owner = "locked" /\ ~owned
    /\ db' = "null" /\ lock' = Nobody /\ owner' = "gone"
    /\ UNCHANGED <<owned, shared, sqlite, isInterrupted, unfinished, intr, left, closes>>

\* sqlite3_close runs ...
CloseCall ==
    /\ owner = "locked" /\ owned /\ sqlite = "open"
    /\ sqlite' = "closing"
    /\ UNCHANGED <<owned, db, shared, lock, isInterrupted, unfinished, owner, intr, left, closes>>

\* ... and succeeds: both copies of the pointer are cleared under the lock.
CloseOk ==
    /\ owner = "locked" /\ sqlite = "closing" /\ ~unfinished
    /\ sqlite' = "closed" /\ shared' = "null" /\ db' = "null"
    /\ lock' = Nobody /\ owner' = "gone"
    /\ UNCHANGED <<owned, isInterrupted, unfinished, intr, left, closes>>

\* Mutation of CloseBusy: the shared copy is cleared although the close failed.
CloseBusyClears(next) ==
    /\ owner = "locked" /\ sqlite = "closing" /\ unfinished
    /\ sqlite' = "open" /\ shared' = "null"
    /\ lock' = Nobody /\ owner' = next
    /\ UNCHANGED <<owned, db, isInterrupted, unfinished, intr, left, closes>>

\* Mutation of CloseBusy: the error return keeps the lock.
CloseBusyHolds(next) ==
    /\ owner = "locked" /\ sqlite = "closing" /\ unfinished
    /\ sqlite' = "open" /\ owner' = next
    /\ UNCHANGED <<owned, db, shared, lock, isInterrupted, unfinished, intr, left, closes>>

\* ... or answers SQLITE_BUSY: nothing is cleared.  Connection::close hands the
\* connection back ("idle"), its destructor gives up ("gone").
CloseBusy(next) ==
    /\ owner = "locked" /\ sqlite = "closing" /\ unfinished
    /\ sqlite' = "open"
    /\ lock' = Nobody /\ owner' = next
    /\ UNCHANGED <<owned, db, shared, isInterrupted, unfinished, intr, left, closes>>

\* The code that lent a handle to Connection::from_handle closes it, once the
\* Connection is gone.  It does not take interrupt_lock.
LenderCloses ==
    /\ ~owned /\ owner = "gone" /\ sqlite = "open"
    /\ sqlite' = "closed"
    /\ UNCHANGED <<owned, db, shared, lock, isInterrupted, unfinished, owner, intr, left, closes>>

-----------------------------------------------------------------------------
(* InterruptHandle::interrupt.                                             *)

Interrupt(i) ==
    /\ intr[i] = "idle" /\ left[i] > 0
    /\ intr' = [intr EXCEPT ![i] = "waiting"]
    /\ left' = [left EXCEPT ![i] = @ - 1]
    /\ UNCHANGED <<owned, db, shared, lock, sqlite, isInterrupted, unfinished, owner, closes>>

InterruptLock(i) ==
    /\ intr[i] = "waiting" /\ lock = Nobody
    /\ lock' = i
    /\ intr' = [intr EXCEPT ![i] = "locked"]
    /\ UNCHANGED <<owned, db, shared, sqlite, isInterrupted, unfinished, owner, left, closes>>

InterruptNull(i) ==
    /\ intr[i] = "locked" /\ shared = "null"
    /\ lock' = Nobody
    /\ intr' = [intr EXCEPT ![i] = "idle"]
    /\ UNCHANGED <<owned, db, shared, sqlite, isInterrupted, unfinished, owner, left, closes>>

\* Mutation of InterruptCall: the guard is dropped before sqlite3_interrupt.
InterruptCallUnlocked(i) ==
    /\ intr[i] = "locked" /\ shared = "ptr"
    /\ lock' = Nobody
    /\ intr' = [intr EXCEPT ![i] = "calling"]
    /\ UNCHANGED <<owned, db, shared, sqlite, isInterrupted, unfinished, owner, left, closes>>

\* sqlite3_interrupt runs while the guard is held ...
InterruptCall(i) ==
    /\ intr[i] = "locked" /\ shared = "ptr"
    /\ intr' = [intr EXCEPT ![i] = "calling"]
    /\ UNCHANGED <<owned, db, shared, lock, sqlite, isInterrupted, unfinished, owner, left, closes>>

\* ... and sets the flag.
InterruptReturns(i) ==
    /\ intr[i] = "calling"
    /\ isInterrupted' = TRUE
    /\ lock' = IF lock = i THEN Nobody ELSE lock
    /\ intr' = [intr EXCEPT ![i] = "idle"]
    /\ UNCHANGED <<owned, db, shared, sqlite, unfinished, owner, left, closes>>

-----------------------------------------------------------------------------
CloseSteps == CloseLock \/ CloseBorrowed \/ CloseCall \/ CloseOk \/ \E n \in {"idle", "gone"} : CloseBusy(n)
InterruptSteps(i) == InterruptLock(i) \/ InterruptNull(i) \/ InterruptCall(i) \/ InterruptReturns(i)

HNext ==
    \/ StartQuery \/ QueryEnds \/ QueryInterrupted \/ LeaveUnfinished
    \/ CloseStart \/ CloseSteps \/ LenderCloses
    \/ \E i \in Interrupter : Interrupt(i) \/ InterruptSteps(i)

HSpec == HInit /\ [][HNext]_hvars

\* A thread inside a call is scheduled, and SQLite polls the flag while a query
\* runs.  Queries need not end, nobody has to call interrupt or close.
HFairSpec ==
    /\ HSpec
    /\ WF_hvars(QueryInterrupted)
    /\ WF_hvars(CloseSteps)
    /\ \A i \in Interrupter : WF_hvars(InterruptSteps(i))

-----------------------------------------------------------------------------
(* What the code promises.                                                 *)

\* "It's unsafe to call `sqlite3_close` while another thread is performing a
\* `sqlite3_interrupt`, and vice versa" (inner_connection.rs:17): no thread is
\* inside sqlite3_interrupt while the object is being closed or is closed.
NoInterruptOfClosed == \A i \in Interrupter : intr[i] = "calling" => sqlite = "open"

\* "Somehow interrupt_lock was cleared before the DB was closed"
\* (inner_connection.rs:116): the assertion in close never fails, also when an
\* earlier close was refused and the connection was closed again.
CloseAssertion == owner = "locked" /\ sqlite = "open" => ~owned \/ shared = "ptr"

\* "Interrupt the query currently executing on another thread. This will cause
\* that query to fail" (lib.rs:1356): on a connection that is not borrowed, a call
\* of interrupt during a query ends it, however long it would run, also after a
\* close was refused.
InterruptStopsQuery ==
    \A i \in Interrupter : owned /\ intr[i] = "waiting" /\ owner = "query" ~> owner # "query"

\* Neither a query nor a refused close blocks a call of interrupt for good ("a
\* long-running query would prevent calling interrupt"), and close returns, with
\* success or SQLITE_BUSY, whatever the handles do.
CallsComplete ==
    /\ \A i \in Interrupter : intr[i] = "waiting" ~> intr[i] = "idle"
    /\ owner = "close" ~> owner \in {"idle", "gone"}

=============================================================================
