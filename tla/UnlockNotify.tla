---------------------------- MODULE UnlockNotify ----------------------------
(***************************************************************************)
(* The feature unlock_notify: connections to one shared cache, each used   *)
(* by its own thread inside transactions.  RawStatement::step and          *)
(* InnerConnection::prepare wait until the connection that blocks them     *)
(* ends its transaction, and retry.  The UnlockNotification lives in the   *)
(* waiting thread's stack frame and is signalled by another thread.        *)
(***************************************************************************)
EXTENDS Integers, FiniteSets

CONSTANTS
    Conn,      \* connections, one thread each
    Table,     \* tables of the shared cache
    Schema,    \* page 1, the schema table
    None,
    Mode,      \* what the operations do to a table
    MaxOps     \* bound on the operations of a transaction

ASSUME ConnAssumption == None \notin Conn
ASSUME SchemaAssumption == Schema \notin Table
ASSUME OpsAssumption == MaxOps \in Nat
ASSUME ModeAssumption == Mode \subseteq {"read", "write", "drop"}

Op == [table : Table, mode : Mode]
Page == Table \cup {Schema}

VARIABLES
    locks,    \* SQLite: table locks of each connection, until its transaction ends
    writer,   \* SQLite: the connection with the write transaction (pWriter)
    pending,  \* SQLite: BTS_PENDING, a writer waits for readers
    block,    \* SQLite: pBlockingConnection
    unlock,   \* SQLite: pUnlockConnection, set while a callback is registered
    main,     \* SQLite: holder of the STATIC_MAIN mutex
    fire,     \* arguments unlock_notify_cb has still to serve
    cur, cb,  \* the UnlockNotification it is serving and where it is in fired
    mutex,    \* holder of each UnlockNotification's mutex
    flag,     \* the Boolean that mutex protects
    pc,       \* where each thread is
    op,       \* the operation it is trying
    ops       \* operations left in its transaction

sqliteVars == <<locks, writer, pending, block, unlock>>
cbVars == <<main, fire, cur, cb>>
unVars == <<mutex, flag>>
vars == <<sqliteVars, cbVars, unVars, pc, op, ops>>

PC == {"app", "step", "notify", "self", "wait", "test", "sleep", "end", "unlocked"}

TypeOK ==
    /\ locks \in [Conn -> [Page -> {"none", "read", "write"}]]
    /\ writer \in Conn \cup {None}
    /\ pending \in BOOLEAN
    /\ block \in [Conn -> Conn \cup {None}]
    /\ unlock \in [Conn -> Conn \cup {None}]
    /\ main \in Conn \cup {None}
    /\ fire \in SUBSET Conn
    /\ cur \in Conn \cup {None}
    /\ cb \in {"none", "lock", "set", "drop"}
    /\ mutex \in [Conn -> Conn \cup {None}]
    /\ flag \in [Conn -> BOOLEAN]
    /\ pc \in [Conn -> PC]
    /\ op \in [Conn -> Op \cup {None}]
    /\ ops \in [Conn -> 0..MaxOps]

Init ==
    /\ locks = [c \in Conn |-> [t \in Page |-> "none"]]
    /\ writer = None /\ pending = FALSE
    /\ block = [c \in Conn |-> None] /\ unlock = [c \in Conn |-> None]
    /\ main = None /\ fire = {} /\ cur = None /\ cb = "none"
    /\ mutex = [c \in Conn |-> None] /\ flag = [c \in Conn |-> FALSE]
    /\ pc = [c \in Conn |-> "app"]
    /\ op = [c \in Conn |-> None]
    /\ ops = [c \in Conn |-> MaxOps]

-----------------------------------------------------------------------------
(* SQLite's shared-cache locks.                                            *)

Writes(o) == o.mode # "read"

\* A transaction holds at least a read lock on page 1.
InTransaction(c) == locks[c][Schema] # "none"

\* Why c cannot begin the transaction o needs: another writer, which for a reader
\* is in the way while it waits for readers to leave or changes the schema.
BlockedAtBegin(c, o) ==
    {d \in Conn \ {c} :
        /\ d = writer
        /\ Writes(o) \/ (~InTransaction(c) /\ (pending \/ locks[d][Schema] = "write"))}

\* The lock o takes when the transaction has begun; DROP TABLE writes the schema.
Target(o) == IF o.mode = "drop" THEN Schema ELSE o.table

\* Who holds a lock that conflicts with it.
BlockedAtTable(c, o) ==
    {d \in Conn \ {c} : locks[d][Target(o)] \in (IF Writes(o) THEN {"read", "write"} ELSE {"write"})}

\* DROP TABLE under one's own open SELECT: plain SQLITE_LOCKED, nobody to wait for.
LockedBySelf(c, o) == o.mode = "drop" /\ \E t \in Table : locks[c][t] = "read"

\* The lock of c on page p once the transaction has begun, and when o has all it needs.
Begun(c, p) == IF p = Schema /\ ~InTransaction(c) THEN "read" ELSE locks[c][p]
Granted(c, o, p) ==
    IF p # Target(o) THEN Begun(c, p)
    ELSE IF Writes(o) THEN "write" ELSE IF locks[c][p] = "none" THEN "read" ELSE locks[c][p]

\* sqlite3_unlock_notify's search: from b along pUnlockConnection to c.
Leads(b, c) ==
    \A S \in SUBSET Conn :
        (b \in S /\ \A x \in S : unlock[x] = None \/ unlock[x] \in S) => c \in S

-----------------------------------------------------------------------------
(* RawStatement::step and InnerConnection::prepare: the loop around        *)
(* sqlite3_step or sqlite3_prepare_v3.                                     *)

Execute(c, o) ==
    /\ pc[c] = "app" /\ ops[c] > 0
    /\ op' = [op EXCEPT ![c] = o]
    /\ ops' = [ops EXCEPT ![c] = @ - 1]
    /\ pc' = [pc EXCEPT ![c] = "step"]
    /\ UNCHANGED <<sqliteVars, cbVars, unVars>>

Return(c) ==
    /\ pc' = [pc EXCEPT ![c] = "app"]
    /\ op' = [op EXCEPT ![c] = None]

\* Nobody else is in the way of c: it begins and gets its locks.
Proceeds(c) ==
    /\ pc[c] = "step"
    /\ BlockedAtBegin(c, op[c]) = {} /\ BlockedAtTable(c, op[c]) = {}
    /\ locks' = [locks EXCEPT ![c] = [p \in Page |-> Granted(c, op[c], p)]]
    /\ writer' = IF Writes(op[c]) THEN c ELSE writer
    /\ UNCHANGED <<pending, block, unlock, cbVars, ops>>

\* SQLITE_OK, SQLITE_ROW or SQLITE_DONE.
StepOk(c) ==
    /\ Proceeds(c) /\ ~LockedBySelf(c, op[c])
    /\ Return(c)
    /\ UNCHANGED unVars

\* Mutation of StepLocked: is_locked looks at the primary result code only.
StepLockedAny(c) ==
    /\ Proceeds(c) /\ LockedBySelf(c, op[c])
    /\ flag' = [flag EXCEPT ![c] = FALSE]
    /\ pc' = [pc EXCEPT ![c] = "notify"]
    /\ UNCHANGED <<mutex, op>>

\* SQLITE_LOCKED that is not is_locked: returned to the caller; the transaction
\* keeps its locks.
StepLocked(c) ==
    /\ Proceeds(c) /\ LockedBySelf(c, op[c])
    /\ Return(c)
    /\ UNCHANGED unVars

\* SQLITE_LOCKED_SHAREDCACHE: SQLite notes the blocker and
\* wait_for_unlock_notify makes a new UnlockNotification.
StepBlocked(c) ==
    /\ pc[c] = "step" /\ main = None
    /\ LET o == op[c]
           begin == BlockedAtBegin(c, o)
       IN  /\ \E d \in IF begin # {} THEN begin ELSE BlockedAtTable(c, o) :
                block' = [block EXCEPT ![c] = d]
           /\ locks' = IF begin # {} THEN locks
                       ELSE [locks EXCEPT ![c] = [p \in Page |-> Begun(c, p)]]
           /\ writer' = IF begin = {} /\ Writes(o) THEN c ELSE writer
           /\ pending' = (pending \/ (begin = {} /\ Writes(o)))
    /\ flag' = [flag EXCEPT ![c] = FALSE]
    /\ pc' = [pc EXCEPT ![c] = "notify"]
    /\ UNCHANGED <<unlock, cbVars, mutex, op, ops>>

-----------------------------------------------------------------------------
(* wait_for_unlock_notify.                                                 *)

\* The blocker is gone already: SQLite runs the callback before it returns.
NotifyNow(c) ==
    /\ pc[c] = "notify" /\ main = None /\ block[c] = None
    /\ main' = c /\ fire' = {c}
    /\ pc' = [pc EXCEPT ![c] = "self"]
    /\ UNCHANGED <<sqliteVars, cur, cb, unVars, op, ops>>

\* Mutation of NotifyDeadlock: waits although the callback was refused.
NotifyDeadlockWaits(c) ==
    /\ pc[c] = "notify" /\ main = None /\ block[c] # None /\ Leads(block[c], c)
    /\ pc' = [pc EXCEPT ![c] = "wait"]
    /\ UNCHANGED <<sqliteVars, cbVars, unVars, op, ops>>

\* SQLITE_LOCKED: to wait would be a deadlock, the caller gets the error.
NotifyDeadlock(c) ==
    /\ pc[c] = "notify" /\ main = None /\ block[c] # None /\ Leads(block[c], c)
    /\ Return(c)
    /\ UNCHANGED <<sqliteVars, cbVars, unVars, ops>>

\* Mutation of NotifyLater: no deadlock detection.
NotifyLaterAlways(c) ==
    /\ pc[c] = "notify" /\ main = None /\ block[c] # None
    /\ unlock' = [unlock EXCEPT ![c] = block[c]]
    /\ pc' = [pc EXCEPT ![c] = "wait"]
    /\ UNCHANGED <<locks, writer, pending, block, cbVars, unVars, op, ops>>

\* SQLITE_OK: the callback is registered with the frame's address.
NotifyLater(c) ==
    /\ pc[c] = "notify" /\ main = None /\ block[c] # None /\ ~Leads(block[c], c)
    /\ unlock' = [unlock EXCEPT ![c] = block[c]]
    /\ pc' = [pc EXCEPT ![c] = "wait"]
    /\ UNCHANGED <<locks, writer, pending, block, cbVars, unVars, op, ops>>

\* UnlockNotification::wait takes the mutex, first or after a wake-up.
WaitLock(c) ==
    /\ pc[c] = "wait" /\ mutex[c] = None
    /\ mutex' = [mutex EXCEPT ![c] = c]
    /\ pc' = [pc EXCEPT ![c] = "test"]
    /\ UNCHANGED <<sqliteVars, cbVars, flag, op, ops>>

\* Condvar::wait releases the mutex and sleeps in one step.
WaitSleep(c) ==
    /\ pc[c] = "test" /\ ~flag[c]
    /\ mutex' = [mutex EXCEPT ![c] = None]
    /\ pc' = [pc EXCEPT ![c] = "sleep"]
    /\ UNCHANGED <<sqliteVars, cbVars, flag, op, ops>>

\* A condition variable may wake up for no reason; the loop tests again.
WakeSpurious(c) ==
    /\ pc[c] = "sleep"
    /\ pc' = [pc EXCEPT ![c] = "wait"]
    /\ UNCHANGED <<sqliteVars, cbVars, unVars, op, ops>>

\* wait returns, the frame is gone, the statement is reset and tried again.
Retry(c) ==
    /\ pc[c] = "test" /\ flag[c]
    /\ mutex' = [mutex EXCEPT ![c] = None]
    /\ pc' = [pc EXCEPT ![c] = "step"]
    /\ UNCHANGED <<sqliteVars, cbVars, flag, op, ops>>

-----------------------------------------------------------------------------
(* The end of a transaction: SQLite releases the locks, then runs          *)
(* sqlite3ConnectionUnlocked under STATIC_MAIN.                            *)

EndTransaction(c) ==
    /\ pc[c] = "app" /\ (InTransaction(c) \/ ops[c] < MaxOps)
    /\ locks' = [locks EXCEPT ![c] = [t \in Page |-> "none"]]
    /\ writer' = IF writer = c THEN None ELSE writer
    /\ pending' = (pending /\ writer # c
                    /\ \E d \in Conn \ {c, writer} : InTransaction(d))
    /\ ops' = [ops EXCEPT ![c] = MaxOps]
    /\ pc' = [pc EXCEPT ![c] = "end"]
    /\ UNCHANGED <<block, unlock, cbVars, unVars, op>>

ConnectionUnlocked(c) ==
    /\ pc[c] = "end" /\ main = None
    /\ LET args == {x \in Conn : unlock[x] = c}
       IN  /\ fire' = args
           /\ main' = IF args = {} THEN None ELSE c
           /\ pc' = [pc EXCEPT ![c] = IF args = {} THEN "app" ELSE "unlocked"]
    /\ block' = [x \in Conn |-> IF block[x] = c THEN None ELSE block[x]]
    /\ unlock' = [x \in Conn |-> IF unlock[x] = c THEN None ELSE unlock[x]]
    /\ UNCHANGED <<locks, writer, pending, cur, cb, unVars, op, ops>>

-----------------------------------------------------------------------------
(* unlock_notify_cb, on the thread that holds STATIC_MAIN.                 *)

Callback(c, x) ==
    /\ main = c /\ cb = "none" /\ x \in fire
    /\ cur' = x /\ cb' = "lock"
    /\ fire' = fire \ {x}
    /\ UNCHANGED <<sqliteVars, main, unVars, pc, op, ops>>

FiredLock(c) ==
    /\ main = c /\ cb = "lock" /\ mutex[cur] = None
    /\ mutex' = [mutex EXCEPT ![cur] = c]
    /\ cb' = "set"
    /\ UNCHANGED <<sqliteVars, main, fire, cur, flag, pc, op, ops>>

\* Mutation of FiredSet: the guard is dropped before notify_one.
FiredSetUnlocks(c) ==
    /\ main = c /\ cb = "set"
    /\ flag' = [flag EXCEPT ![cur] = TRUE]
    /\ mutex' = [mutex EXCEPT ![cur] = None]
    /\ cb' = "drop"
    /\ UNCHANGED <<sqliteVars, main, fire, cur, pc, op, ops>>

\* Mutation of FiredSet: nobody is woken.
FiredSetQuiet(c) ==
    /\ main = c /\ cb = "set"
    /\ flag' = [flag EXCEPT ![cur] = TRUE]
    /\ cb' = "drop"
    /\ UNCHANGED <<sqliteVars, main, fire, cur, mutex, pc, op, ops>>

\* The flag is set and a sleeping waiter is woken.
FiredSet(c) ==
    /\ main = c /\ cb = "set"
    /\ flag' = [flag EXCEPT ![cur] = TRUE]
    /\ pc' = [pc EXCEPT ![cur] = IF @ = "sleep" THEN "wait" ELSE @]
    /\ cb' = "drop"
    /\ UNCHANGED <<sqliteVars, main, fire, cur, mutex, op, ops>>

\* The guard is dropped.
FiredUnlock(c) ==
    /\ main = c /\ cb = "drop"
    /\ mutex' = [mutex EXCEPT ![cur] = None]
    /\ cur' = None /\ cb' = "none"
    /\ UNCHANGED <<sqliteVars, main, fire, flag, pc, op, ops>>

\* All arguments are served: back in sqlite3_unlock_notify or in the statement
\* that ended the transaction.
CallbackDone(c) ==
    /\ main = c /\ cb = "none" /\ fire = {}
    /\ main' = None
    /\ pc' = [pc EXCEPT ![c] = IF @ = "self" THEN "wait" ELSE "app"]
    /\ UNCHANGED <<sqliteVars, fire, cur, cb, unVars, op, ops>>

-----------------------------------------------------------------------------
\* Steps inside a call: the thread goes on whenever it can.
CallSteps(c) ==
    \/ StepOk(c) \/ StepLocked(c) \/ StepBlocked(c)
    \/ NotifyNow(c) \/ NotifyDeadlock(c) \/ NotifyLater(c)
    \/ WaitLock(c) \/ WaitSleep(c) \/ Retry(c)
    \/ ConnectionUnlocked(c)
    \/ (\E x \in Conn : Callback(c, x)) \/ FiredLock(c) \/ FiredSet(c) \/ FiredUnlock(c) \/ CallbackDone(c)

Next ==
    \E c \in Conn :
        \/ \E o \in Op : Execute(c, o)
        \/ EndTransaction(c)
        \/ CallSteps(c)
        \/ WakeSpurious(c)

Spec == Init /\ [][Next]_vars

\* A thread inside a call is scheduled whenever it can go on, and endless spurious
\* wake-ups do not keep the callback from the mutex.  Nothing is assumed about the
\* application: a transaction may stay open for ever.
FairSpec == Spec /\ \A c \in Conn : WF_vars(CallSteps(c)) /\ SF_vars(FiredLock(c))

-----------------------------------------------------------------------------
(* What the code promises.                                                 *)

\* The frame of wait_for_unlock_notify that holds c's UnlockNotification.
Live(c) == pc[c] \in {"notify", "self", "wait", "test", "sleep"}

\* The callback dereferences a pointer into another thread's stack: while it
\* runs for c, and while SQLite still has the pointer, that frame exists.
CallbackOnLive ==
    \A c \in Conn : (cur = c \/ c \in fire \/ unlock[c] # None) => Live(c)

\* No wake-up is lost, however registration and the end of the blocker's
\* transaction interleave (unlock_notify.rs:76): a thread that
\* waits with its flag unset has a callback registered or about to be served.
NoLostWakeup ==
    \A c \in Conn :
        pc[c] \in {"wait", "test", "sleep"} /\ ~flag[c]
            => unlock[c] # None \/ c \in fire \/ (cur = c /\ cb \in {"lock", "set"})

\* "if sqlite3_unlock_notify() indicates that to block would deadlock the system"
\* (unlock_notify.rs:67): connections never wait for each other in a cycle.
NoWaitCycle == \A S \in SUBSET Conn : S # {} => \E c \in S : unlock[c] \notin S

\* "blocks until that callback is delivered" (unlock_notify.rs:64): once the
\* blocker has ended its transaction, the waiter wakes up and tries again.
WaitEnds ==
    \A c \in Conn : (pc[c] \in {"wait", "test", "sleep"} /\ unlock[c] = None) ~> pc[c] = "step"

\* is_locked (unlock_notify.rs:54): an operation that only its own connection
\* locks returns to the caller, it does not wait and retry for ever.
SelfLockReturns ==
    \A c \in Conn :
        [](/\ pc[c] = "step" /\ LockedBySelf(c, op[c])
           /\ [](\A d \in Conn \ {c} : ~InTransaction(d))
           => <>(pc[c] = "app"))

=============================================================================
