---------------------------- MODULE Transaction ----------------------------
(***************************************************************************)
(* Transaction and Savepoint (transaction.rs): scope objects that begin a  *)
(* transaction or a savepoint and end it when they are consumed or         *)
(* dropped, over SQLite's transaction state of one connection.             *)
(*                                                                         *)
(* The borrow checker makes live scopes a stack: opening one borrows the   *)
(* scope below it mutably.  An operation consumes the scope on top, and    *)
(* consuming includes its destructor: commit(self), rollback(self) and     *)
(* finish(self) all run finish_ once more when self is dropped.  A panic   *)
(* drops every scope from the top; a second panic meanwhile aborts.        *)
(***************************************************************************)
EXTENDS Integers, Sequences, FiniteSets

CONSTANTS
    Write,         \* changes the application makes
    Name,          \* savepoint names; Savepoint::new always uses the same one
    Behavior,      \* drop behaviors the application sets
    Root,          \* kinds of scope it opens first: a subset of {"tx", "sp"}
    MaxDepth,      \* bound on nested scopes, and on open savepoints
    ReuseNames,    \* a savepoint may have the name of one that is still open
    Busy,          \* kinds of outermost scope whose commit another connection's lock can refuse
    AutoRollback   \* a failing statement can roll the whole transaction back

ASSUME BehaviorAssumption == Behavior \subseteq {"Rollback", "Commit", "Ignore", "Panic"}
ASSUME RootAssumption == Root \subseteq {"tx", "sp"}
ASSUME BusyAssumption == Busy \subseteq {"tx", "sp"}
ASSUME DepthAssumption == MaxDepth \in Nat

VARIABLES
    db,         \* SQLite: see Db
    scopes,     \* live Transaction and Savepoint objects, innermost last
    mode,       \* "run", "unwinding" (a panic is dropping scopes), "aborted"
    abandoned,  \* a scope was dropped with Ignore or Panic while its transaction was open
    lost        \* a statement rolled the transaction back under the scopes now live

vars == <<db, scopes, mode, abandoned, lost>>

\* begun: BEGIN was executed; frames: open savepoints with the contents they
\* restore; cur: contents the connection sees; disk: committed contents; dirty:
\* the open transaction has written, so ending it needs the write lock.
Db == [begun : BOOLEAN, frames : Seq([name : Name, at : SUBSET Write]),
       cur : SUBSET Write, disk : SUBSET Write, dirty : BOOLEAN]

\* at is the contents when the scope was opened; it exists for the properties.
Scope == [kind : {"tx", "sp"}, name : Name \cup {""}, behavior : {"Rollback", "Commit", "Ignore", "Panic"},
          committed : BOOLEAN, at : SUBSET Write]

TypeOK ==
    /\ db \in Db
    /\ scopes \in Seq(Scope) /\ Len(scopes) <= MaxDepth
    /\ mode \in {"run", "unwinding", "aborted"}
    /\ abandoned \in BOOLEAN
    /\ lost \in BOOLEAN

\* Autocommit mode with contents c.
Closed(c) == [begun |-> FALSE, frames |-> <<>>, cur |-> c, disk |-> c, dirty |-> FALSE]

Init ==
    /\ db = Closed({})
    /\ scopes = <<>>
    /\ mode = "run"
    /\ abandoned = FALSE
    /\ lost = FALSE

-----------------------------------------------------------------------------
(* SQLite's side: each command maps a state to the set of its outcomes.    *)

Autocommit(d) == ~d.begun /\ d.frames = <<>>

Ok(d) == [ok |-> TRUE, db |-> d]
Err(d) == [ok |-> FALSE, db |-> d]

\* d with other savepoints and contents.
Within(d, f, c) == [begun |-> d.begun, frames |-> f, cur |-> c, disk |-> d.disk, dirty |-> d.dirty]

Committed(d) == Closed(d.cur)
RolledBack(d) == Closed(d.disk)

\* Making the contents durable may find the database locked; nothing changes then.
\* A COMMIT that fails for good, on a full disk or with an I/O error, rolls back.
\* (A RELEASE that does so stays open like one that finds the database locked.)
MakeDurable(d) ==
    LET kind == IF d.begun THEN "tx" ELSE "sp" IN
    {Ok(Committed(d))}
    \cup (IF d.dirty /\ kind \in Busy THEN {Err(d)} ELSE {})
    \cup (IF d.dirty /\ kind = "tx" /\ AutoRollback THEN {Err(RolledBack(d))} ELSE {})

Begun(d) == [begun |-> TRUE, frames |-> d.frames, cur |-> d.cur, disk |-> d.disk, dirty |-> d.dirty]
BEGIN(d) == IF Autocommit(d) THEN {Ok(Begun(d))} ELSE {Err(d)}
COMMIT(d) == IF Autocommit(d) THEN {Err(d)} ELSE MakeDurable(d)
ROLLBACK(d) == IF Autocommit(d) THEN {Err(d)} ELSE {Ok(RolledBack(d))}
SAVEPOINT(d, n) == {Ok(Within(d, Append(d.frames, [name |-> n, at |-> d.cur]), d.cur))}

\* The most recent savepoint with a name, 0 if there is none.
Named(d, n) == {i \in DOMAIN d.frames : d.frames[i].name = n}
MostRecent(d, n) ==
    IF Named(d, n) = {} THEN 0 ELSE CHOOSE i \in Named(d, n) : \A j \in Named(d, n) : j <= i

\* Releasing the savepoint that opened the transaction commits it.
RELEASE(d, n) ==
    LET i == MostRecent(d, n) IN
    IF i = 0 THEN {Err(d)}
    ELSE IF i = 1 /\ ~d.begun THEN MakeDurable(d)
    ELSE {Ok(Within(d, SubSeq(d.frames, 1, i - 1), d.cur))}

\* The savepoint itself stays open.
ROLLBACK_TO(d, n) ==
    LET i == MostRecent(d, n) IN
    IF i = 0 THEN {Err(d)}
    ELSE {Ok(Within(d, SubSeq(d.frames, 1, i), d.frames[i].at))}

-----------------------------------------------------------------------------
(* The scope objects.  An ending is the state a method leaves behind: the  *)
(* database, whether the savepoint is marked committed, a panic or not.    *)

Ending(d, c, p) == [db |-> d, committed |-> c, panic |-> p]

\* Transaction::rollback_, and commit_ or else rollback_, as finish_ runs them.
TxRollback(d) == {Ending(r.db, FALSE, FALSE) : r \in ROLLBACK(d)}
TxCommitOrRollback(d) ==
    UNION {IF r.ok THEN {Ending(r.db, FALSE, FALSE)} ELSE TxRollback(r.db) : r \in COMMIT(d)}

\* Mutation of TxFinish: dropping commits.
TxFinishCommits(s, d) ==
    IF Autocommit(d) THEN {Ending(d, FALSE, FALSE)}
    ELSE {Ending(r.db, FALSE, FALSE) : r \in COMMIT(d)}

\* Mutation of TxFinish: a failed commit is not rolled back.
TxFinishNoFallback(s, d) ==
    IF Autocommit(d) THEN {Ending(d, FALSE, FALSE)}
    ELSE [Commit   |-> {Ending(r.db, FALSE, FALSE) : r \in COMMIT(d)},
          Rollback |-> TxRollback(d),
          Ignore   |-> {Ending(d, FALSE, FALSE)},
          Panic    |-> {Ending(d, FALSE, TRUE)}][s.behavior]

\* Transaction::finish_.
TxFinish(s, d) ==
    IF Autocommit(d) THEN {Ending(d, FALSE, FALSE)}
    ELSE [Commit   |-> TxCommitOrRollback(d),
          Rollback |-> TxRollback(d),
          Ignore   |-> {Ending(d, FALSE, FALSE)},
          Panic    |-> {Ending(d, FALSE, TRUE)}][s.behavior]

\* Mutation of SpCommit: the savepoint is not marked committed.
SpCommitUnmarked(s, d) == {Ending(r.db, FALSE, FALSE) : r \in RELEASE(d, s.name)}

\* Mutation of SpCommit: the whole transaction is committed.
SpCommitAll(s, d) == {Ending(r.db, r.ok, FALSE) : r \in COMMIT(d)}

\* Savepoint::commit_.
SpCommit(s, d) == {Ending(r.db, r.ok, FALSE) : r \in RELEASE(d, s.name)}

\* Savepoint::rollback followed by commit_ if it succeeded.
SpRollbackAndCommit(s, d) ==
    UNION {IF r.ok THEN SpCommit(s, r.db) ELSE {Ending(r.db, FALSE, FALSE)} :
             r \in ROLLBACK_TO(d, s.name)}

\* Savepoint::finish_.
SpFinish(s, d) ==
    IF s.committed THEN {Ending(d, TRUE, FALSE)}
    ELSE [Commit   |-> UNION {IF e.committed THEN {e} ELSE SpRollbackAndCommit(s, e.db) : e \in SpCommit(s, d)},
          Rollback |-> SpRollbackAndCommit(s, d),
          Ignore   |-> {Ending(d, FALSE, FALSE)},
          Panic    |-> {Ending(d, FALSE, TRUE)}][s.behavior]

Finish(s, d) == IF s.kind = "tx" THEN TxFinish(s, d) ELSE SpFinish(s, d)

\* The destructor after a method that left ending e.
Dropped(s, e) == Finish([s EXCEPT !.committed = e.committed], e.db)

-----------------------------------------------------------------------------
Depth == Len(scopes)
Top == scopes[Depth]
Below == SubSeq(scopes, 1, Depth - 1)

NewScope(k, n) == [kind |-> k, name |-> n, behavior |-> "Rollback", committed |-> FALSE, at |-> db.cur]

\* Room for a scope, and the first one is of an allowed kind.
MayOpen(k) == mode = "run" /\ Depth < MaxDepth /\ (Depth = 0 => k \in Root)

\* Transaction::new_unchecked.  BEGIN fails inside an open transaction and no
\* object is made.
NewTransaction ==
    /\ MayOpen("tx")
    /\ \E r \in BEGIN(db) : r.ok /\ db' = r.db
    /\ scopes' = Append(scopes, NewScope("tx", ""))
    /\ UNCHANGED <<mode, abandoned, lost>>

\* Savepoint::with_name_; Savepoint::new_ passes the fixed name.
NewSavepoint(n) ==
    /\ MayOpen("sp")
    /\ Len(db.frames) < MaxDepth
    /\ ~ReuseNames => Named(db, n) = {}
    /\ \E r \in SAVEPOINT(db, n) : db' = r.db
    /\ scopes' = Append(scopes, NewScope("sp", n))
    /\ UNCHANGED <<mode, abandoned, lost>>

\* Transaction::set_drop_behavior and Savepoint::set_drop_behavior.
SetDropBehavior(b) ==
    /\ mode = "run" /\ Depth > 0
    /\ scopes' = [scopes EXCEPT ![Depth].behavior = b]
    /\ UNCHANGED <<db, mode, abandoned, lost>>

\* A statement that changes the database, inside a transaction or on its own.
Change(w) ==
    /\ mode = "run" /\ w \notin db.cur
    /\ db' = IF Autocommit(db)
             THEN Closed(db.cur \cup {w})
             ELSE [begun |-> db.begun, frames |-> db.frames, cur |-> db.cur \cup {w},
                   disk |-> db.disk, dirty |-> TRUE]
    /\ UNCHANGED <<scopes, mode, abandoned, lost>>

\* A statement that fails and takes the transaction with it (ON CONFLICT
\* ROLLBACK, a full disk, an I/O error); the scope objects are not told.
FailAndRollBack ==
    /\ AutoRollback /\ mode = "run" /\ ~Autocommit(db)
    /\ db' = RolledBack(db)
    /\ lost' = (scopes # <<>>)
    /\ UNCHANGED <<scopes, mode, abandoned>>

\* The scope on top is gone with ending e.  A panic while another panic is
\* unwinding aborts the process.
Leave(e) ==
    /\ db' = e.db
    /\ scopes' = Below
    /\ mode' = IF e.panic /\ mode = "unwinding" THEN "aborted"
               ELSE IF Depth = 1 THEN "run"
               ELSE IF e.panic THEN "unwinding" ELSE mode
    /\ lost' = (lost /\ Depth > 1)
    /\ abandoned' = (abandoned \/ (Top.behavior \in {"Ignore", "Panic"} /\ ~e.committed /\ ~Autocommit(e.db)))

\* commit(self) on either kind, destructor included.
Commit ==
    /\ mode = "run" /\ Depth > 0
    /\ \E e \in IF Top.kind = "tx" THEN {Ending(r.db, FALSE, FALSE) : r \in COMMIT(db)} ELSE SpCommit(Top, db) :
         \E f \in Dropped(Top, e) : Leave(f)

\* Transaction::rollback(self).
RollbackTx ==
    /\ mode = "run" /\ Depth > 0 /\ Top.kind = "tx"
    /\ \E r \in ROLLBACK(db) : \E f \in Dropped(Top, Ending(r.db, FALSE, FALSE)) : Leave(f)

\* Mutation of RollbackSp: the savepoint is released as well.
RollbackSpReleases ==
    /\ mode = "run" /\ Depth > 0 /\ Top.kind = "sp"
    /\ \E e \in SpRollbackAndCommit(Top, db) : db' = e.db
    /\ UNCHANGED <<scopes, mode, abandoned, lost>>

\* Savepoint::rollback(&mut self): the savepoint stays active.
RollbackSp ==
    /\ mode = "run" /\ Depth > 0 /\ Top.kind = "sp"
    /\ \E r \in ROLLBACK_TO(db, Top.name) : db' = r.db
    /\ UNCHANGED <<scopes, mode, abandoned, lost>>

\* The scope goes out of scope, in normal flow or because a panic unwinds.
DropTop ==
    /\ mode # "aborted" /\ Depth > 0
    /\ \E e \in Finish(Top, db) : Leave(e)

\* finish(self): finish_, then the destructor runs finish_ again; if the first
\* panics, the destructor runs while that panic unwinds.
FinishTop ==
    /\ mode = "run" /\ Depth > 0
    /\ \E e \in Finish(Top, db) : \E f \in Dropped(Top, e) :
         IF e.panic /\ f.panic
         THEN /\ db' = f.db /\ scopes' = Below /\ mode' = "aborted"
              /\ abandoned' = TRUE /\ UNCHANGED lost
         ELSE Leave(Ending(f.db, f.committed, e.panic))

\* Application code panics.
ApplicationPanics ==
    /\ mode = "run" /\ Depth > 0
    /\ mode' = "unwinding"
    /\ UNCHANGED <<db, scopes, abandoned, lost>>

Next ==
    \/ NewTransaction
    \/ \E n \in Name : NewSavepoint(n)
    \/ \E b \in Behavior : SetDropBehavior(b)
    \/ \E w \in Write : Change(w)
    \/ FailAndRollBack
    \/ DropTop \/ FinishTop \/ Commit \/ RollbackTx \/ RollbackSp \/ ApplicationPanics

Spec == Init /\ [][Next]_vars

-----------------------------------------------------------------------------
(* What the code promises.                                                 *)

\* A savepoint dropped with Ignore or Panic is still open and has the name of the
\* scope on top: SQLite finds it first.
Shadowed ==
    /\ Top.kind = "sp"
    /\ Cardinality(Named(db, Top.name)) > Cardinality({i \in DOMAIN scopes : scopes[i].kind = "sp" /\ scopes[i].name = Top.name})

\* When every scope is gone and none was abandoned, no transaction is left
\* open: "assert!(db.is_autocommit())" (transaction.rs:724, 729, 745).
EndsClosed == mode = "run" /\ scopes = <<>> /\ ~abandoned => Autocommit(db)

\* "Transactions will roll back by default" (transaction.rs:43), "Savepoints
\* will roll back by default" (transaction.rs:72): a scope dropped or finished
\* with the default behavior leaves the contents it was opened on, also when a
\* panic drops it, whatever happened in the scopes inside it, unless a
\* statement rolled its transaction back under it or a savepoint of the same
\* name was abandoned inside it.
DropRestores ==
    [][(DropTop \/ FinishTop) /\ Top.behavior = "Rollback" /\ ~lost /\ ~Shadowed => db'.cur = Top.at]_vars

\* Commit is all or nothing: it keeps everything the scope did, or it fails and
\* the destructor restores what the scope was opened on.  The destructor after
\* a successful commit must find nothing to roll back, even when an enclosing
\* savepoint has the same name.  Scopes whose transaction a statement rolled
\* back are not covered: what they do next is not in their transaction.
CommitAllOrNothing == [][Commit /\ ~lost /\ ~Shadowed => db'.cur \in {db.cur, Top.at}]_vars

\* Inner commits are provisional: in a transaction begun by a Transaction only
\* the end of a Transaction makes contents durable, in one opened by a
\* savepoint only the end of the outermost scope.
DurableAtTheEnd ==
    [][db'.disk # db.disk /\ ~Autocommit(db) /\ ~lost
         => IF db.begun THEN Top.kind = "tx" ELSE Depth = 1]_vars

\* While the transaction was neither abandoned nor rolled back under the live
\* scopes, they are what SQLite has open: a Transaction can only be the outermost
\* scope and is there exactly when BEGIN was executed, and the others are SQLite's
\* savepoints, in order, each restoring the contents its scope was opened on.
Aligned ==
    ~abandoned /\ ~lost /\ mode # "aborted" =>
      LET first == IF db.begun THEN 1 ELSE 0 IN
      /\ Depth = first + Len(db.frames)
      /\ db.begun => scopes[1].kind = "tx"
      /\ \A i \in DOMAIN db.frames :
           /\ scopes[first + i].kind = "sp"
           /\ db.frames[i] = [name |-> scopes[first + i].name, at |-> scopes[first + i].at]

=============================================================================
