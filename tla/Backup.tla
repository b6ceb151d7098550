------------------------------- MODULE Backup -------------------------------
(***************************************************************************)
(* Online backup: Backup, Connection::backup and Connection::restore       *)
(* (backup.rs) over SQLite's backup object and the pager of the source     *)
(* (sqlite3.c).  A step copies some pages under a read lock that it gives  *)
(* back; in between the source is written to, by its own connection, which *)
(* passes pages already copied on to the backup, or by another one, which  *)
(* makes the copy start again when it is noticed.                          *)
(***************************************************************************)
EXTENDS Integers

CONSTANTS
    MaxPages,     \* pages of a database
    MaxChanges,   \* bound on the transactions that bring new data into the source
    Stores,       \* how the source is stored: a subset of AllStores
    StepPages,    \* pages the application copies in a step; 100 in backup and restore
    Faults,       \* whether a step may meet an I/O error
    NoPage,       \* content of a page after the end
    OldPage       \* content of the destination before

AllStores == {"journal", "wal", "memory"}

ASSUME PagesAssumption == MaxPages \in Nat \ {0} /\ MaxChanges \in Nat
ASSUME StoresAssumption == Stores \subseteq AllStores
ASSUME StepAssumption == StepPages \subseteq Nat \ {0}
ASSUME FaultsAssumption == Faults \in BOOLEAN
ASSUME PageAssumption == NoPage # OldPage /\ NoPage \notin Int /\ OldPage \notin Int

Page == 1..MaxPages
Data == (0..MaxChanges) \cup {OldPage}   \* the transaction that wrote a page
HasSize(c, n) == \A p \in Page : c[p] # NoPage <=> p <= n
Content == {c \in [Page -> Data \cup {NoPage}] : \E n \in 0..MaxPages : HasSize(c, n)}
Size(c) == CHOOSE n \in 0..MaxPages : HasSize(c, n)

VARIABLES
    store,        \* journal mode of the source
    file,         \* last committed content of the source
    changed,      \* by another connection, since the source connection last looked
    ver,          \* transactions with new data so far
    extLock,      \* another connection keeps the source locked
    srcTx,        \* transaction of the source connection: "none", "read", "write"
    seen,         \* content the source connection sees, its own changes included
    pub,          \* the same without changes that are only in its page cache
    dst,          \* committed content of the destination
    dstLock,      \* another connection keeps the destination locked
    b,            \* sqlite3_backup
    img,          \* the destination inside its transaction
    call,         \* "none", a Backup in the application's hands, or the function that runs
    busy_count,   \* of restore
    ret           \* what the last step or function returned

srcVars == <<store, file, changed, ver, extLock, srcTx, seen, pub>>
rustVars == <<call, busy_count, ret>>
vars == <<srcVars, dst, dstLock, b, img, rustVars>>

sqlite3_backup == [iNext : 1..(MaxPages + 1), isAttached : BOOLEAN, bDestLocked : BOOLEAN,
                   rc : {"ok", "busy", "done", "err"}]

NoBackup == [iNext |-> 1, isAttached |-> FALSE, bDestLocked |-> FALSE, rc |-> "ok"]

TypeOK ==
    /\ store \in Stores
    /\ file \in Content /\ seen \in Content /\ dst \in Content
    /\ pub \in [Page -> Data \cup {NoPage}] /\ img \in [Page -> Data \cup {NoPage}]
    /\ changed \in BOOLEAN /\ extLock \in BOOLEAN /\ dstLock \in BOOLEAN
    /\ ver \in 0..MaxChanges
    /\ srcTx \in {"none", "read", "write"}
    /\ b \in sqlite3_backup
    /\ call \in {"none", "handle", "run", "backup", "restore"}
    /\ busy_count \in 0..3
    /\ ret \in {"none", "More", "Busy", "Done", "Err"}

Init ==
    /\ store \in Stores
    /\ \E n \in 0..MaxPages : file = [p \in Page |-> IF p <= n THEN 0 ELSE NoPage]
    /\ changed = FALSE /\ ver = 0
    /\ extLock = FALSE /\ dstLock = FALSE
    /\ srcTx = "none" /\ seen = file /\ pub = file
    /\ dst = [p \in Page |-> OldPage]
    /\ b = NoBackup /\ img = dst
    /\ call = "none" /\ busy_count = 0 /\ ret = "none"

-----------------------------------------------------------------------------
(* The pager of the source and the backups attached to it.                 *)

\* sqlite3BackupRestart.
Restarted(bk) == IF bk.isAttached THEN [bk EXCEPT !.iNext = 1] ELSE bk

\* All results but OK and BUSY end a backup, SQLITE_DONE too.
isFatalError(rc) == rc \notin {"ok", "busy"}

\* Mutation of Outdated: the page before the next one counts as still to be copied.
OutdatedLate(p, c) == c[p] # NoPage /\ b.isAttached /\ ~isFatalError(b.rc) /\ p + 1 < b.iNext

\* A page the backup already has is passed on to it.
Outdated(p, c) == c[p] # NoPage /\ b.isAttached /\ ~isFatalError(b.rc) /\ p < b.iNext

\* backupUpdate: the pages in S were written with the data of c.  When the
\* destination cannot be written, the backup has failed; the writer has not.
BackupUpdate(S, c) ==
    LET pages == {p \in S : Outdated(p, c)} IN
    \/ /\ img' = [p \in Page |-> IF p \in pages THEN c[p] ELSE img[p]]
       /\ b' = b
    \/ /\ Faults /\ pages # {}
       /\ b' = [b EXCEPT !.rc = "err"]
       /\ img' = img

\* Mutation of Looked: the backup starts again at every look.
LookedAlways(bk) == Restarted(bk)

\* The source connection begins to read: an external change is noticed.
Looked(bk) == IF changed THEN Restarted(bk) ELSE bk

-----------------------------------------------------------------------------
(* The source between two steps.                                           *)

\* Content after a transaction: the pages in S have new data, n pages remain.
Modified(c, S, n) ==
    [p \in Page |-> IF p > n THEN NoPage ELSE IF p \in S THEN ver + 1 ELSE c[p]]

\* There is no bound on transactions that write again what was there (S = {}): the
\* pages are modified all the same, and the backup is told.
MayModify(c, S, n) ==
    /\ \A p \in 1..n : p \in S \/ c[p] # NoPage
    /\ IF S = {} THEN HasSize(c, n) ELSE ver < MaxChanges
Stamp(S) == IF S = {} THEN ver ELSE ver + 1

\* Not while restore runs: there the source connection is its own.
Application == call # "restore"

BeginRead ==
    /\ Application /\ srcTx = "none" /\ ~extLock
    /\ srcTx' = "read"
    /\ seen' = file /\ pub' = file /\ changed' = FALSE
    /\ b' = Looked(b)
    /\ UNCHANGED <<store, file, ver, extLock, dst, dstLock, img, rustVars>>

EndRead ==
    /\ Application /\ srcTx = "read"
    /\ srcTx' = "none"
    /\ UNCHANGED <<store, file, changed, ver, extLock, seen, pub, dst, dstLock, b, img, rustVars>>

\* The first change of a transaction.  A reader of an old WAL snapshot cannot write.
Write(S, n) ==
    LET base == IF srcTx = "none" THEN file ELSE seen IN
    /\ Application /\ srcTx # "write" /\ ~extLock
    /\ srcTx = "read" => ~changed
    /\ MayModify(base, S, n)
    /\ srcTx' = "write"
    /\ seen' = Modified(base, S, n) /\ pub' = base
    /\ ver' = Stamp(S) /\ changed' = FALSE
    /\ b' = Looked(b)
    /\ UNCHANGED <<store, file, extLock, dst, dstLock, img, rustVars>>

\* The page cache is full: a page is written before the commit.
Spill(p) ==
    /\ Application /\ srcTx = "write" /\ store # "memory"
    /\ seen[p] # NoPage /\ pub[p] # seen[p]
    /\ pub' = [pub EXCEPT ![p] = seen[p]]
    /\ BackupUpdate({p}, seen)
    /\ UNCHANGED <<store, file, changed, ver, extLock, srcTx, seen, dst, dstLock, rustVars>>

Commit ==
    /\ Application /\ srcTx = "write"
    /\ srcTx' = "none"
    /\ file' = seen /\ pub' = seen
    /\ IF store = "memory"
       THEN b' = Restarted(b) /\ img' = img
       ELSE BackupUpdate({p \in Page : pub[p] # seen[p]}, seen)
    /\ UNCHANGED <<store, changed, ver, extLock, seen, dst, dstLock, rustVars>>

\* Mutation of Rollback: spilled pages are not taken back from the backup.
RollbackForgets ==
    /\ Application /\ srcTx = "write"
    /\ srcTx' = "none"
    /\ seen' = file /\ pub' = file
    /\ UNCHANGED <<store, file, changed, ver, extLock, dst, dstLock, b, img, rustVars>>

\* The journal is played back through the backup; a WAL is only cut off, so the
\* backup starts again.
Rollback ==
    /\ Application /\ srcTx = "write"
    /\ srcTx' = "none"
    /\ seen' = file /\ pub' = file
    /\ IF store = "journal"
       THEN BackupUpdate({p \in Page : pub[p] # file[p]}, file)
       ELSE b' = (IF store = "wal" THEN Restarted(b) ELSE b) /\ img' = img
    /\ UNCHANGED <<store, file, changed, ver, extLock, dst, dstLock, rustVars>>

\* Another connection commits: a WAL lets it do so beside a reader.
ExternalCommit(S, n) ==
    /\ store # "memory" /\ ~extLock
    /\ srcTx = "none" \/ (srcTx = "read" /\ store = "wal")
    /\ MayModify(file, S, n)
    /\ file' = Modified(file, S, n)
    /\ ver' = Stamp(S) /\ changed' = TRUE
    /\ UNCHANGED <<store, extLock, srcTx, seen, pub, dst, dstLock, b, img, rustVars>>

ExternalLock ==
    /\ store = "journal" /\ srcTx = "none"
    /\ extLock' = ~extLock
    /\ UNCHANGED <<store, file, changed, ver, srcTx, seen, pub, dst, dstLock, b, img, rustVars>>

DestinationLock ==
    /\ b.bDestLocked => b.rc = "done"
    /\ dstLock' = ~dstLock
    /\ UNCHANGED <<srcVars, dst, b, img, rustVars>>

-----------------------------------------------------------------------------
(* A step.                                                                 *)

StepResult == [ok |-> "More", busy |-> "Busy", done |-> "Done", err |-> "Err"]

\* Mutation of BusyCount: a refused step of restore is not counted.
BusyCountForgotten(r) == busy_count

BusyCount(r) == IF call = "restore" /\ r = "Busy" THEN busy_count + 1 ELSE busy_count

\* Mutation of Continues: run_to_completion does not stop at the end.
ContinuesAfterDone(r) ==
    \/ call = "run" /\ r \in {"More", "Busy", "Done"}
    \/ call = "backup" /\ r = "More"
    \/ call = "restore" /\ (r = "More" \/ (r = "Busy" /\ BusyCount(r) < 3))

\* Whether run_to_completion, backup or restore goes on to the next step.
Continues(r) ==
    \/ call = "run" /\ r \in {"More", "Busy"}
    \/ call = "backup" /\ r = "More"
    \/ call = "restore" /\ (r = "More" \/ (r = "Busy" /\ BusyCount(r) < 3))

\* sqlite3_backup_step leaves bk and the destination i behind.  backup and
\* restore drop their Backup when they return, whatever the result.
Returned(bk, i) ==
    LET r == StepResult[bk.rc]
        keep == call \in {"handle", "run"} \/ Continues(r)
    IN  /\ ret' = r
        /\ call' = IF Continues(r) THEN call ELSE IF keep THEN "handle" ELSE "none"
        /\ busy_count' = IF keep THEN BusyCount(r) ELSE 0
        /\ b' = IF keep THEN bk ELSE NoBackup
        /\ img' = IF keep THEN i ELSE dst'

\* A backup that failed or is done gives the same result again.
StepAgain ==
    /\ call # "none" /\ isFatalError(b.rc)
    /\ UNCHANGED <<srcVars, dst, dstLock>>
    /\ Returned(b, img)

\* The source connection writes, or nobody may read the source.
SourceRefuses == srcTx = "write" \/ (srcTx = "none" /\ extLock)

DestinationRefuses == ~b.bDestLocked /\ dstLock

\* The step reads the source: in a transaction of its own if there is none.
ReadsSource ==
    IF srcTx = "none"
    THEN seen' = file /\ pub' = file /\ changed' = FALSE
    ELSE UNCHANGED <<seen, pub, changed>>

\* The backup once the source is being read.
Reading == IF srcTx = "none" THEN Looked(b) ELSE b

StepRefused ==
    /\ call # "none" /\ ~isFatalError(b.rc)
    /\ UNCHANGED <<store, file, ver, extLock, srcTx, dst, dstLock>>
    /\ \/ SourceRefuses /\ UNCHANGED <<seen, pub, changed>> /\ Returned([b EXCEPT !.rc = "busy"], img)
       \/ /\ ~SourceRefuses /\ DestinationRefuses
          /\ ReadsSource
          /\ Returned([Reading EXCEPT !.rc = "busy"], img)

\* An I/O error before the end: the destination keeps its transaction.
StepFails ==
    /\ Faults
    /\ call # "none" /\ ~isFatalError(b.rc) /\ ~SourceRefuses /\ ~DestinationRefuses
    /\ UNCHANGED <<store, file, ver, extLock, srcTx, dst, dstLock>>
    /\ ReadsSource
    /\ Returned([Reading EXCEPT !.rc = "err", !.bDestLocked = TRUE], img)

\* At most n pages are copied.  After the last one the destination is cut to
\* the size of the source (a single page without tables when it has none)
\* and committed.
StepCopies(n) ==
    LET from == Reading.iNext
        size == Size(seen')
        next == IF from > size THEN from ELSE IF from + n > size THEN size + 1 ELSE from + n
        copy == [p \in Page |-> IF p \in from..(next - 1) THEN seen'[p] ELSE img[p]]
        end  == next > size
    IN  /\ call # "none" /\ ~isFatalError(b.rc) /\ ~SourceRefuses /\ ~DestinationRefuses
        /\ ReadsSource
        /\ dst' = IF end THEN [p \in Page |-> IF p > size THEN NoPage ELSE copy[p]] ELSE dst
        /\ Returned([iNext |-> next, bDestLocked |-> TRUE, isAttached |-> b.isAttached \/ ~end,
                     rc |-> IF end THEN "done" ELSE "ok"],
                    IF end THEN dst' ELSE copy)
        /\ UNCHANGED <<store, file, ver, extLock, srcTx, dstLock>>

-----------------------------------------------------------------------------
(* The life of a Backup.                                                   *)

\* Backup::new, or the start of backup or restore.  restore opens the source
\* by its path.
New(c) ==
    /\ call = "none"
    /\ c = "restore" => srcTx = "none" /\ store # "memory"
    /\ call' = c /\ ret' = "none"
    /\ UNCHANGED <<srcVars, dst, dstLock, b, img, busy_count>>

run_to_completion ==
    /\ call = "handle"
    /\ call' = "run"
    /\ UNCHANGED <<srcVars, dst, dstLock, b, img, busy_count, ret>>

\* sqlite3_backup_finish rolls the destination back.
Drop ==
    /\ call = "handle"
    /\ call' = "none"
    /\ b' = NoBackup /\ img' = dst
    /\ UNCHANGED <<srcVars, dst, dstLock, busy_count, ret>>

-----------------------------------------------------------------------------
Source ==
    \/ BeginRead \/ EndRead \/ Commit \/ Rollback
    \/ \E p \in Page : Spill(p)
    \/ \E S \in SUBSET Page, n \in Page : S \subseteq 1..n /\ (Write(S, n) \/ ExternalCommit(S, n))
    \/ ExternalLock \/ DestinationLock

Step == StepAgain \/ StepRefused \/ StepFails \/ \E n \in StepPages : StepCopies(n)

Next ==
    \/ Source
    \/ Step
    \/ \E c \in {"handle", "backup", "restore"} : New(c)
    \/ run_to_completion \/ Drop

\* A function that loops takes its next step; sleeping between steps ends.
Spec == Init /\ [][Next]_vars /\ WF_vars(call \in {"run", "backup", "restore"} /\ Step)

-----------------------------------------------------------------------------
(* Properties.                                                             *)

\* Between two steps every page that counts as copied is in the destination as
\* the source connection last saw it on its disk, whoever changed it meanwhile.
Copied ==
    b.bDestLocked /\ ~isFatalError(b.rc) =>
        \A p \in Page : p < b.iNext /\ pub[p] # NoPage => img[p] = pub[p]

Promise == INSTANCE Snapshot WITH src <- (IF srcTx = "read" THEN seen ELSE file), done <- (ret = "Done")

\* The destination changes once, to what the source holds at that moment, and
\* Done is returned then and only then: never a mixture of two states of the
\* source, never part of an uncommitted transaction.
ImplementsSnapshot == Promise!Spec

\* From some point on nobody begins to write to the source.
WritingStops ==
    <>[][(srcTx' = "write" => srcTx = "write") /\ (changed' => changed)]_<<srcTx, changed>>

\* run_to_completion is not stuck for ever once neither side refuses any more and
\* nobody writes to the source; before, SQLite may keep refusing the step, or keep
\* starting the copy again.
RunCompletes ==
    WritingStops /\ <>[](~SourceRefuses /\ ~DestinationRefuses) => []<>(call # "run")

\* backup and restore are not stuck for ever once nobody writes to the source, even
\* when it or the destination stays locked: backup ends at the first Busy, restore
\* at the third.  As long as somebody writes, the copy may be started again and again.
CallsEnd == WritingStops => []<>(call \notin {"backup", "restore"})

=============================================================================
