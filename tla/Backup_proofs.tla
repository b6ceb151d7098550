--------------------------- MODULE Backup_proofs ---------------------------
(***************************************************************************)
(* Backup is correct for any number of pages and changes.  The invariant   *)
(* says that pages before iNext are in the destination, that the source    *)
(* connection's view is the committed content unless it knows better, and  *)
(* that only an attached backup has copied anything.                       *)
(***************************************************************************)
EXTENDS Backup, TLAPS

\* What the source connection sees, by the state of its transaction.
View ==
    /\ srcTx = "none" /\ ~changed => pub = file
    /\ srcTx = "read" => pub = seen
    /\ srcTx = "read" /\ ~changed => seen = file
    /\ srcTx = "write" => ~changed
    /\ srcTx = "write" /\ store = "memory" => pub = file

\* A backup that is not attached has copied nothing, or has ended.
Attached ==
    ~isFatalError(b.rc) /\ b.iNext # 1 => b.isAttached /\ b.bDestLocked

IInv == TypeOK /\ View /\ Attached /\ Copied

-----------------------------------------------------------------------------
(* Contents and their size.                                                *)

\* The size of a content is the number of its pages.
LEMMA SizeOfContent ==
  ASSUME NEW c \in Content
  PROVE  /\ Size(c) \in 0..MaxPages
         /\ \A p \in Page : c[p] # NoPage <=> p <= Size(c)
<1>1. \E n \in 0..MaxPages : HasSize(c, n)
  BY DEF Content
<1>2. Size(c) \in 0..MaxPages /\ HasSize(c, Size(c))
  BY <1>1 DEF Size
<1> QED BY <1>2 DEF HasSize

\* A function whose pages are those up to n is a content.
LEMMA ContentBySize ==
  ASSUME NEW c \in [Page -> Data \cup {NoPage}], NEW n \in 0..MaxPages,
         \A p \in Page : c[p] # NoPage <=> p <= n
  PROVE  c \in Content
<1>1. HasSize(c, n)
  BY DEF HasSize
<1> QED BY <1>1 DEF Content

\* A transaction turns a content into a content.
LEMMA ModifiedIsContent ==
  ASSUME TypeOK, NEW c \in Content, NEW S \in SUBSET Page, NEW n \in Page, MayModify(c, S, n)
  PROVE  Modified(c, S, n) \in Content
<1> DEFINE d == Modified(c, S, n)
<1>1. S # {} => ver + 1 \in Data /\ ver + 1 # NoPage
  BY PagesAssumption, PageAssumption DEF TypeOK, MayModify, Data
<1>2. c \in [Page -> Data \cup {NoPage}] /\ NoPage \notin Data
  BY PageAssumption DEF Content, Data
<1>3. d \in [Page -> Data \cup {NoPage}]
  BY <1>1, <1>2 DEF Modified
<1>4. \A p \in Page : d[p] # NoPage <=> p <= n
  BY <1>1, <1>2 DEF Modified, MayModify, Page
<1>5. n \in 0..MaxPages
  BY PagesAssumption DEF Page
<1> QED BY <1>3, <1>4, <1>5, ContentBySize

-----------------------------------------------------------------------------
\* The invariant holds at first.
LEMMA InitHolds == Init => IInv
<1> SUFFICES ASSUME Init PROVE IInv
  OBVIOUS
<1>1. NoPage \notin Data /\ 0 \in Data /\ OldPage \in Data /\ 0 # NoPage
  BY PagesAssumption, PageAssumption DEF Data
<1>2. file \in Content
  <2>1. PICK n \in 0..MaxPages : file = [p \in Page |-> IF p <= n THEN 0 ELSE NoPage]
    BY DEF Init
  <2>2. file \in [Page -> Data \cup {NoPage}] /\ \A p \in Page : file[p] # NoPage <=> p <= n
    BY <1>1, <2>1 DEF Page
  <2> QED BY <2>2, ContentBySize
<1>3. dst \in Content
  <2>1. dst \in [Page -> Data \cup {NoPage}] /\ \A p \in Page : dst[p] # NoPage <=> p <= MaxPages
    BY <1>1, PagesAssumption, PageAssumption DEF Init, Page
  <2> QED BY <2>1, ContentBySize, PagesAssumption
<1>4. file \in [Page -> Data \cup {NoPage}] /\ dst \in [Page -> Data \cup {NoPage}]
  BY <1>2, <1>3 DEF Content
<1>5. NoBackup \in sqlite3_backup
  BY PagesAssumption DEF NoBackup, sqlite3_backup
<1>6. /\ b = NoBackup /\ seen = file /\ pub = file /\ img = dst
      /\ srcTx = "none" /\ changed = FALSE
      /\ extLock = FALSE /\ dstLock = FALSE /\ ver = 0 /\ store \in Stores
      /\ call = "none" /\ busy_count = 0 /\ ret = "none"
  BY DEF Init
<1>7. 0 \in 0..MaxChanges /\ 0 \in 0..3
  BY PagesAssumption
<1>8. TypeOK
  BY <1>2, <1>3, <1>4, <1>5, <1>6, <1>7 DEF TypeOK
<1> QED BY <1>6, <1>8 DEF IInv, View, Attached, Copied, NoBackup

\* Noticing a change leaves a backup that has copied nothing, or that was right.
LEMMA LookedRight ==
  ASSUME IInv, srcTx = "none" \/ ~changed, NEW bk, bk = Looked(b)
  PROVE  /\ bk \in sqlite3_backup
         /\ bk.isAttached = b.isAttached /\ bk.bDestLocked = b.bDestLocked /\ bk.rc = b.rc
         /\ ~isFatalError(b.rc) /\ bk.iNext # 1 =>
              ~changed /\ bk = b /\ b.isAttached /\ b.bDestLocked
  BY PagesAssumption DEF IInv, TypeOK, sqlite3_backup, Attached, Looked, Restarted

\* So noticing a change keeps what is said of copied pages.
LEMMA LookKeeps ==
  ASSUME IInv, srcTx = "none" \/ ~changed, b' = Looked(b), img' = img, ~changed => pub' = pub
  PROVE  b' \in sqlite3_backup /\ Attached' /\ Copied'
<1>1. /\ b' \in sqlite3_backup /\ b'.rc = b.rc
      /\ ~isFatalError(b.rc) /\ b'.iNext # 1 => ~changed /\ b' = b
  BY LookedRight
<1>2. Attached'
  BY <1>1 DEF IInv, Attached
<1>3. ASSUME ~isFatalError(b'.rc), b'.bDestLocked, NEW p \in Page, p < b'.iNext, pub'[p] # NoPage
      PROVE  img'[p] = pub'[p]
  <2>1. b'.iNext # 1
    BY <1>3, PagesAssumption DEF Page
  <2>2. b' = b /\ pub' = pub
    BY <1>1, <1>3, <2>1
  <2> QED BY <1>3, <2>2 DEF IInv, Copied
<1> QED BY <1>1, <1>2, <1>3 DEF Copied

\* Pages passed on to the backup keep it right about the new content c.
LEMMA UpdateKeeps ==
  ASSUME IInv, NEW S \in SUBSET Page, NEW c \in [Page -> Data \cup {NoPage}], BackupUpdate(S, c)
  PROVE  /\ img' \in [Page -> Data \cup {NoPage}]
         /\ b' \in sqlite3_backup
         /\ ~isFatalError(b'.rc) => b' = b
         /\ ~isFatalError(b'.rc) => \A p \in S : c[p] # NoPage /\ p < b.iNext => img'[p] = c[p]
         /\ \A p \in Page \ S : img'[p] = img[p]
<1>1. b.isAttached \in BOOLEAN /\ b.iNext \in 1..(MaxPages + 1)
  BY DEF IInv, TypeOK, sqlite3_backup
<1>2. CASE b' = b /\ img' = [p \in Page |-> IF p \in {q \in S : Outdated(q, c)} THEN c[p] ELSE img[p]]
  <2>1. ASSUME NEW p \in S, ~isFatalError(b.rc), c[p] # NoPage, p < b.iNext
        PROVE  Outdated(p, c)
    <3>1. b.iNext # 1
      BY <2>1, <1>1, PagesAssumption DEF Page
    <3> QED BY <2>1, <3>1 DEF IInv, Attached, Outdated
  <2> QED BY <1>2, <2>1 DEF IInv, TypeOK
<1>3. CASE b' = [b EXCEPT !.rc = "err"] /\ img' = img
  BY <1>3 DEF IInv, TypeOK, sqlite3_backup, isFatalError
<1> QED BY <1>2, <1>3 DEF BackupUpdate

-----------------------------------------------------------------------------
(* The source.                                                             *)

\* Reading and writing the source keeps the invariant.
LEMMA BeginKeeps == IInv /\ BeginRead => IInv'
<1> SUFFICES ASSUME IInv, BeginRead PROVE IInv'
  OBVIOUS
<1>1. /\ b' = Looked(b) /\ srcTx = "none" /\ srcTx' = "read"
      /\ seen' = file /\ pub' = file /\ changed' = FALSE /\ img' = img
      /\ UNCHANGED <<store, file, ver, extLock, dst, dstLock, call, busy_count, ret>>
  BY DEF BeginRead, rustVars
<1>2. TypeOK'
  BY <1>1, LookedRight DEF IInv, TypeOK, Content
<1>3. View'
  BY <1>1 DEF View
<1>4. Attached' /\ Copied'
  <2>1. ~changed => pub' = pub
    BY <1>1 DEF IInv, View
  <2> QED BY <1>1, <2>1, LookKeeps
<1> QED BY <1>2, <1>3, <1>4 DEF IInv

LEMMA EndKeeps == IInv /\ EndRead => IInv'
<1> SUFFICES ASSUME IInv, EndRead PROVE IInv'
  OBVIOUS
<1>1. /\ srcTx = "read" /\ srcTx' = "none"
      /\ UNCHANGED <<store, file, changed, ver, extLock, seen, pub, dst, dstLock, b, img>>
      /\ UNCHANGED <<call, busy_count, ret>>
  BY DEF EndRead, rustVars
<1>2. TypeOK'
  BY <1>1 DEF IInv, TypeOK
<1> QED BY <1>1, <1>2 DEF IInv, View, Attached, Copied

LEMMA WriteKeeps ==
  ASSUME IInv, NEW S \in SUBSET Page, NEW n \in Page, Write(S, n)
  PROVE  IInv'
<1> DEFINE base == IF srcTx = "none" THEN file ELSE seen
<1>1. /\ b' = Looked(b) /\ srcTx # "write" /\ srcTx' = "write" /\ (srcTx = "read" => ~changed)
      /\ seen' = Modified(base, S, n) /\ pub' = base /\ MayModify(base, S, n)
      /\ ver' = Stamp(S) /\ changed' = FALSE /\ img' = img
      /\ UNCHANGED <<store, file, extLock, dst, dstLock, call, busy_count, ret>>
  BY DEF Write, rustVars
<1>2. base \in Content /\ base = file /\ base \in [Page -> Data \cup {NoPage}]
  BY <1>1 DEF IInv, TypeOK, View, Content
<1>3. seen' \in Content
  BY <1>1, <1>2, ModifiedIsContent DEF IInv
<1>4. ver' \in 0..MaxChanges
  BY <1>1, PagesAssumption DEF IInv, TypeOK, MayModify, Stamp
<1>5. srcTx = "none" \/ ~changed
  BY <1>1 DEF IInv, TypeOK
<1> HIDE DEF base
<1>6. b' \in sqlite3_backup
  BY <1>1, <1>5, LookedRight
<1>7. TypeOK'
  BY <1>1, <1>2, <1>3, <1>4, <1>6 DEF IInv, TypeOK
<1>8. View'
  BY <1>1, <1>2 DEF View
<1>9. Attached' /\ Copied'
  <2>1. ~changed => pub = base
    BY <1>1, <1>2 DEF IInv, View, TypeOK
  <2> QED BY <1>1, <1>5, <2>1, LookKeeps
<1> QED BY <1>7, <1>8, <1>9 DEF IInv

LEMMA SpillKeeps ==
  ASSUME IInv, NEW p \in Page, Spill(p)
  PROVE  IInv'
<1>1. /\ srcTx = "write" /\ store # "memory" /\ pub' = [pub EXCEPT ![p] = seen[p]]
      /\ seen[p] # NoPage /\ BackupUpdate({p}, seen)
      /\ UNCHANGED <<store, file, changed, ver, extLock, srcTx, seen, dst, dstLock>>
      /\ UNCHANGED <<call, busy_count, ret>>
  BY DEF Spill, rustVars
<1>2. seen \in [Page -> Data \cup {NoPage}] /\ pub \in [Page -> Data \cup {NoPage}]
  BY DEF IInv, TypeOK, Content
<1>3. {p} \in SUBSET Page
  OBVIOUS
<1>4. /\ img' \in [Page -> Data \cup {NoPage}]
      /\ b' \in sqlite3_backup
      /\ ~isFatalError(b'.rc) => b' = b
      /\ ~isFatalError(b'.rc) => (p < b.iNext => img'[p] = seen[p])
      /\ \A q \in Page \ {p} : img'[q] = img[q]
  BY <1>1, <1>2, <1>3, UpdateKeeps
<1>5. TypeOK'
  BY <1>1, <1>2, <1>4 DEF IInv, TypeOK
<1>6. View'
  BY <1>1 DEF IInv, View
<1>7. Attached' /\ Copied'
  BY <1>1, <1>2, <1>4 DEF IInv, Attached, Copied
<1> QED BY <1>5, <1>6, <1>7 DEF IInv

\* A backup told to start again has nothing to keep.
LEMMA RestartKeeps ==
  ASSUME IInv, b' = Restarted(b), img' = img
  PROVE  b' \in sqlite3_backup /\ Attached' /\ Copied'
<1>1. b' \in sqlite3_backup /\ b'.rc = b.rc
  BY PagesAssumption DEF IInv, TypeOK, sqlite3_backup, Restarted
<1>2. ~isFatalError(b.rc) => b'.iNext = 1
  BY DEF IInv, TypeOK, sqlite3_backup, Attached, Restarted
<1> QED BY <1>1, <1>2, PagesAssumption DEF Attached, Copied, Page

\* At the end of a transaction the content becomes c, through the backup.
LEMMA EndUpdateKeeps ==
  ASSUME IInv, NEW c \in Content, BackupUpdate({p \in Page : pub[p] # c[p]}, c), pub' = c
  PROVE  /\ img' \in [Page -> Data \cup {NoPage}] /\ b' \in sqlite3_backup
         /\ Attached' /\ Copied'
<1> DEFINE S == {p \in Page : pub[p] # c[p]}
<1>1. c \in [Page -> Data \cup {NoPage}] /\ S \in SUBSET Page
  BY DEF Content
<1>2. /\ img' \in [Page -> Data \cup {NoPage}]
      /\ b' \in sqlite3_backup
      /\ ~isFatalError(b'.rc) => b' = b
      /\ ~isFatalError(b'.rc) => \A p \in S : c[p] # NoPage /\ p < b.iNext => img'[p] = c[p]
      /\ \A p \in Page \ S : img'[p] = img[p]
  BY <1>1, UpdateKeeps
<1> QED BY <1>2 DEF IInv, Attached, Copied

LEMMA CommitKeeps == IInv /\ Commit => IInv'
<1> SUFFICES ASSUME IInv, Commit PROVE IInv'
  OBVIOUS
<1>1. /\ srcTx = "write" /\ srcTx' = "none" /\ file' = seen /\ pub' = seen
      /\ UNCHANGED <<store, changed, ver, extLock, seen, dst, dstLock, call, busy_count, ret>>
  BY DEF Commit, rustVars
<1>2. seen \in Content /\ seen \in [Page -> Data \cup {NoPage}]
  BY DEF IInv, TypeOK, Content
<1>3. img' \in [Page -> Data \cup {NoPage}] /\ b' \in sqlite3_backup /\ Attached' /\ Copied'
  <2>1. CASE b' = Restarted(b) /\ img' = img
    BY <2>1, RestartKeeps DEF IInv, TypeOK
  <2>2. CASE BackupUpdate({p \in Page : pub[p] # seen[p]}, seen)
    BY <2>2, <1>1, <1>2, EndUpdateKeeps
  <2> QED BY <2>1, <2>2 DEF Commit
<1>4. TypeOK'
  BY <1>1, <1>2, <1>3 DEF IInv, TypeOK
<1> QED BY <1>1, <1>3, <1>4 DEF IInv, View

LEMMA RollbackKeeps == IInv /\ Rollback => IInv'
<1> SUFFICES ASSUME IInv, Rollback PROVE IInv'
  OBVIOUS
<1>1. /\ srcTx = "write" /\ srcTx' = "none" /\ seen' = file /\ pub' = file
      /\ UNCHANGED <<store, file, changed, ver, extLock, dst, dstLock, call, busy_count, ret>>
  BY DEF Rollback, rustVars
<1>2. file \in Content /\ file \in [Page -> Data \cup {NoPage}]
  BY DEF IInv, TypeOK, Content
<1>3. img' \in [Page -> Data \cup {NoPage}] /\ b' \in sqlite3_backup /\ Attached' /\ Copied'
  <2>1. CASE b' = Restarted(b) /\ img' = img
    BY <2>1, RestartKeeps DEF IInv, TypeOK
  <2>2. CASE BackupUpdate({p \in Page : pub[p] # file[p]}, file)
    BY <2>2, <1>1, <1>2, EndUpdateKeeps
  <2>3. CASE store = "memory" /\ b' = b /\ img' = img
    BY <2>3, <1>1 DEF IInv, TypeOK, View, Attached, Copied
  <2> QED BY <2>1, <2>2, <2>3, StoresAssumption DEF Rollback, AllStores, IInv, TypeOK
<1>4. TypeOK'
  BY <1>1, <1>2, <1>3 DEF IInv, TypeOK
<1> QED BY <1>1, <1>3, <1>4 DEF IInv, View

LEMMA ExternalKeeps ==
  ASSUME IInv, NEW S \in SUBSET Page, NEW n \in Page, ExternalCommit(S, n)
  PROVE  IInv'
<1>1. /\ srcTx # "write" /\ MayModify(file, S, n) /\ file' = Modified(file, S, n)
      /\ ver' = Stamp(S) /\ changed' = TRUE
      /\ UNCHANGED <<store, extLock, srcTx, seen, pub, dst, dstLock, b, img, call, busy_count, ret>>
  BY DEF ExternalCommit, rustVars
<1>2. file' \in Content
  BY <1>1, ModifiedIsContent DEF IInv, TypeOK
<1>3. ver' \in 0..MaxChanges
  BY <1>1, PagesAssumption DEF IInv, TypeOK, MayModify, Stamp
<1>4. TypeOK'
  BY <1>1, <1>2, <1>3 DEF IInv, TypeOK
<1> QED BY <1>1, <1>4 DEF IInv, View, Attached, Copied

LEMMA SourceKeeps == IInv /\ Source => IInv'
<1> SUFFICES ASSUME IInv, Source PROVE IInv'
  OBVIOUS
<1>1. CASE ExternalLock \/ DestinationLock
  <2>1. /\ UNCHANGED <<store, file, changed, ver, srcTx, seen, pub, dst, b, img, call, busy_count, ret>>
        /\ extLock' \in BOOLEAN /\ dstLock' \in BOOLEAN
    BY <1>1 DEF ExternalLock, DestinationLock, srcVars, rustVars, IInv, TypeOK
  <2>2. TypeOK'
    BY <2>1 DEF IInv, TypeOK
  <2> QED BY <2>1, <2>2 DEF IInv, View, Attached, Copied
<1>2. CASE \E S \in SUBSET Page, n \in Page : S \subseteq 1..n /\ (Write(S, n) \/ ExternalCommit(S, n))
  BY <1>2, WriteKeeps, ExternalKeeps
<1> QED BY <1>1, <1>2, BeginKeeps, EndKeeps, CommitKeeps, RollbackKeeps, SpillKeeps DEF Source

-----------------------------------------------------------------------------
(* Steps.                                                                  *)

\* Whatever a step leaves behind, the Rust side keeps it or rolls it back.
LEMMA ReturnedKeeps ==
  ASSUME IInv, NEW bk \in sqlite3_backup, NEW i \in [Page -> Data \cup {NoPage}],
         Returned(bk, i), dst' \in Content,
         ~isFatalError(bk.rc) /\ bk.iNext # 1 => bk.isAttached /\ bk.bDestLocked,
         bk.bDestLocked /\ ~isFatalError(bk.rc) =>
           \A p \in Page : p < bk.iNext /\ pub'[p] # NoPage => i[p] = pub'[p]
  PROVE  /\ b' \in sqlite3_backup /\ img' \in [Page -> Data \cup {NoPage}]
         /\ call' \in {"none", "handle", "run", "backup", "restore"}
         /\ busy_count' \in 0..3
         /\ ret' \in {"none", "More", "Busy", "Done", "Err"}
         /\ Attached' /\ Copied'
<1> DEFINE r == StepResult[bk.rc]
           keep == call \in {"handle", "run"} \/ Continues(r)
<1>1. /\ ret' = r
      /\ call' = IF Continues(r) THEN call ELSE IF keep THEN "handle" ELSE "none"
      /\ busy_count' = IF keep THEN BusyCount(r) ELSE 0
      /\ b' = IF keep THEN bk ELSE NoBackup
      /\ img' = IF keep THEN i ELSE dst'
  BY DEF Returned
<1>2. r \in {"More", "Busy", "Done", "Err"}
  BY DEF StepResult, sqlite3_backup
<1>3. keep => BusyCount(r) \in 0..3
  BY DEF BusyCount, Continues, IInv, TypeOK
<1>4. NoBackup \in sqlite3_backup /\ NoBackup.bDestLocked = FALSE /\ NoBackup.iNext = 1
  BY PagesAssumption DEF NoBackup, sqlite3_backup
<1>5. dst' \in [Page -> Data \cup {NoPage}]
  BY DEF Content
<1> HIDE DEF keep, r
<1>6. call' \in {"none", "handle", "run", "backup", "restore"} /\ busy_count' \in 0..3
  BY <1>1, <1>3 DEF IInv, TypeOK
<1>7. b' \in sqlite3_backup /\ img' \in [Page -> Data \cup {NoPage}]
  BY <1>1, <1>4, <1>5
<1>8. Attached' /\ Copied'
  <2>1. CASE keep
    BY <1>1, <2>1 DEF Attached, Copied
  <2>2. CASE ~keep
    BY <1>1, <1>4, <2>2 DEF Attached, Copied
  <2> QED BY <2>1, <2>2
<1> QED BY <1>1, <1>2, <1>6, <1>7, <1>8

\* What ReadsSource makes of the view of the source, and Reading of the backup.
LEMMA ReadKeeps ==
  ASSUME IInv, ReadsSource, srcTx # "write", UNCHANGED <<store, file, srcTx>>
  PROVE  /\ seen' \in Content /\ pub' \in [Page -> Data \cup {NoPage}] /\ changed' \in BOOLEAN
         /\ View' /\ pub' = seen'
         /\ Reading \in sqlite3_backup /\ Reading.rc = b.rc
         /\ Reading.isAttached = b.isAttached /\ Reading.bDestLocked = b.bDestLocked
         /\ ~isFatalError(b.rc) /\ Reading.iNext # 1 =>
              pub' = pub /\ Reading = b /\ b.isAttached /\ b.bDestLocked
<1>1. CASE srcTx = "none"
  <2>1. seen' = file /\ pub' = file /\ changed' = FALSE /\ Reading = Looked(b)
    BY <1>1 DEF ReadsSource, Reading
  <2>2. View' /\ seen' \in Content /\ pub' \in [Page -> Data \cup {NoPage}]
    BY <1>1, <2>1 DEF View, IInv, TypeOK, Content
  <2>3. ~changed => pub' = pub
    BY <1>1, <2>1 DEF IInv, View
  <2> QED BY <1>1, <2>1, <2>2, <2>3, LookedRight
<1>2. CASE srcTx # "none"
  <2>1. UNCHANGED <<seen, pub, changed>> /\ Reading = b /\ srcTx = "read"
    BY <1>2 DEF ReadsSource, Reading, IInv, TypeOK
  <2> QED BY <2>1 DEF IInv, TypeOK, View, Attached
<1> QED BY <1>1, <1>2

LEMMA AgainKeeps == IInv /\ StepAgain => IInv'
<1> SUFFICES ASSUME IInv, StepAgain PROVE IInv'
  OBVIOUS
<1>1. /\ isFatalError(b.rc) /\ Returned(b, img)
      /\ UNCHANGED <<store, file, changed, ver, extLock, srcTx, seen, pub, dst, dstLock>>
  BY DEF StepAgain, srcVars
<1>2. b \in sqlite3_backup /\ img \in [Page -> Data \cup {NoPage}] /\ dst' \in Content
  BY <1>1 DEF IInv, TypeOK
<1>3. /\ b' \in sqlite3_backup /\ img' \in [Page -> Data \cup {NoPage}]
      /\ call' \in {"none", "handle", "run", "backup", "restore"}
      /\ busy_count' \in 0..3
      /\ ret' \in {"none", "More", "Busy", "Done", "Err"}
      /\ Attached' /\ Copied'
  BY <1>1, <1>2, ReturnedKeeps
<1>4. TypeOK'
  BY <1>1, <1>3 DEF IInv, TypeOK
<1> QED BY <1>1, <1>3, <1>4 DEF IInv, View

LEMMA RefusedKeeps == IInv /\ StepRefused => IInv'
<1> SUFFICES ASSUME IInv, StepRefused PROVE IInv'
  OBVIOUS
<1>1. /\ ~isFatalError(b.rc)
      /\ UNCHANGED <<store, file, ver, extLock, srcTx, dst, dstLock>>
  BY DEF StepRefused
<1>2. PICK k : /\ k \in sqlite3_backup /\ Returned([k EXCEPT !.rc = "busy"], img)
               /\ k.rc = b.rc /\ k.bDestLocked = b.bDestLocked
               /\ k.iNext # 1 => pub' = pub /\ k = b /\ b.isAttached /\ b.bDestLocked
               /\ seen' \in Content /\ pub' \in [Page -> Data \cup {NoPage}] /\ changed' \in BOOLEAN
               /\ View'
  <2>1. CASE UNCHANGED <<seen, pub, changed>> /\ Returned([b EXCEPT !.rc = "busy"], img)
    <3>1. View'
      BY <1>1, <2>1 DEF IInv, View
    <3> QED BY <1>1, <2>1, <3>1 DEF IInv, TypeOK, Attached
  <2>2. CASE ~SourceRefuses /\ ReadsSource /\ Returned([Reading EXCEPT !.rc = "busy"], img)
    <3>1. srcTx # "write"
      BY <2>2 DEF SourceRefuses
    <3> QED BY <1>1, <2>2, <3>1, ReadKeeps
  <2> QED BY <2>1, <2>2 DEF StepRefused
<1> DEFINE bk == [k EXCEPT !.rc = "busy"]
<1>3. /\ bk \in sqlite3_backup /\ bk.iNext = k.iNext /\ bk.bDestLocked = k.bDestLocked
      /\ bk.isAttached = k.isAttached /\ bk.rc = "busy"
  BY <1>2 DEF sqlite3_backup
<1>4. img \in [Page -> Data \cup {NoPage}] /\ dst' \in Content
  BY <1>1 DEF IInv, TypeOK
<1>5. ASSUME NEW p \in Page, p < k.iNext, pub'[p] # NoPage
      PROVE  img[p] = pub'[p]
  <2>1. k.iNext # 1
    BY <1>5, PagesAssumption DEF Page
  <2> QED BY <1>1, <1>2, <1>5, <2>1 DEF IInv, Copied
<1>6. bk.iNext # 1 => bk.isAttached /\ bk.bDestLocked
  BY <1>2, <1>3
<1> HIDE DEF bk
<1>7. /\ b' \in sqlite3_backup /\ img' \in [Page -> Data \cup {NoPage}]
      /\ call' \in {"none", "handle", "run", "backup", "restore"}
      /\ busy_count' \in 0..3
      /\ ret' \in {"none", "More", "Busy", "Done", "Err"}
      /\ Attached' /\ Copied'
  <2>1. Returned(bk, img)
    BY <1>2 DEF bk
  <2> QED BY <1>3, <1>4, <1>5, <1>6, <2>1, ReturnedKeeps
<1>8. TypeOK'
  BY <1>1, <1>2, <1>7 DEF IInv, TypeOK
<1> QED BY <1>2, <1>7, <1>8 DEF IInv

LEMMA FailsKeeps == IInv /\ StepFails => IInv'
<1> SUFFICES ASSUME IInv, StepFails PROVE IInv'
  OBVIOUS
<1> DEFINE bk == [Reading EXCEPT !.rc = "err", !.bDestLocked = TRUE]
<1>1. /\ srcTx # "write" /\ ReadsSource /\ Returned(bk, img)
      /\ UNCHANGED <<store, file, ver, extLock, srcTx, dst, dstLock>>
  BY DEF StepFails, SourceRefuses
<1>2. /\ Reading \in sqlite3_backup /\ View'
      /\ seen' \in Content /\ pub' \in [Page -> Data \cup {NoPage}] /\ changed' \in BOOLEAN
  BY <1>1, ReadKeeps
<1>3. bk \in sqlite3_backup /\ isFatalError(bk.rc)
  BY <1>2 DEF sqlite3_backup, isFatalError
<1>4. img \in [Page -> Data \cup {NoPage}] /\ dst' \in Content
  BY <1>1 DEF IInv, TypeOK
<1> HIDE DEF bk
<1>5. /\ b' \in sqlite3_backup /\ img' \in [Page -> Data \cup {NoPage}]
      /\ call' \in {"none", "handle", "run", "backup", "restore"}
      /\ busy_count' \in 0..3
      /\ ret' \in {"none", "More", "Busy", "Done", "Err"}
      /\ Attached' /\ Copied'
  BY <1>1, <1>3, <1>4, ReturnedKeeps
<1>6. TypeOK'
  BY <1>1, <1>2, <1>5 DEF IInv, TypeOK
<1> QED BY <1>2, <1>5, <1>6 DEF IInv

\* A step that copies leaves the copied pages right; the last one makes the
\* destination equal to the source.
LEMMA CopiesRight ==
  ASSUME IInv, NEW n \in StepPages, StepCopies(n)
  PROVE  /\ IInv'
         /\ \/ dst' = dst /\ ret' # "Done"
            \/ dst' = seen' /\ ret' = "Done"
         /\ srcTx # "write" /\ (srcTx = "none" => seen' = file) /\ (srcTx = "read" => seen' = seen)
         /\ UNCHANGED <<file, srcTx>>
<1> DEFINE from == Reading.iNext
           size == Size(seen')
           next == IF from > size THEN from ELSE IF from + n > size THEN size + 1 ELSE from + n
           copy == [p \in Page |-> IF p \in from..(next - 1) THEN seen'[p] ELSE img[p]]
           end  == next > size
           bk == [iNext |-> next, bDestLocked |-> TRUE, isAttached |-> b.isAttached \/ ~end,
                  rc |-> IF end THEN "done" ELSE "ok"]
           i == IF end THEN dst' ELSE copy
<1>1. /\ srcTx # "write" /\ ReadsSource /\ ~isFatalError(b.rc)
      /\ dst' = IF end THEN [p \in Page |-> IF p > size THEN NoPage ELSE copy[p]] ELSE dst
      /\ Returned(bk, i)
      /\ UNCHANGED <<store, file, ver, extLock, srcTx, dstLock>>
  BY DEF StepCopies, SourceRefuses
<1>2. /\ seen' \in Content /\ pub' \in [Page -> Data \cup {NoPage}] /\ changed' \in BOOLEAN
      /\ View' /\ pub' = seen'
      /\ Reading \in sqlite3_backup
      /\ Reading.iNext # 1 => pub' = pub /\ Reading = b /\ b.isAttached /\ b.bDestLocked
  BY <1>1, ReadKeeps
<1>3. size \in 0..MaxPages /\ \A p \in Page : seen'[p] # NoPage <=> p <= size
  BY <1>2, SizeOfContent
<1>4. from \in 1..(MaxPages + 1) /\ n \in Nat \ {0} /\ MaxPages \in Nat
  BY <1>2, StepAssumption, PagesAssumption DEF sqlite3_backup
<1> HIDE DEF from, size
<1>5. next \in 1..(MaxPages + 1) /\ from <= next /\ (end => from > size \/ next = size + 1)
  BY <1>3, <1>4
<1>6. seen' \in [Page -> Data \cup {NoPage}] /\ img \in [Page -> Data \cup {NoPage}]
  BY <1>2 DEF Content, IInv, TypeOK
<1>7. copy \in [Page -> Data \cup {NoPage}]
  BY <1>6
<1>8. ASSUME NEW p \in Page, p < next, seen'[p] # NoPage
      PROVE  copy[p] = seen'[p]
  <2>1. CASE p < from
    <3>1. from # 1
      BY <2>1, <1>4 DEF Page
    <3>2. pub' = pub /\ p < b.iNext /\ b.bDestLocked
      BY <1>2, <2>1, <3>1 DEF from
    <3>3. img[p] = pub[p]
      BY <1>1, <1>2, <1>8, <3>2 DEF IInv, Copied
    <3> QED BY <1>2, <1>4, <1>5, <2>1, <3>2, <3>3 DEF Page
  <2>2. CASE p >= from
    BY <1>4, <1>5, <1>8, <2>2 DEF Page
  <2> QED BY <2>1, <2>2, <1>4 DEF Page
<1>9. end => \A p \in Page : p <= size => p < next
  BY <1>3, <1>4, <1>5 DEF Page
<1>10. end => dst' = seen'
  <2> SUFFICES ASSUME end PROVE dst' = seen'
    OBVIOUS
  <2>1. dst' = [p \in Page |-> IF p > size THEN NoPage ELSE copy[p]]
    BY <1>1
  <2>2. ASSUME NEW p \in Page PROVE (IF p > size THEN NoPage ELSE copy[p]) = seen'[p]
    <3>1. CASE p > size
      BY <1>3, <3>1 DEF Page
    <3>2. CASE p <= size
      BY <1>3, <1>8, <1>9, <3>2 DEF Page
    <3> QED BY <3>1, <3>2, <1>3, <1>4 DEF Page
  <2> HIDE DEF copy
  <2> QED BY <2>1, <2>2, <1>6
<1>11. dst' \in Content /\ i \in [Page -> Data \cup {NoPage}]
  BY <1>1, <1>2, <1>6, <1>7, <1>10 DEF IInv, TypeOK, Content
<1>12. bk \in sqlite3_backup /\ bk.bDestLocked = TRUE /\ bk.iNext = next
       /\ bk.rc = (IF end THEN "done" ELSE "ok") /\ bk.isAttached = (b.isAttached \/ ~end)
  BY <1>5 DEF IInv, TypeOK, sqlite3_backup
<1> HIDE DEF bk, copy, next, end
<1>13. ~isFatalError(bk.rc) => ~end /\ i = copy
  BY <1>12 DEF isFatalError
<1>14. /\ b' \in sqlite3_backup /\ img' \in [Page -> Data \cup {NoPage}]
       /\ call' \in {"none", "handle", "run", "backup", "restore"}
       /\ busy_count' \in 0..3
       /\ ret' \in {"none", "More", "Busy", "Done", "Err"}
       /\ Attached' /\ Copied'
  <2>1. ~isFatalError(bk.rc) => \A p \in Page : p < bk.iNext /\ pub'[p] # NoPage => i[p] = pub'[p]
    BY <1>2, <1>8, <1>12, <1>13
  <2>2. ~isFatalError(bk.rc) => bk.isAttached /\ bk.bDestLocked
    BY <1>12, <1>13
  <2> HIDE DEF i
  <2> QED BY <1>1, <1>11, <1>12, <2>1, <2>2, ReturnedKeeps
<1>15. TypeOK'
  BY <1>1, <1>2, <1>11, <1>14 DEF IInv, TypeOK
<1>16. ret' = IF end THEN "Done" ELSE "More"
  BY <1>1, <1>12 DEF Returned, StepResult
<1>17. (srcTx = "none" => seen' = file) /\ (srcTx = "read" => seen' = seen)
  BY <1>1 DEF ReadsSource
<1> QED BY <1>1, <1>2, <1>10, <1>14, <1>15, <1>16, <1>17 DEF IInv

\* Beginning and dropping a Backup.
LEMMA LifeKeeps ==
  ASSUME IInv, run_to_completion \/ Drop \/ \E c \in {"handle", "backup", "restore"} : New(c)
  PROVE  IInv'
<1>1. /\ UNCHANGED <<store, file, changed, ver, extLock, srcTx, seen, pub, dst, dstLock, busy_count>>
      /\ \/ UNCHANGED <<b, img>>
         \/ b' = NoBackup /\ img' = dst
      /\ call' \in {"none", "handle", "run", "backup", "restore"}
      /\ ret' \in {"none", ret}
  BY DEF run_to_completion, Drop, New, srcVars
<1>2. NoBackup \in sqlite3_backup /\ NoBackup.bDestLocked = FALSE /\ NoBackup.iNext = 1
  BY PagesAssumption DEF NoBackup, sqlite3_backup
<1>3. dst \in [Page -> Data \cup {NoPage}]
  BY DEF IInv, TypeOK, Content
<1>4. TypeOK'
  BY <1>1, <1>2, <1>3 DEF IInv, TypeOK
<1> QED BY <1>1, <1>2, <1>4 DEF IInv, View, Attached, Copied

LEMMA NextKeeps == IInv /\ [Next]_vars => IInv'
<1> SUFFICES ASSUME IInv, [Next]_vars PROVE IInv'
  OBVIOUS
<1>1. CASE UNCHANGED vars
  <2>1. TypeOK'
    BY <1>1 DEF vars, srcVars, rustVars, IInv, TypeOK
  <2> QED BY <1>1, <2>1 DEF vars, srcVars, rustVars, IInv, View, Attached, Copied
<1>2. CASE Step
  BY <1>2, AgainKeeps, RefusedKeeps, FailsKeeps, CopiesRight DEF Step
<1> QED BY <1>1, <1>2, SourceKeeps, LifeKeeps DEF Next

LEMMA Invariance == Spec => []IInv
<1>1. Init => IInv
  BY InitHolds
<1>2. IInv /\ [Next]_vars => IInv'
  BY NextKeeps
<1> QED BY <1>1, <1>2, PTL DEF Spec

\* Every variable keeps its type: iNext stays within the pages, and restore's
\* busy_count within 3.
THEOREM TypeCorrect == Spec => []TypeOK
<1>1. IInv => TypeOK
  BY DEF IInv
<1> QED BY <1>1, Invariance, PTL

\* Between two steps each page counted as copied is in the destination as the
\* source connection last saw it on its disk.
THEOREM CopiedPages == Spec => []Copied
<1>1. IInv => Copied
  BY DEF IInv
<1> QED BY <1>1, Invariance, PTL

-----------------------------------------------------------------------------
(* The promise.                                                            *)

\* A backup is done only if Done was returned, and there is none between calls.
DoneKnown ==
    /\ b.rc = "done" => ret = "Done"
    /\ call = "none" => b = NoBackup

\* What the Rust side makes of a step says Done for a backup that is done.
LEMMA ReturnedKnown ==
  ASSUME NEW bk \in sqlite3_backup, NEW i, Returned(bk, i), call # "none"
  PROVE  DoneKnown' /\ (ret' = "Done" => bk.rc = "done")
<1>1. NoBackup.rc = "ok"
  BY DEF NoBackup
<1>2. bk.rc = "done" <=> StepResult[bk.rc] = "Done"
  BY DEF StepResult, sqlite3_backup
<1> QED BY <1>1, <1>2 DEF Returned, DoneKnown

\* A change of the source leaves a backup done that was done, and no backup none.
LEMMA SourceKnown ==
  ASSUME IInv, DoneKnown, Source
  PROVE  DoneKnown' /\ UNCHANGED <<dst, ret>>
<1>1. UNCHANGED <<dst, ret, call>>
  BY DEF Source, BeginRead, EndRead, Write, Spill, Commit, Rollback, ExternalCommit, ExternalLock,
    DestinationLock, rustVars
<1>2. b' = b \/ b' = Restarted(b) \/ \E S, c : BackupUpdate(S, c)
  BY DEF Source, BeginRead, EndRead, Write, Spill, Commit, Rollback, ExternalCommit, ExternalLock,
    DestinationLock, Looked
<1>3. CASE b' = b
  BY <1>1, <1>3 DEF DoneKnown
<1>4. CASE b' = Restarted(b)
  <2>1. b'.rc = b.rc
    BY <1>4 DEF IInv, TypeOK, sqlite3_backup, Restarted
  <2>2. b = NoBackup => b' = b
    BY <1>4 DEF Restarted, NoBackup
  <2> QED BY <1>1, <2>1, <2>2 DEF DoneKnown
<1>5. CASE \E S, c : BackupUpdate(S, c)
  <2>1. PICK S, c : BackupUpdate(S, c)
    BY <1>5
  <2>2. b = NoBackup => \A p \in S : ~Outdated(p, c)
    BY DEF Outdated, NoBackup
  <2>3. b' = b \/ (b # NoBackup /\ b' = [b EXCEPT !.rc = "err"])
    BY <2>1, <2>2 DEF BackupUpdate
  <2>4. b'.rc = "done" => b.rc = "done"
    BY <2>3 DEF IInv, TypeOK, sqlite3_backup
  <2>5. b = NoBackup => b' = b
    BY <2>3
  <2> QED BY <1>1, <2>4, <2>5 DEF DoneKnown
<1> QED BY <1>1, <1>2, <1>3, <1>4, <1>5

\* A step other than the last copies nothing into the committed destination.
LEMMA OtherSteps ==
  ASSUME IInv, DoneKnown, StepAgain \/ StepRefused \/ StepFails
  PROVE  DoneKnown' /\ dst' = dst /\ (ret' = "Done" => ret = "Done")
<1>0. call # "none" /\ b \in sqlite3_backup
  BY DEF StepAgain, StepRefused, StepFails, IInv, TypeOK
<1>1. CASE StepAgain
  BY <1>0, <1>1, ReturnedKnown DEF StepAgain, DoneKnown
<1>2. CASE StepRefused
  <2>1. PICK k \in sqlite3_backup : Returned([k EXCEPT !.rc = "busy"], img)
    <3>1. CASE SourceRefuses /\ Returned([b EXCEPT !.rc = "busy"], img)
      BY <1>0, <3>1
    <3>2. CASE ~SourceRefuses /\ ReadsSource /\ Returned([Reading EXCEPT !.rc = "busy"], img)
      <4>1. Reading \in sqlite3_backup
        BY <1>2, <3>2, ReadKeeps DEF SourceRefuses, StepRefused
      <4> QED BY <3>2, <4>1
    <3> QED BY <1>2, <3>1, <3>2 DEF StepRefused
  <2>2. [k EXCEPT !.rc = "busy"] \in sqlite3_backup /\ [k EXCEPT !.rc = "busy"].rc = "busy"
    BY <2>1 DEF sqlite3_backup
  <2> QED BY <1>0, <1>2, <2>1, <2>2, ReturnedKnown DEF StepRefused
<1>3. CASE StepFails
  <2> DEFINE bk == [Reading EXCEPT !.rc = "err", !.bDestLocked = TRUE]
  <2>1. Reading \in sqlite3_backup
    BY <1>3, ReadKeeps DEF SourceRefuses, StepFails
  <2>2. bk \in sqlite3_backup /\ bk.rc = "err"
    BY <2>1 DEF sqlite3_backup
  <2>3. Returned(bk, img) /\ dst' = dst
    BY <1>3 DEF StepFails
  <2> HIDE DEF bk
  <2> QED BY <1>0, <2>2, <2>3, ReturnedKnown
<1> QED BY <1>1, <1>2, <1>3

\* The last step leaves a backup that is done.
LEMMA CopiesKnown ==
  ASSUME IInv, NEW n \in StepPages, StepCopies(n)
  PROVE  DoneKnown'
<1>1. PICK bk, i : Returned(bk, i) /\ bk.rc \in {"ok", "done"} /\ call # "none"
  BY DEF StepCopies
<1>2. NoBackup.rc = "ok"
  BY DEF NoBackup
<1> QED BY <1>1, <1>2 DEF Returned, DoneKnown, StepResult

\* Every step of a backup is a step of the promise or changes nothing of it.
LEMMA StepPromise ==
  ASSUME IInv, IInv', DoneKnown, [Next]_vars
  PROVE  DoneKnown' /\ [Promise!Change \/ Promise!Copy]_<<IF srcTx = "read" THEN seen ELSE file,
                                                          dst, ret = "Done">>
<1> DEFINE src == IF srcTx = "read" THEN seen ELSE file
<1>1. src' \in Content
  BY DEF IInv, TypeOK
<1>2. (dst' = dst /\ (ret' = "Done" => ret = "Done")) => Promise!Change
  BY <1>1 DEF Promise!Change
<1>3. CASE Source
  BY <1>2, <1>3, SourceKnown
<1>4. CASE StepAgain \/ StepRefused \/ StepFails
  BY <1>2, <1>4, OtherSteps
<1>5. CASE \E n \in StepPages : StepCopies(n)
  <2>1. PICK n \in StepPages : StepCopies(n)
    BY <1>5
  <2>2. src' = src /\ (dst' = dst \/ dst' = src) /\ (dst' # dst => ret' = "Done")
        /\ (ret' = "Done" => dst' = src)
    BY <2>1, CopiesRight DEF IInv, TypeOK
  <2>3. DoneKnown'
    BY <2>1, CopiesKnown
  <2>4. CASE ret' = "Done"
    BY <2>2, <2>3, <2>4 DEF Promise!Copy
  <2>5. CASE ret' # "Done"
    BY <1>2, <2>2, <2>3, <2>5
  <2> QED BY <2>4, <2>5
<1>6. CASE run_to_completion \/ Drop \/ \E c \in {"handle", "backup", "restore"} : New(c)
  <2>1. dst' = dst /\ (ret' = "Done" => ret = "Done")
    BY <1>6 DEF run_to_completion, Drop, New, srcVars
  <2>2. DoneKnown'
    BY <1>6 DEF run_to_completion, Drop, New, DoneKnown, NoBackup
  <2> QED BY <1>2, <2>1, <2>2
<1>7. CASE UNCHANGED vars
  BY <1>7 DEF vars, srcVars, rustVars, DoneKnown
<1> QED BY <1>3, <1>4, <1>5, <1>6, <1>7 DEF Next, Step

\* A backup implements the promise of Snapshot: the destination changes once,
\* to what the source holds at that moment, with Done.
THEOREM BackupIsSnapshot == Spec => ImplementsSnapshot
<1>1. Init => DoneKnown /\ Promise!Init
  <2>1. Init => DoneKnown
    BY DEF Init, DoneKnown, NoBackup
  <2>2. Init => Promise!Init
    BY InitHolds DEF Init, IInv, TypeOK, Promise!Init
  <2> QED BY <2>1, <2>2
<1>2. IInv /\ IInv' /\ DoneKnown /\ [Next]_vars =>
        DoneKnown' /\ [Promise!Change \/ Promise!Copy]_<<IF srcTx = "read" THEN seen ELSE file,
                                                         dst, ret = "Done">>
  BY StepPromise
<1> QED BY <1>1, <1>2, Invariance, PTL DEF Spec, ImplementsSnapshot, Promise!Spec

=============================================================================
