------------------------- MODULE Transaction_proofs -------------------------
(***************************************************************************)
(* Proofs about Transaction, for any nesting depth, names, changes and     *)
(* drop behaviors.  Two invariants carry them.                             *)
(*                                                                         *)
(* Tracked: unless a statement rolled the transaction back under them,     *)
(* every live Savepoint has a savepoint of its own in SQLite, in the order *)
(* of the scopes, however many abandoned ones lie between, and a live      *)
(* Transaction is the outermost scope and restores the committed contents. *)
(*                                                                         *)
(* Held: as long as nothing was abandoned, SQLite has open exactly what    *)
(* the innermost scopes opened; the outer ones, Old many, are those under  *)
(* which a statement rolled the transaction back.                          *)
(*                                                                         *)
(* The end of a scope runs up to five SQLite commands.  Pending describes  *)
(* the database while the scope's savepoint is still open, Released after  *)
(* it was released; each command takes Pending to one of the two.          *)
(***************************************************************************)
EXTENDS Transaction, FiniteSetTheorems, WellFoundedInduction, TLAPS

Frame == [name : Name, at : SUBSET Write]

-----------------------------------------------------------------------------
(* The most recent savepoint of a name.                                    *)

\* A set of naturals has a least element.
LEMMA LeastExists ==
    ASSUME NEW T, T \subseteq Nat, T # {}
    PROVE  \E m \in T : \A j \in T : m <= j
<1> DEFINE R == OpToRel(<, Nat)
<1>1. IsWellFoundedOn(R, Nat)
  BY NatLessThanWellFounded
<1>2. \A x, y \in Nat : x < y => <<x, y>> \in R
  BY DEF OpToRel
<1> HIDE DEF R
<1>3. PICK x \in T : \A y \in T : ~(<<y, x>> \in R)
  BY <1>1, WFMin
<1>4. x \in Nat
  OBVIOUS
<1>5. ASSUME NEW j \in T PROVE x <= j
  <2>1. j \in Nat
    OBVIOUS
  <2>2. ~(j < x)
    BY <1>2, <1>3, <1>4, <2>1
  <2> QED BY <1>4, <2>1, <2>2
<1> QED BY <1>5

\* A set of positions of a sequence has a greatest element.
LEMMA GreatestExists ==
    ASSUME NEW n \in Nat, NEW T, T \subseteq 1..n, T # {}
    PROVE  \E m \in T : \A j \in T : j <= m
<1> DEFINE U == {n - i : i \in T}
<1>1. \A i \in T : i \in 1..n /\ n - i \in Nat
  OBVIOUS
<1>2. U \subseteq Nat /\ U # {}
  BY <1>1
<1>3. PICK u \in U : \A j \in U : u <= j
  BY <1>2, LeastExists
<1>4. PICK m \in T : u = n - m
  BY <1>3
<1>5. \A j \in T : n - m <= n - j
  BY <1>3, <1>4
<1>6. \A j \in T : j <= m
  BY <1>1, <1>5
<1> QED BY <1>6

\* The fields of a database state.
LEMMA DbFields ==
    ASSUME NEW d \in Db
    PROVE  /\ d.begun \in BOOLEAN /\ d.frames \in Seq(Frame)
           /\ d.cur \in SUBSET Write /\ d.disk \in SUBSET Write /\ d.dirty \in BOOLEAN
           /\ Len(d.frames) \in Nat /\ DOMAIN d.frames = 1..Len(d.frames)
           /\ Autocommit(d) <=> ~d.begun /\ Len(d.frames) = 0
<1>1. /\ d.begun \in BOOLEAN /\ d.frames \in Seq(Frame)
      /\ d.cur \in SUBSET Write /\ d.disk \in SUBSET Write /\ d.dirty \in BOOLEAN
  BY DEF Db, Frame
<1>2. d.frames = <<>> <=> Len(d.frames) = 0
  BY <1>1
<1> QED BY <1>1, <1>2 DEF Autocommit

\* MostRecent is the last position of the name, 0 if the name is not there.
LEMMA MostRecentFacts ==
    ASSUME NEW d \in Db, NEW n
    PROVE  /\ MostRecent(d, n) \in 0..Len(d.frames)
           /\ MostRecent(d, n) # 0 => d.frames[MostRecent(d, n)].name = n
           /\ \A i \in 1..Len(d.frames) : d.frames[i].name = n => i <= MostRecent(d, n)
<1>1. Len(d.frames) \in Nat /\ DOMAIN d.frames = 1..Len(d.frames)
  BY DbFields
<1>2. Named(d, n) \subseteq 1..Len(d.frames)
  BY <1>1 DEF Named
<1>3. CASE Named(d, n) = {}
  BY <1>1, <1>3 DEF MostRecent, Named
<1>4. CASE Named(d, n) # {}
  <2>1. \E m \in Named(d, n) : \A j \in Named(d, n) : j <= m
    BY <1>1, <1>2, <1>4, GreatestExists
  <2>2. /\ MostRecent(d, n) \in Named(d, n)
        /\ \A j \in Named(d, n) : j <= MostRecent(d, n)
    BY <1>4, <2>1 DEF MostRecent
  <2> QED BY <1>1, <1>2, <2>2 DEF Named
<1> QED BY <1>3, <1>4

\* A position of the name that no other one exceeds is the most recent.
LEMMA MostRecentIs ==
    ASSUME NEW d \in Db, NEW n, NEW m \in 1..Len(d.frames), d.frames[m].name = n,
           \A i \in 1..Len(d.frames) : d.frames[i].name = n => i <= m
    PROVE  MostRecent(d, n) = m
<1>1. /\ MostRecent(d, n) \in 0..Len(d.frames) /\ m <= MostRecent(d, n)
      /\ MostRecent(d, n) # 0 => d.frames[MostRecent(d, n)].name = n
  BY MostRecentFacts
<1>2. Len(d.frames) \in Nat
  BY DbFields
<1>3. MostRecent(d, n) \in 1..Len(d.frames)
  BY <1>1, <1>2
<1>4. MostRecent(d, n) <= m
  BY <1>1, <1>3
<1> QED BY <1>1, <1>2, <1>3, <1>4

-----------------------------------------------------------------------------
(* SQLite's commands.                                                      *)

\* Ending the transaction leaves autocommit mode.
LEMMA ClosedFacts ==
    ASSUME NEW c \in SUBSET Write
    PROVE  /\ Closed(c) \in Db /\ Autocommit(Closed(c)) /\ Closed(c).cur = c /\ Closed(c).disk = c
           /\ Closed(c).begun = FALSE /\ Closed(c).frames = <<>> /\ Len(Closed(c).frames) = 0
<1>1. <<>> \in Seq(Frame)
  OBVIOUS
<1> QED BY <1>1 DEF Closed, Db, Autocommit, Frame

\* Commands on savepoints keep the transaction.
LEMMA WithinFacts ==
    ASSUME NEW d \in Db, NEW f \in Seq(Frame), NEW c \in SUBSET Write
    PROVE  /\ Within(d, f, c) \in Db /\ Within(d, f, c).begun = d.begun
           /\ Within(d, f, c).frames = f /\ Within(d, f, c).cur = c /\ Within(d, f, c).disk = d.disk
<1>1. d.begun \in BOOLEAN /\ d.disk \in SUBSET Write /\ d.dirty \in BOOLEAN
  BY DbFields
<1> QED BY <1>1 DEF Within, Db, Frame

\* The outcomes of making the contents durable.
LEMMA MakeDurableFacts ==
    ASSUME NEW d \in Db, NEW r \in MakeDurable(d)
    PROVE  \/ r.ok = TRUE /\ r.db = Closed(d.cur)
           \/ r.ok = FALSE /\ r.db = d /\ (~d.begun => "sp" \in Busy)
           \/ r.ok = FALSE /\ r.db = Closed(d.disk) /\ d.begun
BY DEF MakeDurable, Ok, Err, Committed, RolledBack

\* COMMIT and ROLLBACK.
LEMMA CommitFacts ==
    ASSUME NEW d \in Db, NEW r \in COMMIT(d)
    PROVE  \/ r.ok = TRUE /\ r.db = Closed(d.cur)
           \/ r.ok = FALSE /\ r.db = d
           \/ r.ok = FALSE /\ r.db = Closed(d.disk)
<1>1. CASE Autocommit(d)
  BY <1>1 DEF COMMIT, Err
<1>2. CASE ~Autocommit(d)
  BY <1>2, MakeDurableFacts DEF COMMIT
<1> QED BY <1>1, <1>2

LEMMA RollbackFacts ==
    ASSUME NEW d \in Db, NEW r \in ROLLBACK(d)
    PROVE  IF Autocommit(d) THEN r.db = d ELSE r.db = Closed(d.disk)
BY DEF ROLLBACK, Ok, Err, RolledBack

\* RELEASE: no such savepoint; the outermost one, which commits or is refused;
\* or the savepoints from that one on are gone.
LEMMA ReleaseFacts ==
    ASSUME NEW d \in Db, NEW n, NEW r \in RELEASE(d, n), NEW m, m = MostRecent(d, n)
    PROVE  \/ m = 0 /\ r.ok = FALSE /\ r.db = d
           \/ m = 1 /\ ~d.begun /\ r.ok = TRUE /\ r.db = Closed(d.cur)
           \/ m = 1 /\ ~d.begun /\ r.ok = FALSE /\ r.db = d /\ "sp" \in Busy
           \/ /\ m # 0 /\ ~(m = 1 /\ ~d.begun) /\ r.ok = TRUE
              /\ r.db = Within(d, SubSeq(d.frames, 1, m - 1), d.cur)
<1>1. CASE m = 0
  BY <1>1 DEF RELEASE, Err
<1>2. CASE m = 1 /\ ~d.begun
  <2>1. r \in MakeDurable(d)
    BY <1>2 DEF RELEASE
  <2> QED BY <1>2, <2>1, MakeDurableFacts
<1>3. CASE m # 0 /\ ~(m = 1 /\ ~d.begun)
  BY <1>3 DEF RELEASE, Ok
<1> QED BY <1>1, <1>2, <1>3

\* ROLLBACK TO: the savepoint stays open.
LEMMA RollbackToFacts ==
    ASSUME NEW d \in Db, NEW n, NEW r \in ROLLBACK_TO(d, n), NEW m, m = MostRecent(d, n)
    PROVE  \/ m = 0 /\ r.ok = FALSE /\ r.db = d
           \/ m # 0 /\ r.ok = TRUE /\ r.db = Within(d, SubSeq(d.frames, 1, m), d.frames[m].at)
BY DEF ROLLBACK_TO, Ok, Err

-----------------------------------------------------------------------------
(* The end of a savepoint.                                                 *)

\* q: from d on, the savepoint n was perhaps rolled back to, never released.
Pending(d, n, q) ==
    LET m == MostRecent(d, n) IN
    /\ q \in Db /\ q.begun = d.begun /\ q.disk = d.disk
    /\ Len(q.frames) \in m..Len(d.frames)
    /\ \A i \in 1..Len(q.frames) : q.frames[i] = d.frames[i]
    /\ m = 0 => q = d
    /\ m # 0 => q.cur \in {d.cur, d.frames[m].at}

\* q: from d on, the savepoint n was perhaps rolled back to, then released.
Released(d, n, q) ==
    LET m == MostRecent(d, n) IN
    /\ q \in Db /\ m # 0 /\ q.cur \in {d.cur, d.frames[m].at}
    /\ IF m = 1 /\ ~d.begun THEN q = Closed(q.cur)
       ELSE /\ q.begun = d.begun /\ q.disk = d.disk /\ Len(q.frames) = m - 1
            /\ \A i \in 1..(m - 1) : q.frames[i] = d.frames[i]

\* Before the first command the savepoint is pending.
LEMMA PendingStart ==
    ASSUME NEW d \in Db, NEW n
    PROVE  Pending(d, n, d)
<1>1. MostRecent(d, n) \in 0..Len(d.frames) /\ Len(d.frames) \in Nat
  BY MostRecentFacts, DbFields
<1> QED BY <1>1 DEF Pending

\* While it is pending SQLite still finds the same savepoint under the name.
LEMMA PendingName ==
    ASSUME NEW d \in Db, NEW n, NEW q, Pending(d, n, q), NEW m, m = MostRecent(d, n)
    PROVE  /\ MostRecent(q, n) = m /\ m \in 0..Len(q.frames) /\ Len(q.frames) \in Nat
           /\ m # 0 => q.frames[m] = d.frames[m]
<1>1. q \in Db /\ Len(d.frames) \in Nat /\ Len(q.frames) \in Nat
  BY DbFields DEF Pending
<1>2. /\ m \in 0..Len(d.frames)
      /\ m # 0 => d.frames[m].name = n
      /\ \A i \in 1..Len(d.frames) : d.frames[i].name = n => i <= m
  BY MostRecentFacts
<1>3. /\ Len(q.frames) \in m..Len(d.frames)
      /\ \A i \in 1..Len(q.frames) : q.frames[i] = d.frames[i]
      /\ m = 0 => q = d
  BY DEF Pending
<1>4. CASE m = 0
  BY <1>1, <1>2, <1>3, <1>4
<1>5. CASE m # 0
  <2>1. m \in 1..Len(q.frames) /\ q.frames[m] = d.frames[m]
    BY <1>1, <1>2, <1>3, <1>5
  <2>2. \A i \in 1..Len(q.frames) : q.frames[i].name = n => i <= m
    BY <1>1, <1>2, <1>3
  <2>3. q.frames[m].name = n
    BY <1>2, <1>5, <2>1
  <2>4. MostRecent(q, n) = m
    BY <1>1, <2>1, <2>2, <2>3, MostRecentIs
  <2> QED BY <1>1, <2>1, <2>4
<1> QED BY <1>4, <1>5

\* RELEASE of a pending savepoint releases it, or fails and changes nothing: the
\* savepoint is not there, or another connection has the lock.
LEMMA PendingRelease ==
    ASSUME NEW d \in Db, NEW n, NEW q, Pending(d, n, q), NEW r \in RELEASE(q, n),
           NEW m, m = MostRecent(d, n)
    PROVE  \/ r.ok /\ Released(d, n, r.db) /\ r.db.cur = q.cur
           \/ ~r.ok /\ r.db = q /\ (m = 0 \/ "sp" \in Busy)
<1>1. q \in Db /\ q.begun = d.begun /\ q.disk = d.disk
  BY DEF Pending
<1>2. /\ MostRecent(q, n) = m /\ m \in 0..Len(q.frames) /\ Len(q.frames) \in Nat
      /\ m # 0 => q.frames[m] = d.frames[m]
  BY PendingName
<1>3. q.cur \in SUBSET Write /\ q.frames \in Seq(Frame)
  BY <1>1, DbFields
<1>4. \/ m = 0 /\ r.ok = FALSE /\ r.db = q
      \/ m = 1 /\ ~q.begun /\ r.ok = TRUE /\ r.db = Closed(q.cur)
      \/ m = 1 /\ ~q.begun /\ r.ok = FALSE /\ r.db = q /\ "sp" \in Busy
      \/ /\ m # 0 /\ ~(m = 1 /\ ~q.begun) /\ r.ok = TRUE
         /\ r.db = Within(q, SubSeq(q.frames, 1, m - 1), q.cur)
  <2>1. m = MostRecent(q, n)
    BY <1>2
  <2> QED BY <1>1, <2>1, ReleaseFacts
<1>5. m # 0 => q.cur \in {d.cur, d.frames[m].at}
  BY DEF Pending
<1>6. CASE m = 1 /\ ~q.begun /\ r.ok = TRUE /\ r.db = Closed(q.cur)
  <2>1. r.db \in Db /\ r.db.cur = q.cur
    BY <1>3, <1>6, ClosedFacts
  <2> QED BY <1>1, <1>5, <1>6, <2>1 DEF Released
<1>7. CASE /\ m # 0 /\ ~(m = 1 /\ ~q.begun) /\ r.ok = TRUE
           /\ r.db = Within(q, SubSeq(q.frames, 1, m - 1), q.cur)
  <2>1. m - 1 \in 0..Len(q.frames)
    BY <1>2, <1>7
  <2>2. /\ SubSeq(q.frames, 1, m - 1) \in Seq(Frame)
        /\ Len(SubSeq(q.frames, 1, m - 1)) = m - 1
        /\ \A i \in 1..(m - 1) : SubSeq(q.frames, 1, m - 1)[i] = q.frames[i]
    BY <1>2, <1>3, <2>1
  <2>3. /\ r.db \in Db /\ r.db.begun = q.begun /\ r.db.disk = q.disk /\ r.db.cur = q.cur
        /\ r.db.frames = SubSeq(q.frames, 1, m - 1)
    <3>1. PICK f : f = SubSeq(q.frames, 1, m - 1)
      OBVIOUS
    <3>2. f \in Seq(Frame) /\ r.db = Within(q, f, q.cur)
      BY <1>7, <2>2, <3>1
    <3>3. /\ Within(q, f, q.cur) \in Db /\ Within(q, f, q.cur).begun = q.begun
          /\ Within(q, f, q.cur).frames = f /\ Within(q, f, q.cur).cur = q.cur
          /\ Within(q, f, q.cur).disk = q.disk
      BY <1>1, <1>3, <3>2, WithinFacts
    <3>4. /\ r.db \in Db /\ r.db.begun = q.begun /\ r.db.disk = q.disk
          /\ r.db.cur = q.cur /\ r.db.frames = f
      BY <3>2, <3>3
    <3> QED BY <3>1, <3>4
  <2>4. \A i \in 1..(m - 1) : q.frames[i] = d.frames[i]
    BY <1>2, <2>1 DEF Pending
  <2>5. \A i \in 1..(m - 1) : r.db.frames[i] = d.frames[i]
    BY <2>2, <2>3, <2>4
  <2> QED BY <1>1, <1>5, <1>7, <2>2, <2>3, <2>5 DEF Released
<1> QED BY <1>4, <1>6, <1>7

\* ROLLBACK TO a pending savepoint restores its contents; it fails only when the
\* savepoint is not there.
LEMMA PendingRollbackTo ==
    ASSUME NEW d \in Db, NEW n, NEW q, Pending(d, n, q), NEW r \in ROLLBACK_TO(q, n),
           NEW m, m = MostRecent(d, n)
    PROVE  /\ Pending(d, n, r.db)
           /\ \/ m # 0 /\ r.ok /\ r.db.cur = d.frames[m].at
              \/ m = 0 /\ ~r.ok /\ r.db = q
<1>1. q \in Db /\ q.begun = d.begun /\ q.disk = d.disk
  BY DEF Pending
<1>2. /\ MostRecent(q, n) = m /\ m \in 0..Len(q.frames) /\ Len(q.frames) \in Nat
      /\ m # 0 => q.frames[m] = d.frames[m]
  BY PendingName
<1>3. q.frames \in Seq(Frame) /\ Len(d.frames) \in Nat
  BY <1>1, DbFields
<1>4. \/ m = 0 /\ r.ok = FALSE /\ r.db = q
      \/ m # 0 /\ r.ok = TRUE /\ r.db = Within(q, SubSeq(q.frames, 1, m), q.frames[m].at)
  <2>1. m = MostRecent(q, n)
    BY <1>2
  <2> QED BY <1>1, <2>1, RollbackToFacts
<1>5. CASE m # 0 /\ r.ok = TRUE /\ r.db = Within(q, SubSeq(q.frames, 1, m), q.frames[m].at)
  <2>1. /\ SubSeq(q.frames, 1, m) \in Seq(Frame)
        /\ Len(SubSeq(q.frames, 1, m)) = m
        /\ \A i \in 1..m : SubSeq(q.frames, 1, m)[i] = q.frames[i]
    BY <1>2, <1>3, <1>5
  <2>2. q.frames[m] \in Frame
    BY <1>2, <1>3, <1>5
  <2>3. q.frames[m].at \in SUBSET Write
    BY <2>2 DEF Frame
  <2>4. /\ r.db \in Db /\ r.db.begun = q.begun /\ r.db.disk = q.disk
        /\ r.db.cur = q.frames[m].at /\ r.db.frames = SubSeq(q.frames, 1, m)
    <3>1. PICK f, c : f = SubSeq(q.frames, 1, m) /\ c = q.frames[m].at
      OBVIOUS
    <3>2. f \in Seq(Frame) /\ c \in SUBSET Write /\ r.db = Within(q, f, c)
      BY <1>5, <2>1, <2>3, <3>1
    <3>3. /\ Within(q, f, c) \in Db /\ Within(q, f, c).begun = q.begun
          /\ Within(q, f, c).frames = f /\ Within(q, f, c).cur = c /\ Within(q, f, c).disk = q.disk
      BY <1>1, <3>2, WithinFacts
    <3>4. /\ r.db \in Db /\ r.db.begun = q.begun /\ r.db.disk = q.disk
          /\ r.db.cur = c /\ r.db.frames = f
      BY <3>2, <3>3
    <3> QED BY <3>1, <3>4
  <2>5. /\ \A i \in 1..m : q.frames[i] = d.frames[i]
        /\ m <= Len(d.frames)
    BY <1>2, <1>3 DEF Pending
  <2>6. \A i \in 1..m : r.db.frames[i] = d.frames[i]
    BY <2>1, <2>4, <2>5
  <2>7. Len(r.db.frames) \in m..Len(d.frames)
    BY <1>2, <1>3, <2>1, <2>4, <2>5
  <2> QED BY <1>1, <1>2, <1>5, <2>1, <2>4, <2>6, <2>7 DEF Pending
<1> QED BY <1>4, <1>5

-----------------------------------------------------------------------------
(* The methods of a savepoint.                                             *)

\* commit_ releases the savepoint and marks it committed, or changes nothing.
LEMMA SpCommitFacts ==
    ASSUME NEW d \in Db, NEW s, NEW n, n = s.name, NEW q, Pending(d, n, q), NEW e \in SpCommit(s, q),
           NEW m, m = MostRecent(d, n)
    PROVE  /\ ~e.panic
           /\ \/ e.committed /\ Released(d, n, e.db) /\ e.db.cur = q.cur
              \/ ~e.committed /\ e.db = q /\ (m = 0 \/ "sp" \in Busy)
<1>1. PICK r \in RELEASE(q, n) : e = Ending(r.db, r.ok, FALSE)
  BY DEF SpCommit
<1>2. e.db = r.db /\ e.committed = r.ok /\ ~e.panic
  BY <1>1 DEF Ending
<1>3. \/ r.ok /\ Released(d, n, r.db) /\ r.db.cur = q.cur
      \/ ~r.ok /\ r.db = q /\ (m = 0 \/ "sp" \in Busy)
  BY PendingRelease
<1> QED BY <1>2, <1>3

\* rollback, then commit_: the contents are those of the savepoint, and it stays
\* open only when the release is refused.
LEMMA SpRollbackAndCommitFacts ==
    ASSUME NEW d \in Db, NEW s, NEW n, n = s.name, NEW q, Pending(d, n, q), NEW e \in SpRollbackAndCommit(s, q),
           NEW m, m = MostRecent(d, n)
    PROVE  /\ ~e.panic
           /\ m # 0 => e.db.cur = d.frames[m].at
           /\ \/ e.committed /\ Released(d, n, e.db)
              \/ ~e.committed /\ Pending(d, n, e.db) /\ (m = 0 \/ "sp" \in Busy)
<1>1. PICK r \in ROLLBACK_TO(q, n) :
        e \in IF r.ok THEN SpCommit(s, r.db) ELSE {Ending(r.db, FALSE, FALSE)}
  BY DEF SpRollbackAndCommit
<1>2. /\ Pending(d, n, r.db)
      /\ \/ m # 0 /\ r.ok /\ r.db.cur = d.frames[m].at
         \/ m = 0 /\ ~r.ok /\ r.db = q
  BY PendingRollbackTo
<1>3. CASE m # 0 /\ r.ok /\ r.db.cur = d.frames[m].at
  <2>1. e \in SpCommit(s, r.db)
    BY <1>1, <1>3
  <2>2. /\ ~e.panic
        /\ \/ e.committed /\ Released(d, n, e.db) /\ e.db.cur = r.db.cur
           \/ ~e.committed /\ e.db = r.db /\ (m = 0 \/ "sp" \in Busy)
    BY <1>2, <2>1, SpCommitFacts
  <2> QED BY <1>2, <1>3, <2>2
<1>4. CASE m = 0 /\ ~r.ok /\ r.db = q
  <2>1. e = Ending(r.db, FALSE, FALSE)
    BY <1>1, <1>4
  <2>2. e.db = q /\ ~e.committed /\ ~e.panic
    BY <1>4, <2>1 DEF Ending
  <2> QED BY <1>4, <2>2
<1> QED BY <1>2, <1>3, <1>4

\* finish_ of a savepoint that is not marked committed.
LEMMA SpFinishFacts ==
    ASSUME NEW d \in Db, NEW s, NEW n, n = s.name, s.behavior \in {"Rollback", "Commit", "Ignore", "Panic"},
           ~s.committed, NEW q, Pending(d, n, q), NEW e \in SpFinish(s, q),
           NEW m, m = MostRecent(d, n)
    PROVE  /\ e.panic <=> (s.behavior = "Panic")
           /\ s.behavior = "Rollback" /\ m # 0 => e.db.cur = d.frames[m].at
           /\ \/ e.committed /\ Released(d, n, e.db)
              \/ /\ ~e.committed /\ Pending(d, n, e.db)
                 /\ s.behavior \in {"Rollback", "Commit"} => m = 0 \/ "sp" \in Busy
<1>1. CASE s.behavior = "Rollback"
  <2>1. e \in SpRollbackAndCommit(s, q)
    BY <1>1 DEF SpFinish
  <2> QED BY <1>1, <2>1, SpRollbackAndCommitFacts
<1>2. CASE s.behavior = "Commit"
  <2>1. e \in UNION {IF c.committed THEN {c} ELSE SpRollbackAndCommit(s, c.db) : c \in SpCommit(s, q)}
    BY <1>2 DEF SpFinish
  <2>2. PICK c \in SpCommit(s, q) : e \in IF c.committed THEN {c} ELSE SpRollbackAndCommit(s, c.db)
    BY <2>1
  <2>3. /\ ~c.panic
        /\ \/ c.committed /\ Released(d, n, c.db) /\ c.db.cur = q.cur
           \/ ~c.committed /\ c.db = q /\ (m = 0 \/ "sp" \in Busy)
    BY SpCommitFacts
  <2>4. CASE c.committed
    BY <1>2, <2>2, <2>3, <2>4
  <2>5. CASE ~c.committed
    <3>1. e \in SpRollbackAndCommit(s, q)
      BY <2>2, <2>3, <2>5
    <3> QED BY <1>2, <3>1, SpRollbackAndCommitFacts
  <2> QED BY <2>3, <2>4, <2>5
<1>3. CASE s.behavior = "Ignore"
  <2>1. e = Ending(q, FALSE, FALSE)
    BY <1>3 DEF SpFinish
  <2>2. e.db = q /\ ~e.committed /\ ~e.panic
    BY <2>1 DEF Ending
  <2> QED BY <1>3, <2>2
<1>4. CASE s.behavior = "Panic"
  <2>1. e = Ending(q, FALSE, TRUE)
    BY <1>4 DEF SpFinish
  <2>2. e.db = q /\ ~e.committed /\ e.panic
    BY <2>1 DEF Ending
  <2> QED BY <1>4, <2>2
<1> QED BY <1>1, <1>2, <1>3, <1>4

\* The scope as the destructor finds it.
LEMMA Marked ==
    ASSUME NEW s \in Scope, NEW c, NEW t, t = [s EXCEPT !.committed = c]
    PROVE  /\ t.kind = s.kind /\ t.name = s.name /\ t.behavior = s.behavior /\ t.committed = c
           /\ s.behavior \in {"Rollback", "Commit", "Ignore", "Panic"}
BY DEF Scope

\* The end of a savepoint: commit, drop or finish, destructor included.  Its
\* savepoint is released, or still open, and then because of its behavior, because
\* the savepoint is not there or because another connection has the lock.
SpEnded(s, d, e) ==
    LET m == MostRecent(d, s.name) IN
    \/ e.committed /\ Released(d, s.name, e.db)
    \/ /\ ~e.committed /\ Pending(d, s.name, e.db)
       /\ s.behavior \in {"Rollback", "Commit"} => m = 0 \/ "sp" \in Busy

\* The destructor after a method that released the savepoint, or did not.
LEMMA SpDroppedFacts ==
    ASSUME NEW d \in Db, NEW s \in Scope, NEW n, n = s.name, s.kind = "sp", NEW e, NEW f \in Dropped(s, e),
           NEW m, m = MostRecent(d, n),
           \/ e.committed /\ Released(d, n, e.db)
           \/ ~e.committed /\ Pending(d, n, e.db)
    PROVE  /\ SpEnded(s, d, f)
           /\ f.panic => s.behavior = "Panic"
           /\ e.committed => f.db = e.db
           /\ ~e.committed /\ s.behavior = "Rollback" /\ m # 0 => f.db.cur = d.frames[m].at
<1>1. PICK t : t = [s EXCEPT !.committed = e.committed]
  OBVIOUS
<1>2. /\ t.kind = s.kind /\ t.name = s.name /\ t.behavior = s.behavior /\ t.committed = e.committed
      /\ s.behavior \in {"Rollback", "Commit", "Ignore", "Panic"}
  BY <1>1, Marked
<1>3. f \in SpFinish(t, e.db)
  BY <1>1, <1>2 DEF Dropped, Finish
<1>4. CASE e.committed /\ Released(d, n, e.db)
  <2>1. f = Ending(e.db, TRUE, FALSE)
    BY <1>2, <1>3, <1>4 DEF SpFinish
  <2>2. f.db = e.db /\ f.committed /\ ~f.panic
    BY <2>1 DEF Ending
  <2> QED BY <1>4, <2>2 DEF SpEnded
<1>5. CASE ~e.committed /\ Pending(d, n, e.db)
  <2>1. n = t.name /\ ~t.committed
        /\ t.behavior \in {"Rollback", "Commit", "Ignore", "Panic"}
    BY <1>2, <1>5
  <2>2. /\ f.panic <=> (t.behavior = "Panic")
        /\ t.behavior = "Rollback" /\ m # 0 => f.db.cur = d.frames[m].at
        /\ \/ f.committed /\ Released(d, n, f.db)
           \/ /\ ~f.committed /\ Pending(d, n, f.db)
              /\ t.behavior \in {"Rollback", "Commit"} => m = 0 \/ "sp" \in Busy
    BY <1>3, <1>5, <2>1, SpFinishFacts
  <2> QED BY <1>2, <1>5, <2>2 DEF SpEnded
<1> QED BY <1>4, <1>5

-----------------------------------------------------------------------------
(* The methods of a transaction.                                           *)

\* finish_ of a transaction.
LEMMA TxFinishFacts ==
    ASSUME NEW d \in Db, NEW s, s.behavior \in {"Rollback", "Commit", "Ignore", "Panic"},
           NEW e \in TxFinish(s, d)
    PROVE  /\ ~e.committed
           /\ e.panic => s.behavior = "Panic"
           /\ IF Autocommit(d) THEN e.db = d
              ELSE \/ s.behavior \in {"Rollback", "Commit"} /\ e.db = Closed(d.disk)
                   \/ s.behavior = "Commit" /\ e.db = Closed(d.cur)
                   \/ s.behavior \in {"Ignore", "Panic"} /\ e.db = d
<1>1. CASE Autocommit(d)
  <2>1. e = Ending(d, FALSE, FALSE)
    BY <1>1 DEF TxFinish
  <2> QED BY <1>1, <2>1 DEF Ending
<1>2. CASE ~Autocommit(d) /\ s.behavior = "Rollback"
  <2>1. e \in TxRollback(d)
    BY <1>2 DEF TxFinish
  <2>2. PICK r \in ROLLBACK(d) : e = Ending(r.db, FALSE, FALSE)
    BY <2>1 DEF TxRollback
  <2>3. e.db = r.db /\ ~e.committed /\ ~e.panic
    BY <2>2 DEF Ending
  <2>4. r.db = Closed(d.disk)
    BY <1>2, RollbackFacts
  <2> QED BY <1>2, <2>3, <2>4
<1>3. CASE ~Autocommit(d) /\ s.behavior = "Commit"
  <2>1. e \in TxCommitOrRollback(d)
    BY <1>3 DEF TxFinish
  <2>2. PICK r \in COMMIT(d) : e \in IF r.ok THEN {Ending(r.db, FALSE, FALSE)} ELSE TxRollback(r.db)
    BY <2>1 DEF TxCommitOrRollback
  <2>3. \/ r.ok = TRUE /\ r.db = Closed(d.cur)
        \/ r.ok = FALSE /\ r.db = d
        \/ r.ok = FALSE /\ r.db = Closed(d.disk)
    BY CommitFacts
  <2>4. CASE r.ok = TRUE /\ r.db = Closed(d.cur)
    <3>1. e = Ending(r.db, FALSE, FALSE)
      BY <2>2, <2>4
    <3> QED BY <1>3, <2>4, <3>1 DEF Ending
  <2>5. CASE r.ok = FALSE /\ (r.db = d \/ r.db = Closed(d.disk))
    <3>1. PICK q \in ROLLBACK(r.db) : e = Ending(q.db, FALSE, FALSE)
      BY <2>2, <2>5 DEF TxRollback
    <3>2. e.db = q.db /\ ~e.committed /\ ~e.panic
      BY <3>1 DEF Ending
    <3>3. d.disk \in SUBSET Write
      BY DbFields
    <3>4. Closed(d.disk) \in Db /\ Autocommit(Closed(d.disk))
      BY <3>3, ClosedFacts
    <3>5. CASE r.db = d
      <4>1. q \in ROLLBACK(d)
        BY <3>5
      <4>2. q.db = Closed(d.disk)
        BY <1>3, <4>1, RollbackFacts
      <4> QED BY <1>3, <3>2, <4>2
    <3>6. CASE r.db = Closed(d.disk)
      <4>1. PICK c : c = Closed(d.disk)
        OBVIOUS
      <4>2. c \in Db /\ Autocommit(c) /\ q \in ROLLBACK(c)
        BY <3>4, <3>6, <4>1
      <4>3. q.db = c
        BY <4>2, RollbackFacts
      <4> QED BY <1>3, <3>2, <4>1, <4>3
    <3> QED BY <2>5, <3>5, <3>6
  <2> QED BY <2>3, <2>4, <2>5
<1>4. CASE ~Autocommit(d) /\ s.behavior = "Ignore"
  <2>1. e = Ending(d, FALSE, FALSE)
    BY <1>4 DEF TxFinish
  <2> QED BY <1>4, <2>1 DEF Ending
<1>5. CASE ~Autocommit(d) /\ s.behavior = "Panic"
  <2>1. e = Ending(d, FALSE, TRUE)
    BY <1>5 DEF TxFinish
  <2> QED BY <1>5, <2>1 DEF Ending
<1> QED BY <1>1, <1>2, <1>3, <1>4, <1>5

\* The end of a transaction: the connection is in autocommit mode, or nothing
\* happened, and then because of the behavior or because it already was.
TxEnded(s, d, e) ==
    /\ ~e.committed
    /\ \/ e.db \in {Closed(d.cur), Closed(d.disk)}
       \/ e.db = d /\ (Autocommit(d) \/ s.behavior \in {"Ignore", "Panic"})

\* The destructor after a method that left the database open, committed or
\* rolled back.
LEMMA TxDroppedFacts ==
    ASSUME NEW d \in Db, NEW s \in Scope, s.kind = "tx", NEW e, NEW f \in Dropped(s, e),
           e.db \in {d, Closed(d.cur), Closed(d.disk)}
    PROVE  /\ TxEnded(s, d, f)
           /\ f.panic => s.behavior = "Panic"
           /\ e.db = Closed(d.disk) => f.db = Closed(d.disk)
           /\ e.db = Closed(d.cur) => f.db = Closed(d.cur)
<1>1. PICK t : t = [s EXCEPT !.committed = e.committed]
  OBVIOUS
<1>2. PICK q : q = e.db
  OBVIOUS
<1>3. /\ t.kind = s.kind /\ t.behavior = s.behavior
      /\ s.behavior \in {"Rollback", "Commit", "Ignore", "Panic"}
  BY <1>1, Marked
<1>4. f \in TxFinish(t, q)
  BY <1>1, <1>2, <1>3 DEF Dropped, Finish
<1>5. d.cur \in SUBSET Write /\ d.disk \in SUBSET Write
  BY DbFields
<1>6. /\ Closed(d.cur) \in Db /\ Autocommit(Closed(d.cur))
      /\ Closed(d.disk) \in Db /\ Autocommit(Closed(d.disk))
  BY <1>5, ClosedFacts
<1>7. q \in Db /\ q \in {d, Closed(d.cur), Closed(d.disk)}
  BY <1>2, <1>6
<1>8. t.behavior \in {"Rollback", "Commit", "Ignore", "Panic"}
  BY <1>3
<1>9. /\ ~f.committed
      /\ f.panic => t.behavior = "Panic"
      /\ IF Autocommit(q) THEN f.db = q
         ELSE \/ t.behavior \in {"Rollback", "Commit"} /\ f.db = Closed(q.disk)
              \/ t.behavior = "Commit" /\ f.db = Closed(q.cur)
              \/ t.behavior \in {"Ignore", "Panic"} /\ f.db = q
  BY <1>4, <1>7, <1>8, TxFinishFacts
<1>10. CASE q = d
  BY <1>2, <1>3, <1>6, <1>9, <1>10 DEF TxEnded
<1>11. CASE q = Closed(d.cur) \/ q = Closed(d.disk)
  <2>1. Autocommit(q)
    BY <1>6, <1>11
  <2>2. f.db = q
    BY <1>9, <2>1
  <2> QED BY <1>2, <1>3, <1>9, <1>11, <2>2 DEF TxEnded
<1> QED BY <1>7, <1>10, <1>11

-----------------------------------------------------------------------------
(* The end of the scope on top, whatever its kind.                         *)

Ended(s, d, e) == IF s.kind = "tx" THEN TxEnded(s, d, e) ELSE SpEnded(s, d, e)

\* q has the contents that the default behavior restores.
Restored(s, d, q) ==
    s.behavior = "Rollback" =>
      IF s.kind = "tx" THEN ~Autocommit(d) => q = Closed(d.disk)
      ELSE \A m \in Nat : m = MostRecent(d, s.name) /\ m # 0 => q.cur = d.frames[m].at

\* The fields of a live scope.
LEMMA ScopeFields ==
    ASSUME NEW s \in Scope
    PROVE  s.kind \in {"tx", "sp"} /\ s.behavior \in {"Rollback", "Commit", "Ignore", "Panic"}
BY DEF Scope

\* The destructor.
LEMMA FinishEnds ==
    ASSUME NEW s \in Scope, ~s.committed, NEW d \in Db, NEW e \in Finish(s, d)
    PROVE  Ended(s, d, e) /\ Restored(s, d, e.db) /\ (e.panic => s.behavior = "Panic")
<1>1. s.kind \in {"tx", "sp"} /\ s.behavior \in {"Rollback", "Commit", "Ignore", "Panic"}
  BY ScopeFields
<1>2. CASE s.kind = "tx"
  <2>1. e \in TxFinish(s, d)
    BY <1>2 DEF Finish
  <2>2. /\ ~e.committed
        /\ e.panic => s.behavior = "Panic"
        /\ IF Autocommit(d) THEN e.db = d
           ELSE \/ s.behavior \in {"Rollback", "Commit"} /\ e.db = Closed(d.disk)
                \/ s.behavior = "Commit" /\ e.db = Closed(d.cur)
                \/ s.behavior \in {"Ignore", "Panic"} /\ e.db = d
    BY <1>1, <2>1, TxFinishFacts
  <2> QED BY <1>2, <2>2 DEF Ended, TxEnded, Restored
<1>3. CASE s.kind = "sp"
  <2>1. e \in SpFinish(s, d)
    BY <1>3 DEF Finish
  <2>2. PICK n : n = s.name
    OBVIOUS
  <2>3. PICK m : m = MostRecent(d, n)
    OBVIOUS
  <2>4. Pending(d, n, d)
    BY PendingStart
  <2>5. /\ e.panic <=> (s.behavior = "Panic")
        /\ s.behavior = "Rollback" /\ m # 0 => e.db.cur = d.frames[m].at
        /\ \/ e.committed /\ Released(d, n, e.db)
           \/ /\ ~e.committed /\ Pending(d, n, e.db)
              /\ s.behavior \in {"Rollback", "Commit"} => m = 0 \/ "sp" \in Busy
    BY <1>1, <2>1, <2>2, <2>3, <2>4, SpFinishFacts
  <2>6. Ended(s, d, e)
    BY <1>3, <2>2, <2>3, <2>5 DEF Ended, SpEnded
  <2>7. Restored(s, d, e.db)
    BY <1>3, <2>2, <2>3, <2>5 DEF Restored
  <2> QED BY <2>5, <2>6, <2>7
<1> QED BY <1>1, <1>2, <1>3

\* finish(self): finish_, then the destructor.
LEMMA FinishedTwiceEnds ==
    ASSUME NEW s \in Scope, ~s.committed, NEW d \in Db, NEW e \in Finish(s, d), NEW f \in Dropped(s, e)
    PROVE  Ended(s, d, f) /\ Restored(s, d, f.db)
<1>1. s.kind \in {"tx", "sp"} /\ Ended(s, d, e) /\ Restored(s, d, e.db)
  BY ScopeFields, FinishEnds
<1>2. CASE s.kind = "tx"
  <2>1. e.db \in {d, Closed(d.cur), Closed(d.disk)}
    BY <1>1, <1>2 DEF Ended, TxEnded
  <2>2. /\ TxEnded(s, d, f)
        /\ e.db = Closed(d.disk) => f.db = Closed(d.disk)
    BY <1>2, <2>1, TxDroppedFacts
  <2> QED BY <1>1, <1>2, <2>2 DEF Ended, Restored
<1>3. CASE s.kind = "sp"
  <2>1. PICK n : n = s.name
    OBVIOUS
  <2>2. PICK m : m = MostRecent(d, n)
    OBVIOUS
  <2>3. (e.committed /\ Released(d, n, e.db)) \/ (~e.committed /\ Pending(d, n, e.db))
    BY <1>1, <1>3, <2>1 DEF Ended, SpEnded
  <2>4. /\ SpEnded(s, d, f)
        /\ e.committed => f.db = e.db
        /\ ~e.committed /\ s.behavior = "Rollback" /\ m # 0 => f.db.cur = d.frames[m].at
    BY <1>3, <2>1, <2>2, <2>3, SpDroppedFacts
  <2>5. Ended(s, d, f)
    BY <1>3, <2>4 DEF Ended
  <2>6. Restored(s, d, f.db)
    BY <1>1, <1>3, <2>1, <2>2, <2>4 DEF Restored
  <2> QED BY <2>5, <2>6
<1> QED BY <1>1, <1>2, <1>3

\* commit(self): COMMIT or commit_, then the destructor.
LEMMA CommitEnds ==
    ASSUME NEW s \in Scope, ~s.committed, NEW d \in Db,
           NEW e \in IF s.kind = "tx" THEN {Ending(r.db, FALSE, FALSE) : r \in COMMIT(d)} ELSE SpCommit(s, d),
           NEW f \in Dropped(s, e)
    PROVE  Ended(s, d, f)
<1>1. s.kind \in {"tx", "sp"}
  BY ScopeFields
<1>2. CASE s.kind = "tx"
  <2>1. PICK r \in COMMIT(d) : e = Ending(r.db, FALSE, FALSE)
    BY <1>2
  <2>2. e.db = r.db
    BY <2>1 DEF Ending
  <2>3. r.db \in {d, Closed(d.cur), Closed(d.disk)}
    BY CommitFacts
  <2>4. e.db \in {d, Closed(d.cur), Closed(d.disk)}
    BY <2>2, <2>3
  <2>5. TxEnded(s, d, f)
    BY <1>2, <2>4, TxDroppedFacts
  <2> QED BY <1>2, <2>5 DEF Ended
<1>3. CASE s.kind = "sp"
  <2>1. PICK n : n = s.name
    OBVIOUS
  <2>2. PICK m : m = MostRecent(d, n)
    OBVIOUS
  <2>3. Pending(d, n, d)
    BY PendingStart
  <2>4. e \in SpCommit(s, d)
    BY <1>3
  <2>5. \/ e.committed /\ Released(d, n, e.db) /\ e.db.cur = d.cur
        \/ ~e.committed /\ e.db = d /\ (m = 0 \/ "sp" \in Busy)
    BY <2>1, <2>2, <2>3, <2>4, SpCommitFacts
  <2>6. (e.committed /\ Released(d, n, e.db)) \/ (~e.committed /\ Pending(d, n, e.db))
    BY <2>3, <2>5
  <2>7. SpEnded(s, d, f)
    BY <1>3, <2>1, <2>2, <2>6, SpDroppedFacts
  <2> QED BY <1>3, <2>7 DEF Ended
<1> QED BY <1>1, <1>2, <1>3

\* Transaction::rollback(self), then the destructor.
LEMMA RollbackEnds ==
    ASSUME NEW s \in Scope, s.kind = "tx", NEW d \in Db, NEW r \in ROLLBACK(d),
           NEW f \in Dropped(s, Ending(r.db, FALSE, FALSE))
    PROVE  Ended(s, d, f)
<1>1. PICK e : e = Ending(r.db, FALSE, FALSE)
  OBVIOUS
<1>2. e.db = r.db
  BY <1>1 DEF Ending
<1>3. r.db \in {d, Closed(d.disk)}
  BY RollbackFacts
<1>4. e.db \in {d, Closed(d.cur), Closed(d.disk)}
  BY <1>2, <1>3
<1>5. f \in Dropped(s, e)
  BY <1>1
<1>6. TxEnded(s, d, f)
  BY <1>4, <1>5, TxDroppedFacts
<1> QED BY <1>6 DEF Ended

-----------------------------------------------------------------------------
(* The invariants.                                                         *)

\* finish_ and the destructor never see a marked scope that is still live.
NotCommitted == \A i \in 1..Depth : ~scopes[i].committed

CurIsDisk == Autocommit(db) => db.cur = db.disk

\* f gives every scope of ss its savepoint in d, 0 for a Transaction.
Tracks(d, ss, f) ==
    /\ \A i \in 1..Len(ss) :
         IF ss[i].kind = "tx" THEN i = 1 /\ f[i] = 0 /\ d.begun /\ d.disk = ss[i].at
         ELSE /\ f[i] \in 1..Len(d.frames)
              /\ d.frames[f[i]].name = ss[i].name /\ d.frames[f[i]].at = ss[i].at
    /\ \A i, j \in 1..Len(ss) : i < j => f[i] < f[j]

IsTracked(d, ss) == \E f \in [1..Len(ss) -> 0..Len(d.frames)] : Tracks(d, ss, f)

Tracked == ~lost => IsTracked(db, scopes)

Inv == TypeOK /\ NotCommitted /\ CurIsDisk /\ Tracked

\* No scope is live.
LEMMA TracksNothing ==
    ASSUME NEW d \in Db, NEW ss \in Seq(Scope), Len(ss) = 0
    PROVE  IsTracked(d, ss)
<1>1. PICK f : f = [i \in 1..Len(ss) |-> 0]
  OBVIOUS
<1>2. Len(d.frames) \in Nat
  BY DbFields
<1>3. f \in [1..Len(ss) -> 0..Len(d.frames)]
  BY <1>1, <1>2
<1>4. Tracks(d, ss, f)
  BY DEF Tracks
<1> QED BY <1>3, <1>4 DEF IsTracked

\* The outer scopes stay tracked while the savepoints they have stay open.
LEMMA TracksOuter ==
    ASSUME NEW d \in Db, NEW ss \in Seq(Scope), NEW f, Tracks(d, ss, f),
           NEW q \in Db, NEW tt \in Seq(Scope), Len(tt) <= Len(ss),
           \A i \in 1..Len(tt) : tt[i].kind = ss[i].kind /\ tt[i].name = ss[i].name /\ tt[i].at = ss[i].at,
           q.begun = d.begun, q.disk = d.disk,
           \A i \in 1..Len(tt) : f[i] <= Len(q.frames),
           \A i \in 1..Len(q.frames) : q.frames[i] = d.frames[i]
    PROVE  IsTracked(q, tt)
<1>1. PICK g : g = [i \in 1..Len(tt) |-> f[i]]
  OBVIOUS
<1>2. Len(d.frames) \in Nat /\ Len(q.frames) \in Nat /\ Len(ss) \in Nat /\ Len(tt) \in Nat
  BY DbFields
<1>3. \A i \in 1..Len(tt) : i \in 1..Len(ss) /\ g[i] = f[i]
  BY <1>1, <1>2
<1>4. ASSUME NEW i \in 1..Len(tt)
      PROVE  /\ g[i] \in 0..Len(q.frames)
             /\ IF tt[i].kind = "tx" THEN i = 1 /\ g[i] = 0 /\ q.begun /\ q.disk = tt[i].at
                ELSE /\ g[i] \in 1..Len(q.frames)
                     /\ q.frames[g[i]].name = tt[i].name /\ q.frames[g[i]].at = tt[i].at
  <2>1. i \in 1..Len(ss) /\ g[i] = f[i]
    BY <1>3
  <2>2. tt[i].kind = ss[i].kind /\ tt[i].name = ss[i].name /\ tt[i].at = ss[i].at
    OBVIOUS
  <2>3. CASE tt[i].kind = "tx"
    <3>1. i = 1 /\ f[i] = 0 /\ d.begun /\ d.disk = ss[i].at
      BY <2>1, <2>2, <2>3 DEF Tracks
    <3>2. g[i] = 0 /\ q.begun /\ q.disk = tt[i].at
      BY <2>1, <2>2, <3>1
    <3> QED BY <1>2, <2>3, <3>1, <3>2
  <2>4. CASE tt[i].kind # "tx"
    <3>1. /\ f[i] \in 1..Len(d.frames)
          /\ d.frames[f[i]].name = ss[i].name /\ d.frames[f[i]].at = ss[i].at
      BY <1>3, <2>4 DEF Tracks
    <3>2. f[i] \in 1..Len(q.frames)
      BY <1>2, <3>1
    <3>3. q.frames[f[i]] = d.frames[f[i]]
      BY <3>2
    <3>4. /\ g[i] \in 1..Len(q.frames)
          /\ q.frames[g[i]].name = tt[i].name /\ q.frames[g[i]].at = tt[i].at
      BY <2>1, <2>2, <3>1, <3>2, <3>3
    <3> QED BY <1>2, <2>4, <3>4
  <2> QED BY <2>3, <2>4
<1>5. \A i, j \in 1..Len(tt) : i < j => g[i] < g[j]
  BY <1>3 DEF Tracks
<1>6. g \in [1..Len(tt) -> 0..Len(q.frames)]
  <2>1. \A i \in 1..Len(tt) : f[i] \in 0..Len(q.frames)
    BY <1>3, <1>4
  <2> QED BY <1>1, <2>1
<1>7. Tracks(q, tt, g)
  BY <1>4, <1>5 DEF Tracks
<1> QED BY <1>6, <1>7 DEF IsTracked

\* A live scope means an open transaction.
LEMMA TracksOpen ==
    ASSUME NEW d \in Db, NEW ss \in Seq(Scope), NEW f, Tracks(d, ss, f), Len(ss) # 0
    PROVE  ~Autocommit(d)
<1>1. Len(d.frames) \in Nat /\ (Autocommit(d) <=> ~d.begun /\ Len(d.frames) = 0)
  BY DbFields
<1>2. 1 \in 1..Len(ss)
  OBVIOUS
<1>3. d.begun \/ f[1] \in 1..Len(d.frames)
  BY <1>2 DEF Tracks
<1> QED BY <1>1, <1>3

\* A Transaction on top is the only scope.
LEMMA TracksTx ==
    ASSUME NEW d \in Db, NEW ss \in Seq(Scope), NEW f, Tracks(d, ss, f),
           NEW k, k = Len(ss), k # 0, ss[k].kind = "tx"
    PROVE  k = 1 /\ d.begun /\ d.disk = ss[k].at
<1>1. k \in 1..Len(ss)
  OBVIOUS
<1> QED BY <1>1 DEF Tracks

\* A savepoint on top: SQLite finds a savepoint under its name, its own or one
\* inside it, so every outer scope's savepoint is further out.
LEMMA TracksSp ==
    ASSUME NEW d \in Db, NEW ss \in Seq(Scope), NEW f, Tracks(d, ss, f),
           NEW k, k = Len(ss), k # 0, ss[k].kind = "sp",
           NEW m, m = MostRecent(d, ss[k].name)
    PROVE  /\ m \in 1..Len(d.frames) /\ f[k] \in 1..m
           /\ \A i \in 1..(k - 1) : f[i] <= m - 1
           /\ m = 1 /\ ~d.begun => k = 1
<1>1. k \in 1..Len(ss) /\ k \in Nat
  OBVIOUS
<1>2. f[k] \in 1..Len(d.frames) /\ d.frames[f[k]].name = ss[k].name
  BY <1>1 DEF Tracks
<1>3. Len(d.frames) \in Nat
  BY DbFields
<1>4. PICK n : n = ss[k].name
  OBVIOUS
<1>5. /\ m \in 0..Len(d.frames)
      /\ \A i \in 1..Len(d.frames) : d.frames[i].name = n => i <= m
  <2>1. m = MostRecent(d, n)
    BY <1>4
  <2> QED BY <2>1, MostRecentFacts
<1>6. f[k] <= m
  BY <1>2, <1>4, <1>5
<1>7. m \in 1..Len(d.frames) /\ f[k] \in 1..m
  BY <1>2, <1>3, <1>5, <1>6
<1>8. ASSUME NEW i \in 1..(k - 1)
      PROVE  f[i] <= m - 1 /\ f[i] \in Nat /\ (~d.begun => f[i] >= 1)
  <2>1. i \in 1..Len(ss) /\ i < k
    BY <1>1
  <2>2. f[i] < f[k]
    BY <1>1, <2>1 DEF Tracks
  <2>3. f[i] \in Nat /\ (~d.begun => f[i] >= 1)
    <3>1. CASE ss[i].kind = "tx"
      BY <2>1, <3>1 DEF Tracks
    <3>2. CASE ss[i].kind # "tx"
      <4>1. f[i] \in 1..Len(d.frames)
        BY <2>1, <3>2 DEF Tracks
      <4> QED BY <1>3, <4>1
    <3> QED BY <3>1, <3>2
  <2> QED BY <1>3, <1>7, <2>2, <2>3
<1>9. m = 1 /\ ~d.begun => k = 1
  <2>1. SUFFICES ASSUME m = 1, ~d.begun, k # 1 PROVE FALSE
    OBVIOUS
  <2>2. 1 \in 1..(k - 1)
    BY <1>1, <2>1
  <2> QED BY <1>8, <2>1, <2>2
<1> QED BY <1>7, <1>8, <1>9

-----------------------------------------------------------------------------
(* The steps that end a scope.                                             *)

Ends == DropTop \/ FinishTop \/ Commit \/ RollbackTx

\* What Leave and the aborting branch of FinishTop have in common.
Left(e) ==
    /\ db' = e.db /\ scopes' = Below /\ mode' \in {"run", "unwinding", "aborted"}
    /\ \/ /\ lost' = (lost /\ Depth > 1)
          /\ abandoned' = (abandoned \/ (Top.behavior \in {"Ignore", "Panic"} /\ ~e.committed /\ ~Autocommit(e.db)))
       \/ lost' = lost /\ abandoned' = TRUE /\ mode' = "aborted"

\* The scope on top.
LEMMA TopFacts ==
    ASSUME TypeOK, NotCommitted, Depth > 0
    PROVE  /\ Top \in Scope /\ ~Top.committed /\ Depth \in Nat /\ db \in Db
           /\ Below \in Seq(Scope) /\ Len(Below) = Depth - 1
           /\ \A i \in 1..(Depth - 1) : Below[i] = scopes[i]
<1>1. scopes \in Seq(Scope) /\ Depth \in Nat /\ Depth \in 1..Depth /\ db \in Db
  BY DEF TypeOK, Depth
<1>2. Top \in Scope /\ ~Top.committed
  BY <1>1 DEF Top, Depth, NotCommitted
<1>3. /\ Below \in Seq(Scope) /\ Len(Below) = Depth - 1
      /\ \A i \in 1..(Depth - 1) : Below[i] = scopes[i]
  <2>1. PICK k : k = Depth - 1
    OBVIOUS
  <2>2. k \in 0..Len(scopes) /\ Below = SubSeq(scopes, 1, k)
    BY <1>1, <2>1 DEF Below, Depth
  <2>3. /\ SubSeq(scopes, 1, k) \in Seq(Scope) /\ Len(SubSeq(scopes, 1, k)) = k
        /\ \A i \in 1..k : SubSeq(scopes, 1, k)[i] = scopes[i]
    BY <1>1, <2>2
  <2> QED BY <2>1, <2>2, <2>3
<1> QED BY <1>1, <1>2, <1>3

\* Leave is such a step.
LEMMA LeaveIsLeft ==
    ASSUME TypeOK, NEW e, Leave(e)
    PROVE  Left(e)
BY DEF TypeOK, Leave, Left

\* A step that ends a scope.
LEMMA EndStep ==
    ASSUME TypeOK, NotCommitted, Ends
    PROVE  /\ Depth > 0 /\ mode # "aborted"
           /\ \E e : Ended(Top, db, e) /\ Left(e)
           /\ DropTop \/ FinishTop => Restored(Top, db, db')
<1>1. Depth > 0 /\ mode # "aborted"
  BY DEF Ends, DropTop, FinishTop, Commit, RollbackTx
<1>2. Top \in Scope /\ ~Top.committed /\ db \in Db
  BY <1>1, TopFacts
<1>3. ASSUME DropTop PROVE /\ \E e : Ended(Top, db, e) /\ Left(e)
                           /\ Restored(Top, db, db')
  <2>1. PICK e \in Finish(Top, db) : Leave(e)
    BY <1>3 DEF DropTop
  <2>2. Ended(Top, db, e) /\ Restored(Top, db, e.db)
    BY <1>2, FinishEnds
  <2>3. Left(e) /\ db' = e.db
    BY <2>1, LeaveIsLeft DEF Left
  <2> QED BY <2>2, <2>3
<1>4. ASSUME FinishTop PROVE /\ \E e : Ended(Top, db, e) /\ Left(e)
                             /\ Restored(Top, db, db')
  <2>1. PICK e \in Finish(Top, db) : \E f \in Dropped(Top, e) :
          IF e.panic /\ f.panic
          THEN /\ db' = f.db /\ scopes' = Below /\ mode' = "aborted"
               /\ abandoned' = TRUE /\ UNCHANGED lost
          ELSE Leave(Ending(f.db, f.committed, e.panic))
    BY <1>4 DEF FinishTop
  <2>2. PICK f \in Dropped(Top, e) :
          IF e.panic /\ f.panic
          THEN /\ db' = f.db /\ scopes' = Below /\ mode' = "aborted"
               /\ abandoned' = TRUE /\ UNCHANGED lost
          ELSE Leave(Ending(f.db, f.committed, e.panic))
    BY <2>1
  <2>3. Ended(Top, db, f) /\ Restored(Top, db, f.db)
    BY <1>2, FinishedTwiceEnds
  <2>4. CASE e.panic /\ f.panic
    <3>1. Left(f) /\ db' = f.db
      BY <2>2, <2>4 DEF Left
    <3> QED BY <2>3, <3>1
  <2>5. CASE ~(e.panic /\ f.panic)
    <3>1. PICK g : g = Ending(f.db, f.committed, e.panic)
      OBVIOUS
    <3>2. Leave(g)
      BY <2>2, <2>5, <3>1
    <3>3. Left(g) /\ db' = g.db
      BY <3>2, LeaveIsLeft DEF Left
    <3>4. g.db = f.db /\ g.committed = f.committed
      BY <3>1 DEF Ending
    <3>5. Ended(Top, db, g)
      BY <2>3, <3>4 DEF Ended, TxEnded, SpEnded
    <3> QED BY <2>3, <3>3, <3>4, <3>5
  <2> QED BY <2>4, <2>5
<1>5. ASSUME Commit PROVE \E e : Ended(Top, db, e) /\ Left(e)
  <2>1. PICK e \in IF Top.kind = "tx" THEN {Ending(r.db, FALSE, FALSE) : r \in COMMIT(db)} ELSE SpCommit(Top, db) :
          \E f \in Dropped(Top, e) : Leave(f)
    BY <1>5 DEF Commit
  <2>2. PICK f \in Dropped(Top, e) : Leave(f)
    BY <2>1
  <2>3. Ended(Top, db, f)
    BY <1>2, CommitEnds
  <2> QED BY <2>2, <2>3, LeaveIsLeft
<1>6. ASSUME RollbackTx PROVE \E e : Ended(Top, db, e) /\ Left(e)
  <2>1. Top.kind = "tx"
    BY <1>6 DEF RollbackTx
  <2>2. PICK r \in ROLLBACK(db) : \E f \in Dropped(Top, Ending(r.db, FALSE, FALSE)) : Leave(f)
    BY <1>6 DEF RollbackTx
  <2>3. PICK f \in Dropped(Top, Ending(r.db, FALSE, FALSE)) : Leave(f)
    BY <2>2
  <2>4. Ended(Top, db, f)
    BY <1>2, <2>1, RollbackEnds
  <2> QED BY <2>3, <2>4, LeaveIsLeft
<1> QED BY <1>1, <1>3, <1>4, <1>5, <1>6 DEF Ends

\* The database after the end of a scope.
LEMMA EndedDb ==
    ASSUME NEW s \in Scope, NEW d \in Db, Autocommit(d) => d.cur = d.disk, NEW e, Ended(s, d, e)
    PROVE  e.db \in Db /\ (Autocommit(e.db) => e.db.cur = e.db.disk)
<1>1. d.cur \in SUBSET Write /\ d.disk \in SUBSET Write
  BY DbFields
<1>2. /\ Closed(d.cur) \in Db /\ Closed(d.cur).cur = Closed(d.cur).disk
      /\ Closed(d.disk) \in Db /\ Closed(d.disk).cur = Closed(d.disk).disk
  BY <1>1, ClosedFacts
<1>3. CASE s.kind = "tx"
  <2>1. e.db \in {d, Closed(d.cur), Closed(d.disk)}
    BY <1>3 DEF Ended, TxEnded
  <2> QED BY <1>2, <2>1
<1>4. CASE s.kind # "tx"
  <2>1. PICK n : n = s.name
    OBVIOUS
  <2>2. PICK m : m = MostRecent(d, n)
    OBVIOUS
  <2>3. PICK q : q = e.db
    OBVIOUS
  <2>4. Released(d, n, q) \/ Pending(d, n, q)
    BY <1>4, <2>1, <2>3 DEF Ended, SpEnded
  <2>5. m \in 0..Len(d.frames) /\ Len(d.frames) \in Nat
    BY <2>2, MostRecentFacts, DbFields
  <2>6. q \in Db
    BY <2>4 DEF Released, Pending
  <2>7. Len(q.frames) \in Nat /\ (Autocommit(q) <=> ~q.begun /\ Len(q.frames) = 0) /\ q.cur \in SUBSET Write
    BY <2>6, DbFields
  <2>8. CASE Pending(d, n, q)
    <3>1. Len(q.frames) >= m /\ (m = 0 => q = d)
      BY <2>2, <2>5, <2>7, <2>8 DEF Pending
    <3> QED BY <2>3, <2>5, <2>6, <2>7, <3>1
  <2>9. CASE Released(d, n, q)
    <3>1. CASE m = 1 /\ ~d.begun
      <4>1. q = Closed(q.cur)
        BY <2>2, <2>9, <3>1 DEF Released
      <4>2. Closed(q.cur).cur = q.cur /\ Closed(q.cur).disk = q.cur
        BY <2>7, ClosedFacts
      <4> QED BY <2>3, <2>6, <4>1, <4>2
    <3>2. CASE ~(m = 1 /\ ~d.begun)
      <4>1. q.begun = d.begun /\ Len(q.frames) = m - 1 /\ m # 0
        BY <2>2, <2>9, <3>2 DEF Released
      <4>2. ~Autocommit(q)
        BY <2>5, <2>7, <3>2, <4>1
      <4> QED BY <2>3, <2>6, <4>2
    <3> QED BY <3>1, <3>2
  <2> QED BY <2>4, <2>8, <2>9
<1> QED BY <1>3, <1>4

\* The end of the scope on top leaves the outer ones tracked.
LEMMA EndedTracked ==
    ASSUME NEW d \in Db, NEW ss \in Seq(Scope), NEW f, Tracks(d, ss, f),
           NEW k, k = Len(ss), k # 0, NEW e, Ended(ss[k], d, e), e.db \in Db,
           NEW tt \in Seq(Scope), Len(tt) = k - 1, \A i \in 1..(k - 1) : tt[i] = ss[i]
    PROVE  IsTracked(e.db, tt)
<1>1. k \in Nat /\ k \in 1..Len(ss)
  OBVIOUS
<1>2. PICK q : q = e.db
  OBVIOUS
<1>3. ss[k].kind \in {"tx", "sp"} /\ q \in Db /\ Len(q.frames) \in Nat
  BY <1>1, <1>2, ScopeFields, DbFields
<1>4. SUFFICES ASSUME k # 1 PROVE IsTracked(q, tt)
  BY <1>2, <1>3, TracksNothing
<1>5. ss[k].kind = "sp"
  BY <1>3, <1>4, TracksTx
<1>6. PICK n : n = ss[k].name
  OBVIOUS
<1>7. PICK m : m = MostRecent(d, n)
  OBVIOUS
<1>8. /\ m \in 1..Len(d.frames) /\ \A i \in 1..(k - 1) : f[i] <= m - 1
      /\ ~(m = 1 /\ ~d.begun)
  <2>1. m = MostRecent(d, ss[k].name)
    BY <1>6, <1>7
  <2> QED BY <1>4, <1>5, <2>1, TracksSp
<1>9. Released(d, n, q) \/ Pending(d, n, q)
  BY <1>2, <1>5, <1>6 DEF Ended, SpEnded
<1>10. /\ q.begun = d.begun /\ q.disk = d.disk /\ Len(q.frames) >= m - 1
       /\ \A i \in 1..Len(q.frames) : q.frames[i] = d.frames[i]
  <2>1. CASE Pending(d, n, q)
    <3>1. Len(q.frames) \in m..Len(d.frames)
      BY <1>7, <2>1 DEF Pending
    <3>2. Len(q.frames) >= m - 1
      BY <1>3, <1>8, <3>1
    <3> QED BY <2>1, <3>2 DEF Pending
  <2>2. CASE Released(d, n, q)
    <3>1. /\ q.begun = d.begun /\ q.disk = d.disk /\ Len(q.frames) = m - 1
          /\ \A i \in 1..(m - 1) : q.frames[i] = d.frames[i]
      BY <1>7, <1>8, <2>2 DEF Released
    <3> QED BY <1>3, <1>8, <3>1
  <2> QED BY <1>9, <2>1, <2>2
<1>11. \A i \in 1..Len(tt) : f[i] <= Len(q.frames)
  <2>1. SUFFICES ASSUME NEW i \in 1..(k - 1) PROVE f[i] <= Len(q.frames)
    OBVIOUS
  <2>2. f[i] <= m - 1
    BY <1>8
  <2>3. f[i] \in Int
    <3>1. i \in 1..Len(ss)
      BY <1>1
    <3>2. f[i] = 0 \/ f[i] \in 1..Len(d.frames)
      BY <3>1 DEF Tracks
    <3> QED BY <3>2
  <2> QED BY <1>3, <1>8, <1>10, <2>2, <2>3
<1>12. Len(tt) <= Len(ss)
  BY <1>1
<1>13. \A i \in 1..Len(tt) : tt[i].kind = ss[i].kind /\ tt[i].name = ss[i].name /\ tt[i].at = ss[i].at
  OBVIOUS
<1> QED BY <1>3, <1>10, <1>11, <1>12, <1>13, TracksOuter

\* The end of a scope keeps the invariant.
LEMMA EndsKeepInv ==
    ASSUME Inv, Ends
    PROVE  Inv'
<1>1. TypeOK /\ NotCommitted /\ CurIsDisk /\ Tracked
  BY DEF Inv
<1>2. PICK e : Ended(Top, db, e) /\ Left(e)
  BY <1>1, EndStep
<1>3. Depth > 0
  BY <1>1, EndStep
<1>4. /\ Top \in Scope /\ Depth \in Nat /\ db \in Db
      /\ Below \in Seq(Scope) /\ Len(Below) = Depth - 1
      /\ \A i \in 1..(Depth - 1) : Below[i] = scopes[i]
  BY <1>1, <1>3, TopFacts
<1>5. PICK q, tt : q = e.db /\ tt = Below
  OBVIOUS
<1>6. db' = q /\ scopes' = tt
  BY <1>2, <1>5 DEF Left
<1>7. q \in Db /\ (Autocommit(q) => q.cur = q.disk)
  BY <1>1, <1>2, <1>4, <1>5, EndedDb DEF CurIsDisk
<1>8. TypeOK'
  <2>1. tt \in Seq(Scope) /\ Len(tt) <= MaxDepth
    BY <1>1, <1>4, <1>5, DepthAssumption DEF TypeOK, Depth
  <2>2. abandoned' \in BOOLEAN /\ lost' \in BOOLEAN /\ mode' \in {"run", "unwinding", "aborted"}
    BY <1>1, <1>2 DEF Left, TypeOK
  <2> QED BY <1>6, <1>7, <2>1, <2>2 DEF TypeOK
<1>9. NotCommitted'
  <2>1. Len(tt) = Depth - 1 /\ \A i \in 1..(Depth - 1) : tt[i] = scopes[i]
    BY <1>4, <1>5
  <2>2. \A i \in 1..(Depth - 1) : ~scopes[i].committed
    BY <1>1, <1>4 DEF NotCommitted
  <2>3. \A i \in 1..Len(tt) : ~tt[i].committed
    BY <2>1, <2>2
  <2> QED BY <1>6, <2>3 DEF NotCommitted, Depth
<1>10. CurIsDisk'
  BY <1>6, <1>7 DEF CurIsDisk, Autocommit
<1>11. Tracked'
  <2>1. SUFFICES ASSUME ~lost' PROVE IsTracked(q, tt)
    BY <1>6 DEF Tracked, IsTracked, Tracks
  <2>2. tt \in Seq(Scope) /\ Len(tt) = Depth - 1 /\ \A i \in 1..(Depth - 1) : tt[i] = scopes[i]
    BY <1>4, <1>5
  <2>3. CASE lost
    <3>1. Len(tt) = 0
      <4>1. (lost' = (lost /\ Depth > 1)) \/ lost' = lost
        BY <1>2 DEF Left
      <4>2. ~(Depth > 1)
        BY <2>1, <2>3, <4>1
      <4> QED BY <1>3, <1>4, <2>2, <4>2
    <3> QED BY <1>7, <2>2, <3>1, TracksNothing
  <2>4. CASE ~lost
    <3>1. PICK f : Tracks(db, scopes, f)
      BY <1>1, <2>4 DEF Tracked, IsTracked
    <3>2. scopes \in Seq(Scope) /\ Depth = Len(scopes) /\ Depth # 0 /\ Ended(scopes[Depth], db, e) /\ e.db \in Db
      BY <1>1, <1>2, <1>3, <1>4, <1>5, <1>7 DEF TypeOK, Depth, Top
    <3>3. IsTracked(e.db, tt)
      BY <1>4, <2>2, <3>1, <3>2, EndedTracked
    <3> QED BY <1>5, <3>3
  <2> QED BY <2>3, <2>4
<1> QED BY <1>8, <1>9, <1>10, <1>11 DEF Inv

-----------------------------------------------------------------------------
(* The other steps.                                                        *)

\* A pushed scope or savepoint.
LEMMA AppendFacts ==
    ASSUME NEW S, NEW x \in Seq(S), NEW v \in S, NEW y, y = Append(x, v)
    PROVE  /\ y \in Seq(S) /\ Len(y) = Len(x) + 1 /\ Len(x) \in Nat
           /\ y[Len(y)] = v /\ y[Len(x) + 1] = v
           /\ \A i \in 1..Len(x) : y[i] = x[i]
OBVIOUS

\* Transaction::new_unchecked opens the outermost scope, unless a statement
\* rolled the transaction back under the others.
LEMMA NewTransactionKeepsInv ==
    ASSUME Inv, NewTransaction
    PROVE  Inv'
<1>1. /\ db \in Db /\ scopes \in Seq(Scope) /\ Depth \in Nat /\ Depth = Len(scopes) /\ NotCommitted
      /\ CurIsDisk /\ Tracked /\ mode \in {"run", "unwinding", "aborted"} /\ abandoned \in BOOLEAN /\ lost \in BOOLEAN
  BY DEF Inv, TypeOK, Depth
<1>2. PICK s : s = NewScope("tx", "")
  OBVIOUS
<1>3. s \in Scope /\ s.kind = "tx" /\ ~s.committed /\ s.at = db.cur
  <2>1. db.cur \in SUBSET Write
    BY <1>1, DbFields
  <2> QED BY <1>2, <2>1 DEF NewScope, Scope
<1>4. PICK tt : tt = Append(scopes, s)
  OBVIOUS
<1>5. scopes' = tt /\ Depth < MaxDepth /\ mode' = mode /\ abandoned' = abandoned /\ lost' = lost
  BY <1>2, <1>4 DEF NewTransaction, MayOpen
<1>6. /\ tt \in Seq(Scope) /\ Len(tt) = Depth + 1 /\ tt[Depth + 1] = s
      /\ \A i \in 1..Depth : tt[i] = scopes[i]
  BY <1>1, <1>3, <1>4, AppendFacts
<1>7. Autocommit(db) /\ db' = Begun(db)
  <2>1. PICK r \in BEGIN(db) : r.ok /\ db' = r.db
    BY DEF NewTransaction
  <2>2. CASE Autocommit(db)
    <3>1. r = Ok(Begun(db))
      BY <2>2 DEF BEGIN
    <3>2. r.db = Begun(db)
      BY <3>1 DEF Ok
    <3> QED BY <2>1, <2>2, <3>2
  <2>3. CASE ~Autocommit(db)
    <3>1. r = Err(db)
      BY <2>3 DEF BEGIN
    <3> QED BY <2>1, <3>1 DEF Err
  <2> QED BY <2>2, <2>3
<1>8. PICK q : q = Begun(db)
  OBVIOUS
<1>9. q \in Db /\ q.begun /\ q.disk = db.disk /\ q.frames = db.frames
  BY <1>1, <1>8, DbFields DEF Begun, Db, Frame
<1>10. TypeOK'
  <2>1. Len(tt) <= MaxDepth
    BY <1>1, <1>5, <1>6, DepthAssumption
  <2> QED BY <1>1, <1>5, <1>6, <1>7, <1>8, <1>9, <2>1 DEF TypeOK
<1>11. NotCommitted'
  <2>1. ASSUME NEW i \in 1..Len(tt) PROVE ~tt[i].committed
    BY <1>1, <1>3, <1>6 DEF NotCommitted
  <2> QED BY <1>5, <2>1 DEF NotCommitted, Depth
<1>12. CurIsDisk'
  BY <1>7, <1>8, <1>9 DEF CurIsDisk, Autocommit
<1>13. Tracked'
  <2>1. SUFFICES ASSUME ~lost PROVE IsTracked(q, tt)
    BY <1>5, <1>7, <1>8 DEF Tracked, IsTracked, Tracks
  <2>2. Depth = 0
    BY <1>1, <1>7, <2>1, TracksOpen DEF Tracked, IsTracked
  <2>3. PICK f : f = [i \in 1..Len(tt) |-> 0]
    OBVIOUS
  <2>4. f \in [1..Len(tt) -> 0..Len(q.frames)]
    BY <1>9, <2>3, DbFields
  <2>5. Len(tt) = 1 /\ tt[1] = s /\ f[1] = 0 /\ q.disk = s.at
    BY <1>1, <1>3, <1>6, <1>7, <1>9, <2>2, <2>3 DEF CurIsDisk
  <2>6. Tracks(q, tt, f)
    BY <1>3, <1>9, <2>5 DEF Tracks
  <2> QED BY <2>4, <2>6 DEF IsTracked
<1> QED BY <1>10, <1>11, <1>12, <1>13 DEF Inv

\* Savepoint::with_name_ opens the innermost scope and the innermost savepoint.
LEMMA NewSavepointKeepsInv ==
    ASSUME Inv, NEW n \in Name, NewSavepoint(n)
    PROVE  Inv'
<1>1. /\ db \in Db /\ scopes \in Seq(Scope) /\ Depth \in Nat /\ Depth = Len(scopes) /\ NotCommitted
      /\ CurIsDisk /\ Tracked /\ mode \in {"run", "unwinding", "aborted"} /\ abandoned \in BOOLEAN /\ lost \in BOOLEAN
  BY DEF Inv, TypeOK, Depth
<1>2. PICK s : s = NewScope("sp", n)
  OBVIOUS
<1>3. s \in Scope /\ s.kind = "sp" /\ s.name = n /\ ~s.committed /\ s.at = db.cur
  <2>1. db.cur \in SUBSET Write
    BY <1>1, DbFields
  <2> QED BY <1>2, <2>1 DEF NewScope, Scope
<1>4. PICK tt : tt = Append(scopes, s)
  OBVIOUS
<1>5. scopes' = tt /\ Depth < MaxDepth /\ mode' = mode /\ abandoned' = abandoned /\ lost' = lost
  BY <1>2, <1>4 DEF NewSavepoint, MayOpen
<1>6. /\ tt \in Seq(Scope) /\ Len(tt) = Depth + 1 /\ tt[Depth + 1] = s
      /\ \A i \in 1..Depth : tt[i] = scopes[i]
  BY <1>1, <1>3, <1>4, AppendFacts
<1>7. PICK v, x : v = [name |-> n, at |-> db.cur] /\ x = Append(db.frames, v)
  OBVIOUS
<1>8. db.cur \in SUBSET Write /\ db.frames \in Seq(Frame) /\ Len(db.frames) \in Nat
  BY <1>1, DbFields
<1>9. v \in Frame /\ v.name = n /\ v.at = db.cur
  BY <1>7, <1>8 DEF Frame
<1>10. /\ x \in Seq(Frame) /\ Len(x) = Len(db.frames) + 1 /\ x[Len(db.frames) + 1] = v
       /\ \A i \in 1..Len(db.frames) : x[i] = db.frames[i]
  BY <1>7, <1>8, <1>9, AppendFacts
<1>11. PICK q : q = Within(db, x, db.cur)
  OBVIOUS
<1>12. db' = q
  BY <1>7, <1>11 DEF NewSavepoint, SAVEPOINT, Ok
<1>13. q \in Db /\ q.begun = db.begun /\ q.frames = x /\ q.cur = db.cur /\ q.disk = db.disk
  BY <1>1, <1>8, <1>10, <1>11, WithinFacts
<1>14. TypeOK'
  <2>1. Len(tt) <= MaxDepth
    BY <1>1, <1>5, <1>6, DepthAssumption
  <2> QED BY <1>1, <1>5, <1>6, <1>12, <1>13, <2>1 DEF TypeOK
<1>15. NotCommitted'
  <2>1. ASSUME NEW i \in 1..Len(tt) PROVE ~tt[i].committed
    BY <1>1, <1>3, <1>6 DEF NotCommitted
  <2> QED BY <1>5, <2>1 DEF NotCommitted, Depth
<1>16. CurIsDisk'
  <2>1. ~Autocommit(q)
    BY <1>8, <1>10, <1>13, DbFields
  <2> QED BY <1>12, <2>1 DEF CurIsDisk, Autocommit
<1>17. Tracked'
  <2>1. SUFFICES ASSUME ~lost PROVE IsTracked(q, tt)
    BY <1>5, <1>12 DEF Tracked, IsTracked, Tracks
  <2>2. PICK f \in [1..Depth -> 0..Len(db.frames)] : Tracks(db, scopes, f)
    BY <1>1, <2>1 DEF Tracked, IsTracked
  <2>3. PICK g : g = [i \in 1..Len(tt) |-> IF i = Depth + 1 THEN Len(db.frames) + 1 ELSE f[i]]
    OBVIOUS
  <2>4. g[Depth + 1] = Len(db.frames) + 1
    BY <1>1, <1>6, <2>3
  <2>5. \A i \in 1..Depth : g[i] = f[i] /\ f[i] \in 0..Len(db.frames) /\ i \in 1..Len(tt)
    BY <1>1, <1>6, <2>3
  <2>6. \A i \in 1..Len(tt) : i = Depth + 1 \/ i \in 1..Depth
    BY <1>1, <1>6
  <2>7. g \in [1..Len(tt) -> 0..Len(q.frames)]
    <3>1. ASSUME NEW i \in 1..Len(tt)
          PROVE  (IF i = Depth + 1 THEN Len(db.frames) + 1 ELSE f[i]) \in 0..Len(q.frames)
      BY <1>8, <1>10, <1>13, <2>5, <2>6
    <3> QED BY <2>3, <3>1
  <2>8. ASSUME NEW i \in 1..Len(tt)
        PROVE  IF tt[i].kind = "tx" THEN i = 1 /\ g[i] = 0 /\ q.begun /\ q.disk = tt[i].at
               ELSE /\ g[i] \in 1..Len(q.frames)
                    /\ q.frames[g[i]].name = tt[i].name /\ q.frames[g[i]].at = tt[i].at
    <3>1. CASE i = Depth + 1
      <4>1. g[i] \in 1..Len(q.frames) /\ q.frames[g[i]] = v
        BY <1>8, <1>10, <1>13, <2>4, <3>1
      <4> QED BY <1>3, <1>6, <1>9, <3>1, <4>1
    <3>2. CASE i \in 1..Depth /\ tt[i].kind = "tx"
      <4>1. scopes[i] = tt[i] /\ i \in 1..Len(scopes)
        BY <1>1, <1>6, <3>2
      <4>2. i = 1 /\ f[i] = 0 /\ db.begun /\ db.disk = scopes[i].at
        BY <2>2, <3>2, <4>1 DEF Tracks
      <4> QED BY <1>13, <2>5, <3>2, <4>1, <4>2
    <3>3. CASE i \in 1..Depth /\ tt[i].kind # "tx"
      <4>1. scopes[i] = tt[i] /\ i \in 1..Len(scopes) /\ g[i] = f[i]
        BY <1>1, <1>6, <2>5, <3>3
      <4>2. /\ f[i] \in 1..Len(db.frames)
            /\ db.frames[f[i]].name = scopes[i].name /\ db.frames[f[i]].at = scopes[i].at
        BY <2>2, <3>3, <4>1 DEF Tracks
      <4>3. f[i] \in 1..Len(q.frames) /\ q.frames[f[i]] = db.frames[f[i]]
        BY <1>8, <1>10, <1>13, <4>2
      <4> QED BY <3>3, <4>1, <4>2, <4>3
    <3> QED BY <2>6, <3>1, <3>2, <3>3
  <2>9. ASSUME NEW i \in 1..Len(tt), NEW j \in 1..Len(tt), i < j PROVE g[i] < g[j]
    <3>1. i \in 1..Depth
      BY <1>1, <1>6, <2>9
    <3>2. CASE j = Depth + 1
      BY <1>8, <2>4, <2>5, <3>1, <3>2
    <3>3. CASE j \in 1..Depth
      <4>1. f[i] < f[j]
        BY <1>1, <2>2, <2>9, <3>1, <3>3 DEF Tracks
      <4> QED BY <2>5, <3>1, <3>3, <4>1
    <3> QED BY <2>6, <3>2, <3>3
  <2>10. Tracks(q, tt, g)
    BY <2>8, <2>9 DEF Tracks
  <2> QED BY <2>7, <2>10 DEF IsTracked
<1> QED BY <1>14, <1>15, <1>16, <1>17 DEF Inv

\* Setting the drop behavior changes nothing else of a scope.
LEMMA BehaviorSet ==
    ASSUME NEW s \in Scope, NEW b \in {"Rollback", "Commit", "Ignore", "Panic"},
           NEW t, t = [s EXCEPT !.behavior = b]
    PROVE  /\ t \in Scope /\ t.kind = s.kind /\ t.name = s.name /\ t.at = s.at
           /\ t.committed = s.committed
BY DEF Scope

LEMMA SetDropBehaviorKeepsInv ==
    ASSUME Inv, NEW b \in Behavior, SetDropBehavior(b)
    PROVE  Inv'
<1>1. /\ db \in Db /\ scopes \in Seq(Scope) /\ Depth = Len(scopes) /\ NotCommitted /\ Len(scopes) <= MaxDepth
      /\ CurIsDisk /\ Tracked /\ mode \in {"run", "unwinding", "aborted"} /\ abandoned \in BOOLEAN /\ lost \in BOOLEAN
  BY DEF Inv, TypeOK, Depth
<1>2. PICK k, s, t, tt : /\ k = Depth /\ s = scopes[k] /\ t = [s EXCEPT !.behavior = b]
                         /\ tt = [scopes EXCEPT ![k] = t]
  OBVIOUS
<1>3. /\ scopes' = tt /\ db' = db /\ mode' = mode /\ abandoned' = abandoned /\ lost' = lost
      /\ k \in 1..Len(scopes)
  BY <1>1, <1>2 DEF SetDropBehavior
<1>4. b \in {"Rollback", "Commit", "Ignore", "Panic"}
  BY BehaviorAssumption
<1>5. /\ tt \in Seq(Scope) /\ Len(tt) = Len(scopes)
      /\ \A i \in 1..Len(scopes) : /\ tt[i].kind = scopes[i].kind /\ tt[i].name = scopes[i].name
                                   /\ tt[i].at = scopes[i].at /\ tt[i].committed = scopes[i].committed
  <2>1. s \in Scope
    BY <1>1, <1>2, <1>3
  <2>2. /\ t \in Scope /\ t.kind = s.kind /\ t.name = s.name /\ t.at = s.at
        /\ t.committed = s.committed
    BY <1>2, <1>4, <2>1, BehaviorSet
  <2>3. /\ tt \in Seq(Scope) /\ Len(tt) = Len(scopes) /\ tt[k] = t
        /\ \A i \in 1..Len(scopes) : i # k => tt[i] = scopes[i]
    <3>1. tt = [scopes EXCEPT ![k] = t]
      BY <1>2
    <3> QED BY <1>1, <1>3, <2>2, <3>1
  <2>4. s = scopes[k]
    BY <1>2
  <2> QED BY <2>2, <2>3, <2>4
<1>6. TypeOK'
  BY <1>1, <1>3, <1>5 DEF TypeOK
<1>7. NotCommitted'
  <2>1. \A i \in 1..Len(tt) : ~tt[i].committed
    BY <1>1, <1>5 DEF NotCommitted
  <2> QED BY <1>3, <2>1 DEF NotCommitted, Depth
<1>8. CurIsDisk'
  BY <1>1, <1>3 DEF CurIsDisk, Autocommit
<1>9. Tracked'
  <2>1. SUFFICES ASSUME ~lost PROVE IsTracked(db, tt)
    BY <1>3 DEF Tracked, IsTracked, Tracks
  <2>2. PICK f : Tracks(db, scopes, f)
    BY <1>1, <2>1 DEF Tracked, IsTracked
  <2>3. \A i \in 1..Len(tt) : f[i] <= Len(db.frames)
    <3>1. Len(db.frames) \in Nat
      BY <1>1, DbFields
    <3>2. ASSUME NEW i \in 1..Len(scopes) PROVE f[i] <= Len(db.frames)
      <4>1. f[i] = 0 \/ f[i] \in 1..Len(db.frames)
        BY <2>2 DEF Tracks
      <4> QED BY <3>1, <4>1
    <3> QED BY <1>5, <3>2
  <2>4. Len(tt) <= Len(scopes)
    BY <1>1, <1>5
  <2>5. \A i \in 1..Len(tt) : tt[i].kind = scopes[i].kind /\ tt[i].name = scopes[i].name /\ tt[i].at = scopes[i].at
    BY <1>5
  <2> QED BY <1>1, <1>5, <2>2, <2>3, <2>4, <2>5, TracksOuter
<1> QED BY <1>6, <1>7, <1>8, <1>9 DEF Inv

\* A step that leaves the scopes, and in the database at least the savepoints
\* that the scopes have, keeps the invariant.
LEMMA DbStepKeepsInv ==
    ASSUME Inv, NEW q \in Db, db' = q, Autocommit(q) => q.cur = q.disk,
           scopes' = scopes, mode' \in {"run", "unwinding", "aborted"}, abandoned' = abandoned, lost' \in BOOLEAN,
           ~lost' => IsTracked(q, scopes)
    PROVE  Inv'
<1>1. TypeOK'
  BY DEF Inv, TypeOK
<1>2. NotCommitted'
  BY DEF Inv, NotCommitted, Depth
<1>3. CurIsDisk'
  BY DEF CurIsDisk, Autocommit
<1>4. Tracked'
  BY DEF Tracked, IsTracked, Tracks
<1> QED BY <1>1, <1>2, <1>3, <1>4 DEF Inv

LEMMA ChangeKeepsInv ==
    ASSUME Inv, NEW w \in Write, Change(w)
    PROVE  Inv'
<1>1. /\ db \in Db /\ scopes \in Seq(Scope) /\ Tracked
      /\ mode \in {"run", "unwinding", "aborted"} /\ lost \in BOOLEAN
  BY DEF Inv, TypeOK
<1>2. PICK c : c = db.cur \cup {w}
  OBVIOUS
<1>3. c \in SUBSET Write /\ Len(db.frames) \in Nat
  BY <1>1, <1>2, DbFields
<1>4. scopes' = scopes /\ mode' = mode /\ abandoned' = abandoned /\ lost' = lost
  BY DEF Change
<1>5. CASE Autocommit(db)
  <2>1. PICK q : q = Closed(c)
    OBVIOUS
  <2>2. db' = q
    BY <1>2, <1>5, <2>1 DEF Change
  <2>3. q \in Db /\ q.cur = q.disk
    BY <1>3, <2>1, ClosedFacts
  <2>4. ~lost => Len(scopes) = 0
    BY <1>1, <1>5, TracksOpen DEF Tracked, IsTracked
  <2>5. ~lost => IsTracked(q, scopes)
    BY <1>1, <2>3, <2>4, TracksNothing
  <2> QED BY <1>1, <1>4, <2>2, <2>3, <2>5, DbStepKeepsInv
<1>6. CASE ~Autocommit(db)
  <2>1. PICK q : q = [begun |-> db.begun, frames |-> db.frames, cur |-> c, disk |-> db.disk, dirty |-> TRUE]
    OBVIOUS
  <2>2. db' = q
    BY <1>2, <1>6, <2>1 DEF Change
  <2>3. q \in Db /\ q.begun = db.begun /\ q.frames = db.frames /\ q.disk = db.disk
    BY <1>1, <1>3, <2>1, DbFields DEF Db, Frame
  <2>4. ~Autocommit(q)
    BY <1>6, <2>3 DEF Autocommit
  <2>5. ~lost => IsTracked(q, scopes)
    BY <1>1, <2>3 DEF Tracked, IsTracked, Tracks
  <2> QED BY <1>1, <1>4, <2>2, <2>3, <2>4, <2>5, DbStepKeepsInv
<1> QED BY <1>5, <1>6

LEMMA FailAndRollBackKeepsInv ==
    ASSUME Inv, FailAndRollBack
    PROVE  Inv'
<1>1. db \in Db /\ scopes \in Seq(Scope) /\ mode \in {"run", "unwinding", "aborted"}
  BY DEF Inv, TypeOK
<1>2. PICK q : q = Closed(db.disk)
  OBVIOUS
<1>3. db' = q /\ scopes' = scopes /\ mode' = mode /\ abandoned' = abandoned /\ lost' = (scopes # <<>>)
  BY <1>2 DEF FailAndRollBack, RolledBack
<1>4. q \in Db /\ q.cur = q.disk
  BY <1>1, <1>2, DbFields, ClosedFacts
<1>5. ~lost' => IsTracked(q, scopes)
  <2>1. SUFFICES ASSUME ~lost' PROVE IsTracked(q, scopes)
    OBVIOUS
  <2>2. scopes = <<>>
    BY <1>3, <2>1
  <2>3. Len(scopes) = 0
    BY <2>2
  <2> QED BY <1>1, <1>4, <2>3, TracksNothing
<1>6. lost' \in BOOLEAN
  BY <1>3
<1> QED BY <1>1, <1>3, <1>4, <1>5, <1>6, DbStepKeepsInv

LEMMA RollbackSpKeepsInv ==
    ASSUME Inv, RollbackSp
    PROVE  Inv'
<1>1. /\ db \in Db /\ scopes \in Seq(Scope) /\ Tracked /\ CurIsDisk
      /\ mode \in {"run", "unwinding", "aborted"} /\ lost \in BOOLEAN
  BY DEF Inv, TypeOK
<1>2. PICK n : n = Top.name
  OBVIOUS
<1>3. PICK r \in ROLLBACK_TO(db, n) : db' = r.db
  BY <1>2 DEF RollbackSp
<1>4. PICK m, q : m = MostRecent(db, n) /\ q = r.db
  OBVIOUS
<1>5. Pending(db, n, db)
  BY <1>1, PendingStart
<1>6. Pending(db, n, q)
  BY <1>1, <1>4, <1>5, PendingRollbackTo
<1>7. /\ q \in Db /\ q.begun = db.begun /\ q.disk = db.disk /\ (m = 0 => q = db)
      /\ Len(q.frames) \in m..Len(db.frames) /\ \A i \in 1..Len(q.frames) : q.frames[i] = db.frames[i]
  BY <1>4, <1>6 DEF Pending
<1>8. m \in 0..Len(db.frames) /\ Len(db.frames) \in Nat /\ Len(q.frames) \in Nat
  BY <1>1, <1>4, <1>7, MostRecentFacts, DbFields
<1>9. scopes' = scopes /\ mode' = mode /\ abandoned' = abandoned /\ lost' = lost /\ db' = q
  BY <1>3, <1>4 DEF RollbackSp
<1>10. Autocommit(q) => q.cur = q.disk
  <2>1. Autocommit(q) => Len(q.frames) = 0
    BY <1>7, DbFields
  <2>2. m # 0 => ~Autocommit(q)
    BY <1>7, <1>8, <2>1
  <2> QED BY <1>1, <1>7, <2>2 DEF CurIsDisk
<1>11. ~lost => IsTracked(q, scopes)
  <2>1. SUFFICES ASSUME ~lost PROVE IsTracked(q, scopes)
    OBVIOUS
  <2>2. PICK f : Tracks(db, scopes, f)
    BY <1>1, <2>1 DEF Tracked, IsTracked
  <2>3. PICK k : k = Depth
    OBVIOUS
  <2>4. k = Len(scopes) /\ k # 0 /\ k \in Nat /\ scopes[k].kind = "sp" /\ m = MostRecent(db, scopes[k].name)
    BY <1>1, <1>2, <1>4, <2>3 DEF RollbackSp, Depth, Top
  <2>5. /\ m \in 1..Len(db.frames) /\ f[k] \in 1..m
        /\ \A i \in 1..(k - 1) : f[i] <= m - 1
    BY <1>1, <2>2, <2>4, TracksSp
  <2>6. \A i \in 1..Len(scopes) : f[i] <= Len(q.frames)
    <3>1. SUFFICES ASSUME NEW i \in 1..Len(scopes) PROVE f[i] <= Len(q.frames)
      OBVIOUS
    <3>2. f[i] \in Int
      <4>1. f[i] = 0 \/ f[i] \in 1..Len(db.frames)
        BY <2>2 DEF Tracks
      <4> QED BY <4>1
    <3>3. i = k \/ i \in 1..(k - 1)
      BY <2>4
    <3>4. f[i] <= m
      BY <1>8, <2>5, <3>2, <3>3
    <3> QED BY <1>7, <1>8, <3>2, <3>4
  <2> QED BY <1>1, <1>7, <2>2, <2>6, TracksOuter
<1> QED BY <1>1, <1>7, <1>9, <1>10, <1>11, DbStepKeepsInv

\* Inv is inductive.
LEMMA InvInit == Init => Inv
<1> SUFFICES ASSUME Init PROVE Inv
  OBVIOUS
<1>1. db = Closed({}) /\ scopes = <<>> /\ mode = "run" /\ abandoned = FALSE /\ lost = FALSE
  BY DEF Init
<1>2. db \in Db /\ db.cur = db.disk
  <2>1. {} \in SUBSET Write
    OBVIOUS
  <2> QED BY <1>1, <2>1, ClosedFacts
<1>3. scopes \in Seq(Scope) /\ Len(scopes) = 0
  BY <1>1
<1>4. IsTracked(db, scopes)
  BY <1>2, <1>3, TracksNothing
<1>5. TypeOK
  <2>1. Len(scopes) <= MaxDepth
    BY <1>3, DepthAssumption
  <2>2. mode \in {"run", "unwinding", "aborted"} /\ abandoned \in BOOLEAN /\ lost \in BOOLEAN
    BY <1>1
  <2> QED BY <1>2, <1>3, <2>1, <2>2 DEF TypeOK
<1>6. NotCommitted
  BY <1>3 DEF NotCommitted, Depth
<1> QED BY <1>2, <1>4, <1>5, <1>6 DEF Inv, CurIsDisk, Tracked

LEMMA InvNext ==
    ASSUME Inv, [Next]_vars
    PROVE  Inv'
<1>1. CASE Ends
  BY <1>1, EndsKeepInv
<1>2. CASE NewTransaction
  BY <1>2, NewTransactionKeepsInv
<1>3. ASSUME NEW n \in Name, NewSavepoint(n) PROVE Inv'
  BY <1>3, NewSavepointKeepsInv
<1>4. ASSUME NEW b \in Behavior, SetDropBehavior(b) PROVE Inv'
  BY <1>4, SetDropBehaviorKeepsInv
<1>5. ASSUME NEW w \in Write, Change(w) PROVE Inv'
  BY <1>5, ChangeKeepsInv
<1>6. CASE FailAndRollBack
  BY <1>6, FailAndRollBackKeepsInv
<1>7. CASE RollbackSp
  BY <1>7, RollbackSpKeepsInv
<1>8. CASE ApplicationPanics
  BY <1>8 DEF ApplicationPanics, Inv, TypeOK, NotCommitted, CurIsDisk, Tracked, Depth, Autocommit, IsTracked, Tracks
<1>9. CASE UNCHANGED vars
  BY <1>9 DEF vars, Inv, TypeOK, NotCommitted, CurIsDisk, Tracked, Depth, Autocommit, IsTracked, Tracks
<1> QED BY <1>1, <1>2, <1>3, <1>4, <1>5, <1>6, <1>7, <1>8, <1>9 DEF Next, Ends

\* Inv is an invariant of Transaction.
THEOREM Invariance == Spec => []Inv
<1>1. Inv /\ [Next]_vars => Inv'
  BY InvNext
<1> QED BY <1>1, InvInit, PTL DEF Spec

\* The variables keep their types, and never more than MaxDepth scopes are live.
THEOREM TypeCorrect == Spec => []TypeOK
<1>1. Inv => TypeOK
  BY DEF Inv
<1> QED BY <1>1, Invariance, PTL

-----------------------------------------------------------------------------
(* What the end of a scope restores and makes durable.                     *)

\* If no other savepoint of the name is open, SQLite finds the one of the scope
\* on top: as many are open as there are live scopes with the name, and every
\* scope has its own.
LEMMA OwnSavepoint ==
    ASSUME NEW f, Tracks(db, scopes, f), db \in Db, scopes \in Seq(Scope), Depth # 0,
           Top.kind = "sp", ~Shadowed, NEW m, m = MostRecent(db, Top.name)
    PROVE  m # 0 /\ db.frames[m].at = Top.at
<1>1. PICK k, n : k = Depth /\ n = Top.name
  OBVIOUS
<1>2. k = Len(scopes) /\ k \in 1..Len(scopes) /\ k \in Nat /\ scopes[k] = Top /\ scopes[k].kind = "sp"
  BY <1>1 DEF Depth, Top
<1>3. Len(db.frames) \in Nat /\ DOMAIN db.frames = 1..Len(db.frames) /\ DOMAIN scopes = 1..Len(scopes)
  BY DbFields
<1>4. m \in 1..Len(db.frames) /\ f[k] \in 1..m
  <2>1. m = MostRecent(db, scopes[k].name) /\ k # 0
    BY <1>1, <1>2
  <2> QED BY <1>2, <2>1, TracksSp
<1>5. m = MostRecent(db, n)
  BY <1>1
<1>6. db.frames[m].name = n
  BY <1>3, <1>4, <1>5, MostRecentFacts
<1> DEFINE A == Named(db, n)
           S == {i \in DOMAIN scopes : scopes[i].kind = "sp" /\ scopes[i].name = n}
<1>7. A \subseteq 1..Len(db.frames) /\ S \subseteq 1..Len(scopes) /\ m \in A /\ k \in S
  BY <1>1, <1>2, <1>3, <1>4, <1>6 DEF Named
<1>8. IsFiniteSet(A) /\ IsFiniteSet(S)
  <2>1. IsFiniteSet(1..Len(db.frames)) /\ IsFiniteSet(1..Len(scopes))
    <3>1. 1 \in Int /\ Len(db.frames) \in Int /\ Len(scopes) \in Int
      BY <1>2, <1>3
    <3> QED BY <3>1, FS_Interval
  <2> QED BY <1>7, <2>1, FS_Subset
<1>9. ~(Cardinality(A) > Cardinality(S))
  BY <1>1 DEF Shadowed
<1>10. \A i \in S : f[i] \in A
  <2>1. SUFFICES ASSUME NEW i \in S PROVE f[i] \in A
    OBVIOUS
  <2>2. i \in 1..Len(scopes) /\ scopes[i].kind # "tx" /\ scopes[i].name = n
    BY <1>3
  <2>3. f[i] \in 1..Len(db.frames) /\ db.frames[f[i]].name = n
    BY <2>2 DEF Tracks
  <2> QED BY <1>3, <2>3 DEF Named
<1>11. f[k] = m
  <2>1. SUFFICES ASSUME f[k] # m PROVE FALSE
    OBVIOUS
  <2>2. ASSUME NEW i \in S PROVE f[i] # m
    <3>1. i \in 1..Len(scopes)
      BY <1>7
    <3>2. i = k \/ i < k
      BY <1>2, <3>1
    <3>3. i < k => f[i] < f[k]
      BY <1>2, <3>1 DEF Tracks
    <3>4. f[i] \in 1..Len(db.frames)
      BY <1>7, <1>10
    <3> QED BY <1>3, <1>4, <2>1, <3>2, <3>3, <3>4
  <2> DEFINE g == [i \in S |-> f[i]]
             B == A \ {m}
  <2>3. g \in Injection(S, B)
    <3>1. g \in [S -> B]
      BY <1>10, <2>2
    <3>2. ASSUME NEW i \in S, NEW j \in S, g[i] = g[j] PROVE i = j
      <4>1. i \in 1..Len(scopes) /\ j \in 1..Len(scopes) /\ i \in Int /\ j \in Int
        BY <1>7
      <4>2. (i < j => f[i] < f[j]) /\ (j < i => f[j] < f[i])
        BY <4>1 DEF Tracks
      <4>3. f[i] \in 1..Len(db.frames) /\ f[i] = f[j]
        BY <1>7, <1>10, <3>2
      <4> QED BY <1>3, <4>1, <4>2, <4>3
    <3>3. DOMAIN g = S
      OBVIOUS
    <3> HIDE DEF g, S, B
    <3>4. IsInjective(g)
      BY <3>2, <3>3 DEF IsInjective
    <3> QED BY <3>1, <3>4 DEF Injection
  <2>4. IsFiniteSet(B) /\ Cardinality(B) = Cardinality(A) - 1
    BY <1>7, <1>8, FS_RemoveElement
  <2>5. Cardinality(S) <= Cardinality(B)
    <3>1. Injection(S, B) # {}
      BY <2>3
    <3> HIDE DEF S, B
    <3> QED BY <2>4, <3>1, FS_Injection
  <2>6. Cardinality(A) \in Nat /\ Cardinality(S) \in Nat
    BY <1>8, FS_CardinalityType
  <2> QED BY <1>9, <2>4, <2>5, <2>6
<1>12. db.frames[f[k]].at = scopes[k].at
  BY <1>2 DEF Tracks
<1> QED BY <1>2, <1>3, <1>4, <1>11, <1>12

\* What is known of a live scope whose transaction was not rolled back.
LEMMA LiveTop ==
    ASSUME Inv, ~lost, Depth > 0
    PROVE  /\ db \in Db /\ scopes \in Seq(Scope) /\ Depth = Len(scopes) /\ Depth # 0
           /\ Top = scopes[Depth] /\ Top \in Scope /\ Top.kind \in {"tx", "sp"}
           /\ \E f : Tracks(db, scopes, f)
<1>1. TypeOK /\ NotCommitted /\ Tracked
  BY DEF Inv
<1>2. Top \in Scope /\ db \in Db
  BY <1>1, TopFacts
<1>3. Top.kind \in {"tx", "sp"}
  BY <1>2, ScopeFields
<1>4. \E f : Tracks(db, scopes, f)
  BY <1>1 DEF Tracked, IsTracked
<1>5. scopes \in Seq(Scope) /\ Depth = Len(scopes) /\ Depth # 0 /\ Top = scopes[Depth]
  BY <1>1 DEF TypeOK, Depth, Top
<1> QED BY <1>2, <1>3, <1>4, <1>5

\* "Transactions will roll back by default", "Savepoints will roll back by
\* default": a scope dropped or finished with the default behavior leaves the
\* contents it was opened on, however deep it is, whatever the scopes inside it
\* did and left open under other names, also when a panic drops it.
THEOREM RollsBackByDefault == Spec => DropRestores
<1>1. ASSUME Inv, DropTop \/ FinishTop, Top.behavior = "Rollback", ~lost, ~Shadowed
      PROVE  db'.cur = Top.at
  <2>1. Ends /\ TypeOK /\ NotCommitted
    BY <1>1 DEF Ends, Inv
  <2>2. Depth > 0 /\ Restored(Top, db, db')
    BY <1>1, <2>1, EndStep
  <2>3. /\ db \in Db /\ scopes \in Seq(Scope) /\ Depth = Len(scopes) /\ Depth # 0
        /\ Top = scopes[Depth] /\ Top \in Scope /\ Top.kind \in {"tx", "sp"}
        /\ \E f : Tracks(db, scopes, f)
    BY <1>1, <2>2, LiveTop
  <2>4. PICK f : Tracks(db, scopes, f)
    BY <2>3
  <2>5. CASE Top.kind = "tx"
    <3>1. db.begun /\ db.disk = Top.at
      BY <2>3, <2>4, <2>5, TracksTx
    <3>2. db' = Closed(db.disk)
      BY <1>1, <2>2, <2>5, <3>1 DEF Restored, Autocommit
    <3>3. db.disk \in SUBSET Write
      BY <2>3, DbFields
    <3>4. Closed(db.disk).cur = db.disk
      BY <3>3, ClosedFacts
    <3> QED BY <3>1, <3>2, <3>4
  <2>6. CASE Top.kind = "sp"
    <3>1. PICK n, m : n = Top.name /\ m = MostRecent(db, n)
      OBVIOUS
    <3>2. m \in Nat
      BY <2>3, <3>1, MostRecentFacts, DbFields
    <3>3. m = MostRecent(db, Top.name)
      BY <3>1
    <3>4. m # 0 /\ db.frames[m].at = Top.at
      BY <1>1, <2>3, <2>4, <2>6, <3>3, OwnSavepoint
    <3>5. db'.cur = db.frames[m].at
      BY <1>1, <2>2, <2>6, <3>2, <3>3, <3>4 DEF Restored
    <3> QED BY <3>4, <3>5
  <2> QED BY <2>3, <2>5, <2>6
<1>2. Inv /\ [Next]_vars =>
        [(DropTop \/ FinishTop) /\ Top.behavior = "Rollback" /\ ~lost /\ ~Shadowed => db'.cur = Top.at]_vars
  BY <1>1
<1> QED BY <1>2, Invariance, PTL DEF Spec, DropRestores

\* Commit is all or nothing: the contents afterwards are those before, or those
\* the scope was opened on.
THEOREM AllOrNothing == Spec => CommitAllOrNothing
<1>1. ASSUME Inv, Commit, ~lost, ~Shadowed
      PROVE  db'.cur \in {db.cur, Top.at}
  <2>1. Ends /\ TypeOK /\ NotCommitted
    BY <1>1 DEF Ends, Inv
  <2>2. PICK e : Ended(Top, db, e) /\ db' = e.db
    BY <2>1, EndStep DEF Left
  <2>3. Depth > 0
    BY <2>1, EndStep
  <2>4. /\ db \in Db /\ scopes \in Seq(Scope) /\ Depth = Len(scopes) /\ Depth # 0
        /\ Top = scopes[Depth] /\ Top \in Scope /\ Top.kind \in {"tx", "sp"}
        /\ \E f : Tracks(db, scopes, f)
    BY <1>1, <2>3, LiveTop
  <2>5. PICK f : Tracks(db, scopes, f)
    BY <2>4
  <2>6. CASE Top.kind = "tx"
    <3>1. db.disk = Top.at
      BY <2>4, <2>5, <2>6, TracksTx
    <3>2. db' \in {db, Closed(db.cur), Closed(db.disk)}
      BY <2>2, <2>6 DEF Ended, TxEnded
    <3>3. db.disk \in SUBSET Write /\ db.cur \in SUBSET Write
      BY <2>4, DbFields
    <3>4. Closed(db.disk).cur = db.disk /\ Closed(db.cur).cur = db.cur
      BY <3>3, ClosedFacts
    <3> QED BY <3>1, <3>2, <3>4
  <2>7. CASE Top.kind = "sp"
    <3>1. PICK n, m : n = Top.name /\ m = MostRecent(db, n)
      OBVIOUS
    <3>2. m = MostRecent(db, Top.name)
      BY <3>1
    <3>3. m # 0 /\ db.frames[m].at = Top.at
      BY <1>1, <2>4, <2>5, <2>7, <3>2, OwnSavepoint
    <3>4. Released(db, n, e.db) \/ Pending(db, n, e.db)
      BY <2>2, <2>7, <3>1 DEF Ended, SpEnded
    <3>5. e.db.cur \in {db.cur, db.frames[m].at}
      BY <3>1, <3>3, <3>4 DEF Released, Pending
    <3> QED BY <2>2, <3>3, <3>5
  <2> QED BY <2>4, <2>6, <2>7
<1>2. Inv /\ [Next]_vars => [Commit /\ ~lost /\ ~Shadowed => db'.cur \in {db.cur, Top.at}]_vars
  BY <1>1
<1> QED BY <1>2, Invariance, PTL DEF Spec, CommitAllOrNothing

\* Inner commits are provisional: in a transaction begun by a Transaction only
\* the end of a Transaction makes contents durable, in one opened by a savepoint
\* only the end of the outermost scope, also when inner scopes were abandoned.
THEOREM OnlyTheOutermostIsDurable == Spec => DurableAtTheEnd
<1>1. ASSUME Inv, Next, db'.disk # db.disk, ~Autocommit(db), ~lost
      PROVE  IF db.begun THEN Top.kind = "tx" ELSE Depth = 1
  <2>1. TypeOK /\ NotCommitted /\ db \in Db
    BY <1>1 DEF Inv, TypeOK
  <2>2. db.disk \in SUBSET Write
    BY <2>1, DbFields
  <2>3. Ends
    <3>1. SUFFICES ASSUME ~Ends PROVE db'.disk = db.disk
      BY <1>1
    <3>2. CASE NewTransaction
      <4>1. PICK r \in BEGIN(db) : r.ok /\ db' = r.db
        BY <3>2 DEF NewTransaction
      <4>2. r = Err(db)
        BY <1>1 DEF BEGIN
      <4> QED BY <4>1, <4>2 DEF Err
    <3>3. ASSUME NEW n \in Name, NewSavepoint(n) PROVE db'.disk = db.disk
      BY <3>3 DEF NewSavepoint, SAVEPOINT, Ok, Within
    <3>4. ASSUME NEW w \in Write, Change(w) PROVE db'.disk = db.disk
      BY <1>1, <3>4 DEF Change
    <3>5. CASE FailAndRollBack
      BY <3>5 DEF FailAndRollBack, RolledBack, Closed
    <3>6. CASE RollbackSp
      <4>1. PICK n : n = Top.name
        OBVIOUS
      <4>2. PICK r \in ROLLBACK_TO(db, n) : db' = r.db
        BY <3>6, <4>1 DEF RollbackSp
      <4>3. PICK m : m = MostRecent(db, n)
        OBVIOUS
      <4>4. Pending(db, n, db)
        BY <2>1, PendingStart
      <4>5. Pending(db, n, r.db)
        BY <2>1, <4>3, <4>4, PendingRollbackTo
      <4> QED BY <4>2, <4>5 DEF Pending
    <3>7. (\E b \in Behavior : SetDropBehavior(b)) \/ ApplicationPanics => db' = db
      BY DEF SetDropBehavior, ApplicationPanics
    <3> QED BY <1>1, <3>1, <3>2, <3>3, <3>4, <3>5, <3>6, <3>7 DEF Next, Ends
  <2>4. PICK e : Ended(Top, db, e) /\ db' = e.db
    BY <2>1, <2>3, EndStep DEF Left
  <2>5. Depth > 0
    BY <2>1, <2>3, EndStep
  <2>6. /\ db \in Db /\ scopes \in Seq(Scope) /\ Depth = Len(scopes) /\ Depth # 0
        /\ Top = scopes[Depth] /\ Top \in Scope /\ Top.kind \in {"tx", "sp"}
        /\ \E f : Tracks(db, scopes, f)
    BY <1>1, <2>5, LiveTop
  <2>7. PICK f : Tracks(db, scopes, f)
    BY <2>6
  <2>8. CASE Top.kind = "tx"
    <3>1. db.begun
      BY <2>6, <2>7, <2>8, TracksTx
    <3> QED BY <2>8, <3>1
  <2>9. CASE Top.kind = "sp"
    <3>1. PICK n, m, q : n = Top.name /\ m = MostRecent(db, n) /\ q = e.db
      OBVIOUS
    <3>2. Released(db, n, q) /\ q.disk # db.disk
      BY <1>1, <2>4, <2>9, <3>1 DEF Ended, SpEnded, Pending
    <3>3. m = 1 /\ ~db.begun
      BY <3>1, <3>2 DEF Released
    <3>4. m = MostRecent(db, Top.name)
      BY <3>1
    <3>5. Depth = 1
      BY <2>6, <2>7, <2>9, <3>3, <3>4, TracksSp
    <3> QED BY <3>3, <3>5
  <2> QED BY <2>6, <2>8, <2>9
<1>2. Inv /\ [Next]_vars =>
        [db'.disk # db.disk /\ ~Autocommit(db) /\ ~lost => IF db.begun THEN Top.kind = "tx" ELSE Depth = 1]_vars
  BY <1>1
<1> QED BY <1>2, Invariance, PTL DEF Spec, DurableAtTheEnd

-----------------------------------------------------------------------------
(* Nothing is left open.                                                   *)

\* d has open what the scopes of ss inside the first old ones opened; l: a
\* statement rolled the transaction back under some of the first ones.
HeldBy(d, ss, l) ==
    LET old == Len(ss) - Len(d.frames) IN
    /\ old >= 0
    /\ \A i \in 1..Len(d.frames) :
         /\ ss[old + i].kind = "sp"
         /\ d.frames[i].name = ss[old + i].name /\ d.frames[i].at = ss[old + i].at
    /\ d.begun => old >= 1 /\ ss[old].kind = "tx"
    /\ ~l => old = IF d.begun THEN 1 ELSE 0

Held == ~abandoned /\ mode # "aborted" => HeldBy(db, scopes, lost)

\* How HeldBy is shown.
LEMMA HeldByRule ==
    ASSUME NEW d, NEW ss, NEW l, NEW old, old = Len(ss) - Len(d.frames), old >= 0,
           \A i \in 1..Len(d.frames) :
             /\ ss[old + i].kind = "sp"
             /\ d.frames[i].name = ss[old + i].name /\ d.frames[i].at = ss[old + i].at,
           d.begun => old >= 1 /\ ss[old].kind = "tx",
           ~l => old = IF d.begun THEN 1 ELSE 0
    PROVE  HeldBy(d, ss, l)
BY DEF HeldBy

\* The scope on top, if SQLite has a savepoint open, is a Savepoint and that one
\* is its own.
LEMMA HeldTop ==
    ASSUME NEW d \in Db, NEW ss \in Seq(Scope), NEW l, HeldBy(d, ss, l),
           NEW k, k = Len(ss), k # 0, NEW n, n = ss[k].name, NEW m, m = MostRecent(d, n)
    PROVE  /\ m = Len(d.frames)
           /\ m # 0 => ss[k].kind = "sp"
           /\ m = 0 /\ d.begun => ss[k].kind = "tx"
<1>1. Len(d.frames) \in Nat /\ k \in Nat
  BY DbFields
<1>2. m \in 0..Len(d.frames) /\ \A i \in 1..Len(d.frames) : d.frames[i].name = n => i <= m
  BY MostRecentFacts
<1>3. CASE Len(d.frames) = 0
  BY <1>1, <1>2, <1>3 DEF HeldBy
<1>4. CASE Len(d.frames) # 0
  <2>1. PICK i : i = Len(d.frames)
    OBVIOUS
  <2>2. i \in 1..Len(d.frames) /\ (Len(ss) - Len(d.frames)) + i = k
    BY <1>1, <1>4, <2>1
  <2>3. ss[k].kind = "sp" /\ d.frames[i].name = ss[k].name
    BY <2>2 DEF HeldBy
  <2> QED BY <1>1, <1>2, <2>1, <2>2, <2>3
<1> QED BY <1>3, <1>4

\* The scope s with ending e leaves its transaction open.
Abandons(s, e) == s.behavior \in {"Ignore", "Panic"} /\ ~e.committed /\ ~Autocommit(e.db)

\* ss is tt with s on top.
OnTop(tt, s, ss) ==
    /\ Len(ss) # 0 /\ s = ss[Len(ss)] /\ s \in Scope
    /\ tt \in Seq(Scope) /\ Len(tt) = Len(ss) - 1
    /\ \A i \in 1..(Len(ss) - 1) : tt[i] = ss[i]

\* The next value h of lost when the scope on top of ss goes and l is lost.
StillLost(ss, l, h) == ~h => ~l \/ Len(ss) = 1

\* The end of a scope that abandons nothing ends what SQLite has open for it.
LEMMA EndedHeld ==
    ASSUME "sp" \notin Busy,
           NEW d \in Db, NEW ss \in Seq(Scope), NEW l, HeldBy(d, ss, l),
           NEW s, NEW tt, OnTop(tt, s, ss), NEW e, Ended(s, d, e), e.db \in Db, ~Abandons(s, e),
           NEW h, StillLost(ss, l, h)
    PROVE  HeldBy(e.db, tt, h)
<1> PICK k : k = Len(ss)
  OBVIOUS
<1> /\ k = Len(ss) /\ k # 0 /\ s = ss[k] /\ s \in Scope
    /\ tt \in Seq(Scope) /\ Len(tt) = k - 1 /\ \A i \in 1..(k - 1) : tt[i] = ss[i]
  BY DEF OnTop
<1> ~h => ~l \/ k = 1
  BY DEF StillLost
<1> ~(s.behavior \in {"Ignore", "Panic"} /\ ~e.committed /\ ~Autocommit(e.db))
  BY DEF Abandons
<1>1. PICK q, n, x : q = e.db /\ n = s.name /\ x = Len(d.frames)
  OBVIOUS
<1>2. PICK m : m = MostRecent(d, n)
  OBVIOUS
<1>3. /\ x \in Nat /\ k \in Nat /\ q \in Db /\ Len(q.frames) \in Nat
      /\ (Autocommit(d) <=> ~d.begun /\ x = 0)
      /\ (Autocommit(q) <=> ~q.begun /\ Len(q.frames) = 0)
  BY <1>1, DbFields
<1>4. s.kind \in {"tx", "sp"} /\ s.behavior \in {"Rollback", "Commit", "Ignore", "Panic"}
  BY ScopeFields
<1>5. /\ m = x
      /\ m # 0 => s.kind = "sp"
      /\ m = 0 /\ d.begun => s.kind = "tx"
  <2>1. n = ss[k].name
    BY <1>1
  <2> QED BY <1>1, <1>2, <2>1, HeldTop
<1>6. /\ k - x >= 0
      /\ \A i \in 1..x : /\ ss[(k - x) + i].kind = "sp"
                         /\ d.frames[i].name = ss[(k - x) + i].name /\ d.frames[i].at = ss[(k - x) + i].at
      /\ d.begun => k - x >= 1 /\ ss[k - x].kind = "tx"
      /\ ~l => k - x = IF d.begun THEN 1 ELSE 0
  BY <1>1 DEF HeldBy
<1>7. ASSUME ~q.begun, Len(q.frames) = 0, ~h => k = 1
      PROVE  HeldBy(q, tt, h)
  BY <1>3, <1>7 DEF HeldBy
<1>8. CASE s.kind = "tx"
  <2>1. x = 0
    BY <1>4, <1>5, <1>8
  <2>2. \/ q \in {Closed(d.cur), Closed(d.disk)}
        \/ q = d /\ (Autocommit(d) \/ s.behavior \in {"Ignore", "Panic"})
    BY <1>1, <1>8 DEF Ended, TxEnded
  <2>3. ~e.committed
    BY <1>8 DEF Ended, TxEnded
  <2>4. d.cur \in SUBSET Write /\ d.disk \in SUBSET Write
    BY DbFields
  <2>5. Autocommit(Closed(d.cur)) /\ Autocommit(Closed(d.disk))
    BY <2>4, ClosedFacts
  <2>6. Autocommit(q)
    BY <1>1, <2>2, <2>3, <2>5
  <2>7. ~h => k = 1
    BY <1>3, <1>6, <2>1
  <2> QED BY <1>1, <1>3, <1>7, <2>6, <2>7
<1>9. CASE s.kind = "sp" /\ x = 0
  <2>1. Pending(d, n, q)
    BY <1>1, <1>2, <1>5, <1>9 DEF Ended, SpEnded, Released
  <2>2. q = d /\ ~d.begun
    BY <1>2, <1>5, <1>9, <2>1 DEF Pending
  <2>3. ~h => k = 1
    BY <1>3, <1>6, <1>9, <2>2
  <2> QED BY <1>1, <1>3, <1>7, <1>9, <2>2, <2>3
<1>10. CASE s.kind = "sp" /\ x # 0
  <2>1. Released(d, n, q)
    <3>1. SUFFICES ASSUME ~e.committed, Pending(d, n, q), s.behavior \in {"Rollback", "Commit"} => m = 0 \/ "sp" \in Busy
                   PROVE  FALSE
      BY <1>1, <1>2, <1>10 DEF Ended, SpEnded
    <3>2. Len(q.frames) # 0
      <4>1. Len(q.frames) \in m..Len(d.frames)
        BY <1>2, <3>1 DEF Pending
      <4> QED BY <1>1, <1>3, <1>5, <1>10, <4>1
    <3>3. s.behavior \in {"Ignore", "Panic"}
      BY <1>4, <1>5, <1>10, <3>1
    <3>4. ~Autocommit(q)
      BY <1>3, <3>2
    <3> QED BY <1>1, <3>1, <3>3, <3>4
  <2>2. CASE x = 1 /\ ~d.begun
    <3>1. q = Closed(q.cur) /\ q.cur \in SUBSET Write
      BY <1>2, <1>3, <1>5, <2>1, <2>2, DbFields DEF Released
    <3>2. Autocommit(Closed(q.cur))
      BY <3>1, ClosedFacts
    <3>3. ~h => k = 1
      BY <1>3, <1>6, <2>2
    <3> QED BY <1>1, <1>3, <1>7, <3>1, <3>2, <3>3
  <2>3. CASE ~(x = 1 /\ ~d.begun)
    <3>1. /\ q.begun = d.begun /\ Len(q.frames) = x - 1
          /\ \A i \in 1..(x - 1) : q.frames[i] = d.frames[i]
      BY <1>2, <1>5, <2>1, <2>3 DEF Released
    <3>2. Len(tt) - Len(q.frames) = k - x
      BY <1>3, <3>1
    <3>3. ASSUME NEW i \in 1..Len(q.frames)
          PROVE  /\ tt[(k - x) + i].kind = "sp"
                 /\ q.frames[i].name = tt[(k - x) + i].name /\ q.frames[i].at = tt[(k - x) + i].at
      <4>1. i \in 1..x /\ i \in 1..(x - 1) /\ (k - x) + i \in 1..(k - 1)
        BY <1>3, <1>6, <1>10, <3>1
      <4>2. tt[(k - x) + i] = ss[(k - x) + i] /\ q.frames[i] = d.frames[i]
        BY <3>1, <4>1
      <4> QED BY <1>6, <4>1, <4>2
    <3>4. q.begun => k - x >= 1 /\ tt[k - x].kind = "tx"
      <4>1. SUFFICES ASSUME d.begun PROVE k - x >= 1 /\ tt[k - x].kind = "tx"
        BY <3>1
      <4>2. k - x \in 1..(k - 1)
        BY <1>3, <1>6, <1>10, <4>1
      <4> QED BY <1>6, <4>1, <4>2
    <3>5. ~h => k - x = IF q.begun THEN 1 ELSE 0
      <4>1. CASE ~l
        BY <1>6, <3>1, <4>1
      <4>2. CASE k = 1
        BY <1>3, <1>6, <1>10, <3>1, <4>2
      <4> QED BY <4>1, <4>2
    <3>6. HeldBy(q, tt, h)
      <4>1. PICK old : old = k - x
        OBVIOUS
      <4>2. old = Len(tt) - Len(q.frames) /\ old >= 0
        BY <1>6, <3>2, <4>1
      <4>3. \A i \in 1..Len(q.frames) :
              /\ tt[old + i].kind = "sp"
              /\ q.frames[i].name = tt[old + i].name /\ q.frames[i].at = tt[old + i].at
        BY <3>3, <4>1
      <4>4. q.begun => old >= 1 /\ tt[old].kind = "tx"
        BY <3>4, <4>1
      <4>5. ~h => old = IF q.begun THEN 1 ELSE 0
        BY <3>5, <4>1
      <4> QED BY <4>2, <4>3, <4>4, <4>5, HeldByRule
    <3> QED BY <1>1, <3>6
  <2> QED BY <2>2, <2>3
<1> QED BY <1>4, <1>8, <1>9, <1>10

\* HeldBy depends on no more than the kinds, names and contents of the scopes and
\* on what is open.
LEMMA HeldByAgain ==
    ASSUME NEW d \in Db, NEW ss \in Seq(Scope), NEW l, HeldBy(d, ss, l),
           NEW q \in Db, q.begun = d.begun, Len(q.frames) = Len(d.frames),
           \A i \in 1..Len(d.frames) : q.frames[i] = d.frames[i],
           NEW tt \in Seq(Scope), Len(tt) = Len(ss),
           \A i \in 1..Len(ss) : tt[i].kind = ss[i].kind /\ tt[i].name = ss[i].name /\ tt[i].at = ss[i].at
    PROVE  HeldBy(q, tt, l)
<1>1. PICK old, x : x = Len(d.frames) /\ old = Len(ss) - x
  OBVIOUS
<1>2. x \in Nat /\ Len(ss) \in Nat
  BY <1>1, DbFields
<1>3. /\ old >= 0
      /\ \A i \in 1..x : /\ ss[old + i].kind = "sp"
                         /\ d.frames[i].name = ss[old + i].name /\ d.frames[i].at = ss[old + i].at
      /\ d.begun => old >= 1 /\ ss[old].kind = "tx"
      /\ ~l => old = IF d.begun THEN 1 ELSE 0
  BY <1>1 DEF HeldBy
<1>4. old = Len(tt) - Len(q.frames)
  BY <1>1
<1>5. ASSUME NEW i \in 1..Len(q.frames)
      PROVE  /\ tt[old + i].kind = "sp"
             /\ q.frames[i].name = tt[old + i].name /\ q.frames[i].at = tt[old + i].at
  <2>1. i \in 1..x /\ old + i \in 1..Len(ss)
    BY <1>1, <1>2, <1>3
  <2>2. q.frames[i] = d.frames[i]
    BY <1>1, <2>1
  <2> QED BY <1>3, <2>1, <2>2
<1>6. q.begun => old >= 1 /\ tt[old].kind = "tx"
  <2>1. SUFFICES ASSUME d.begun PROVE old >= 1 /\ tt[old].kind = "tx"
    OBVIOUS
  <2>2. old \in 1..Len(ss)
    BY <1>1, <1>2, <1>3, <2>1
  <2> QED BY <1>3, <2>1, <2>2
<1> QED BY <1>3, <1>4, <1>5, <1>6, HeldByRule

LEMMA HeldNext ==
    ASSUME "sp" \notin Busy, Inv, Held, [Next]_vars
    PROVE  Held'
<1>1. /\ db \in Db /\ scopes \in Seq(Scope) /\ Depth = Len(scopes) /\ Depth \in Nat
      /\ TypeOK /\ NotCommitted /\ CurIsDisk
  BY DEF Inv, TypeOK, Depth
<1>2. SUFFICES ASSUME ~abandoned', mode' # "aborted" PROVE HeldBy(db, scopes, lost)'
  BY DEF Held
<1>3. Len(db.frames) \in Nat /\ (Autocommit(db) <=> ~db.begun /\ Len(db.frames) = 0)
  BY <1>1, DbFields
<1>4. ASSUME ~abandoned, mode # "aborted" PROVE HeldBy(db, scopes, lost)
  BY <1>4 DEF Held
<1>5. CASE Ends
  <2>1. PICK e : Ended(Top, db, e) /\ Left(e)
    BY <1>1, <1>5, EndStep
  <2>2. Depth > 0 /\ mode # "aborted"
    BY <1>1, <1>5, EndStep
  <2>3. PICK s, q, tt, h : s = Top /\ q = e.db /\ tt = Below /\ h = lost'
    OBVIOUS
  <2>4. db' = q /\ scopes' = tt
    BY <2>1, <2>3 DEF Left
  <2>5. /\ lost' = (lost /\ Depth > 1)
        /\ abandoned' = (abandoned \/ (Top.behavior \in {"Ignore", "Panic"} /\ ~e.committed /\ ~Autocommit(e.db)))
    BY <1>2, <2>1 DEF Left
  <2>6. HeldBy(db, scopes, lost) /\ ~(s.behavior \in {"Ignore", "Panic"} /\ ~e.committed /\ ~Autocommit(e.db))
    BY <1>2, <1>4, <2>2, <2>3, <2>5
  <2>7. ~h => ~lost \/ Depth = 1
    <3>1. ~h => ~lost \/ ~(Depth > 1)
      BY <2>3, <2>5
    <3> QED BY <1>1, <2>2, <3>1
  <2>8. /\ s \in Scope /\ tt \in Seq(Scope) /\ Len(tt) = Depth - 1
        /\ \A i \in 1..(Depth - 1) : tt[i] = scopes[i]
    BY <1>1, <2>2, <2>3, TopFacts
  <2>9. s = scopes[Depth] /\ Depth # 0 /\ Ended(s, db, e)
    BY <1>1, <2>1, <2>2, <2>3 DEF Top
  <2>10. e.db \in Db
    BY <1>1, <2>8, <2>9, EndedDb DEF CurIsDisk
  <2>11. HeldBy(e.db, tt, h)
    <3>1. OnTop(tt, s, scopes)
      BY <1>1, <2>8, <2>9 DEF OnTop
    <3>2. StillLost(scopes, lost, h)
      BY <1>1, <2>7 DEF StillLost
    <3>3. ~Abandons(s, e)
      BY <2>6 DEF Abandons
    <3> QED BY <1>1, <2>6, <2>9, <2>10, <3>1, <3>2, <3>3, EndedHeld
  <2>12. HeldBy(q, tt, h)
    BY <2>3, <2>11
  <2> QED BY <2>3, <2>4, <2>12 DEF HeldBy
<1>6. CASE NewTransaction
  <2>1. PICK s, tt : s = NewScope("tx", "") /\ tt = Append(scopes, s)
    OBVIOUS
  <2>2. scopes' = tt /\ lost' = lost /\ abandoned' = abandoned /\ mode' = mode
    BY <1>6, <2>1 DEF NewTransaction
  <2>3. s \in Scope /\ s.kind = "tx"
    <3>1. db.cur \in SUBSET Write
      BY <1>1, DbFields
    <3> QED BY <2>1, <3>1 DEF NewScope, Scope
  <2>4. Len(tt) = Depth + 1 /\ tt[Depth + 1] = s
    <3>1. tt = Append(scopes, s)
      BY <2>1
    <3> QED BY <1>1, <2>3, <3>1, AppendFacts
  <2>5. Autocommit(db) /\ db' = Begun(db)
    <3>1. PICK r \in BEGIN(db) : r.ok /\ db' = r.db
      BY <1>6 DEF NewTransaction
    <3>2. CASE Autocommit(db)
      <4>1. r = Ok(Begun(db))
        BY <3>2 DEF BEGIN
      <4>2. r.db = Begun(db)
        BY <4>1 DEF Ok
      <4> QED BY <3>1, <3>2, <4>2
    <3>3. CASE ~Autocommit(db)
      <4>1. r = Err(db)
        BY <3>3 DEF BEGIN
      <4> QED BY <3>1, <4>1 DEF Err
    <3> QED BY <3>2, <3>3
  <2>6. PICK q : q = Begun(db)
    OBVIOUS
  <2>7. q.begun /\ q.frames = db.frames
    BY <2>6 DEF Begun
  <2>8. HeldBy(db, scopes, lost) /\ Len(q.frames) = 0 /\ ~db.begun
    BY <1>2, <1>3, <1>4, <2>2, <2>5, <2>7
  <2>9. ~lost => Depth = 0
    BY <1>1, <1>3, <2>5, <2>8 DEF HeldBy
  <2>10. PICK old : old = Depth + 1
    OBVIOUS
  <2>11. /\ old = Len(tt) - Len(q.frames) /\ old >= 1 /\ tt[old].kind = "tx"
         /\ ~lost => old = 1
    BY <1>1, <2>3, <2>4, <2>8, <2>9, <2>10
  <2>12. HeldBy(q, tt, lost)
    <3>1. \A i \in 1..Len(q.frames) :
            /\ tt[old + i].kind = "sp"
            /\ q.frames[i].name = tt[old + i].name /\ q.frames[i].at = tt[old + i].at
      BY <2>8
    <3>2. ~lost => old = IF q.begun THEN 1 ELSE 0
      BY <2>7, <2>11
    <3>3. old >= 0
      BY <1>1, <2>10
    <3> QED BY <2>11, <3>1, <3>2, <3>3, HeldByRule
  <2> QED BY <2>2, <2>5, <2>6, <2>12 DEF HeldBy
<1>7. ASSUME NEW n \in Name, NewSavepoint(n) PROVE HeldBy(db, scopes, lost)'
  <2>1. PICK s, tt : s = NewScope("sp", n) /\ tt = Append(scopes, s)
    OBVIOUS
  <2>2. scopes' = tt /\ lost' = lost /\ abandoned' = abandoned /\ mode' = mode
    BY <1>7, <2>1 DEF NewSavepoint
  <2>3. db.cur \in SUBSET Write /\ db.frames \in Seq(Frame)
    BY <1>1, DbFields
  <2>4. s \in Scope /\ s.kind = "sp" /\ s.name = n /\ s.at = db.cur
    BY <2>1, <2>3 DEF NewScope, Scope
  <2>5. Len(tt) = Depth + 1 /\ tt[Depth + 1] = s /\ \A i \in 1..Depth : tt[i] = scopes[i]
    BY <1>1, <2>1, <2>4, AppendFacts
  <2>6. PICK v, y : v = [name |-> n, at |-> db.cur] /\ y = Append(db.frames, v)
    OBVIOUS
  <2>7. v \in Frame /\ v.name = n /\ v.at = db.cur
    BY <2>3, <2>6 DEF Frame
  <2>8. /\ y \in Seq(Frame) /\ Len(y) = Len(db.frames) + 1 /\ y[Len(db.frames) + 1] = v
        /\ \A i \in 1..Len(db.frames) : y[i] = db.frames[i]
    BY <2>3, <2>6, <2>7, AppendFacts
  <2>9. PICK q : q = Within(db, y, db.cur)
    OBVIOUS
  <2>10. db' = q
    BY <1>7, <2>6, <2>9 DEF NewSavepoint, SAVEPOINT, Ok
  <2>11. q.begun = db.begun /\ q.frames = y
    BY <1>1, <2>3, <2>8, <2>9, WithinFacts
  <2>12. PICK old, x : x = Len(db.frames) /\ old = Depth - x
    OBVIOUS
  <2>13. /\ old >= 0
         /\ \A i \in 1..x : /\ scopes[old + i].kind = "sp"
                            /\ db.frames[i].name = scopes[old + i].name /\ db.frames[i].at = scopes[old + i].at
         /\ db.begun => old >= 1 /\ scopes[old].kind = "tx"
         /\ ~lost => old = IF db.begun THEN 1 ELSE 0
    BY <1>1, <1>2, <1>4, <2>2, <2>12 DEF HeldBy
  <2>14. old = Len(tt) - Len(q.frames)
    <3>1. Len(tt) = Depth + 1 /\ Len(q.frames) = x + 1 /\ x \in Nat
      BY <1>3, <2>5, <2>8, <2>11, <2>12
    <3> QED BY <1>1, <2>12, <3>1
  <2>15. ASSUME NEW i \in 1..Len(q.frames)
         PROVE  /\ tt[old + i].kind = "sp"
                /\ q.frames[i].name = tt[old + i].name /\ q.frames[i].at = tt[old + i].at
    <3>1. CASE i = x + 1
      <4>1. old + i = Depth + 1 /\ q.frames[i] = v
        <5>1. x \in Nat /\ old = Depth - x
          BY <1>3, <2>12
        <5>2. old + i = Depth + 1
          BY <1>1, <3>1, <5>1
        <5>3. q.frames[i] = v
          BY <2>8, <2>11, <2>12, <3>1
        <5> QED BY <5>2, <5>3
      <4> QED BY <2>4, <2>5, <2>7, <4>1
    <3>2. CASE i # x + 1
      <4>1. i \in 1..x /\ old + i \in 1..Depth
        BY <1>1, <1>3, <2>8, <2>11, <2>12, <2>13, <3>2
      <4>2. tt[old + i] = scopes[old + i] /\ q.frames[i] = db.frames[i]
        BY <2>5, <2>8, <2>11, <2>12, <4>1
      <4> QED BY <2>13, <4>1, <4>2
    <3> QED BY <3>1, <3>2
  <2>16. q.begun => old >= 1 /\ tt[old].kind = "tx"
    <3>1. SUFFICES ASSUME db.begun PROVE old >= 1 /\ tt[old].kind = "tx"
      BY <2>11
    <3>2. old \in 1..Depth
      BY <1>1, <1>3, <2>12, <2>13, <3>1
    <3> QED BY <2>5, <2>13, <3>1, <3>2
  <2>17. HeldBy(q, tt, lost)
    BY <2>11, <2>13, <2>14, <2>15, <2>16, HeldByRule
  <2> QED BY <2>2, <2>10, <2>17 DEF HeldBy
<1>8. ASSUME NEW b \in Behavior, SetDropBehavior(b) PROVE HeldBy(db, scopes, lost)'
  <2>1. PICK k, s, t, tt : /\ k = Depth /\ s = scopes[k] /\ t = [s EXCEPT !.behavior = b]
                           /\ tt = [scopes EXCEPT ![k] = t]
    OBVIOUS
  <2>2. /\ scopes' = tt /\ db' = db /\ mode' = mode /\ abandoned' = abandoned /\ lost' = lost
        /\ k \in 1..Len(scopes)
    BY <1>1, <1>8, <2>1 DEF SetDropBehavior
  <2>3. s \in Scope /\ s = scopes[k] /\ b \in {"Rollback", "Commit", "Ignore", "Panic"}
    BY <1>1, <2>1, <2>2, BehaviorAssumption
  <2>4. t \in Scope /\ t.kind = s.kind /\ t.name = s.name /\ t.at = s.at
    BY <2>1, <2>3, BehaviorSet
  <2>5. tt = [scopes EXCEPT ![k] = t]
    BY <2>1
  <2>6. /\ tt \in Seq(Scope) /\ Len(tt) = Len(scopes) /\ tt[k] = t
        /\ \A i \in 1..Len(scopes) : i # k => tt[i] = scopes[i]
    BY <1>1, <2>2, <2>4, <2>5
  <2>7. \A i \in 1..Len(scopes) : tt[i].kind = scopes[i].kind /\ tt[i].name = scopes[i].name /\ tt[i].at = scopes[i].at
    BY <2>3, <2>4, <2>6
  <2>8. HeldBy(db, scopes, lost)
    BY <1>2, <1>4, <2>2
  <2>9. HeldBy(db, tt, lost)
    BY <1>1, <2>6, <2>7, <2>8, HeldByAgain
  <2> QED BY <2>2, <2>9 DEF HeldBy
<1>9. ASSUME NEW w \in Write, Change(w) PROVE HeldBy(db, scopes, lost)'
  <2>1. scopes' = scopes /\ mode' = mode /\ abandoned' = abandoned /\ lost' = lost
    BY <1>9 DEF Change
  <2>2. db'.begun = db.begun /\ db'.frames = db.frames
    <3>1. CASE Autocommit(db)
      <4>1. db.begun = FALSE /\ db.frames = <<>>
        BY <1>1, <3>1, DbFields DEF Autocommit
      <4> QED BY <1>9, <3>1, <4>1 DEF Change, Closed
    <3>2. CASE ~Autocommit(db)
      BY <1>9, <3>2 DEF Change
    <3> QED BY <3>1, <3>2
  <2>3. HeldBy(db, scopes, lost)
    BY <1>2, <1>4, <2>1
  <2> QED BY <2>1, <2>2, <2>3 DEF HeldBy
<1>10. CASE FailAndRollBack
  <2>1. PICK q, h : q = Closed(db.disk) /\ h = lost'
    OBVIOUS
  <2>2. db' = q /\ scopes' = scopes /\ lost' = (scopes # <<>>)
    BY <1>10, <2>1 DEF FailAndRollBack, RolledBack
  <2>3. ~q.begun /\ Len(q.frames) = 0
    BY <1>1, <2>1, DbFields, ClosedFacts
  <2>4. ~h => Len(scopes) = 0
    <3>1. ~h => scopes = <<>>
      BY <2>1, <2>2
    <3>2. scopes = <<>> => Len(scopes) = 0
      OBVIOUS
    <3> QED BY <3>1, <3>2
  <2>5. HeldBy(q, scopes, h)
    BY <1>1, <2>3, <2>4 DEF HeldBy
  <2> QED BY <2>1, <2>2, <2>5 DEF HeldBy
<1>11. CASE RollbackSp
  <2>1. PICK k, n, m : k = Depth /\ n = scopes[k].name /\ m = MostRecent(db, n)
    OBVIOUS
  <2>2. PICK r \in ROLLBACK_TO(db, n) : db' = r.db
    BY <1>11, <2>1 DEF RollbackSp, Top
  <2>3. /\ scopes' = scopes /\ mode' = mode /\ abandoned' = abandoned /\ lost' = lost
        /\ k = Len(scopes) /\ k # 0
    BY <1>1, <1>11, <2>1 DEF RollbackSp
  <2>4. HeldBy(db, scopes, lost)
    BY <1>2, <1>4, <2>3
  <2>5. m = Len(db.frames)
    BY <1>1, <2>1, <2>3, <2>4, HeldTop
  <2>6. PICK q : q = r.db
    OBVIOUS
  <2>7. Pending(db, n, db)
    BY <1>1, PendingStart
  <2>8. Pending(db, n, q)
    BY <1>1, <2>1, <2>6, <2>7, PendingRollbackTo
  <2>9. /\ q \in Db /\ q.begun = db.begun /\ Len(q.frames) \in m..Len(db.frames)
        /\ \A i \in 1..Len(q.frames) : q.frames[i] = db.frames[i]
    BY <2>1, <2>8 DEF Pending
  <2>10. Len(q.frames) = Len(db.frames)
    BY <1>3, <2>5, <2>9
  <2>11. \A i \in 1..Len(db.frames) : q.frames[i] = db.frames[i]
    BY <2>9, <2>10
  <2>12. \A i \in 1..Len(scopes) :
           scopes[i].kind = scopes[i].kind /\ scopes[i].name = scopes[i].name /\ scopes[i].at = scopes[i].at
    OBVIOUS
  <2>13. HeldBy(q, scopes, lost)
    BY <1>1, <2>4, <2>9, <2>10, <2>11, <2>12, HeldByAgain
  <2> QED BY <2>2, <2>3, <2>6, <2>13 DEF HeldBy
<1>12. CASE ApplicationPanics
  <2>1. db' = db /\ scopes' = scopes /\ lost' = lost /\ abandoned' = abandoned /\ mode = "run"
    BY <1>12 DEF ApplicationPanics
  <2>2. HeldBy(db, scopes, lost)
    BY <1>2, <1>4, <2>1
  <2> QED BY <2>1, <2>2 DEF HeldBy
<1>13. CASE UNCHANGED vars
  <2>1. db' = db /\ scopes' = scopes /\ lost' = lost /\ abandoned' = abandoned /\ mode' = mode
    BY <1>13 DEF vars
  <2>2. HeldBy(db, scopes, lost)
    BY <1>2, <1>4, <2>1
  <2> QED BY <2>1, <2>2 DEF HeldBy
<1> QED BY <1>5, <1>6, <1>7, <1>8, <1>9, <1>10, <1>11, <1>12, <1>13 DEF Next, Ends

\* Unless another connection's lock can refuse to release the savepoint that
\* opened the transaction, Held is an invariant.
THEOREM HeldInvariance ==
    ASSUME "sp" \notin Busy
    PROVE  Spec => []Held
<1>1. Init => Held
  <2>1. SUFFICES ASSUME Init PROVE HeldBy(db, scopes, lost)
    BY DEF Held
  <2>2. db = Closed({}) /\ scopes = <<>>
    BY <2>1 DEF Init
  <2>3. ~db.begun /\ Len(db.frames) = 0 /\ Len(scopes) = 0
    <3>1. {} \in SUBSET Write
      OBVIOUS
    <3>2. ~Closed({}).begun /\ Len(Closed({}).frames) = 0
      BY <3>1, ClosedFacts
    <3> QED BY <2>2, <3>2
  <2> QED BY <2>3 DEF HeldBy
<1>2. Inv /\ Held /\ [Next]_vars => Held'
  BY HeldNext
<1> QED BY <1>1, <1>2, Invariance, PTL DEF Spec

\* While nothing was abandoned or rolled back under them, the live scopes are what
\* SQLite has open, in order, each savepoint restoring the contents its scope was
\* opened on.
THEOREM ScopesAreAligned ==
    ASSUME "sp" \notin Busy
    PROVE  Spec => []Aligned
<1>1. Inv /\ Held => Aligned
  <2>1. SUFFICES ASSUME Inv, HeldBy(db, scopes, lost), ~lost PROVE
          LET first == IF db.begun THEN 1 ELSE 0 IN
          /\ Depth = first + Len(db.frames)
          /\ db.begun => scopes[1].kind = "tx"
          /\ \A i \in DOMAIN db.frames :
               /\ scopes[first + i].kind = "sp"
               /\ db.frames[i] = [name |-> scopes[first + i].name, at |-> scopes[first + i].at]
    BY DEF Held, Aligned
  <2>2. PICK x : x = IF db.begun THEN 1 ELSE 0
    OBVIOUS
  <2>3. /\ Depth = Len(scopes) /\ Depth \in Nat /\ Len(db.frames) \in Nat
        /\ db.frames \in Seq(Frame) /\ DOMAIN db.frames = 1..Len(db.frames)
    BY <2>1, DbFields DEF Inv, TypeOK, Depth
  <2>4. Depth - Len(db.frames) = x
    BY <2>1, <2>2, <2>3 DEF HeldBy
  <2>5. Depth = x + Len(db.frames)
    <3>1. x \in Int
      BY <2>2
    <3> QED BY <2>3, <2>4, <3>1
  <2>6. db.begun => scopes[1].kind = "tx"
    BY <2>1, <2>2, <2>3, <2>4 DEF HeldBy
  <2>7. ASSUME NEW i \in DOMAIN db.frames
        PROVE  /\ scopes[x + i].kind = "sp"
               /\ db.frames[i] = [name |-> scopes[x + i].name, at |-> scopes[x + i].at]
    <3>1. /\ scopes[x + i].kind = "sp"
          /\ db.frames[i].name = scopes[x + i].name /\ db.frames[i].at = scopes[x + i].at
      BY <2>1, <2>3, <2>4 DEF HeldBy
    <3>2. db.frames[i] \in Frame
      BY <2>3
    <3>3. db.frames[i] = [name |-> db.frames[i].name, at |-> db.frames[i].at]
      BY <3>2 DEF Frame
    <3> QED BY <3>1, <3>3
  <2> QED BY <2>2, <2>5, <2>6, <2>7
<1> QED BY <1>1, Invariance, HeldInvariance, PTL

\* When every scope is gone and none was abandoned, no transaction is left open,
\* also when statements rolled transactions back under the scopes.
THEOREM NothingLeftOpen ==
    ASSUME "sp" \notin Busy
    PROVE  Spec => []EndsClosed
<1>1. Inv /\ Held => EndsClosed
  <2>1. SUFFICES ASSUME Inv, HeldBy(db, scopes, lost), scopes = <<>> PROVE Autocommit(db)
    BY DEF Held, EndsClosed
  <2>2. Len(db.frames) \in Nat /\ (Autocommit(db) <=> ~db.begun /\ Len(db.frames) = 0)
    BY <2>1, DbFields DEF Inv, TypeOK
  <2>3. Len(scopes) = 0
    BY <2>1
  <2> QED BY <2>1, <2>2, <2>3 DEF HeldBy
<1> QED BY <1>1, Invariance, HeldInvariance, PTL

=============================================================================
