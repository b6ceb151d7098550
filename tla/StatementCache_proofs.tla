------------------------ MODULE StatementCache_proofs ------------------------
(***************************************************************************)
(* Machine-checked facts about StatementCache, for any number of handles,  *)
(* texts and any capacity.                                                 *)
(***************************************************************************)
EXTENDS StatementCache, TLAPS

-----------------------------------------------------------------------------
(* The sequence operations of the LRU list.                                *)

\* Removing an entry keeps all the others, in order.
LEMMA WithoutFacts ==
    ASSUME NEW S, NEW s \in Seq(S), NEW i \in 1..Len(s)
    PROVE  /\ Without(s, i) \in Seq(S)
           /\ Len(Without(s, i)) = Len(s) - 1
           /\ \A j \in 1..(Len(s) - 1) :
                Without(s, i)[j] = IF j < i THEN s[j] ELSE s[j + 1]
           /\ Range(Without(s, i)) = {s[j] : j \in DOMAIN s \ {i}}
<1> DEFINE w == Without(s, i)
<1>1. w \in Seq(S) /\ Len(w) = Len(s) - 1 /\ DOMAIN w = 1..(Len(s) - 1)
  BY DEF Without
<1>2. \A j \in 1..(Len(s) - 1) : w[j] = IF j < i THEN s[j] ELSE s[j + 1]
  BY DEF Without
<1>3. \A j \in DOMAIN s \ {i} : \E k \in DOMAIN w : w[k] = s[j]
  <2> TAKE j \in DOMAIN s \ {i}
  <2>1. CASE j < i
    BY <1>1, <1>2, <2>1
  <2>2. CASE j > i
    <3>1. j - 1 \in 1..(Len(s) - 1) /\ ~(j - 1 < i) /\ (j - 1) + 1 = j
      BY <2>2
    <3>2. w[j - 1] = s[j]
      BY <3>1, <1>2
    <3> QED BY <3>1, <3>2, <1>1
  <2> QED BY <2>1, <2>2
<1>4. \A k \in DOMAIN w : \E j \in DOMAIN s \ {i} : w[k] = s[j]
  <2> TAKE k \in DOMAIN w
  <2>1. CASE k < i
    BY <1>1, <1>2, <2>1
  <2>2. CASE ~(k < i)
    <3>1. k + 1 \in DOMAIN s \ {i} /\ w[k] = s[k + 1]
      BY <2>2, <1>1, <1>2
    <3> QED BY <3>1
  <2> QED BY <2>1, <2>2
<1>5. Range(w) = {s[j] : j \in DOMAIN s \ {i}}
  BY <1>3, <1>4 DEF Range
<1> QED BY <1>1, <1>2, <1>5

\* Appending an entry adds it to the contents.
LEMMA AppendFacts ==
    ASSUME NEW S, NEW s \in Seq(S), NEW x \in S
    PROVE  /\ Append(s, x) \in Seq(S)
           /\ Len(Append(s, x)) = Len(s) + 1
           /\ \A j \in 1..Len(s) : Append(s, x)[j] = s[j]
           /\ Append(s, x)[Len(s) + 1] = x
           /\ Range(Append(s, x)) = Range(s) \cup {x}
<1> DEFINE t == Append(s, x)
<1>1. /\ t \in Seq(S) /\ Len(t) = Len(s) + 1 /\ DOMAIN t = 1..(Len(s) + 1)
      /\ \A j \in 1..Len(s) : t[j] = s[j]
      /\ t[Len(s) + 1] = x
      /\ DOMAIN s = 1..Len(s)
  OBVIOUS
<1>2. \A k \in DOMAIN t : t[k] \in Range(s) \cup {x}
  BY <1>1 DEF Range
<1>3. \A y \in Range(s) \cup {x} : \E k \in DOMAIN t : t[k] = y
  BY <1>1 DEF Range
<1>4. Range(t) = Range(s) \cup {x}
  BY <1>2, <1>3 DEF Range
<1> QED BY <1>1, <1>4

\* Shrinking keeps at most n entries, the most recent ones, in order.
LEMMA ShrunkFacts ==
    ASSUME NEW S, NEW s \in Seq(S), NEW n \in Nat
    PROVE  /\ Shrunk(s, n) \in Seq(S)
           /\ Len(Shrunk(s, n)) <= n
           /\ Len(Shrunk(s, n)) <= Len(s)
           /\ \A j \in 1..Len(Shrunk(s, n)) :
                Shrunk(s, n)[j] = s[j + (Len(s) - Len(Shrunk(s, n)))]
           /\ Range(Shrunk(s, n)) \subseteq Range(s)
<1> DEFINE t == Shrunk(s, n)
<1>1. CASE Len(s) > n
  <2>1. t = SubSeq(s, Len(s) - n + 1, Len(s))
    BY <1>1 DEF Shrunk
  <2>2. /\ Len(s) - n + 1 \in 1..(Len(s) + 1)
        /\ Len(s) - (Len(s) - n + 1) + 1 = n
    BY <1>1
  <2>3. t \in Seq(S) /\ Len(t) = n
    BY <2>1, <2>2
  <2>4. \A j \in 1..n : t[j] = s[j + (Len(s) - n)]
    BY <2>1, <2>2
  <2>5. \A j \in DOMAIN t : t[j] \in Range(s)
    BY <2>3, <2>4, <1>1 DEF Range
  <2> QED BY <2>3, <2>4, <2>5, <1>1 DEF Range
<1>2. CASE ~(Len(s) > n)
  BY <1>2 DEF Shrunk
<1> QED BY <1>1, <1>2

-----------------------------------------------------------------------------
(* The inductive invariant.                                                *)

\* Conjuncts that make the checked invariants inductive: a CachedStatement
\* carries the key it was asked for, a Rows borrows a held statement, and a
\* Row in view belongs to a Rows that has not been reset.
CachedHasKey == \A h \in Handle : held[h] = "cached" => key[h] = sql[h] /\ key[h] # NoSql

RowsBorrow ==
    \A h \in Handle : /\ rows[h] # "none" => held[h] # "none"
                      /\ row[h] => rows[h] = "live" /\ run[h] = "row" /\ h \in open

IInv == TypeOK /\ OneOwner /\ CacheIsAMap /\ CacheBounded /\ CachedHasKey /\ RowsBorrow

\* Every initial state of the connection satisfies the invariant.
LEMMA InitInv == Init => IInv
<1> SUFFICES ASSUME Init PROVE IInv
  OBVIOUS
<1> USE CapacityAssumption DEF Init
<1>1. TypeOK
  BY DEF TypeOK
<1>2. OneOwner
  BY DEF OneOwner, HeldOpen, Range
<1>3. CacheIsAMap /\ CacheBounded /\ CachedHasKey /\ RowsBorrow
  BY DEF CacheIsAMap, CacheBounded, CachedHasKey, RowsBorrow
<1> QED BY <1>1, <1>2, <1>3 DEF IInv

\* Entries with distinct keys are distinct handles, so an entry sits at one position.
LEMMA OneEntryPerHandle ==
    ASSUME CacheIsAMap, NEW i \in DOMAIN cache, NEW j \in DOMAIN cache, cache[i] = cache[j]
    PROVE  i = j
BY DEF CacheIsAMap

\* prepare, and prepare_cached on a miss.
LEMMA NewStatementInv ==
    ASSUME IInv, UNCHANGED forgets, conn = "open", NEW h \in Handle, NEW s \in Sql, NEW k \in {s, NoSql}, NEW o \in {"plain", "cached"},
           o = "cached" => k = s, NewStatement(h, s, k, o),
           UNCHANGED <<conn, rowsVars, cache, capacity, leaked>>
    PROVE  IInv'
<1> USE DEF IInv, NewStatement, Unused, rowsVars
<1>1. TypeOK'
  BY KindAssumption DEF TypeOK
<1>2. h \notin Range(cache) /\ h \notin leaked /\ rows[h] = "none"
  BY DEF OneOwner, RowsBorrow
<1>3. Range(cache') = Range(cache)
  BY DEF Range
<1>4. HeldOpen' = IF Kind[s] = "stmt" THEN HeldOpen \cup {h} ELSE HeldOpen
  BY DEF HeldOpen, TypeOK
<1>5. OneOwner'
  BY <1>2, <1>3, <1>4 DEF OneOwner
<1>6. \A i \in DOMAIN cache : cache[i] # h /\ cache[i] \in Handle
  BY <1>2 DEF Range, TypeOK
<1>7. CacheIsAMap' /\ CacheBounded'
  BY <1>6 DEF CacheIsAMap, CacheBounded, TypeOK
<1>8. CachedHasKey'
  BY NoSqlAssumption DEF CachedHasKey, TypeOK
<1>9. RowsBorrow'
  BY <1>2 DEF RowsBorrow, TypeOK
<1> QED BY <1>1, <1>5, <1>7, <1>8, <1>9

\* prepare_cached on a hit: the entry changes owner.
LEMMA GetHitInv ==
    ASSUME IInv, UNCHANGED forgets, NEW s \in Sql, GetHit(s)
    PROVE  IInv'
<1>1. PICK i \in At(s) : /\ cache' = Without(cache, i)
                         /\ held' = [held EXCEPT ![cache[i]] = "cached"]
                         /\ key' = [key EXCEPT ![cache[i]] = s]
  BY DEF GetHit
<1> DEFINE g == cache[i]
<1>2. i \in 1..Len(cache) /\ g \in Handle /\ key[g] = s /\ g \in Range(cache)
  BY DEF At, IInv, TypeOK, Range
<1>3. key' = key
  BY <1>1, <1>2 DEF IInv, TypeOK
<1>4. UNCHANGED <<conn, open, sql, bound, run, rows, row, capacity, leaked>>
  BY DEF GetHit, rowsVars
<1>5. /\ cache' \in Seq(Handle) /\ Len(cache') = Len(cache) - 1
      /\ \A j \in 1..(Len(cache) - 1) : cache'[j] = IF j < i THEN cache[j] ELSE cache[j + 1]
      /\ Range(cache') = {cache[j] : j \in DOMAIN cache \ {i}}
  <2>1. cache \in Seq(Handle)
    BY DEF IInv, TypeOK
  <2>2. /\ Without(cache, i) \in Seq(Handle) /\ Len(Without(cache, i)) = Len(cache) - 1
        /\ \A j \in 1..(Len(cache) - 1) :
             Without(cache, i)[j] = IF j < i THEN cache[j] ELSE cache[j + 1]
        /\ Range(Without(cache, i)) = {cache[j] : j \in DOMAIN cache \ {i}}
    BY <2>1, <1>2, WithoutFacts
  <2> QED BY <2>2, <1>1
<1>6. TypeOK'
  BY <1>1, <1>2, <1>3, <1>4, <1>5 DEF IInv, TypeOK
<1>7. g \notin Range(cache')
  BY <1>2, <1>5, OneEntryPerHandle DEF IInv
<1>8. Range(cache') = Range(cache) \ {g}
  BY <1>5, <1>7 DEF Range
<1>9. g \in open /\ g \notin HeldOpen /\ g \notin leaked
  BY <1>2 DEF IInv, OneOwner
<1>10. HeldOpen' = HeldOpen \cup {g}
  BY <1>1, <1>2, <1>4, <1>9 DEF HeldOpen, IInv, TypeOK
<1>11. OneOwner'
  BY <1>2, <1>4, <1>8, <1>9, <1>10 DEF IInv, OneOwner
<1>12. CacheIsAMap'
  <2>1. DOMAIN cache' = 1..(Len(cache) - 1) /\ DOMAIN cache = 1..Len(cache)
    BY <1>5 DEF IInv, TypeOK
  <2> DEFINE at(j) == IF j < i THEN j ELSE j + 1
  <2>2. \A j \in DOMAIN cache' : at(j) \in DOMAIN cache /\ cache'[j] = cache[at(j)]
    BY <2>1, <1>2, <1>5 DEF IInv, TypeOK
  <2>3. ASSUME NEW j \in DOMAIN cache', NEW k \in DOMAIN cache', key'[cache'[j]] = key'[cache'[k]]
        PROVE  j = k
    <3>1. at(j) = at(k)
      BY <2>2, <2>3, <1>3 DEF IInv, CacheIsAMap
    <3> QED BY <3>1, <2>1, <1>2
  <2>4. \A j \in DOMAIN cache' : key'[cache'[j]] = sql'[cache'[j]]
    BY <2>2, <1>3, <1>4 DEF IInv, CacheIsAMap
  <2> QED BY <2>3, <2>4 DEF CacheIsAMap
<1>13. CacheBounded'
  BY <1>4, <1>5 DEF IInv, CacheBounded, TypeOK
<1>14. CachedHasKey'
  BY NoSqlAssumption, <1>1, <1>2, <1>3, <1>4 DEF IInv, CachedHasKey, CacheIsAMap, At, TypeOK
<1>15. RowsBorrow'
  BY <1>1, <1>2, <1>4 DEF IInv, RowsBorrow, TypeOK
<1> QED BY <1>6, <1>11, <1>12, <1>13, <1>14, <1>15 DEF IInv

\* The contents of the LRU list after an insertion: the entry replaced under
\* the key is gone, the new one is there, and keys are still distinct.
LEMMA InsertedFacts ==
    ASSUME IInv, NEW h \in Handle, h \notin Range(cache)
    PROVE  /\ Inserted(h) \in Seq(Handle)
           /\ Range(Inserted(h)) = (Range(cache) \ Replaced(key[h])) \cup {h}
           /\ \A i, j \in DOMAIN Inserted(h) :
                key[Inserted(h)[i]] = key[Inserted(h)[j]] => i = j
<1> DEFINE k == key[h]
<1>1. cache \in Seq(Handle) /\ DOMAIN cache = 1..Len(cache)
  BY DEF IInv, TypeOK
<1>2. CASE At(k) = {}
  <2>1. Inserted(h) = Append(cache, h)
    BY <1>2 DEF Inserted
  <2>2. Replaced(k) = {}
    BY <1>2 DEF Replaced
  <2>3. /\ Inserted(h) \in Seq(Handle)
        /\ Len(Inserted(h)) = Len(cache) + 1
        /\ \A j \in 1..Len(cache) : Inserted(h)[j] = cache[j]
        /\ Inserted(h)[Len(cache) + 1] = h
        /\ Range(Inserted(h)) = Range(cache) \cup {h}
    BY <1>1, <2>1, AppendFacts
  <2>4. \A i \in DOMAIN cache : key[cache[i]] # k
    BY <1>2 DEF At
  <2>5. \A i, j \in 1..(Len(cache) + 1) : key[Inserted(h)[i]] = key[Inserted(h)[j]] => i = j
    BY <1>1, <2>3, <2>4 DEF IInv, CacheIsAMap
  <2> QED BY <2>2, <2>3, <2>5
<1>3. CASE At(k) # {}
  <2>1. PICK i \in At(k) : Inserted(h) = Append(Without(cache, i), h)
    BY <1>3 DEF Inserted
  <2> DEFINE w == Without(cache, i)
  <2>2. i \in 1..Len(cache) /\ key[cache[i]] = k
    BY <1>1, <2>1 DEF At
  <2>3. Inserted(h) = Append(w, h)
    BY <2>1
  <2>4. /\ w \in Seq(Handle)
        /\ Len(w) = Len(cache) - 1
        /\ \A j \in 1..(Len(cache) - 1) : w[j] = IF j < i THEN cache[j] ELSE cache[j + 1]
        /\ Range(w) = {cache[j] : j \in DOMAIN cache \ {i}}
    <3>1. cache \in Seq(Handle) /\ i \in 1..Len(cache)
      BY <1>1, <2>2
    <3> QED BY <3>1, WithoutFacts
  <2> HIDE DEF w
  <2>5. /\ Inserted(h) \in Seq(Handle)
        /\ Len(Inserted(h)) = Len(w) + 1
        /\ \A j \in 1..Len(w) : Inserted(h)[j] = w[j]
        /\ Inserted(h)[Len(w) + 1] = h
        /\ Range(Inserted(h)) = Range(w) \cup {h}
    BY <2>3, <2>4, AppendFacts
  <2>6. At(k) = {i}
    BY <1>1, <2>1, <2>2 DEF At, IInv, CacheIsAMap
  <2>7. Replaced(k) = {cache[i]}
    BY <2>6 DEF Replaced
  <2>8. \A j \in DOMAIN cache \ {i} : cache[j] # cache[i] /\ key[cache[j]] # k
    BY <1>1, <2>2 DEF IInv, CacheIsAMap
  <2>9. Range(w) = Range(cache) \ {cache[i]}
    BY <2>2, <2>4, <2>8, <1>1 DEF Range
  <2> DEFINE at(j) == IF j < i THEN j ELSE j + 1
  <2>10. \A j \in 1..(Len(cache) - 1) :
            at(j) \in DOMAIN cache \ {i} /\ Inserted(h)[j] = cache[at(j)]
    BY <1>1, <2>2, <2>4, <2>5
  <2>11. \A p, q \in 1..(Len(cache) - 1) : at(p) = at(q) => p = q
    BY <1>1, <2>2
  <2>12. Inserted(h)[Len(cache)] = h
    BY <1>1, <2>4, <2>5
  <2> HIDE DEF at
  <2>13. \A p, q \in 1..(Len(cache) - 1) :
            key[Inserted(h)[p]] = key[Inserted(h)[q]] => p = q
    BY <2>10, <2>11 DEF IInv, CacheIsAMap
  <2>14. \A p \in 1..(Len(cache) - 1) : key[Inserted(h)[p]] # key[h]
    BY <2>10, <2>8
  <2>15. \A p, q \in 1..Len(cache) : key[Inserted(h)[p]] = key[Inserted(h)[q]] => p = q
    BY <1>1, <2>12, <2>13, <2>14
  <2>16. DOMAIN Inserted(h) = 1..Len(cache)
    BY <1>1, <2>4, <2>5
  <2> QED BY <2>5, <2>7, <2>9, <2>15, <2>16
<1> QED BY <1>2, <1>3

\* Shrinking a list of distinct keys leaves one.
LEMMA ShrunkIsAMap ==
    ASSUME NEW t \in Seq(Handle), NEW n \in Nat,
           \A i, j \in DOMAIN t : key[t[i]] = key[t[j]] => i = j
    PROVE  \A i, j \in DOMAIN Shrunk(t, n) :
             key[Shrunk(t, n)[i]] = key[Shrunk(t, n)[j]] => i = j
<1> DEFINE u == Shrunk(t, n)
           d == Len(t) - Len(u)
<1>1. /\ u \in Seq(Handle) /\ Len(u) <= Len(t)
      /\ \A j \in 1..Len(u) : u[j] = t[j + d]
  BY ShrunkFacts
<1>2. DOMAIN u = 1..Len(u) /\ d \in Nat /\ DOMAIN t = 1..Len(t)
  BY <1>1
<1>3. \A j \in DOMAIN u : j + d \in DOMAIN t
  BY <1>1, <1>2
<1> HIDE DEF u
<1>4. ASSUME NEW i \in DOMAIN u, NEW j \in DOMAIN u, key[u[i]] = key[u[j]] PROVE i = j
  <2>1. i + d = j + d
    BY <1>1, <1>2, <1>3, <1>4
  <2> HIDE DEF d
  <2> QED BY <2>1, <1>2, <1>1
<1> QED BY <1>4 DEF u

\* Returning a statement to the cache.
LEMMA CacheStmtInv ==
    ASSUME IInv, UNCHANGED forgets, NEW h \in Handle, CacheStmt(h)
    PROVE  IInv'
<1>1. /\ held[h] = "cached" /\ rows[h] = "none"
      /\ held' = [held EXCEPT ![h] = "none"]
      /\ UNCHANGED <<conn, sql, key, run, rows, row, capacity, leaked>>
  BY DEF CacheStmt, Usable, rowsVars
<1>2. CachedHasKey' /\ key[h] = sql[h]
  BY <1>1 DEF IInv, CachedHasKey, TypeOK
<1>3. CASE h \notin open
  <2>1. UNCHANGED <<open, bound, cache>>
    BY <1>3 DEF CacheStmt
  <2>2. TypeOK'
    BY <1>1, <2>1 DEF IInv, TypeOK
  <2>3. HeldOpen' = HeldOpen /\ Range(cache') = Range(cache)
    BY <1>1, <1>3, <2>1 DEF HeldOpen, IInv, TypeOK, Range
  <2>4. OneOwner'
    BY <1>1, <2>1, <2>3 DEF IInv, OneOwner
  <2>5. CacheIsAMap' /\ CacheBounded'
    BY <1>1, <2>1 DEF IInv, CacheIsAMap, CacheBounded
  <2>6. RowsBorrow'
    BY <1>1, <2>1 DEF IInv, RowsBorrow, TypeOK
  <2> QED BY <1>2, <2>2, <2>4, <2>5, <2>6 DEF IInv
<1>4. CASE h \in open
  <2> DEFINE t == Inserted(h)
  <2>1. /\ bound' = [bound EXCEPT ![h] = FALSE]
        /\ cache' = Shrunk(t, capacity)
        /\ open' = (open \ Replaced(key[h])) \ (Range(t) \ Range(cache'))
    BY <1>4 DEF CacheStmt
  <2>2. h \in HeldOpen /\ h \notin Range(cache) /\ h \notin leaked
    BY <1>1, <1>4 DEF IInv, OneOwner, HeldOpen
  <2>3. /\ t \in Seq(Handle)
        /\ Range(t) = (Range(cache) \ Replaced(key[h])) \cup {h}
        /\ \A i, j \in DOMAIN t : key[t[i]] = key[t[j]] => i = j
    BY <2>2, InsertedFacts
  <2> HIDE DEF t
  <2>4. capacity \in Nat /\ capacity' = capacity
    BY <1>1, CapacityAssumption DEF IInv, TypeOK
  <2>5. /\ cache' \in Seq(Handle)
        /\ Len(cache') <= capacity
        /\ Range(cache') \subseteq Range(t)
    BY <2>1, <2>3, <2>4, ShrunkFacts
  <2>6. \A i, j \in DOMAIN cache' : key[cache'[i]] = key[cache'[j]] => i = j
    BY <2>1, <2>3, <2>4, ShrunkIsAMap
  <2>7. TypeOK'
    BY <1>1, <2>1, <2>5 DEF IInv, TypeOK
  <2>8. Replaced(key[h]) \subseteq Range(cache)
    BY DEF Replaced, At, Range
  <2>9. HeldOpen' = HeldOpen \ {h}
    <3>1. \A g \in open : g # h /\ held[g] # "none" => g \in open'
      BY <2>1, <2>3, <2>8 DEF IInv, OneOwner, HeldOpen
    <3>2. \A g \in open' : g \in open /\ (held'[g] # "none" => g # h /\ held[g] # "none")
      BY <1>1, <2>1 DEF IInv, TypeOK
    <3>3. \A g \in open : g # h => held'[g] = held[g]
      BY <1>1 DEF IInv, TypeOK
    <3> QED BY <3>1, <3>2, <3>3 DEF HeldOpen
  <2>10. OneOwner'
    BY <1>1, <2>1, <2>2, <2>3, <2>5, <2>8, <2>9 DEF IInv, OneOwner
  <2>11. \A i \in DOMAIN cache' : cache'[i] = h \/ cache'[i] \in Range(cache)
    BY <2>3, <2>5 DEF Range
  <2>12. CacheIsAMap'
    BY <1>1, <1>2, <2>6, <2>11 DEF IInv, CacheIsAMap, Range
  <2>13. CacheBounded'
    BY <2>4, <2>5 DEF CacheBounded
  <2>14. \A g \in Handle : row[g] => g # h /\ g \in open /\ held[g] # "none"
    BY <1>1 DEF IInv, RowsBorrow
  <2>15. \A g \in Handle : row[g] => g \in open'
    BY <1>1, <2>14, <2>9 DEF HeldOpen, IInv, TypeOK
  <2>16. RowsBorrow'
    BY <1>1, <2>15 DEF IInv, RowsBorrow, TypeOK
  <2> QED BY <1>2, <2>7, <2>10, <2>12, <2>13, <2>16 DEF IInv
<1> QED BY <1>3, <1>4

\* Dropping entries from the old end: set_capacity.
LEMMA SetCapacityInv ==
    ASSUME IInv, UNCHANGED forgets, NEW n \in 0..MaxCapacity, SetCapacity(n)
    PROVE  IInv'
<1>1. /\ capacity' = n
      /\ cache' = Shrunk(cache, n)
      /\ open' = open \ (Range(cache) \ Range(cache'))
      /\ UNCHANGED <<conn, sql, key, bound, run, held, rows, row, leaked>>
  BY DEF SetCapacity, stmtVars, rowsVars
<1>2. n \in Nat /\ cache \in Seq(Handle)
  BY CapacityAssumption DEF IInv, TypeOK
<1>3. cache' \in Seq(Handle) /\ Len(cache') <= n /\ Range(cache') \subseteq Range(cache)
  BY <1>1, <1>2, ShrunkFacts
<1>4. \A i, j \in DOMAIN cache' : key[cache'[i]] = key[cache'[j]] => i = j
  BY <1>1, <1>2, ShrunkIsAMap DEF IInv, CacheIsAMap
<1>5. TypeOK'
  BY <1>1, <1>3 DEF IInv, TypeOK
<1>6. HeldOpen' = HeldOpen
  BY <1>1 DEF HeldOpen, IInv, OneOwner
<1>7. OneOwner'
  BY <1>1, <1>3, <1>6 DEF IInv, OneOwner
<1>8. \A i \in DOMAIN cache' : cache'[i] \in Range(cache)
  BY <1>3 DEF Range
<1>9. CacheIsAMap'
  BY <1>1, <1>4, <1>8 DEF IInv, CacheIsAMap, Range
<1>10. CacheBounded' /\ CachedHasKey'
  BY <1>1, <1>3 DEF IInv, CacheBounded, CachedHasKey
<1>11. RowsBorrow'
  BY <1>1, <1>6 DEF IInv, RowsBorrow, HeldOpen
<1> QED BY <1>5, <1>7, <1>9, <1>10, <1>11 DEF IInv

\* Emptying the cache: flush, and the flush that close and drop start with.
LEMMA FlushInv ==
    ASSUME IInv, UNCHANGED forgets, cache' = <<>>, open' = open \ Range(cache), conn' \in {"open", "closed", "lost"},
           UNCHANGED <<stmtVars, held, rowsVars, capacity, leaked>>
    PROVE  IInv'
<1> USE DEF stmtVars, rowsVars
<1>1. TypeOK'
  BY DEF IInv, TypeOK
<1>2. Range(cache') = {}
  BY DEF Range
<1>3. HeldOpen' = HeldOpen
  BY DEF HeldOpen, IInv, OneOwner
<1>4. OneOwner'
  BY <1>2, <1>3 DEF IInv, OneOwner
<1>5. Len(cache') = 0 /\ DOMAIN cache' = {}
  OBVIOUS
<1>6. CacheIsAMap' /\ CacheBounded' /\ CachedHasKey'
  BY <1>5, CapacityAssumption DEF IInv, CacheIsAMap, CacheBounded, CachedHasKey, TypeOK
<1>7. RowsBorrow'
  BY <1>3 DEF IInv, RowsBorrow, HeldOpen
<1> QED BY <1>1, <1>4, <1>6, <1>7 DEF IInv

\* The calls that leave the cache and the set of open statements alone.
LEMMA UseInv ==
    ASSUME IInv, UNCHANGED forgets, NEW h \in Handle,
           \/ BindParameters(h) \/ ClearBindings(h) \/ Execute(h) \/ Query(h)
           \/ NextRow(h) \/ NextEnd(h) \/ DropRows(h) \/ ForgetRows(h)
    PROVE  IInv'
<1> USE DEF BindParameters, ClearBindings, Execute, Query, NextRow, NextEnd, DropRows,
            ForgetRows, Usable, stmtVars, rowsVars
<1>1. UNCHANGED <<conn, open, sql, key, held, cache, capacity, leaked>>
  OBVIOUS
<1>2. TypeOK'
  BY DEF IInv, TypeOK
<1>3. OneOwner' /\ CacheIsAMap' /\ CacheBounded' /\ CachedHasKey'
  BY <1>1 DEF IInv, OneOwner, HeldOpen, Range, CacheIsAMap, CacheBounded, CachedHasKey
<1>4. RowsBorrow'
  BY DEF IInv, RowsBorrow, TypeOK
<1> QED BY <1>2, <1>3, <1>4 DEF IInv

\* Dropping, finalizing, discarding or forgetting a statement.
LEMMA LetGoInv ==
    ASSUME IInv, UNCHANGED forgets, NEW h \in Handle, Finalize(h) \/ ForgetStatement(h)
    PROVE  IInv'
<1> USE DEF Finalize, ForgetStatement, Usable, stmtVars, rowsVars
<1>1. UNCHANGED <<conn, sql, key, bound, run, rows, row, cache, capacity>>
  OBVIOUS
<1>2. TypeOK'
  BY DEF IInv, TypeOK
<1>3. HeldOpen' = HeldOpen \ {h} /\ Range(cache') = Range(cache)
  BY DEF HeldOpen, IInv, TypeOK, Range
<1>4. OneOwner'
  BY <1>3 DEF IInv, OneOwner, HeldOpen
<1>5. CacheIsAMap' /\ CacheBounded' /\ CachedHasKey'
  BY DEF IInv, CacheIsAMap, CacheBounded, CachedHasKey, TypeOK
<1>6. RowsBorrow'
  BY DEF IInv, RowsBorrow, TypeOK
<1> QED BY <1>2, <1>4, <1>5, <1>6 DEF IInv

\* Every step of the connection preserves the invariant.
LEMMA NextInv == IInv /\ [Next]_vars => IInv'
<1> SUFFICES ASSUME IInv, [Next]_vars PROVE IInv'
  OBVIOUS
<1>0. UNCHANGED forgets
  BY DEF Next, vars
<1>1. ASSUME NEW h \in Handle, NEW s \in Sql, Prepare(h, s) PROVE IInv'
  BY <1>0, <1>1, NewStatementInv DEF Prepare
<1>2. ASSUME NEW h \in Handle, NEW s \in Sql, GetMiss(h, s) PROVE IInv'
  BY <1>0, <1>2, NewStatementInv DEF GetMiss
<1>3. ASSUME NEW s \in Sql, GetHit(s) PROVE IInv'
  BY <1>0, <1>3, GetHitInv
<1>4. ASSUME NEW h \in Handle, Use(h) PROVE IInv'
  BY <1>0, <1>4, UseInv, LetGoInv, CacheStmtInv DEF Use
<1>5. ASSUME NEW n \in 0..MaxCapacity, SetCapacity(n) PROVE IInv'
  BY <1>0, <1>5, SetCapacityInv
<1>6. CASE Flush
  <2>1. conn' \in {"open", "closed", "lost"}
    BY <1>6 DEF Flush
  <2> QED BY <1>0, <1>6, <2>1, FlushInv DEF Flush
<1>7. ASSUME NEW onBusy \in {"open", "lost"}, Close(onBusy) PROVE IInv'
  <2>1. conn' \in {"open", "closed", "lost"}
    BY <1>7 DEF Close
  <2> QED BY <1>0, <1>7, <2>1, FlushInv DEF Close
<1>8. CASE UNCHANGED vars
  BY <1>8 DEF vars, IInv, TypeOK, OneOwner, HeldOpen, Range, CacheIsAMap, CacheBounded,
              CachedHasKey, RowsBorrow
<1> QED BY <1>1, <1>2, <1>3, <1>4, <1>5, <1>6, <1>7, <1>8 DEF Next, Step

\* The inductive invariant holds in every reachable state.
THEOREM Invariance == Spec => []IInv
<1>1. Init => IInv
  BY InitInv
<1>2. IInv /\ [Next]_vars => IInv'
  BY NextInv
<1> QED BY <1>1, <1>2, PTL DEF Spec

\* The variables keep their types.
THEOREM TypeCorrect == Spec => []TypeOK
<1>1. IInv => TypeOK
  BY DEF IInv
<1> QED BY <1>1, Invariance, PTL

\* Every statement SQLite has open has exactly one owner: no handle is
\* finalized twice, used after it was finalized, or lost.
THEOREM Ownership == Spec => []OneOwner
<1>1. IInv => OneOwner
  BY DEF IInv
<1> QED BY <1>1, Invariance, PTL

\* The cache is a map from text to the statement compiled from it.
THEOREM CacheMap == Spec => []CacheIsAMap
<1>1. IInv => CacheIsAMap
  BY DEF IInv
<1> QED BY <1>1, Invariance, PTL

\* The cache never holds more statements than the capacity last set.
THEOREM Bounded == Spec => []CacheBounded
<1>1. IInv => CacheBounded
  BY DEF IInv
<1> QED BY <1>1, Invariance, PTL

\* A Row in view stands on a row of a statement the application still owns.
THEOREM CurrentRow == Spec => []RowIsCurrent
<1>1. IInv => RowIsCurrent
  BY DEF IInv, RowsBorrow, RowIsCurrent
<1> QED BY <1>1, Invariance, PTL

-----------------------------------------------------------------------------
(* What the cache hands out, and closing.                                  *)

\* While no Rows is forgotten, only a statement under a live Rows is running.
IdleIsReset == \A h \in Handle : rows[h] # "live" => run[h] = "ready"

CachedClean == \A i \in DOMAIN cache : run[cache[i]] = "ready" /\ ~bound[cache[i]]
CleanInv == CachedClean /\ IdleIsReset

\* The steps that touch bindings or the run state preserve cleanliness.
LEMMA CleanStep ==
    ASSUME "rows" \notin forgets, IInv, CleanInv, [Next]_vars
    PROVE  CleanInv'
<1> USE DEF CleanInv
<1>1. \A i \in DOMAIN cache : cache[i] \in Handle /\ held[cache[i]] = "none"
                              /\ rows[cache[i]] = "none" /\ cache[i] \in open
  BY DEF IInv, TypeOK, OneOwner, HeldOpen, Range, RowsBorrow
<1>2. ASSUME NEW h \in Handle, NEW s \in Sql, Prepare(h, s) \/ GetMiss(h, s) PROVE CleanInv'
  BY <1>1, <1>2 DEF Prepare, GetMiss, NewStatement, Unused, CachedClean, IdleIsReset,
                    IInv, TypeOK, rowsVars
<1>3. ASSUME NEW s \in Sql, GetHit(s) PROVE CleanInv'
  <2>1. PICK i \in At(s) : cache' = Without(cache, i)
    BY <1>3 DEF GetHit
  <2>2. cache \in Seq(Handle) /\ i \in 1..Len(cache)
    BY DEF At, IInv, TypeOK
  <2>3. cache' \in Seq(Handle) /\ Range(cache') = {cache[j] : j \in DOMAIN cache \ {i}}
    BY <2>1, <2>2, WithoutFacts
  <2>4. \A j \in DOMAIN cache' : cache'[j] \in Range(cache)
    BY <2>3 DEF Range
  <2> QED BY <1>3, <2>4 DEF GetHit, CachedClean, IdleIsReset, Range, rowsVars
<1>4. ASSUME NEW h \in Handle, Use(h) PROVE CleanInv'
  <2>1. CASE CacheStmt(h)
    <3>1. IdleIsReset' /\ run[h] = "ready" /\ UNCHANGED run
      BY <2>1 DEF CacheStmt, Usable, IdleIsReset, rowsVars
    <3>2. CASE h \notin open
      BY <2>1, <3>1, <3>2 DEF CacheStmt, CachedClean
    <3>3. CASE h \in open
      <4> DEFINE t == Inserted(h)
      <4>1. /\ bound' = [bound EXCEPT ![h] = FALSE]
            /\ cache' = Shrunk(t, capacity)
        BY <2>1, <3>3 DEF CacheStmt
      <4>2. h \notin Range(cache)
        BY <2>1, <1>1 DEF CacheStmt, Range
      <4>3. t \in Seq(Handle) /\ Range(t) \subseteq Range(cache) \cup {h}
        BY <4>2, InsertedFacts
      <4> HIDE DEF t
      <4>4. capacity \in Nat
        BY CapacityAssumption DEF IInv, TypeOK
      <4>5. cache' \in Seq(Handle) /\ Range(cache') \subseteq Range(t)
        BY <4>1, <4>3, <4>4, ShrunkFacts
      <4>6. \A i \in DOMAIN cache' : cache'[i] \in Range(cache) \cup {h}
        BY <4>3, <4>5 DEF Range
      <4>7. \A g \in Range(cache) \cup {h} : run'[g] = "ready" /\ ~bound'[g]
        BY <1>1, <3>1, <4>1 DEF CachedClean, Range, IInv, TypeOK
      <4> QED BY <3>1, <4>6, <4>7 DEF CachedClean
    <3> QED BY <3>2, <3>3
  <2>2. CASE BindParameters(h) \/ ClearBindings(h) \/ Execute(h)
    BY <1>1, <2>2 DEF BindParameters, ClearBindings, Execute, Usable, CachedClean,
                      IdleIsReset, IInv, TypeOK, rowsVars
  <2>3. CASE Query(h) \/ NextRow(h) \/ NextEnd(h) \/ DropRows(h) \/ ForgetRows(h)
    BY <1>1, <2>3 DEF Query, NextRow, NextEnd, DropRows, ForgetRows, Usable, CachedClean,
                      IdleIsReset, IInv, TypeOK, rowsVars, stmtVars
  <2>4. CASE Finalize(h) \/ ForgetStatement(h)
    BY <2>4 DEF Finalize, ForgetStatement, CachedClean, IdleIsReset, rowsVars, stmtVars
  <2> QED BY <1>4, <2>1, <2>2, <2>3, <2>4 DEF Use
<1>5. ASSUME NEW n \in 0..MaxCapacity, SetCapacity(n) PROVE CleanInv'
  <2>1. n \in Nat /\ cache \in Seq(Handle) /\ cache' = Shrunk(cache, n)
    BY <1>5, CapacityAssumption DEF SetCapacity, IInv, TypeOK
  <2>2. cache' \in Seq(Handle) /\ Range(cache') \subseteq Range(cache)
    BY <2>1, ShrunkFacts
  <2>3. \A i \in DOMAIN cache' : cache'[i] \in Range(cache)
    BY <2>2 DEF Range
  <2> QED BY <1>5, <2>3 DEF SetCapacity, CachedClean, IdleIsReset, Range, rowsVars, stmtVars
<1>6. ASSUME Flush \/ \E onBusy \in {"open", "lost"} : Close(onBusy) PROVE CleanInv'
  <2>1. cache' = <<>> /\ UNCHANGED <<bound, run, rows>>
    BY <1>6 DEF Flush, Close, rowsVars, stmtVars
  <2>2. DOMAIN cache' = {}
    BY <2>1
  <2> QED BY <2>1, <2>2 DEF CachedClean, IdleIsReset
<1>7. CASE UNCHANGED vars
  BY <1>7 DEF vars, CachedClean, IdleIsReset
<1> QED BY <1>2, <1>3, <1>4, <1>5, <1>6, <1>7 DEF Next, Step

\* As long as the application forgets no Rows, a statement in the cache is
\* reset and holds no bound value, although cache_stmt never resets.
THEOREM CleanCache == Spec => []CachedIsClean
<1> DEFINE CInv == "rows" \notin forgets => CleanInv
<1>1. Init => CInv
  BY DEF Init, CleanInv, CachedClean, IdleIsReset
<1>2. IInv /\ CInv /\ [Next]_vars => CInv'
  <2>1. [Next]_vars => forgets' = forgets
    BY DEF Next, vars
  <2> QED BY <2>1, CleanStep
<1>3. CInv => CachedIsClean
  BY DEF CleanInv, CachedClean, CachedIsClean
<1> HIDE DEF CInv
<1> QED BY <1>1, <1>2, <1>3, Invariance, PTL DEF Spec

\* Nothing borrows a connection that was closed or lost.
EndedIsIdle == conn # "open" => cache = <<>> /\ \A h \in Handle : held[h] = "none"

\* A successful close leaves nothing behind in SQLite; drop loses the
\* connection only when a statement was forgotten.
THEOREM CleanClose == Spec => []CloseIsClean
<1> DEFINE EInv == EndedIsIdle /\ CloseIsClean
<1>1. Init => EInv
  BY DEF Init, EndedIsIdle, CloseIsClean
<1>2. IInv /\ EInv /\ [Next]_vars => EInv'
  <2> SUFFICES ASSUME IInv, EInv, [Next]_vars PROVE EInv'
    OBVIOUS
  <2>1. CASE conn = "open" /\ conn' = "open"
    BY <2>1 DEF EndedIsIdle, CloseIsClean
  <2>2. CASE conn # "open"
    <3>1. \A h \in Handle : held[h] = "none" /\ rows[h] = "none"
      BY <2>2 DEF EndedIsIdle, IInv, RowsBorrow, TypeOK
    <3>2. UNCHANGED vars
      BY <2>2, <3>1 DEF Next, Step, Use, Prepare, GetMiss, GetHit, BindParameters, ClearBindings,
        Execute, Query, NextRow, NextEnd, DropRows, ForgetRows, Finalize, ForgetStatement,
        CacheStmt, SetCapacity, Flush, Close, Usable
    <3> QED BY <3>2 DEF vars, EndedIsIdle, CloseIsClean
  <2>3. CASE conn = "open" /\ conn' # "open"
    <3>1. PICK onBusy \in {"open", "lost"} : Close(onBusy)
      BY <2>3 DEF Next, Step, Use, Prepare, GetMiss, GetHit, BindParameters, ClearBindings,
        Execute, Query, NextRow, NextEnd, DropRows, ForgetRows, Finalize, ForgetStatement,
        CacheStmt, SetCapacity, Flush, vars
    <3>2. open' = open \ Range(cache) /\ cache' = <<>> /\ UNCHANGED <<held, leaked>>
          /\ (\A h \in Handle : held[h] = "none")
          /\ conn' = IF open' = {} THEN "closed" ELSE onBusy
      BY <3>1 DEF Close
    <3>3. open' \subseteq leaked
      BY <3>2 DEF IInv, OneOwner, HeldOpen, TypeOK
    <3> QED BY <2>3, <3>2, <3>3 DEF EndedIsIdle, CloseIsClean
  <2> QED BY <2>1, <2>2, <2>3
<1>3. EInv => CloseIsClean
  OBVIOUS
<1> HIDE DEF EInv
<1> QED BY <1>1, <1>2, <1>3, Invariance, PTL DEF Spec

-----------------------------------------------------------------------------
(* Evictions take the oldest entries.                                      *)

\* Shrinking a list without repetition keeps every entry after one it keeps.
LEMMA ShrunkIsASuffix ==
    ASSUME NEW S, NEW t \in Seq(S), NEW n \in Nat, \A i, j \in DOMAIN t : t[i] = t[j] => i = j,
           NEW p \in DOMAIN t, NEW q \in DOMAIN t, p <= q, t[p] \in Range(Shrunk(t, n))
    PROVE  t[q] \in Range(Shrunk(t, n))
<1> DEFINE u == Shrunk(t, n)
           d == Len(t) - Len(u)
<1>1. /\ u \in Seq(S) /\ Len(u) <= Len(t)
      /\ \A j \in 1..Len(u) : u[j] = t[j + d]
  BY ShrunkFacts
<1>2. DOMAIN u = 1..Len(u) /\ d \in Nat /\ DOMAIN t = 1..Len(t) /\ Len(u) \in Nat /\ Len(t) \in Nat
  BY <1>1
<1> HIDE DEF u
<1>3. PICK j \in DOMAIN u : u[j] = t[p]
  BY DEF Range, u
<1>4. j + d \in DOMAIN t /\ p = j + d
  <2>1. j + d \in DOMAIN t
    BY <1>1, <1>2
  <2>2. t[j + d] = t[p]
    BY <1>1, <1>2, <1>3
  <2> QED BY <2>1, <2>2
<1>5. q - d \in 1..Len(u) /\ (q - d) + d = q
  BY <1>2, <1>4
<1>6. u[q - d] = t[q]
  BY <1>1, <1>5
<1> QED BY <1>2, <1>5, <1>6 DEF Range, u

\* An insertion puts the new entry last.
LEMMA InsertedLast ==
    ASSUME IInv, NEW h \in Handle, h \notin Range(cache)
    PROVE  \E q \in DOMAIN Inserted(h) :
             Inserted(h)[q] = h /\ \A p \in DOMAIN Inserted(h) : p <= q
<1>1. cache \in Seq(Handle) /\ DOMAIN cache = 1..Len(cache) /\ Len(cache) \in Nat
  BY DEF IInv, TypeOK
<1>2. PICK w \in Seq(Handle) : Inserted(h) = Append(w, h)
  <2>1. CASE At(key[h]) = {}
    BY <1>1, <2>1 DEF Inserted
  <2>2. CASE At(key[h]) # {}
    <3>1. PICK m \in At(key[h]) : Inserted(h) = Append(Without(cache, m), h)
      BY <2>2 DEF Inserted
    <3>2. m \in 1..Len(cache)
      BY <1>1 DEF At
    <3>3. Without(cache, m) \in Seq(Handle)
      BY <1>1, <3>2, WithoutFacts
    <3> QED BY <3>1, <3>3
  <2> QED BY <2>1, <2>2
<1>3. Inserted(h)[Len(w) + 1] = h /\ Len(Inserted(h)) = Len(w) + 1 /\ Inserted(h) \in Seq(Handle)
  BY <1>2, AppendFacts
<1>4. DOMAIN Inserted(h) = 1..(Len(w) + 1) /\ Len(w) \in Nat
  BY <1>3
<1> QED BY <1>3, <1>4

\* An insertion keeps the order of the entries it keeps.
LEMMA InsertedOrder ==
    ASSUME IInv, NEW h \in Handle, h \notin Range(cache),
           NEW i \in DOMAIN cache, NEW j \in DOMAIN cache, i < j,
           cache[i] \notin Replaced(key[h]), cache[j] \notin Replaced(key[h])
    PROVE  \E p, q \in DOMAIN Inserted(h) :
             p < q /\ Inserted(h)[p] = cache[i] /\ Inserted(h)[q] = cache[j]
<1> DEFINE t == Inserted(h)
<1>1. cache \in Seq(Handle) /\ DOMAIN cache = 1..Len(cache) /\ Len(cache) \in Nat
  BY DEF IInv, TypeOK
<1>2. CASE At(key[h]) = {}
  <2>1. t = Append(cache, h)
    BY <1>2 DEF Inserted
  <2>2. /\ DOMAIN t = 1..(Len(cache) + 1) /\ t[Len(cache) + 1] = h
        /\ \A p \in 1..Len(cache) : t[p] = cache[p]
    BY <1>1, <2>1
  <2> QED BY <1>1, <2>2
<1>3. CASE At(key[h]) # {}
  <2>1. PICK m \in At(key[h]) : t = Append(Without(cache, m), h)
    BY <1>3 DEF Inserted
  <2> DEFINE w == Without(cache, m)
  <2>2. m \in 1..Len(cache) /\ i # m /\ j # m
    BY <1>1, <2>1 DEF At, Replaced
  <2>3. /\ w \in Seq(Handle) /\ Len(w) = Len(cache) - 1
        /\ \A k \in 1..(Len(cache) - 1) : w[k] = IF k < m THEN cache[k] ELSE cache[k + 1]
    BY <1>1, <2>2, WithoutFacts
  <2>4. t = Append(w, h)
    BY <2>1
  <2> HIDE DEF w, t
  <2>5. DOMAIN t = 1..Len(cache) /\ \A k \in 1..(Len(cache) - 1) : t[k] = w[k]
    <3>1. /\ t \in Seq(Handle) /\ Len(t) = Len(w) + 1
          /\ \A k \in 1..Len(w) : t[k] = w[k]
      BY <2>3, <2>4, AppendFacts
    <3>2. Len(w) = Len(cache) - 1 /\ Len(w) + 1 = Len(cache)
      BY <1>1, <2>3
    <3> QED BY <3>1, <3>2
  <2> DEFINE at(k) == IF k < m THEN k ELSE k - 1
  <2>6. \A k \in 1..Len(cache) \ {m} : at(k) \in 1..(Len(cache) - 1) /\ t[at(k)] = cache[k]
    <3> TAKE k \in 1..Len(cache) \ {m}
    <3>1. CASE k < m
      BY <1>1, <2>2, <2>3, <2>5, <3>1
    <3>2. CASE ~(k < m)
      <4>1. k - 1 \in 1..(Len(cache) - 1) /\ ~(k - 1 < m) /\ (k - 1) + 1 = k
        BY <1>1, <2>2, <3>2
      <4> QED BY <2>3, <2>5, <3>2, <4>1
    <3> QED BY <3>1, <3>2
  <2>7. at(i) < at(j)
    BY <1>1, <2>2
  <2>8. at(i) \in DOMAIN t /\ at(j) \in DOMAIN t /\ t[at(i)] = cache[i] /\ t[at(j)] = cache[j]
    BY <1>1, <2>2, <2>5, <2>6
  <2> HIDE DEF at
  <2> QED BY <2>7, <2>8 DEF t
<1> QED BY <1>2, <1>3

\* No step evicts an entry while it keeps an older one, a replacement under the
\* same key and a hit aside.
LEMMA EvictsStep ==
    ASSUME IInv, [Next]_vars, NEW i \in DOMAIN cache, NEW j \in DOMAIN cache, i < j,
           cache[i] \in Range(cache'), cache[j] \notin Range(cache')
    PROVE  cache[j] \in open' \/ \E h \in Range(cache') : key'[h] = key[cache[j]]
<1>1. cache \in Seq(Handle) /\ DOMAIN cache = 1..Len(cache) /\ cache[j] \in Range(cache)
  BY DEF IInv, TypeOK, Range
<1>2. cache' # cache /\ cache' # <<>>
  BY <1>1 DEF Range
<1>3. ASSUME NEW s \in Sql, GetHit(s) PROVE cache[j] \in open'
  BY <1>1, <1>3 DEF GetHit, IInv, OneOwner
<1>4. ASSUME NEW h \in Handle, CacheStmt(h) PROVE \E g \in Range(cache') : key'[g] = key[cache[j]]
  <2> DEFINE t == Inserted(h)
  <2>1. /\ held[h] = "cached" /\ h \in open /\ cache' = Shrunk(t, capacity) /\ key' = key
    BY <1>2, <1>4 DEF CacheStmt
  <2>2. h \notin Range(cache)
    BY <2>1 DEF IInv, OneOwner, HeldOpen
  <2>3. /\ t \in Seq(Handle) /\ Range(t) = (Range(cache) \ Replaced(key[h])) \cup {h}
        /\ \A p, q \in DOMAIN t : t[p] = t[q] => p = q
    BY <2>2, InsertedFacts
  <2>4. PICK l \in DOMAIN t : t[l] = h /\ \A p \in DOMAIN t : p <= l
    BY <2>2, InsertedLast
  <2>5. capacity \in Nat
    BY CapacityAssumption DEF IInv, TypeOK
  <2>6. Range(cache') \subseteq Range(t)
    BY <2>1, <2>3, <2>5, ShrunkFacts
  <2>7. cache[i] \notin Replaced(key[h])
    <3>1. cache[i] # h
      BY <2>2 DEF Range
    <3> QED BY <2>3, <2>6, <3>1
  <2>8. PICK p \in DOMAIN t : t[p] = cache[i]
    BY <2>6 DEF Range
  <2>9. h \in Range(cache')
    <3>1. t[p] \in Range(Shrunk(t, capacity)) /\ p <= l
      BY <2>1, <2>4, <2>8
    <3> HIDE DEF t
    <3> QED BY <2>1, <2>3, <2>4, <2>5, <3>1, ShrunkIsASuffix
  <2>10. CASE cache[j] \in Replaced(key[h])
    BY <2>1, <2>9, <2>10 DEF Replaced, At
  <2>11. CASE cache[j] \notin Replaced(key[h])
    <3>1. PICK x, y \in DOMAIN t : x < y /\ t[x] = cache[i] /\ t[y] = cache[j]
      BY <2>2, <2>7, <2>11, InsertedOrder
    <3>2. x <= y /\ t[x] \in Range(Shrunk(t, capacity))
      BY <2>1, <2>3, <3>1
    <3> HIDE DEF t
    <3>3. t[y] \in Range(Shrunk(t, capacity))
      BY <2>3, <2>5, <3>2, ShrunkIsASuffix
    <3> QED BY <2>1, <3>1, <3>3
  <2> QED BY <2>10, <2>11
<1>5. ASSUME NEW n \in 0..MaxCapacity, SetCapacity(n) PROVE FALSE
  <2>1. n \in Nat /\ cache' = Shrunk(cache, n) /\ i <= j
    BY <1>1, <1>5, CapacityAssumption DEF SetCapacity
  <2>2. \A p, q \in DOMAIN cache : cache[p] = cache[q] => p = q
    BY OneEntryPerHandle DEF IInv
  <2> QED BY <1>1, <2>1, <2>2, ShrunkIsASuffix
<1>6. ASSUME NEW h \in Handle, Use(h) PROVE CacheStmt(h)
  BY <1>2, <1>6 DEF Use, BindParameters, ClearBindings, Execute, Query, NextRow, NextEnd,
    DropRows, ForgetRows, Finalize, ForgetStatement
<1> QED BY <1>2, <1>3, <1>4, <1>5, <1>6 DEF Next, Step, vars, Prepare, GetMiss, Flush, Close

\* A statement leaves the cache through an eviction only after every older entry
\* did: an insertion and set_capacity remove from the least recent end.
THEOREM OldestFirst == Spec => EvictsOldest
<1>1. IInv /\ [Next]_vars =>
        [\A i, j \in DOMAIN cache :
           i < j /\ cache[i] \in Range(cache') /\ cache[j] \notin Range(cache')
             => \/ cache[j] \in open'
                \/ \E h \in Range(cache') : key'[h] = key[cache[j]]]_vars
  BY EvictsStep
<1> QED BY <1>1, Invariance, PTL DEF Spec, EvictsOldest

-----------------------------------------------------------------------------
(* The refinement: prepare_cached is observably prepare.                   *)

\* One entry of the refinement mapping.
Seen(h) ==
    IF held[h] = "none" \/ "rows" \in forgets THEN [state |-> "none"]
    ELSE [state |-> "held", sql |-> sql[h], null |-> h \notin open,
          bound |-> bound[h], run |-> run[h], row |-> row[h]]

\* The mapping is defined handle by handle.
LEMMA ObservedIsSeen ==
    /\ Observed = [h \in Handle |-> Seen(h)]
    /\ Observed' = [h \in Handle |-> Seen(h)']
BY DEF Observed, Seen

\* SQLite opens a statement only for a text that holds one.
OpenIsStmt == \A h \in open : Kind[sql[h]] = "stmt"

\* The text of an open statement is never replaced.
LEMMA OpenIsStmtStep == IInv /\ OpenIsStmt /\ [Next]_vars => OpenIsStmt'
<1> SUFFICES ASSUME IInv, OpenIsStmt, [Next]_vars PROVE OpenIsStmt'
  OBVIOUS
<1>1. ASSUME NEW h \in Handle, NEW s \in Sql, Prepare(h, s) \/ GetMiss(h, s) PROVE OpenIsStmt'
  BY <1>1 DEF Prepare, GetMiss, NewStatement, Unused, OpenIsStmt, IInv, TypeOK
<1>2. ASSUME open' \subseteq open, UNCHANGED sql PROVE OpenIsStmt'
  BY <1>2 DEF OpenIsStmt
<1>3. ASSUME NEW h \in Handle, Use(h) PROVE open' \subseteq open /\ UNCHANGED sql
  BY <1>3 DEF Use, BindParameters, ClearBindings, Execute, Query, NextRow, NextEnd, DropRows,
    ForgetRows, Finalize, ForgetStatement, CacheStmt, stmtVars
<1> QED BY <1>1, <1>2, <1>3 DEF Next, Step, GetHit, SetCapacity, Flush, Close, stmtVars, vars

\* A step that changes what is seen of one handle changes only that entry.
LEMMA OneSeen ==
    ASSUME NEW h \in Handle, \A g \in Handle \ {h} : Seen(g)' = Seen(g)
    PROVE  /\ Observed[h] = Seen(h)
           /\ Observed' = [Observed EXCEPT ![h] = Seen(h)']
BY ObservedIsSeen

\* A step that leaves every held statement alone is not observable.
LEMMA NoneSeen ==
    ASSUME \A g \in Handle : Seen(g)' = Seen(g)
    PROVE  UNCHANGED Observed
BY ObservedIsSeen

\* A handle that no object holds has no Row in view.
LEMMA IdleHasNoRow ==
    ASSUME IInv, NEW h \in Handle, rows[h] = "none" \/ held[h] = "none"
    PROVE  row[h] = FALSE
BY DEF IInv, RowsBorrow, TypeOK

\* prepare and prepare_cached, a miss: the caller obtains a new statement.
LEMMA MissObtains ==
    ASSUME IInv, "rows" \notin forgets, UNCHANGED forgets, NEW h \in Handle, NEW s \in Sql,
           Prepare(h, s) \/ GetMiss(h, s)
    PROVE  Fresh!Obtain(h, s)
<1>1. PICK k \in {s, NoSql}, o \in {"plain", "cached"} : NewStatement(h, s, k, o)
  BY DEF Prepare, GetMiss
<1>2. UNCHANGED row
  BY DEF Prepare, GetMiss, rowsVars
<1>3. \A g \in Handle \ {h} : Seen(g)' = Seen(g)
  BY <1>1, <1>2 DEF NewStatement, Seen, IInv, TypeOK
<1>4. Seen(h) = Fresh!None
  BY <1>1 DEF NewStatement, Unused, Seen, Fresh!None
<1>5. row[h] = FALSE
  BY <1>1, IdleHasNoRow DEF NewStatement, Unused
<1>6. (h \notin open') = (Kind[s] = "empty")
  BY <1>1, KindAssumption DEF NewStatement, Unused
<1>7. /\ held'[h] # "none" /\ sql'[h] = s /\ bound'[h] = FALSE
      /\ run'[h] = "ready" /\ row'[h] = FALSE /\ "rows" \notin forgets'
  BY <1>1, <1>2, <1>5 DEF NewStatement, IInv, TypeOK
<1>8. Seen(h)' = Fresh!New(s)
  BY <1>6, <1>7 DEF Seen, Fresh!New
<1>9. Kind[s] # "multi"
  BY <1>1 DEF NewStatement
<1> QED BY <1>3, <1>4, <1>8, <1>9, OneSeen DEF Fresh!Obtain

\* prepare_cached, a hit: what the cache kept is indistinguishable from new.
LEMMA HitObtains ==
    ASSUME IInv, CleanInv, OpenIsStmt, "rows" \notin forgets, UNCHANGED forgets,
           NEW s \in Sql, GetHit(s)
    PROVE  \E h \in Handle : Fresh!Obtain(h, s)
<1>1. PICK i \in At(s) : held' = [held EXCEPT ![cache[i]] = "cached"]
  BY DEF GetHit
<1>2. PICK h \in Handle : h = cache[i] /\ h \in Range(cache) /\ key[h] = s /\ sql[h] = s
  BY DEF At, IInv, TypeOK, Range, CacheIsAMap
<1>3. h \in open /\ held[h] = "none"
  BY <1>2 DEF IInv, OneOwner, HeldOpen
<1>4. run[h] = "ready" /\ bound[h] = FALSE
  BY <1>2 DEF CleanInv, CachedClean, Range, IInv, TypeOK
<1>5. row[h] = FALSE
  BY <1>2, <1>3, IdleHasNoRow
<1>6. UNCHANGED <<open, sql, bound, run, row>>
  BY DEF GetHit, rowsVars
<1>7. held' = [held EXCEPT ![h] = "cached"]
  BY <1>1, <1>2
<1>8. \A g \in Handle \ {h} : Seen(g)' = Seen(g)
  BY <1>6, <1>7 DEF Seen, IInv, TypeOK
<1>9. Kind[s] = "stmt"
  BY <1>2, <1>3 DEF OpenIsStmt
<1>10. held'[h] # "none"
  BY <1>2, <1>7 DEF IInv, TypeOK
<1>11. Seen(h) = Fresh!None
  BY <1>3 DEF Seen, Fresh!None
<1>12. (h \notin open') = (Kind[s] = "empty")
  BY <1>3, <1>6, <1>9
<1>13. Seen(h)' = Fresh!New(s)
  BY <1>2, <1>4, <1>5, <1>6, <1>10, <1>12 DEF Seen, Fresh!New
<1>14. Fresh!Obtain(h, s)
  BY <1>2, <1>8, <1>9, <1>11, <1>13, OneSeen DEF Fresh!Obtain
<1> QED BY <1>2, <1>14

\* Binding, stepping, resetting: the caller's own calls on one statement.
LEMMA UseCalls ==
    ASSUME IInv, IInv', "rows" \notin forgets, UNCHANGED forgets, NEW h \in Handle,
           \/ BindParameters(h) \/ ClearBindings(h) \/ Execute(h) \/ Query(h)
           \/ NextRow(h) \/ NextEnd(h) \/ DropRows(h)
    PROVE  Fresh!Call(h)
<1> USE DEF BindParameters, ClearBindings, Execute, Query, NextRow, NextEnd, DropRows,
            Usable, stmtVars, rowsVars
<1>1. UNCHANGED <<open, sql, held>> /\ held[h] # "none"
  BY DEF IInv, RowsBorrow
<1>2. \A g \in Handle \ {h} : bound'[g] = bound[g] /\ run'[g] = run[g] /\ row'[g] = row[g]
  BY DEF IInv, TypeOK
<1>3. \A g \in Handle \ {h} : Seen(g)' = Seen(g)
  BY <1>1, <1>2 DEF Seen
<1>4. /\ bound'[h] \in BOOLEAN /\ run'[h] \in {"ready", "row"} /\ row'[h] \in BOOLEAN
      /\ row'[h] => run'[h] = "row"
  BY DEF IInv, TypeOK, RowsBorrow
<1>5. Seen(h) = [state |-> "held", sql |-> sql[h], null |-> h \notin open,
                 bound |-> bound[h], run |-> run[h], row |-> row[h]]
  BY <1>1 DEF Seen
<1>6. Seen(h)' = [state |-> "held", sql |-> sql[h], null |-> h \notin open,
                  bound |-> bound'[h], run |-> run'[h], row |-> row'[h]]
  BY <1>1 DEF Seen
<1>7. Seen(h) # Fresh!None
  <2>1. Seen(h).state = "held" /\ Fresh!None.state = "none"
    BY <1>5 DEF Fresh!None
  <2> QED BY <2>1
<1>8. Observed[h] = Seen(h) /\ Observed' = [Observed EXCEPT ![h] = Seen(h)']
  BY <1>3, OneSeen
<1>9. Observed[h].sql = sql[h] /\ Observed[h].null = (h \notin open)
  BY <1>5, <1>8
<1>10. Observed' = [Observed EXCEPT ![h] =
          [state |-> "held", sql |-> Observed[h].sql, null |-> Observed[h].null,
           bound |-> bound'[h], run |-> run'[h], row |-> row'[h]]]
  BY <1>6, <1>8, <1>9
<1> QED BY <1>4, <1>7, <1>8, <1>10 DEF Fresh!Call

\* Dropping, finalizing, discarding, forgetting or caching a statement: the
\* caller no longer sees it, and nobody else's statement changes.
LEMMA LetGoReleases ==
    ASSUME IInv, "rows" \notin forgets, UNCHANGED forgets, NEW h \in Handle,
           Finalize(h) \/ ForgetStatement(h) \/ CacheStmt(h)
    PROVE  Fresh!Release(h)
<1>1. /\ held[h] # "none" /\ rows[h] = "none" /\ held' = [held EXCEPT ![h] = "none"]
      /\ UNCHANGED <<sql, run, row>>
  BY DEF Finalize, ForgetStatement, CacheStmt, Usable, stmtVars, rowsVars
<1>2. row[h] = FALSE
  BY <1>1, IdleHasNoRow
<1>3. ASSUME NEW g \in Handle \ {h}, held[g] # "none"
      PROVE  bound'[g] = bound[g] /\ (g \in open' <=> g \in open)
  <2>1. CASE Finalize(h) \/ ForgetStatement(h)
    BY <2>1 DEF Finalize, ForgetStatement, stmtVars
  <2>2. CASE CacheStmt(h)
    <3>1. CASE h \notin open
      BY <2>2, <3>1 DEF CacheStmt
    <3>2. CASE h \in open
      <4>1. h \notin Range(cache)
        BY <1>1, <3>2 DEF IInv, OneOwner, HeldOpen
      <4>2. Range(Inserted(h)) = (Range(cache) \ Replaced(key[h])) \cup {h}
        BY <4>1, InsertedFacts
      <4>3. Replaced(key[h]) \subseteq Range(cache)
        BY DEF Replaced, At, Range
      <4>4. g \in open => g \notin Range(cache)
        BY <1>3 DEF IInv, OneOwner, HeldOpen
      <4>5. /\ bound' = [bound EXCEPT ![h] = FALSE]
            /\ open' = (open \ Replaced(key[h])) \ (Range(Inserted(h)) \ Range(cache'))
        BY <2>2, <3>2 DEF CacheStmt
      <4> QED BY <1>3, <4>2, <4>3, <4>4, <4>5 DEF IInv, TypeOK
    <3> QED BY <3>1, <3>2
  <2> QED BY <2>1, <2>2
<1>4. \A g \in Handle \ {h} : held'[g] = held[g]
  BY <1>1 DEF IInv, TypeOK
<1>5. \A g \in Handle \ {h} : Seen(g)' = Seen(g)
  BY <1>1, <1>3, <1>4 DEF Seen
<1>6. Seen(h)' = Fresh!None
  BY <1>1 DEF Seen, Fresh!None, IInv, TypeOK
<1>7. Seen(h).state = "held" /\ Seen(h).row = FALSE
  BY <1>1, <1>2 DEF Seen
<1>8. Seen(h) # Fresh!None
  BY <1>7 DEF Fresh!None
<1> QED BY <1>5, <1>6, <1>7, <1>8, OneSeen DEF Fresh!Release

\* set_capacity, flush and close finalize only what no caller holds.
LEMMA EvictionUnseen ==
    ASSUME IInv, UNCHANGED forgets, open' = open \ (Range(cache) \ Range(cache')),
           UNCHANGED <<sql, bound, run, held, row>>
    PROVE  UNCHANGED Observed
<1>1. \A g \in Handle : held[g] # "none" => (g \in open' <=> g \in open)
  BY DEF IInv, OneOwner, HeldOpen
<1>2. \A g \in Handle : Seen(g)' = Seen(g)
  BY <1>1 DEF Seen
<1> QED BY <1>2, NoneSeen

\* Every step of the connection is a step of FreshStatements or a stutter.
LEMMA FreshStep ==
    ASSUME IInv, IInv', "rows" \notin forgets => CleanInv, OpenIsStmt, [Next]_vars
    PROVE  [Fresh!Next]_Observed
<1>0. UNCHANGED forgets
  BY DEF Next, vars
<1>1. CASE "rows" \in forgets
  <2>1. \A g \in Handle : Seen(g)' = Seen(g)
    BY <1>0, <1>1 DEF Seen
  <2> QED BY <2>1, NoneSeen
<1>2. CASE "rows" \notin forgets
  <2> USE <1>0, <1>2
  <2>1. ASSUME NEW h \in Handle, NEW s \in Sql, Prepare(h, s) \/ GetMiss(h, s) PROVE Fresh!Next
    BY <2>1, MissObtains DEF Fresh!Next
  <2>2. ASSUME NEW s \in Sql, GetHit(s) PROVE Fresh!Next
    BY <2>2, HitObtains DEF Fresh!Next
  <2>3. ASSUME NEW h \in Handle, Use(h) PROVE Fresh!Next
    <3>1. ~ForgetRows(h)
      BY DEF ForgetRows
    <3> QED BY <2>3, <3>1, UseCalls, LetGoReleases DEF Use, Fresh!Next
  <2>4. ASSUME NEW n \in 0..MaxCapacity, SetCapacity(n) PROVE UNCHANGED Observed
    BY <2>4, EvictionUnseen DEF SetCapacity, stmtVars, rowsVars
  <2>5. ASSUME Flush \/ \E onBusy \in {"open", "lost"} : Close(onBusy) PROVE UNCHANGED Observed
    <3>1. /\ cache' = <<>> /\ open' = open \ Range(cache)
          /\ UNCHANGED <<sql, bound, run, held, row>>
      BY <2>5 DEF Flush, Close, stmtVars, rowsVars
    <3>2. Range(cache') = {}
      BY <3>1 DEF Range
    <3> QED BY <3>1, <3>2, EvictionUnseen
  <2>6. CASE UNCHANGED vars
    BY <2>6 DEF vars, Observed
  <2> QED BY <2>1, <2>2, <2>3, <2>4, <2>5, <2>6 DEF Next, Step
<1> QED BY <1>1, <1>2

\* With the cache hidden, every behaviour is one in which each statement is
\* prepared anew: reuse through the LRU list is not observable to a caller that
\* forgets no Rows.
THEOREM CacheIsTransparent == Spec => ImplementsFresh
<1> DEFINE RInv == ("rows" \notin forgets => CleanInv) /\ OpenIsStmt
<1>1. Init => RInv
  BY DEF Init, CleanInv, CachedClean, IdleIsReset, OpenIsStmt
<1>2. IInv /\ RInv /\ [Next]_vars => RInv'
  <2>1. [Next]_vars => forgets' = forgets
    BY DEF Next, vars
  <2> QED BY <2>1, CleanStep, OpenIsStmtStep
<1>3. Init => Fresh!Init
  BY DEF Init, Fresh!Init, Observed, Fresh!None
<1>4. IInv /\ IInv' /\ RInv /\ [Next]_vars => [Fresh!Next]_Observed
  BY FreshStep
<1> HIDE DEF RInv
<1> QED BY <1>1, <1>2, <1>3, <1>4, Invariance, PTL DEF Spec, ImplementsFresh, Fresh!Spec

=============================================================================
