------------------------ MODULE VirtualTable_proofs -------------------------
(***************************************************************************)
(* Proofs about Callbacks and about VirtualTable, which extends it, for    *)
(* any sets of boxes, hooks, functions, collations, images, modules,       *)
(* tables and cursors.  The first part is about Callbacks alone.           *)
(*                                                                         *)
(* EachBoxOnce needs that no two entries own the same box (OneEntry) and   *)
(* an account of every box (Account): not made yet, owned and not freed,   *)
(* freed once and owned by nobody, or leaked.  PointersLive needs besides  *)
(* that a hook's pointer is the client data of its name (HookOwned), which *)
(* holds as long as sqlite3_set_clientdata does not run out of memory.     *)
(*                                                                         *)
(* The account is kept by the steps of virtual tables too: each of them    *)
(* empties some objects, frees what they held and puts at most one new box *)
(* into one of them.  CursorsLive follows from the account and from        *)
(* CursorHeld, which says that an open cursor has a table that a statement *)
(* keeps; TableKept, that a referenced VTable is not reused, is what makes *)
(* that inductive.                                                         *)
(***************************************************************************)
EXTENDS VirtualTable, FiniteSetTheorems, TLAPS

\* Some entry has the duty to free box d.
Owned(d) == (\E n \in Client : client[n] = d) \/ (\E r \in Registration : reg[r] = d)

OneEntry ==
    /\ \A n, m \in Client : client[n] \in Data /\ client[n] = client[m] => n = m
    /\ \A r, q \in Registration : reg[r] \in Data /\ reg[r] = reg[q] => r = q
    /\ \A n \in Client, r \in Registration : client[n] \in Data => client[n] # reg[r]

Account ==
    \A d \in Data :
        \/ d \notin made /\ ~Owned(d) /\ freed[d] = 0 /\ d \notin leaked
        \/ d \in made /\ Owned(d) /\ freed[d] = 0 /\ d \notin leaked
        \/ d \in made /\ ~Owned(d) /\ freed[d] = 1 /\ d \notin leaked
        \/ d \in made /\ ~Owned(d) /\ freed[d] = 0 /\ d \in leaked

IInv == TypeOK /\ OneEntry /\ Account

\* Freeing a set of boxes keeps the type of the counters.
LEMMA FreesType ==
    ASSUME TypeOK, NEW S, Frees(S)
    PROVE  /\ freed' \in [Data -> Nat]
           /\ \A d \in Data : freed'[d] = IF d \in S THEN freed[d] + 1 ELSE freed[d]
BY DEF Frees, TypeOK

\* What the account says of a box that is about to be made.
LEMMA BoxedType ==
    ASSUME IInv, NEW d, Boxed(d)
    PROVE  /\ d \in Pointer /\ d \notin made /\ made' \subseteq Data
           /\ d \in Data => made' = made \cup {d}
           /\ d = Null => made' = made
           /\ d \in Data => freed[d] = 0 /\ d \notin leaked /\ ~Owned(d)
<1>1. d \in Pointer /\ d \notin made
  BY DEF Boxed
<1>2. /\ d \in Data => made' = made \cup {d}
      /\ d = Null => made' = made
  BY NullAssumption DEF Boxed
<1>3. made' \subseteq Data
  BY <1>1, <1>2 DEF IInv, TypeOK, Pointer
<1>4. d \in Data => freed[d] = 0 /\ d \notin leaked /\ ~Owned(d)
  BY <1>1 DEF IInv, Account
<1> QED BY <1>1, <1>2, <1>3, <1>4

\* A step that frees the new box and keeps no pointer to it.
LEMMA DroppedStep ==
    ASSUME IInv, NEW d, Boxed(d), Frees({d}), UNCHANGED <<client, reg, leaked>>
    PROVE  OneEntry' /\ Account' /\ made' \subseteq Data
<1>1. OneEntry'
  BY DEF IInv, OneEntry
<1>2. \A e \in Data : Owned(e)' = Owned(e)
  BY DEF Owned
<1>3. Account'
  BY <1>2, BoxedType, FreesType, NullAssumption DEF IInv, Account, Pointer
<1> QED BY <1>1, <1>3, BoxedType

\* A step that stores the new box under a name and frees what was there.
LEMMA StoredStep ==
    ASSUME IInv, NEW n \in Client, NEW d, Boxed(d), Stored(n, d), UNCHANGED <<reg, leaked>>
    PROVE  OneEntry' /\ Account' /\ made' \subseteq Data /\ client' \in [Client -> Pointer]
<1> USE DEF IInv, TypeOK
<1>1. client' \in [Client -> Pointer]
  BY BoxedType DEF Stored
<1>2. \A m \in Client : client'[m] = IF m = n THEN d ELSE client[m]
  BY DEF Stored
<1>3. \A m \in Client : d \in Data => client[m] # d
  BY BoxedType DEF Owned
<1>4. \A r \in Registration : d \in Data => reg[r] # d
  BY BoxedType DEF Owned
<1>5. OneEntry'
  BY <1>2, <1>3, <1>4 DEF OneEntry
<1>6. \A e \in Data : Owned(e)' <=> (e = d \/ (Owned(e) /\ e # client[n]))
  BY <1>2, <1>3, <1>4 DEF Owned, OneEntry
<1>7. Frees({client[n]})
  BY DEF Stored
<1>8. client[n] \in Data => Owned(client[n])
  BY DEF Owned
<1>9. Account'
  BY <1>6, <1>7, <1>8, BoxedType, FreesType, NullAssumption DEF Account, Pointer
<1> QED BY <1>1, <1>5, <1>9, BoxedType

\* The same for a function, a collation or an image.
LEMMA RegisteredStep ==
    ASSUME IInv, NEW r \in Registration, NEW d, Boxed(d), Registered(r, d), UNCHANGED client
    PROVE  OneEntry' /\ Account' /\ made' \subseteq Data /\ reg' \in [Registration -> Pointer]
<1> USE DEF IInv, TypeOK
<1>1. reg' \in [Registration -> Pointer]
  BY BoxedType DEF Registered
<1>2. \A q \in Registration : reg'[q] = IF q = r THEN d ELSE reg[q]
  BY DEF Registered
<1>3. \A m \in Client : d \in Data => client[m] # d
  BY BoxedType DEF Owned
<1>4. \A q \in Registration : d \in Data => reg[q] # d
  BY BoxedType DEF Owned
<1>5. OneEntry'
  <2>1. \A q, s \in Registration : reg'[q] \in Data /\ reg'[q] = reg'[s] => q = s
    BY <1>2, <1>4 DEF OneEntry
  <2>2. \A m \in Client, q \in Registration : client'[m] \in Data => client'[m] # reg'[q]
    BY <1>2, <1>3 DEF OneEntry
  <2> QED BY <2>1, <2>2 DEF OneEntry
<1>6. \A e \in Data : Owned(e)' <=> (e = d \/ (Owned(e) /\ e # reg[r]))
  BY <1>2, <1>3, <1>4 DEF Owned, OneEntry
<1>7. Frees({reg[r]}) /\ UNCHANGED leaked
  BY DEF Registered
<1>8. reg[r] \in Data => Owned(reg[r])
  BY DEF Owned
<1>9. Account'
  BY <1>6, <1>7, <1>8, BoxedType, FreesType, NullAssumption DEF Account, Pointer
<1> QED BY <1>1, <1>5, <1>9, BoxedType

\* A step that loses the new box.
LEMMA LeakedStep ==
    ASSUME IInv, NEW d \in Data, Boxed(d), leaked' = leaked \cup {d},
           UNCHANGED <<client, reg, freed>>
    PROVE  OneEntry' /\ Account' /\ made' \subseteq Data /\ leaked' \subseteq Data
<1>1. OneEntry'
  BY DEF IInv, OneEntry
<1>2. \A e \in Data : Owned(e)' = Owned(e)
  BY DEF Owned
<1>3. Account'
  BY <1>2, BoxedType DEF IInv, Account
<1>4. leaked' \subseteq Data
  BY DEF IInv, TypeOK
<1> QED BY <1>1, <1>3, <1>4, BoxedType

-----------------------------------------------------------------------------
\* A new connection owns no box.
LEMMA InitIInv == Init => IInv
<1> SUFFICES ASSUME Init PROVE IInv
  OBVIOUS
<1>1. TypeOK
  <2>1. tx \in BOOLEAN /\ active \in BOOLEAN
    BY DEF Init
  <2> QED BY <2>1 DEF Init, TypeOK, Pointer
<1>2. \A d \in Data : ~Owned(d)
  BY NullAssumption DEF Init, Owned
<1>3. OneEntry
  BY NullAssumption DEF Init, OneEntry
<1>4. Account
  BY <1>2 DEF Init, Account
<1> QED BY <1>1, <1>3, <1>4 DEF IInv

\* The setters.
SomeSetter(d) ==
    \/ commit_hook(d) \/ rollback_hook(d) \/ update_hook(d) \/ preupdate_hook(d)
    \/ wal_hook(d) \/ progress_handler(d) \/ trace_v2(d)
    \/ busy_handler(d) \/ authorizer(d)

\* Every hook setter of the crate is an instance of SetHook, or its preset fails.
LEMMA Setters ==
    ASSUME NEW d, SomeSetter(d)
    PROVE  PresetFails(d) \/ \E k \in Hook, p \in {d, Null} : SetHook(k, d, p)
BY DEF SomeSetter, commit_hook, rollback_hook, update_hook, preupdate_hook, wal_hook,
       progress_handler, trace_v2, busy_handler, authorizer, Hook

\* A hook that SQLite refuses keeps the invariant: its box is freed at once.
LEMMA PresetFailsStep ==
    ASSUME IInv, NEW d \in Pointer, PresetFails(d)
    PROVE  IInv'
<1> USE DEF PresetFails
<1>1. OneEntry' /\ Account' /\ made' \subseteq Data
  BY DroppedStep
<1>2. freed' \in [Data -> Nat]
  BY FreesType DEF IInv
<1> QED BY <1>1, <1>2 DEF IInv, TypeOK

\* Setting, replacing or removing a hook keeps the invariant.
LEMMA SetHookStep ==
    ASSUME IInv, NEW k \in Hook, NEW d \in Pointer, NEW p \in {d, Null}, SetHook(k, d, p)
    PROVE  IInv'
<1> USE DEF SetHook
<1>1. Boxed(d) /\ UNCHANGED <<conn, tx, active, reg, leaked>> /\ k \in Client
  BY DEF Client
<1>2. hook' \in [Hook -> Pointer \cup {Default}]
  BY DEF IInv, TypeOK, Pointer
<1>3. CASE Stored(k, d)
  <2>1. OneEntry' /\ Account' /\ made' \subseteq Data /\ client' \in [Client -> Pointer]
    BY <1>1, <1>3, StoredStep
  <2>2. freed' \in [Data -> Nat]
    BY <1>3, FreesType DEF Stored, IInv
  <2> QED BY <1>1, <1>2, <2>1, <2>2 DEF IInv, TypeOK
<1>4. CASE NotStored(k, d)
  <2>1. OneEntry' /\ Account' /\ made' \subseteq Data
    BY <1>1, <1>4, DroppedStep DEF NotStored
  <2>2. freed' \in [Data -> Nat]
    BY <1>4, FreesType DEF NotStored, IInv
  <2> QED BY <1>1, <1>2, <1>4, <2>1, <2>2 DEF IInv, TypeOK, NotStored
<1> QED BY <1>3, <1>4

\* set_clientdata keeps the invariant, also when the name or the memory is refused.
LEMMA SetClientDataStep ==
    ASSUME IInv, NEW n \in ClientName, NEW d \in Pointer, SetClientData(n, d)
    PROVE  IInv'
<1> USE DEF SetClientData
<1>1. Boxed(d) /\ UNCHANGED <<conn, tx, active, hook, reg, leaked>> /\ n \in Client
  BY DEF Client
<1>2. CASE Stored(n, d)
  <2>1. OneEntry' /\ Account' /\ made' \subseteq Data /\ client' \in [Client -> Pointer]
    BY <1>1, <1>2, StoredStep
  <2>2. freed' \in [Data -> Nat]
    BY <1>2, FreesType DEF Stored, IInv
  <2> QED BY <1>1, <2>1, <2>2 DEF IInv, TypeOK
<1>3. CASE NotStored(n, d)
  <2>1. OneEntry' /\ Account' /\ made' \subseteq Data
    BY <1>1, <1>3, DroppedStep DEF NotStored
  <2>2. freed' \in [Data -> Nat]
    BY <1>3, FreesType DEF NotStored, IInv
  <2> QED BY <1>1, <1>3, <2>1, <2>2 DEF IInv, TypeOK, NotStored
<1> QED BY <1>2, <1>3

\* busy_timeout destroys the closure of the busy handler and keeps the invariant.
LEMMA BusyTimeoutStep ==
    ASSUME IInv, BusyTimeout
    PROVE  IInv'
<1> USE DEF BusyTimeout
<1>1. Boxed(Null) /\ "busy" \in Client
  BY NullAssumption DEF Boxed, Pointer, IInv, TypeOK, Client, Hook
<1>2. OneEntry' /\ Account' /\ made' \subseteq Data /\ client' \in [Client -> Pointer]
  BY <1>1, StoredStep
<1>3. freed' \in [Data -> Nat]
  BY FreesType DEF Stored, IInv
<1>4. hook' \in [Hook -> Pointer \cup {Default}]
  BY DEF IInv, TypeOK, Pointer
<1> QED BY <1>2, <1>3, <1>4 DEF IInv, TypeOK

\* A pragma that replaces a callback moves no box.
LEMMA PragmaStep ==
    ASSUME IInv, NEW k \in Hook, Pragma(k)
    PROVE  IInv'
<1>1. hook' \in [Hook -> Pointer \cup {Default}]
  BY DEF Pragma, IInv, TypeOK, Pointer
<1>2. \A d \in Data : Owned(d)' = Owned(d)
  BY DEF Pragma, Owned
<1>3. OneEntry' /\ Account'
  BY <1>2 DEF Pragma, IInv, OneEntry, Account
<1> QED BY <1>1, <1>3 DEF Pragma, IInv, TypeOK

\* Registering a function, a collation or an image keeps the invariant, refusals
\* included.
LEMMA CreateStep ==
    ASSUME IInv, NEW r \in Registration, NEW d \in Data,
           CreateFunction(r, d) \/ CreateCollation(r, d) \/ deserialize(r, d)
    PROVE  IInv'
<1> USE DEF CreateFunction, CreateCollation, deserialize
<1>1. Boxed(d) /\ UNCHANGED <<conn, tx, active, hook, client>>
  OBVIOUS
<1>2. CASE BadName(d)
  <2>1. OneEntry' /\ Account' /\ made' \subseteq Data /\ leaked' \subseteq Data
    BY <1>1, <1>2, LeakedStep DEF BadName
  <2> QED BY <1>1, <1>2, <2>1 DEF IInv, TypeOK, BadName
<1>3. CASE Registered(r, d)
  <2>1. OneEntry' /\ Account' /\ made' \subseteq Data /\ reg' \in [Registration -> Pointer]
    BY <1>1, <1>3, RegisteredStep
  <2>2. freed' \in [Data -> Nat]
    BY <1>3, FreesType DEF Registered, IInv
  <2> QED BY <1>1, <1>3, <2>1, <2>2 DEF IInv, TypeOK, Registered
<1>4. CASE Frees({d}) /\ UNCHANGED <<reg, leaked>>
  <2>1. OneEntry' /\ Account' /\ made' \subseteq Data
    BY <1>1, <1>4, DroppedStep
  <2>2. freed' \in [Data -> Nat]
    BY <1>4, FreesType DEF IInv
  <2> QED BY <1>1, <1>4, <2>1, <2>2 DEF IInv, TypeOK
<1> QED BY <1>2, <1>3, <1>4

\* A reader that fails loses one buffer.
LEMMA ReadFailsStep ==
    ASSUME IInv, NEW d \in Data, ReadFails(d)
    PROVE  IInv'
<1> USE DEF ReadFails
<1>1. OneEntry' /\ Account' /\ made' \subseteq Data /\ leaked' \subseteq Data
  BY LeakedStep
<1> QED BY <1>1 DEF IInv, TypeOK

\* remove_function, remove_collation and a static image keep the invariant.
LEMMA RemoveStep ==
    ASSUME IInv, NEW r \in Registration, Remove(r) \/ deserialize_bytes(r)
    PROVE  IInv'
<1> USE DEF Remove, deserialize_bytes
<1>1. Boxed(Null)
  BY NullAssumption DEF Boxed, Pointer, IInv, TypeOK
<1>2. OneEntry' /\ Account' /\ made' \subseteq Data /\ reg' \in [Registration -> Pointer]
  BY <1>1, RegisteredStep
<1>3. freed' \in [Data -> Nat]
  BY FreesType DEF Registered, IInv
<1> QED BY <1>2, <1>3 DEF IInv, TypeOK, Registered

\* Statements and transactions move no box.
LEMMA RunStatementStep ==
    ASSUME IInv, RunStatement
    PROVE  IInv'
<1>1. active' \in BOOLEAN /\ tx' \in BOOLEAN
  BY Zenon DEF RunStatement
<1>2. \A d \in Data : Owned(d)' = Owned(d)
  BY DEF RunStatement, Owned
<1>3. OneEntry' /\ Account'
  BY <1>2 DEF RunStatement, IInv, OneEntry, Account
<1> QED BY <1>1, <1>3 DEF RunStatement, IInv, TypeOK

\* sqlite3_close frees every box an entry owns, and the entries are gone.
LEMMA CloseStep ==
    ASSUME IInv, CloseClientData \/ CloseRest
    PROVE  IInv'
<1>1. CASE CloseClientData
  <2> USE <1>1 DEF CloseClientData
  <2>1. Frees({client[n] : n \in Client})
    OBVIOUS
  <2>2. \A d \in Data : Owned(d)' <=> \E r \in Registration : reg[r] = d
    BY NullAssumption DEF Owned
  <2>3. OneEntry'
    BY NullAssumption DEF IInv, OneEntry
  <2>4. \A d \in Data : (\E r \in Registration : reg[r] = d) => d \notin {client[n] : n \in Client}
    BY DEF IInv, OneEntry
  <2>5. \A d \in Data : Owned(d) <=> d \in {client[n] : n \in Client} \/ \E r \in Registration : reg[r] = d
    BY DEF Owned
  <2>6. \A d \in Data : freed'[d] = IF d \in {client[n] : n \in Client} THEN freed[d] + 1 ELSE freed[d]
    BY <2>1, FreesType DEF IInv
  <2>7. Account'
    BY <2>2, <2>4, <2>5, <2>6 DEF IInv, TypeOK, Account
  <2>8. freed' \in [Data -> Nat]
    BY <2>1, FreesType DEF IInv
  <2> QED BY <2>3, <2>7, <2>8 DEF IInv, TypeOK, Pointer
<1>2. CASE CloseRest
  <2> USE <1>2 DEF CloseRest
  <2>1. Frees({reg[r] : r \in Registration})
    OBVIOUS
  <2>2. \A d \in Data : Owned(d)' <=> \E n \in Client : client[n] = d
    BY NullAssumption DEF Owned
  <2>3. OneEntry'
    BY NullAssumption DEF IInv, OneEntry
  <2>4. \A d \in Data : (\E n \in Client : client[n] = d) => d \notin {reg[r] : r \in Registration}
    BY DEF IInv, OneEntry
  <2>5. \A d \in Data : Owned(d) <=> d \in {reg[r] : r \in Registration} \/ \E n \in Client : client[n] = d
    BY DEF Owned
  <2>6. \A d \in Data : freed'[d] = IF d \in {reg[r] : r \in Registration} THEN freed[d] + 1 ELSE freed[d]
    BY <2>1, FreesType DEF IInv
  <2>7. Account'
    BY <2>2, <2>4, <2>5, <2>6 DEF IInv, TypeOK, Account
  <2>8. freed' \in [Data -> Nat]
    BY <2>1, FreesType DEF IInv
  <2> QED BY <2>3, <2>7, <2>8 DEF IInv, TypeOK, Pointer
<1> QED BY <1>1, <1>2

\* Every step keeps the invariant.
LEMMA NextIInv == IInv /\ [Next]_vars => IInv'
<1> SUFFICES ASSUME IInv, [Next]_vars PROVE IInv'
  OBVIOUS
<1>1. CASE UNCHANGED vars
  <2>1. \A d \in Data : Owned(d)' = Owned(d)
    BY <1>1 DEF vars, Owned
  <2> QED BY <1>1, <2>1 DEF vars, IInv, TypeOK, OneEntry, Account
<1>2. CASE \E d \in Pointer : SomeSetter(d)
  BY <1>2, Setters, PresetFailsStep, SetHookStep
<1>10. CASE \E k \in {"busy", "wal"} : Pragma(k)
  BY <1>10, PragmaStep DEF Hook
<1>3. CASE \E n \in ClientName, d \in Pointer : SetClientData(n, d)
  BY <1>3, SetClientDataStep
<1>4. CASE BusyTimeout
  BY <1>4, BusyTimeoutStep
<1>5. CASE \E f \in Function, d \in Data : CreateFunction(f, d)
  BY <1>5, CreateStep DEF Registration
<1>6. CASE \E c \in Collation, d \in Data : CreateCollation(c, d)
  BY <1>6, CreateStep DEF Registration
<1>7. CASE \E r \in Function \cup Collation : Remove(r)
  BY <1>7, RemoveStep DEF Registration
<1>11. CASE \E s \in Schema, d \in Data : deserialize(s, d) \/ deserialize_read_exact(s, d)
  BY <1>11, CreateStep, ReadFailsStep DEF Registration, deserialize_read_exact
<1>12. CASE \E s \in Schema : deserialize_bytes(s)
  BY <1>12, RemoveStep DEF Registration
<1>8. CASE RunStatement
  BY <1>8, RunStatementStep
<1>9. CASE CloseClientData \/ CloseRest
  BY <1>9, CloseStep
<1> QED BY <1>1, <1>2, <1>3, <1>4, <1>5, <1>6, <1>7, <1>8, <1>9, <1>10, <1>11, <1>12
    DEF Next, SomeSetter

\* The account of the boxes is kept by every step.
THEOREM Invariance == Spec => []IInv
BY InitIInv, NextIInv, PTL DEF Spec

\* Every variable keeps its type.
THEOREM TypeCorrect == Spec => []TypeOK
<1>1. IInv => TypeOK
  BY DEF IInv
<1> QED BY <1>1, Invariance, PTL

\* The account of the boxes adds up to one for each.
LEMMA AccountBalances == IInv => EachBoxOnce
<1> SUFFICES ASSUME IInv, NEW d \in made
             PROVE  freed[d] + Cardinality(Owners(d)) + (IF d \in leaked THEN 1 ELSE 0) = 1
  BY DEF EachBoxOnce
<1>1. d \in Data /\ freed[d] \in Nat
  BY DEF IInv, TypeOK
<1>2. CASE Owned(d)
  <2>1. PICK x : Owners(d) = {x}
    BY <1>1, <1>2 DEF Owned, Owners, IInv, OneEntry
  <2>2. Cardinality(Owners(d)) = 1
    BY <2>1, FS_Singleton
  <2> QED BY <1>1, <1>2, <2>2 DEF IInv, Account
<1>3. CASE ~Owned(d)
  <2>1. Owners(d) = {}
    BY <1>3 DEF Owned, Owners
  <2>2. Cardinality(Owners(d)) = 0
    BY <2>1, FS_EmptySet
  <2> QED BY <1>1, <1>3, <2>2 DEF IInv, Account
<1> QED BY <1>2, <1>3

\* No box that was handed to SQLite is freed twice, and none is lost unless a name
\* was refused or a reader failed, in any order of setters, refusals and close.
THEOREM BoxesFreedOnce == Spec => []EachBoxOnce
BY AccountBalances, Invariance, PTL

-----------------------------------------------------------------------------
\* A hook's pointer is the client data of its name.
HookOwned == conn = "open" => \A k \in Hook : hook[k] \in Data => client[k] = hook[k]

\* Installing a callback and storing its closure.
LEMMA HookOwnedSet ==
    ASSUME "nomem" \notin Failures, IInv, HookOwned,
           NEW k \in Hook, NEW d \in Pointer, NEW p \in {d, Null}, SetHook(k, d, p)
    PROVE  HookOwned'
<1>1. Stored(k, d) /\ hook' = [hook EXCEPT ![k] = p] /\ conn' = conn
  BY DEF SetHook, NotStored
<1>2. \A j \in Hook : client'[j] = IF j = k THEN d ELSE client[j]
  BY <1>1 DEF Stored, IInv, TypeOK, Client
<1> QED BY <1>1, <1>2, NullAssumption DEF HookOwned, IInv, TypeOK

\* Without failing allocations every step keeps a callback and its closure together.
LEMMA HookOwnedNext ==
    ASSUME "nomem" \notin Failures, IInv, HookOwned, [Next]_vars
    PROVE  HookOwned'
<1>1. CASE UNCHANGED vars
  BY <1>1 DEF vars, HookOwned
<1>2. ASSUME NEW k \in {"busy", "wal"}, Pragma(k) PROVE HookOwned'
  BY <1>2, NullAssumption DEF Pragma, HookOwned, IInv, TypeOK
<1>3. ASSUME NEW d \in Pointer, SomeSetter(d) PROVE HookOwned'
  <2>1. CASE PresetFails(d)
    BY <2>1 DEF PresetFails, HookOwned
  <2>2. CASE \E k \in Hook, p \in {d, Null} : SetHook(k, d, p)
    BY <2>2, HookOwnedSet
  <2> QED BY <1>3, <2>1, <2>2, Setters
<1>4. ASSUME NEW n \in ClientName, NEW d \in Pointer, SetClientData(n, d) PROVE HookOwned'
  <2>1. \A j \in Hook : client'[j] = client[j]
    BY <1>4, NamesAssumption DEF SetClientData, Stored, NotStored, IInv, TypeOK, Client
  <2> QED BY <1>4, <2>1 DEF SetClientData, HookOwned
<1>5. CASE BusyTimeout
  <2>1. \A j \in Hook : j # "busy" => client'[j] = client[j]
    BY <1>5 DEF BusyTimeout, Stored, IInv, TypeOK, Client
  <2> QED BY <1>5, <2>1, NullAssumption DEF BusyTimeout, HookOwned, IInv, TypeOK
<1>6. CASE \/ \E f \in Function, d \in Data : CreateFunction(f, d)
           \/ \E c \in Collation, d \in Data : CreateCollation(c, d)
           \/ \E r \in Function \cup Collation : Remove(r)
           \/ \E s \in Schema, d \in Data : deserialize(s, d) \/ deserialize_read_exact(s, d)
           \/ \E s \in Schema : deserialize_bytes(s)
           \/ RunStatement
  BY <1>6 DEF CreateFunction, CreateCollation, Remove, RunStatement, HookOwned, deserialize,
              deserialize_read_exact, ReadFails, deserialize_bytes
<1>7. CASE CloseClientData \/ CloseRest
  BY <1>7 DEF CloseClientData, CloseRest, HookOwned
<1> QED BY <1>1, <1>2, <1>3, <1>4, <1>5, <1>6, <1>7 DEF Next, SomeSetter

\* What the account and HookOwned say of every pointer SQLite holds.
LEMMA OwnedIsLive == IInv /\ HookOwned => PointersLive
<1> SUFFICES ASSUME IInv, HookOwned, conn = "open" PROVE PointersLive
  BY DEF PointersLive
<1>1. \A n \in Client : client[n] \in Data => client[n] \in Live
  BY DEF IInv, Account, Owned, Live
<1>2. \A r \in Registration : reg[r] \in Data => reg[r] \in Live
  BY DEF IInv, Account, Owned, Live
<1>3. \A k \in Hook : hook[k] \in Data => hook[k] \in Live /\ client[k] = hook[k]
  BY <1>1 DEF HookOwned, Client
<1> QED BY <1>1, <1>2, <1>3 DEF PointersLive

\* While the connection is open SQLite holds no pointer to a freed closure, in
\* any order of setters, pragmas and refusals, if memory does not run out.
THEOREM NoDanglingPointer ==
    ASSUME "nomem" \notin Failures
    PROVE  Spec => []PointersLive
<1>1. Init => HookOwned
  BY NullAssumption DEF Init, HookOwned
<1>2. IInv /\ HookOwned /\ [Next]_vars => HookOwned'
  BY HookOwnedNext
<1> QED BY <1>1, <1>2, OwnedIsLive, Invariance, PTL DEF Spec

-----------------------------------------------------------------------------
(* Virtual tables.                                                         *)

\* An open cursor and its table hold their boxes, and a statement keeps the table.
CursorHeld ==
    \A c \in Cursor : of[c] # Null =>
        /\ of[c] \in VTable /\ of[of[c]] # Null /\ "stmt" \in refs[of[c]]
        /\ reg[c] \in Data /\ reg[of[c]] \in Data

\* No cursor is open once the connection is being closed.
NoneWhenClosed == conn # "open" => \A c \in Cursor : of[c] = Null

\* A VTable with a reference is in use.
TableKept == \A v \in VTable : refs[v] # {} => of[v] # Null

VInv == IInv /\ VTypeOK /\ CursorHeld /\ NoneWhenClosed /\ TableKept

-----------------------------------------------------------------------------
\* The objects of S give up what they hold, which is freed.
LEMMA ReleasedStep ==
    ASSUME IInv, NEW S \in SUBSET Registration,
           reg' = [r \in Registration |-> IF r \in S THEN Null ELSE reg[r]],
           Frees({reg[r] : r \in S}), UNCHANGED <<client, made, leaked>>
    PROVE  OneEntry' /\ Account' /\ reg' \in [Registration -> Pointer]
<1> USE DEF IInv, TypeOK
<1>1. reg' \in [Registration -> Pointer]
  BY DEF Pointer
<1>2. \A r \in Registration : reg'[r] = IF r \in S THEN Null ELSE reg[r]
  OBVIOUS
<1>3. OneEntry'
  BY <1>2, NullAssumption DEF OneEntry
<1>4. \A e \in Data : Owned(e)' <=> Owned(e) /\ e \notin {reg[r] : r \in S}
  BY <1>2, NullAssumption DEF Owned, OneEntry
<1>5. \A e \in Data : e \in {reg[r] : r \in S} => Owned(e)
  BY DEF Owned
<1>6. \A e \in Data : freed'[e] = IF e \in {reg[r] : r \in S} THEN freed[e] + 1 ELSE freed[e]
  BY FreesType
<1>7. Account'
  BY <1>4, <1>5, <1>6 DEF Account
<1> QED BY <1>1, <1>3, <1>7

\* They do, and the new box d goes into h, one of them.
LEMMA MovedStep ==
    ASSUME IInv, NEW S \in SUBSET Registration, NEW h \in S, NEW d, Boxed(d),
           Moves(S, h, d), UNCHANGED client
    PROVE  OneEntry' /\ Account' /\ made' \subseteq Data /\ reg' \in [Registration -> Pointer]
<1> USE DEF IInv, TypeOK
<1>1. reg' \in [Registration -> Pointer]
  BY BoxedType DEF Moves, Pointer
<1>2. \A r \in Registration : reg'[r] = IF r = h THEN d ELSE IF r \in S THEN Null ELSE reg[r]
  BY DEF Moves
<1>3. \A m \in Client : d \in Data => client[m] # d
  BY BoxedType DEF Owned
<1>4. \A q \in Registration : d \in Data => reg[q] # d
  BY BoxedType DEF Owned
<1>5. OneEntry'
  <2>1. \A q, s \in Registration : reg'[q] \in Data /\ reg'[q] = reg'[s] => q = s
    BY <1>2, <1>4, NullAssumption DEF OneEntry
  <2>2. \A m \in Client, q \in Registration : client'[m] \in Data => client'[m] # reg'[q]
    BY <1>2, <1>3, NullAssumption DEF OneEntry
  <2>3. \A n, m \in Client : client'[n] \in Data /\ client'[n] = client'[m] => n = m
    BY DEF OneEntry
  <2> QED BY <2>1, <2>2, <2>3 DEF OneEntry
<1>6. \A e \in Data : Owned(e)' <=> (e = d \/ (Owned(e) /\ e \notin {reg[r] : r \in S}))
  <2> SUFFICES ASSUME NEW e \in Data
               PROVE  Owned(e)' <=> (e = d \/ (Owned(e) /\ e \notin {reg[r] : r \in S}))
    OBVIOUS
  <2>1. CASE e = d
    BY <1>2, <2>1 DEF Owned
  <2>2. CASE e # d
    BY <1>2, <2>2, NullAssumption DEF Owned, OneEntry
  <2> QED BY <2>1, <2>2
<1>7. \A e \in Data : freed'[e] = IF e \in {reg[r] : r \in S} THEN freed[e] + 1 ELSE freed[e]
  BY FreesType DEF Moves
<1>8. \A e \in Data : e \in {reg[r] : r \in S} => Owned(e)
  BY DEF Owned
<1>9. leaked' = leaked
  BY DEF Moves
<1>10. Account'
  BY <1>6, <1>7, <1>8, <1>9, BoxedType, NullAssumption DEF Account, Pointer
<1> QED BY <1>1, <1>5, <1>10, BoxedType

\* Objects that nothing refers to any more are freed, and the account is kept.
LEMMA SettleStep ==
    ASSUME VInv, NEW rf \in [VTable -> SUBSET Ref], NEW S \in SUBSET VTable, Settle(rf, S),
           tx' \in BOOLEAN
    PROVE  IInv' /\ VTypeOK'
<1> DEFINE A == S \cup DeadTables(rf) \cup DeadModules(rf, module)
<1>1. A \in SUBSET Registration
  BY DEF DeadTables, DeadModules, Registration
<1>2. /\ reg' = [r \in Registration |-> IF r \in A THEN Null ELSE reg[r]]
      /\ Frees({reg[r] : r \in A})
      /\ UNCHANGED <<client, made, leaked>>
  BY DEF Settle
<1>3. OneEntry' /\ Account' /\ reg' \in [Registration -> Pointer]
  <2> HIDE DEF A
  <2> QED BY <1>1, <1>2, ReleasedStep DEF VInv
<1>4. freed' \in [Data -> Nat]
  BY <1>2, FreesType DEF VInv, IInv
<1>5. TypeOK'
  <2>1. UNCHANGED <<conn, active, hook, client, made, leaked>>
    BY DEF Settle
  <2> QED BY <1>3, <1>4, <2>1 DEF VInv, IInv, TypeOK
<1>6. IInv'
  BY <1>3, <1>5 DEF IInv
<1>7. /\ module' \in Module \cup {Null}
      /\ of' \in [VTable \cup Cursor -> Module \cup VTable \cup {Null}]
      /\ refs' \in [VTable -> SUBSET Ref]
  BY DEF Settle, VInv, VTypeOK
<1> QED BY <1>5, <1>6, <1>7 DEF VTypeOK

\* An open cursor keeps its table if the statement's reference stays.
LEMMA SettleCursors ==
    ASSUME VInv, NEW rf \in [VTable -> SUBSET Ref], NEW S \in SUBSET VTable, Settle(rf, S),
           \A v \in VTable : rf[v] \subseteq refs[v],
           \A c \in Cursor : of[c] # Null => "stmt" \in rf[of[c]] /\ of[c] \notin S
    PROVE  CursorHeld' /\ NoneWhenClosed' /\ TableKept'
<1>1. \A c \in Cursor : c \notin VTable /\ c \notin Module
  BY NamesAssumption
<1>2. \A v \in VTable : v \notin Module
  BY NamesAssumption
<1>3. \A c \in Cursor : of'[c] = of[c] /\ reg'[c] = reg[c]
  <2> SUFFICES ASSUME NEW c \in Cursor PROVE of'[c] = of[c] /\ reg'[c] = reg[c]
    OBVIOUS
  <2>1. c \notin S \cup DeadTables(rf) \cup DeadModules(rf, module)
    BY <1>1 DEF DeadTables, DeadModules
  <2>2. c \in Registration
    BY DEF Registration
  <2> QED BY <2>1, <2>2 DEF Settle
<1>4. ASSUME NEW c \in Cursor, of[c] # Null
      PROVE  /\ of'[of[c]] = of[of[c]] /\ reg'[of[c]] = reg[of[c]]
             /\ "stmt" \in refs'[of[c]] /\ of[c] \in VTable
  <2>1. of[c] \in VTable /\ "stmt" \in rf[of[c]] /\ of[c] \notin S
    BY <1>4 DEF VInv, CursorHeld
  <2>2. of[c] \notin DeadTables(rf) /\ of[c] \notin DeadModules(rf, module)
    BY <1>2, <2>1 DEF DeadTables, DeadModules
  <2>3. of[c] \in Registration
    BY <2>1 DEF Registration
  <2> QED BY <2>1, <2>2, <2>3 DEF Settle
<1>5. CursorHeld'
  BY <1>3, <1>4 DEF VInv, CursorHeld
<1>6. NoneWhenClosed'
  BY <1>3 DEF VInv, NoneWhenClosed, Settle
<1>7. TableKept'
  BY DEF VInv, TableKept, Settle, DeadTables
<1> QED BY <1>5, <1>6, <1>7

-----------------------------------------------------------------------------
\* A new connection has no virtual table.
LEMMA InitVInv == VInit => VInv
<1> SUFFICES ASSUME VInit PROVE VInv
  OBVIOUS
<1>1. IInv
  BY InitIInv DEF VInit
<1>2. VTypeOK
  BY <1>1 DEF VInit, VTypeOK, IInv
<1>3. CursorHeld /\ NoneWhenClosed /\ TableKept
  BY DEF VInit, CursorHeld, NoneWhenClosed, TableKept
<1> QED BY <1>1, <1>2, <1>3 DEF VInv

\* A step that puts a new box into one object, for the type and the account.
LEMMA NewBoxStep ==
    ASSUME VInv, NEW S \in SUBSET Registration, NEW h \in S, NEW d, Boxed(d), Moves(S, h, d),
           UNCHANGED <<conn, tx, active, hook, client>>,
           module' \in Module \cup {Null},
           of' \in [VTable \cup Cursor -> Module \cup VTable \cup {Null}],
           refs' \in [VTable -> SUBSET Ref]
    PROVE  IInv' /\ VTypeOK'
<1>1. OneEntry' /\ Account' /\ made' \subseteq Data /\ reg' \in [Registration -> Pointer]
  BY MovedStep DEF VInv
<1>2. freed' \in [Data -> Nat] /\ leaked' = leaked
  BY FreesType DEF Moves, VInv, IInv
<1>3. TypeOK'
  BY <1>1, <1>2 DEF VInv, IInv, TypeOK
<1> QED BY <1>1, <1>3 DEF IInv, VTypeOK

\* Registering or replacing a module keeps the invariant.
LEMMA CreateModuleStep ==
    ASSUME VInv, NEW m \in Module, NEW d \in Pointer, create_module(m, d)
    PROVE  VInv'
<1>1. CASE Frees({d}) /\ UNCHANGED <<reg, leaked, vtab>>
  <2>1. Boxed(d) /\ UNCHANGED <<conn, tx, active, hook, client>>
    BY DEF create_module
  <2>2. OneEntry' /\ Account' /\ made' \subseteq Data
    BY <1>1, <2>1, DroppedStep DEF VInv
  <2>3. freed' \in [Data -> Nat]
    BY <1>1, FreesType DEF VInv, IInv
  <2>4. TypeOK'
    BY <1>1, <2>1, <2>2, <2>3 DEF VInv, IInv, TypeOK
  <2>5. VTypeOK' /\ CursorHeld' /\ NoneWhenClosed' /\ TableKept'
    BY <1>1, <2>1, <2>4 DEF VInv, VTypeOK, CursorHeld, NoneWhenClosed, TableKept, vtab
  <2> QED BY <2>2, <2>4, <2>5 DEF VInv, IInv
<1>2. CASE /\ module' = m
           /\ refs' = [v \in VTable |-> IF "epo" \in refs[v]
                                        THEN (refs[v] \ {"epo"}) \cup {"list"} ELSE refs[v]]
           /\ Moves(DeadModules(refs, m) \cup {m}, m, d)
           /\ UNCHANGED of
  <2> DEFINE S == DeadModules(refs, m) \cup {m}
  <2>1. S \in SUBSET Registration /\ S \subseteq Module /\ m \in S
    BY DEF DeadModules, Registration
  <2>2. Boxed(d) /\ UNCHANGED <<conn, tx, active, hook, client>>
    BY DEF create_module
  <2>3. refs' \in [VTable -> SUBSET Ref]
    BY <1>2 DEF VInv, VTypeOK, Ref
  <2>4. IInv' /\ VTypeOK'
    <3>1. Moves(S, m, d)
      BY <1>2
    <3>2. module' \in Module \cup {Null}
      BY <1>2
    <3>3. of' \in [VTable \cup Cursor -> Module \cup VTable \cup {Null}]
      BY <1>2 DEF VInv, VTypeOK
    <3> HIDE DEF S
    <3> QED BY <2>1, <2>2, <2>3, <3>1, <3>2, <3>3, NewBoxStep
  <2>5. \A r \in VTable \cup Cursor : reg'[r] = reg[r]
    BY <1>2, <2>1, NamesAssumption DEF Moves, Registration
  <2>6. \A v \in VTable : "stmt" \in refs[v] => "stmt" \in refs'[v]
    BY <1>2
  <2>7. CursorHeld' /\ NoneWhenClosed'
    BY <1>2, <2>2, <2>5, <2>6 DEF VInv, CursorHeld, NoneWhenClosed
  <2>8. TableKept'
    BY <1>2 DEF VInv, TableKept
  <2> QED BY <2>4, <2>7, <2>8 DEF VInv
<1> QED BY <1>1, <1>2 DEF create_module

\* Creating or connecting a table keeps the invariant.
LEMMA ConstructStep ==
    ASSUME VInv, NEW v \in VTable, NEW d \in Data, NEW R \in SUBSET Ref, Construct(v, d, R)
    PROVE  VInv'
<1> USE DEF Construct
<1>1. {v} \in SUBSET Registration
  BY DEF Registration
<1>2. module \in Module
  BY DEF VInv, VTypeOK
<1>3. of' \in [VTable \cup Cursor -> Module \cup VTable \cup {Null}]
  BY <1>2 DEF VInv, VTypeOK
<1>4. refs' \in [VTable -> SUBSET Ref]
  BY DEF VInv, VTypeOK
<1>5. IInv' /\ VTypeOK'
  <2>1. module' \in Module \cup {Null}
    BY <1>2
  <2> QED BY <1>1, <1>3, <1>4, <2>1, NewBoxStep
<1>6. \A c \in Cursor : c # v /\ of'[c] = of[c] /\ reg'[c] = reg[c]
  BY NamesAssumption DEF VInv, VTypeOK, Moves, Registration
<1>7. \A c \in Cursor : of[c] # v
  BY NamesAssumption DEF VInv, CursorHeld
<1>8. \A w \in VTable : w # v => of'[w] = of[w] /\ reg'[w] = reg[w] /\ refs'[w] = refs[w]
  BY DEF VInv, VTypeOK, Moves, Registration
<1>9. CursorHeld' /\ NoneWhenClosed'
  BY <1>6, <1>7, <1>8 DEF VInv, CursorHeld, NoneWhenClosed
<1>10. TableKept'
  BY <1>8 DEF VInv, VTypeOK, TableKept
<1> QED BY <1>5, <1>9, <1>10 DEF VInv

\* Opening a cursor keeps the invariant.
LEMMA OpenStep ==
    ASSUME VInv, NEW c \in Cursor, NEW v \in VTable, NEW d \in Data, rust_open(c, v, d)
    PROVE  VInv'
<1> USE DEF rust_open
<1>1. {c} \in SUBSET Registration /\ c \notin VTable
  BY NamesAssumption DEF Registration
<1>2. of' \in [VTable \cup Cursor -> Module \cup VTable \cup {Null}]
  BY DEF VInv, VTypeOK
<1>3. IInv' /\ VTypeOK'
  <2>1. module' \in Module \cup {Null} /\ refs' \in [VTable -> SUBSET Ref]
    BY DEF VInv, VTypeOK
  <2> QED BY <1>1, <1>2, <2>1, NewBoxStep
<1>4. reg[v] \in Data /\ v \in Registration
  BY DEF VInv, IInv, TypeOK, Registration, Pointer
<1>5. reg'[c] = d /\ \A r \in VTable \cup Cursor : r # c => reg'[r] = reg[r]
  BY DEF Moves, Registration
<1>6. of'[c] = v /\ \A x \in VTable \cup Cursor : x # c => of'[x] = of[x]
  BY DEF VInv, VTypeOK
<1>7. of[v] # Null
  BY DEF VInv, TableKept
<1>8. CursorHeld' /\ NoneWhenClosed'
  BY <1>1, <1>4, <1>5, <1>6, <1>7 DEF VInv, CursorHeld, NoneWhenClosed
<1>9. TableKept'
  BY <1>1, <1>6 DEF VInv, TableKept
<1> QED BY <1>3, <1>8, <1>9 DEF VInv

\* Closing a cursor keeps the invariant.
LEMMA CloseCursorStep ==
    ASSUME VInv, NEW c \in Cursor, rust_close(c)
    PROVE  VInv'
<1> USE DEF rust_close
<1>1. {c} \in SUBSET Registration /\ c \notin VTable
  BY NamesAssumption DEF Registration
<1>2. Boxed(Null)
  BY NullAssumption DEF Boxed, Pointer, VInv, IInv, TypeOK
<1>3. IInv' /\ VTypeOK'
  <2>1. /\ module' \in Module \cup {Null} /\ refs' \in [VTable -> SUBSET Ref]
        /\ of' \in [VTable \cup Cursor -> Module \cup VTable \cup {Null}]
    BY DEF VInv, VTypeOK
  <2> QED BY <1>1, <1>2, <2>1, NewBoxStep
<1>4. \A r \in VTable \cup Cursor : r # c => reg'[r] = reg[r]
  BY DEF Moves, Registration
<1>5. of'[c] = Null /\ \A x \in VTable \cup Cursor : x # c => of'[x] = of[x]
  BY DEF VInv, VTypeOK
<1>6. CursorHeld' /\ NoneWhenClosed' /\ TableKept'
  BY <1>1, <1>4, <1>5 DEF VInv, CursorHeld, NoneWhenClosed, TableKept
<1> QED BY <1>3, <1>6 DEF VInv

\* A step that only adds references, or moves them to the list, keeps the invariant.
LEMMA ReferenceStep ==
    ASSUME VInv, UNCHANGED <<vars, module, of>>, refs' \in [VTable -> SUBSET Ref],
           \A v \in VTable : "stmt" \in refs[v] => "stmt" \in refs'[v],
           \A v \in VTable : refs'[v] # {} => of[v] # Null
    PROVE  VInv'
<1>1. \A d \in Data : Owned(d)' = Owned(d)
  BY DEF vars, Owned
<1>2. IInv'
  BY <1>1 DEF VInv, vars, IInv, TypeOK, OneEntry, Account
<1>3. VTypeOK'
  BY <1>2 DEF VInv, VTypeOK, IInv
<1>4. CursorHeld' /\ NoneWhenClosed' /\ TableKept'
  BY DEF VInv, CursorHeld, NoneWhenClosed, TableKept, vars
<1> QED BY <1>2, <1>3, <1>4 DEF VInv

\* Dropping a table keeps the invariant, also if destroy fails.
LEMMA DestroyStep ==
    ASSUME VInv, NEW v \in VTable, rust_destroy(v)
    PROVE  VInv'
<1>1. CASE UNCHANGED allVars
  <2>1. UNCHANGED <<vars, module, of>> /\ UNCHANGED refs
    BY <1>1 DEF allVars, vtab
  <2> QED BY <2>1, ReferenceStep DEF VInv, VTypeOK, TableKept
<1>2. CASE Settle([refs EXCEPT ![v] = @ \ {"schema"}], {v}) /\ UNCHANGED tx
  <2> DEFINE rf == [refs EXCEPT ![v] = @ \ {"schema"}]
  <2>1. rf \in [VTable -> SUBSET Ref] /\ \A w \in VTable : rf[w] \subseteq refs[w]
    BY DEF VInv, VTypeOK
  <2>2. \A w \in VTable : "stmt" \in refs[w] => "stmt" \in rf[w]
    BY DEF VInv, VTypeOK
  <2>3. \A c \in Cursor : of[c] # Null => "stmt" \in rf[of[c]] /\ of[c] \notin {v}
    BY <2>2 DEF VInv, CursorHeld, rust_destroy, HasCursor
  <2>4. tx' \in BOOLEAN
    BY <1>2 DEF VInv, IInv, TypeOK
  <2>5. Settle(rf, {v})
    BY <1>2
  <2> HIDE DEF rf
  <2>6. IInv' /\ VTypeOK'
    BY <2>1, <2>4, <2>5, SettleStep
  <2>7. CursorHeld' /\ NoneWhenClosed' /\ TableKept'
    BY <2>1, <2>3, <2>5, SettleCursors
  <2> QED BY <2>6, <2>7 DEF VInv
<1> QED BY <1>1, <1>2 DEF rust_destroy

\* A step that gives up references other than those of statements with cursors.
LEMMA UnlockStep ==
    ASSUME VInv, NEW rf \in [VTable -> SUBSET Ref], Settle(rf, {}), tx' \in BOOLEAN,
           \A v \in VTable : rf[v] \subseteq refs[v],
           \A v \in VTable : HasCursor(v) /\ "stmt" \in refs[v] => "stmt" \in rf[v]
    PROVE  VInv'
<1>1. IInv' /\ VTypeOK'
  BY SettleStep
<1>2. \A c \in Cursor : of[c] # Null => "stmt" \in rf[of[c]] /\ of[c] \notin {}
  BY DEF VInv, CursorHeld, HasCursor
<1>3. CursorHeld' /\ NoneWhenClosed' /\ TableKept'
  BY <1>2, SettleCursors
<1> QED BY <1>1, <1>3 DEF VInv

\* How a step of Callbacks changes the state of the connection.
LEMMA ConnSteps ==
    ASSUME IInv, Next
    PROVE  \/ conn' = conn
           \/ conn' = "zombie" /\ ~active'
           \/ conn' = "closed" /\ conn = "zombie"
<1>1. CASE \E d \in Pointer : SomeSetter(d)
  <2>1. PICK d \in Pointer : PresetFails(d) \/ \E k \in Hook, p \in {d, Null} : SetHook(k, d, p)
    BY <1>1, Setters
  <2> QED BY <2>1 DEF PresetFails, SetHook
<1>2. CASE CloseClientData
  BY <1>2 DEF CloseClientData
<1>3. CASE CloseRest
  BY <1>3 DEF CloseRest
<1> QED BY <1>1, <1>2, <1>3 DEF Next, SomeSetter, Pragma, SetClientData, BusyTimeout,
        CreateFunction, CreateCollation, Remove, deserialize, deserialize_read_exact, ReadFails,
        deserialize_bytes, RunStatement

\* No step of Callbacks on an open connection touches an object of a virtual table.
LEMMA ObjectsKept ==
    ASSUME IInv, Next, conn' = "open"
    PROVE  \A r \in VTable \cup Cursor : reg'[r] = reg[r]
<1> SUFFICES ASSUME NEW x \in VTable \cup Cursor PROVE reg'[x] = reg[x]
  OBVIOUS
<1>1. x \notin Function \cup Collation \cup Schema /\ x \in Registration
  BY NamesAssumption DEF Registration
<1>2. ASSUME NEW r \in Function \cup Collation \cup Schema, NEW d, Registered(r, d)
      PROVE  reg'[x] = reg[x]
  BY <1>1, <1>2 DEF Registered, IInv, TypeOK
<1>3. CASE \E d \in Pointer : SomeSetter(d)
  <2>1. PICK d \in Pointer : PresetFails(d) \/ \E k \in Hook, p \in {d, Null} : SetHook(k, d, p)
    BY <1>3, Setters
  <2> QED BY <2>1 DEF PresetFails, SetHook
<1>4. CASE \/ \E k \in {"busy", "wal"} : Pragma(k)
           \/ \E n \in ClientName, d \in Pointer : SetClientData(n, d)
           \/ BusyTimeout \/ RunStatement \/ CloseClientData
  BY <1>4 DEF Pragma, SetClientData, BusyTimeout, RunStatement, CloseClientData
<1>5. CASE \E f \in Function, d \in Data : CreateFunction(f, d)
  BY <1>2, <1>5 DEF CreateFunction, BadName
<1>6. CASE \E c \in Collation, d \in Data : CreateCollation(c, d)
  BY <1>2, <1>6 DEF CreateCollation, BadName
<1>7. CASE \E r \in Function \cup Collation : Remove(r)
  BY <1>2, <1>7 DEF Remove
<1>8. CASE \E s \in Schema, d \in Data : deserialize(s, d) \/ deserialize_read_exact(s, d)
  BY <1>2, <1>8 DEF deserialize, deserialize_read_exact, ReadFails, BadName
<1>9. CASE \E s \in Schema : deserialize_bytes(s)
  BY <1>2, <1>9 DEF deserialize_bytes
<1>10. CASE CloseRest
  BY <1>10 DEF CloseRest
<1> QED BY <1>3, <1>4, <1>5, <1>6, <1>7, <1>8, <1>9, <1>10 DEF Next, SomeSetter

\* Steps of Callbacks keep the invariant: they touch no object of a virtual table
\* until the connection is closed.
LEMMA CallbackStepInv ==
    ASSUME VInv, CallbackStep
    PROVE  VInv'
<1>1. IInv'
  BY NextIInv DEF VInv, CallbackStep
<1>2. VTypeOK'
  BY <1>1 DEF VInv, VTypeOK, IInv, CallbackStep
<1>3. TableKept'
  BY DEF VInv, TableKept, CallbackStep
<1>4. \/ conn' = conn
      \/ conn' = "zombie" /\ ~active'
      \/ conn' = "closed" /\ conn = "zombie"
  BY ConnSteps DEF VInv, CallbackStep
<1>5. NoneWhenClosed'
  BY <1>4 DEF VInv, NoneWhenClosed, CallbackStep
<1>6. CursorHeld'
  <2>1. CASE conn' = "open"
    <3>1. \A r \in VTable \cup Cursor : reg'[r] = reg[r]
      BY <2>1, ObjectsKept DEF VInv, CallbackStep
    <3> QED BY <3>1 DEF VInv, CursorHeld, CallbackStep
  <2>2. CASE conn' # "open"
    BY <1>5, <2>2 DEF NoneWhenClosed, CursorHeld
  <2> QED BY <2>1, <2>2
<1> QED BY <1>1, <1>2, <1>3, <1>5, <1>6 DEF VInv

\* Every step keeps the invariant.
LEMMA NextVInv == VInv /\ [VNext]_allVars => VInv'
<1> SUFFICES ASSUME VInv, [VNext]_allVars PROVE VInv'
  OBVIOUS
<1>0. refs \in [VTable -> SUBSET Ref] /\ tx \in BOOLEAN
  BY DEF VInv, VTypeOK, TypeOK
<1>1. CASE UNCHANGED allVars
  <2>1. UNCHANGED <<vars, module, of>> /\ UNCHANGED refs
    BY <1>1 DEF allVars, vtab
  <2> QED BY <2>1, ReferenceStep DEF VInv, VTypeOK, TableKept
<1>2. CASE CallbackStep
  BY <1>2, CallbackStepInv
<1>3. CASE \E m \in Module, d \in Pointer : create_module(m, d)
  BY <1>3, CreateModuleStep
<1>4. CASE \E v \in VTable, d \in Data : rust_connect(v, d) \/ rust_create(v, d)
  BY <1>4, ConstructStep DEF rust_connect, rust_create, Ref
<1>5. ASSUME NEW v \in VTable, rust_destroy(v) PROVE VInv'
  BY <1>5, DestroyStep
<1>6. ASSUME NEW v \in VTable, rust_begin(v) \/ Prepare(v) PROVE VInv'
  <2>1. PICK x \in {"trans", "stmt"} : refs' = [refs EXCEPT ![v] = @ \cup {x}]
    BY <1>6 DEF rust_begin, Prepare
  <2>2. UNCHANGED <<vars, module, of>> /\ Linked(v)
    BY <1>6 DEF rust_begin, Prepare
  <2>3. refs' \in [VTable -> SUBSET Ref]
    BY <1>0, <2>1 DEF Ref
  <2>4. \A w \in VTable : refs'[w] # {} => of[w] # Null
    BY <1>0, <2>1, <2>2 DEF VInv, TableKept, Linked
  <2>5. \A w \in VTable : "stmt" \in refs[w] => "stmt" \in refs'[w]
    BY <1>0, <2>1
  <2> QED BY <2>2, <2>3, <2>4, <2>5, ReferenceStep
<1>7. ASSUME NEW v \in VTable, Finalize(v) PROVE VInv'
  <2> DEFINE rf == [refs EXCEPT ![v] = @ \ {"stmt"}]
  <2>1. rf \in [VTable -> SUBSET Ref] /\ \A w \in VTable : rf[w] \subseteq refs[w]
    BY <1>0
  <2>2. \A w \in VTable : HasCursor(w) /\ "stmt" \in refs[w] => "stmt" \in rf[w]
    BY <1>0, <1>7 DEF Finalize
  <2>3. Settle(rf, {}) /\ tx' \in BOOLEAN
    BY <1>0, <1>7 DEF Finalize
  <2> HIDE DEF rf
  <2> QED BY <2>1, <2>2, <2>3, UnlockStep
<1>8. CASE \E c \in Cursor, v \in VTable, d \in Data : rust_open(c, v, d)
  BY <1>8, OpenStep
<1>9. CASE \E c \in Cursor : rust_close(c)
  BY <1>9, CloseCursorStep
<1>10. CASE rust_commit
  <2> DEFINE rf == [v \in VTable |-> refs[v] \ {"trans"}]
  <2>1. /\ rf \in [VTable -> SUBSET Ref] /\ \A w \in VTable : rf[w] \subseteq refs[w]
        /\ \A w \in VTable : HasCursor(w) /\ "stmt" \in refs[w] => "stmt" \in rf[w]
    BY <1>0
  <2>2. Settle(rf, {}) /\ tx' \in BOOLEAN
    BY <1>10 DEF rust_commit
  <2> HIDE DEF rf
  <2> QED BY <2>1, <2>2, UnlockStep
<1>11. CASE SchemaClear
  <2>1. UNCHANGED <<vars, module, of>>
    BY <1>11 DEF SchemaClear
  <2>2. refs' \in [VTable -> SUBSET Ref]
    BY <1>0, <1>11 DEF SchemaClear, Ref
  <2>3. \A v \in VTable : refs'[v] # {} => of[v] # Null
    BY <1>11 DEF SchemaClear, VInv, TableKept
  <2>4. \A v \in VTable : "stmt" \in refs[v] => "stmt" \in refs'[v]
    BY <1>11 DEF SchemaClear
  <2> QED BY <2>1, <2>2, <2>3, <2>4, ReferenceStep
<1>12. CASE UnlockList
  <2> DEFINE rf == [v \in VTable |-> refs[v] \ {"list"}]
  <2>1. /\ rf \in [VTable -> SUBSET Ref] /\ \A w \in VTable : rf[w] \subseteq refs[w]
        /\ \A w \in VTable : HasCursor(w) /\ "stmt" \in refs[w] => "stmt" \in rf[w]
    BY <1>0
  <2>2. Settle(rf, {}) /\ tx' \in BOOLEAN
    BY <1>0, <1>12 DEF UnlockList
  <2> HIDE DEF rf
  <2> QED BY <2>1, <2>2, UnlockStep
<1>13. CASE CloseDisconnects
  <2> DEFINE rf == [v \in VTable |-> refs[v] \cap {"stmt"}]
  <2>1. /\ rf \in [VTable -> SUBSET Ref] /\ \A w \in VTable : rf[w] \subseteq refs[w]
        /\ \A w \in VTable : HasCursor(w) /\ "stmt" \in refs[w] => "stmt" \in rf[w]
    BY <1>0
  <2>2. Settle(rf, {}) /\ tx' \in BOOLEAN
    BY <1>0, <1>13 DEF CloseDisconnects
  <2> HIDE DEF rf
  <2> QED BY <2>1, <2>2, UnlockStep
<1> QED BY <1>1, <1>2, <1>3, <1>4, <1>5, <1>6, <1>7, <1>8, <1>9, <1>10, <1>11, <1>12, <1>13
        DEF VNext

\* The account of the boxes and the references is kept by every step.
THEOREM VInvariance == VSpec => []VInv
BY InitVInv, NextVInv, PTL DEF VSpec

\* Every variable of VirtualTable and of Callbacks keeps its type.
THEOREM VTypeCorrect == VSpec => []VTypeOK
<1>1. VInv => VTypeOK
  BY DEF VInv
<1> QED BY <1>1, VInvariance, PTL

\* With virtual tables too, no box is freed twice and none is lost unless a name
\* was refused or a reader failed: replaced modules, dropped tables, failing
\* destructors and cursors in any order, and also when memory runs out.
THEOREM ObjectsFreedOnce == VSpec => []EachBoxOnce
<1>1. VInv => EachBoxOnce
  BY AccountBalances DEF VInv
<1> QED BY <1>1, VInvariance, PTL

\* An open cursor and its table are live: rust_filter, rust_next, rust_column and
\* cursor_error never use a box that rust_destroy or rust_disconnect freed.
THEOREM CursorsSafe == VSpec => []CursorsLive
<1>1. VInv => CursorsLive
  <2> SUFFICES ASSUME VInv, NEW c \in Cursor, of[c] # Null
               PROVE  /\ reg[c] \in Live /\ reg[of[c]] \in Live
                      /\ "stmt" \in refs[of[c]] /\ of[of[c]] # Null
    BY DEF CursorsLive
  <2>1. /\ reg[c] \in Data /\ reg[of[c]] \in Data /\ of[c] \in VTable
        /\ "stmt" \in refs[of[c]] /\ of[of[c]] # Null
    BY DEF VInv, CursorHeld
  <2>2. \A r \in Registration : reg[r] \in Data => reg[r] \in Live
    BY DEF VInv, IInv, Account, Owned, Live
  <2>3. c \in Registration /\ of[c] \in Registration
    BY <2>1 DEF Registration
  <2> QED BY <2>1, <2>2, <2>3
<1> QED BY <1>1, VInvariance, PTL

\* If memory does not run out, SQLite holds no pointer to a freed value while the
\* connection is open, also next to virtual tables.
THEOREM NoDanglingObject ==
    ASSUME "nomem" \notin Failures
    PROVE  VSpec => []PointersLive
<1>1. VInit => HookOwned
  BY NullAssumption DEF VInit, Init, HookOwned
<1>2. VInv /\ HookOwned /\ [VNext]_allVars => HookOwned'
  <2> SUFFICES ASSUME VInv, HookOwned, [VNext]_allVars PROVE HookOwned'
    OBVIOUS
  <2>1. CASE CallbackStep
    BY <2>1, HookOwnedNext DEF VInv, CallbackStep
  <2>2. CASE UNCHANGED <<conn, hook, client>>
    BY <2>2 DEF HookOwned
  <2>3. CallbackStep \/ UNCHANGED <<conn, hook, client>>
    BY DEF VNext, allVars, vars, create_module, rust_connect, rust_create, Construct, rust_destroy,
           rust_begin, Prepare, Finalize, rust_open, rust_close, rust_commit, SchemaClear,
           UnlockList, CloseDisconnects, Settle
  <2> QED BY <2>1, <2>2, <2>3
<1>3. VInv /\ HookOwned => PointersLive
  BY OwnedIsLive DEF VInv
<1> QED BY <1>1, <1>2, <1>3, VInvariance, PTL DEF VSpec

=============================================================================
