--------------------------- MODULE Threads_proofs ---------------------------
(***************************************************************************)
(* Proofs about the two models of threads, UnlockNotify and Interrupt.     *)
(*                                                                         *)
(* UnlockNotify, for any number of connections and tables.                 *)
(* The pointer SQLite keeps to an UnlockNotification is in one of three    *)
(* places: pUnlockConnection's argument, the array handed to the callback, *)
(* or the callback itself.  The inductive invariant says that it is in at  *)
(* most one of them, only while the frame exists (Pointers), and in one of *)
(* them as long as the flag is unset (Waited).  That needs who holds       *)
(* STATIC_MAIN (MainHeld) and the mutex (MutexHeld).                       *)
(*                                                                         *)
(* Interrupt, for any number of interrupt handles: who holds               *)
(* interrupt_lock is determined by where the threads are (LockHeld),       *)
(* sqlite3_close runs only under the lock (CloseLocked), and the shared    *)
(* copy of the pointer is set exactly while an owned connection is not     *)
(* closed (SharedTracks).                                                  *)
(***************************************************************************)
EXTENDS UnlockNotify, Interrupt, TLAPS


\* Inside wait_for_unlock_notify, after the call of sqlite3_unlock_notify began.
Registered == {"self", "wait", "test", "sleep"}

\* A thread that is in a call has an operation.
HasOp == \A c \in Conn : pc[c] \in Registered \cup {"step", "notify"} => op[c] \in Op

MainHeld ==
    /\ \A c \in Conn : pc[c] \in {"self", "unlocked"} <=> main = c
    /\ main = None => fire = {} /\ cb = "none"
    /\ cb = "none" <=> cur = None

MutexHeld ==
    /\ \A c \in Conn : pc[c] = "test" => mutex[c] = c
    /\ cb \in {"set", "drop"} => mutex[cur] = main

Pointers ==
    \A c \in Conn :
        /\ unlock[c] # None
             => pc[c] \in {"wait", "test", "sleep"} /\ flag[c] = FALSE /\ c \notin fire /\ cur # c
        /\ c \in fire => pc[c] \in Registered /\ flag[c] = FALSE /\ cur # c
        /\ cur = c => pc[c] \in Registered /\ (flag[c] = TRUE <=> cb = "drop")
        /\ pc[c] = "notify" => flag[c] = FALSE

Waited ==
    \A c \in Conn :
        pc[c] \in Registered /\ flag[c] = FALSE => unlock[c] # None \/ c \in fire \/ cur = c

Struct == MainHeld /\ MutexHeld /\ Pointers /\ Waited

IInv == TypeOK /\ HasOp /\ Struct /\ NoWaitCycle

-----------------------------------------------------------------------------
\* At the start nobody holds a lock, waits or has a callback registered.
LEMMA InitIInv == Init => IInv
<1> SUFFICES ASSUME Init PROVE IInv
  OBVIOUS
<1> USE ConnAssumption, OpsAssumption DEF Init
<1>1. TypeOK
  <2>1. pending \in BOOLEAN /\ flag \in [Conn -> BOOLEAN]
    BY Zenon
  <2>2. locks \in [Conn -> [Page -> {"none", "read", "write"}]]
    OBVIOUS
  <2> QED BY <2>1, <2>2 DEF TypeOK, PC
<1>2. HasOp
  BY DEF HasOp, Registered
<1>3. Struct
  BY DEF Struct, MainHeld, MutexHeld, Pointers, Waited, Registered
<1>4. NoWaitCycle
  BY DEF NoWaitCycle
<1> QED BY <1>1, <1>2, <1>3, <1>4 DEF IInv

\* Types, and the operation of a thread inside a call.
LEMMA TypeStep ==
    ASSUME TypeOK, HasOp, NEW c \in Conn,
           \/ \E o \in Op : Execute(c, o)
           \/ EndTransaction(c) \/ CallSteps(c) \/ WakeSpurious(c)
    PROVE  TypeOK' /\ HasOp'
<1> USE ConnAssumption, OpsAssumption DEF TypeOK, HasOp, PC, Registered, cbVars, unVars, sqliteVars
<1>1. CASE \E o \in Op : Execute(c, o)
  BY <1>1 DEF Execute
<1>2. CASE EndTransaction(c)
  <2>1. pending' \in BOOLEAN
    BY <1>2, Zenon DEF EndTransaction
  <2> QED BY <1>2, <2>1 DEF EndTransaction
<1>3. CASE WakeSpurious(c)
  BY <1>3 DEF WakeSpurious
<1>a. \A p \in Page : Begun(c, p) \in {"none", "read", "write"}
  BY DEF Begun
<1>b. ASSUME Proceeds(c) PROVE locks' \in [Conn -> [Page -> {"none", "read", "write"}]]
  <2>1. \A p \in Page : Granted(c, op[c], p) \in {"none", "read", "write"}
    BY <1>a DEF Granted
  <2> QED BY <1>b, <2>1 DEF Proceeds
<1>4. CASE StepOk(c)
  BY <1>4, <1>b DEF StepOk, Proceeds, Return
<1>5. CASE StepLocked(c)
  BY <1>5, <1>b DEF StepLocked, Proceeds, Return
<1>6. CASE StepBlocked(c)
  <2>1. pending' \in BOOLEAN
    BY <1>6, Zenon DEF StepBlocked
  <2>2. PICK d \in Conn : block' = [block EXCEPT ![c] = d]
    BY <1>6 DEF StepBlocked, BlockedAtBegin, BlockedAtTable
  <2>3. writer' \in Conn \cup {None}
    BY <1>6 DEF StepBlocked
  <2>4. locks' \in [Conn -> [Page -> {"none", "read", "write"}]]
    BY <1>6, <1>a DEF StepBlocked
  <2> QED BY <1>6, <2>1, <2>2, <2>3, <2>4 DEF StepBlocked
<1>7. CASE NotifyNow(c)
  BY <1>7 DEF NotifyNow
<1>8. CASE NotifyDeadlock(c)
  BY <1>8 DEF NotifyDeadlock, Return
<1>9. CASE NotifyLater(c)
  BY <1>9 DEF NotifyLater
<1>10. CASE WaitLock(c)
  BY <1>10 DEF WaitLock
<1>11. CASE WaitSleep(c)
  BY <1>11 DEF WaitSleep
<1>12. CASE Retry(c)
  BY <1>12 DEF Retry
<1>13. CASE ConnectionUnlocked(c)
  BY <1>13 DEF ConnectionUnlocked
<1>14. CASE \E x \in Conn : Callback(c, x)
  BY <1>14 DEF Callback
<1>15. CASE FiredLock(c)
  BY <1>15 DEF FiredLock
<1>16. CASE FiredSet(c)
  BY <1>16 DEF FiredSet
<1>17. CASE FiredUnlock(c)
  BY <1>17 DEF FiredUnlock
<1>18. CASE CallbackDone(c)
  BY <1>18 DEF CallbackDone
<1> QED BY <1>1, <1>2, <1>3, <1>4, <1>5, <1>6, <1>7, <1>8, <1>9, <1>10, <1>11, <1>12,
           <1>13, <1>14, <1>15, <1>16, <1>17, <1>18 DEF CallSteps

\* Where the pointers are.
LEMMA StructStep ==
    ASSUME TypeOK, Struct, NEW c \in Conn,
           \/ \E o \in Op : Execute(c, o)
           \/ EndTransaction(c) \/ CallSteps(c) \/ WakeSpurious(c)
    PROVE  Struct'
<1> USE ConnAssumption
        DEF TypeOK, PC, Registered, cbVars, unVars, sqliteVars,
            Struct, MainHeld, MutexHeld, Pointers, Waited
<1>1. CASE \E o \in Op : Execute(c, o)
  BY <1>1 DEF Execute
<1>2. CASE EndTransaction(c)
  BY <1>2 DEF EndTransaction
<1>3. CASE WakeSpurious(c)
  BY <1>3 DEF WakeSpurious
<1>4. CASE StepOk(c)
  BY <1>4 DEF StepOk, Proceeds, Return
<1>5. CASE StepLocked(c)
  BY <1>5 DEF StepLocked, Proceeds, Return
<1>6. CASE StepBlocked(c)
  BY <1>6 DEF StepBlocked
<1>7. CASE NotifyNow(c)
  BY <1>7 DEF NotifyNow
<1>8. CASE NotifyDeadlock(c)
  BY <1>8 DEF NotifyDeadlock, Return
<1>9. CASE NotifyLater(c)
  BY <1>9 DEF NotifyLater
<1>10. CASE WaitLock(c)
  BY <1>10 DEF WaitLock
<1>11. CASE WaitSleep(c)
  BY <1>11 DEF WaitSleep
<1>12. CASE Retry(c)
  BY <1>12 DEF Retry
<1>13. CASE ConnectionUnlocked(c)
  BY <1>13 DEF ConnectionUnlocked
<1>14. CASE \E x \in Conn : Callback(c, x)
  BY <1>14 DEF Callback
<1>15. CASE FiredLock(c)
  BY <1>15 DEF FiredLock
<1>16. CASE FiredSet(c)
  BY <1>16 DEF FiredSet
<1>17. CASE FiredUnlock(c)
  BY <1>17 DEF FiredUnlock
<1>18. CASE CallbackDone(c)
  BY <1>18 DEF CallbackDone
<1> QED BY <1>1, <1>2, <1>3, <1>4, <1>5, <1>6, <1>7, <1>8, <1>9, <1>10, <1>11, <1>12,
           <1>13, <1>14, <1>15, <1>16, <1>17, <1>18 DEF CallSteps

\* Registering c behind a connection that does not lead back to c closes no
\* cycle: a set that is one after the step has, within the connections that the
\* search visited, a set that was one before.
LEMMA NoCycleAdded ==
    ASSUME TypeOK, NoWaitCycle, NEW c \in Conn, NEW b \in Conn, ~Leads(b, c),
           unlock' = [unlock EXCEPT ![c] = b]
    PROVE  NoWaitCycle'
<1> SUFFICES ASSUME NEW S \in SUBSET Conn, S # {}, \A x \in S : unlock'[x] \in S
             PROVE  FALSE
  BY DEF NoWaitCycle
<1>1. PICK V \in SUBSET Conn : b \in V /\ (\A x \in V : unlock[x] = None \/ unlock[x] \in V) /\ c \notin V
  BY DEF Leads
<1>2. CASE c \notin S
  <2>1. \A x \in S : unlock[x] \in S
    BY <1>2 DEF TypeOK
  <2> QED BY <2>1 DEF NoWaitCycle
<1>3. CASE c \in S
  <2>1. b \in S
    BY <1>3 DEF TypeOK
  <2>2. \A x \in S \cap V : unlock[x] \in S \cap V
    BY <1>1, ConnAssumption DEF TypeOK
  <2>3. S \cap V # {} /\ S \cap V \in SUBSET Conn
    BY <1>1, <2>1
  <2> QED BY <2>2, <2>3 DEF NoWaitCycle
<1> QED BY <1>2, <1>3

\* Only NotifyLater adds an edge, only ConnectionUnlocked removes edges.
LEMMA CycleStep ==
    ASSUME TypeOK, NoWaitCycle, NEW c \in Conn,
           \/ \E o \in Op : Execute(c, o)
           \/ EndTransaction(c) \/ CallSteps(c) \/ WakeSpurious(c)
    PROVE  NoWaitCycle'
<1>1. CASE UNCHANGED unlock
  BY <1>1 DEF NoWaitCycle
<1>2. CASE NotifyLater(c)
  BY <1>2, NoCycleAdded DEF NotifyLater, TypeOK
<1>3. CASE ConnectionUnlocked(c)
  <2> SUFFICES ASSUME NEW S \in SUBSET Conn, S # {}, \A x \in S : unlock'[x] \in S
               PROVE  FALSE
    BY DEF NoWaitCycle
  <2>1. \A x \in S : unlock[x] \in S
    BY <1>3, ConnAssumption DEF ConnectionUnlocked, TypeOK
  <2> QED BY <2>1 DEF NoWaitCycle
<1> QED
  BY <1>1, <1>2, <1>3
     DEF CallSteps, Execute, EndTransaction, WakeSpurious, StepOk, StepLocked, Proceeds,
         StepBlocked,
         NotifyNow, NotifyDeadlock, WaitLock, WaitSleep, Retry, Callback, FiredLock, FiredSet,
         FiredUnlock, CallbackDone, sqliteVars

\* The inductive invariant holds in every reachable state.
THEOREM Invariance == Spec => []IInv
<1>1. Init => IInv
  BY InitIInv
<1>2. IInv /\ [Next]_vars => IInv'
  <2> SUFFICES ASSUME IInv, [Next]_vars PROVE IInv'
    OBVIOUS
  <2>1. CASE UNCHANGED vars
    BY <2>1 DEF vars, sqliteVars, cbVars, unVars, IInv, TypeOK, HasOp, Struct, MainHeld, MutexHeld,
                Pointers, Waited, NoWaitCycle
  <2>2. CASE Next
    <3>1. PICK c \in Conn :
            \/ \E o \in Op : Execute(c, o)
            \/ EndTransaction(c) \/ CallSteps(c) \/ WakeSpurious(c)
      BY <2>2, Zenon DEF Next
    <3>2. TypeOK /\ HasOp /\ Struct /\ NoWaitCycle
      BY DEF IInv
    <3>3. TypeOK' /\ HasOp'
      BY <3>1, <3>2, TypeStep
    <3>4. Struct'
      BY <3>1, <3>2, StructStep
    <3>5. NoWaitCycle'
      BY <3>1, <3>2, CycleStep
    <3> QED BY <3>3, <3>4, <3>5 DEF IInv
  <2> QED BY <2>1, <2>2
<1> QED BY <1>1, <1>2, PTL DEF Spec

\* Every variable keeps its type.
THEOREM TypeCorrect == Spec => []TypeOK
<1>1. IInv => TypeOK
  BY DEF IInv
<1> QED BY <1>1, Invariance, PTL

\* unlock_notify_cb never uses a frame of wait_for_unlock_notify that has
\* returned, and SQLite keeps no pointer to one.
THEOREM CallbackSafe == Spec => []CallbackOnLive
<1>1. IInv => CallbackOnLive
  BY DEF IInv, Struct, Pointers, CallbackOnLive, Live, Registered
<1> QED BY <1>1, Invariance, PTL

\* No thread waits for a callback that nobody will run.
THEOREM WakeupSafe == Spec => []NoLostWakeup
<1>1. IInv => NoLostWakeup
  <2> SUFFICES ASSUME IInv, NEW c \in Conn,
                      pc[c] \in {"wait", "test", "sleep"}, ~flag[c]
               PROVE  unlock[c] # None \/ c \in fire \/ (cur = c /\ cb \in {"lock", "set"})
    BY DEF NoLostWakeup
  <2>1. flag[c] = FALSE
    BY DEF IInv, TypeOK
  <2>2. unlock[c] # None \/ c \in fire \/ cur = c
    BY <2>1 DEF IInv, Struct, Waited, Registered
  <2>3. cur = c => cb \in {"lock", "set"}
    BY <2>1, ConnAssumption DEF IInv, Struct, MainHeld, Pointers, TypeOK
  <2> QED BY <2>2, <2>3
<1> QED BY <1>1, Invariance, PTL

\* No set of connections waits for itself.
THEOREM DeadlockFree == Spec => []NoWaitCycle
<1>1. IInv => NoWaitCycle
  BY DEF IInv
<1> QED BY <1>1, Invariance, PTL

-----------------------------------------------------------------------------
(* Interrupt.                                                              *)

\* A guard of the mutex is live exactly in the code between lock and drop.
LockHeld ==
    /\ \A i \in Interrupter : intr[i] \in {"locked", "calling"} <=> lock = i
    /\ owner = "locked" <=> lock = Owner

\* sqlite3_close runs on the owning thread, with the guard held.
CloseLocked == sqlite = "closing" => owned /\ owner = "locked"

\* The two copies of the pointer against the state of the sqlite3 object.
SharedTracks ==
    /\ shared = "ptr" => sqlite # "closed" /\ owned
    /\ owned /\ db = "ptr" => shared = "ptr"
    /\ owner # "gone" => db = "ptr"
    /\ \A i \in Interrupter : intr[i] = "calling" => shared = "ptr"

HInv == HTypeOK /\ LockHeld /\ CloseLocked /\ SharedTracks

\* InnerConnection::new starts with a free lock and matching copies of the pointer.
LEMMA InitHInv == HInit => HInv
<1> SUFFICES ASSUME HInit PROVE HInv
  OBVIOUS
<1>1. owned \in BOOLEAN /\ isInterrupted \in BOOLEAN /\ unfinished \in BOOLEAN
  BY ThreadAssumption, OwnershipAssumption, BoundAssumption, Zenon DEF HInit
<1>2. HTypeOK
  BY <1>1, ThreadAssumption, OwnershipAssumption, BoundAssumption DEF HInit, HTypeOK
<1>3. LockHeld
  BY ThreadAssumption, OwnershipAssumption, BoundAssumption DEF HInit, LockHeld
<1>4. CloseLocked /\ SharedTracks
  BY <1>1 DEF HInit, CloseLocked, SharedTracks
<1> QED BY <1>2, <1>3, <1>4 DEF HInv

\* The steps of the owning thread.
LEMMA OwnerStep ==
    ASSUME HInv,
           StartQuery \/ QueryEnds \/ QueryInterrupted \/ LeaveUnfinished
              \/ CloseStart \/ CloseSteps \/ LenderCloses
    PROVE  HInv'
<1> USE ThreadAssumption, BoundAssumption DEF HInv, HTypeOK, LockHeld, CloseLocked, SharedTracks
<1>1. CASE StartQuery
  <2>1. isInterrupted' \in BOOLEAN
    BY <1>1, Zenon DEF StartQuery
  <2> QED BY <1>1, <2>1 DEF StartQuery
<1>2. CASE QueryEnds
  BY <1>2 DEF QueryEnds
<1>3. CASE QueryInterrupted
  BY <1>3 DEF QueryInterrupted
<1>4. CASE LeaveUnfinished
  <2>1. unfinished' \in BOOLEAN
    BY <1>4, Zenon DEF LeaveUnfinished
  <2> QED BY <1>4, <2>1 DEF LeaveUnfinished
<1>5. CASE CloseStart
  BY <1>5 DEF CloseStart
<1>6. CASE CloseLock
  BY <1>6 DEF CloseLock
<1>7. CASE CloseBorrowed
  BY <1>7 DEF CloseBorrowed
<1>8. CASE CloseCall
  BY <1>8 DEF CloseCall
<1>9. CASE CloseOk
  BY <1>9 DEF CloseOk
<1>10. CASE \E n \in {"idle", "gone"} : CloseBusy(n)
  BY <1>10 DEF CloseBusy
<1>11. CASE LenderCloses
  BY <1>11 DEF LenderCloses
<1> QED
  BY <1>1, <1>2, <1>3, <1>4, <1>5, <1>6, <1>7, <1>8, <1>9, <1>10, <1>11 DEF CloseSteps

\* The steps of one interrupting thread.
LEMMA InterrupterStep ==
    ASSUME HInv, NEW i \in Interrupter, Interrupt(i) \/ InterruptSteps(i)
    PROVE  HInv'
<1> USE ThreadAssumption, BoundAssumption DEF HInv, HTypeOK, LockHeld, CloseLocked, SharedTracks
<1>1. CASE Interrupt(i)
  BY <1>1 DEF Interrupt
<1>2. CASE InterruptLock(i)
  BY <1>2 DEF InterruptLock
<1>3. CASE InterruptNull(i)
  BY <1>3 DEF InterruptNull
<1>4. CASE InterruptCall(i)
  BY <1>4 DEF InterruptCall
<1>5. CASE InterruptReturns(i)
  BY <1>5 DEF InterruptReturns
<1> QED BY <1>1, <1>2, <1>3, <1>4, <1>5 DEF InterruptSteps

\* The inductive invariant holds in every reachable state, for any number of
\* threads and any bounds on the calls.
THEOREM HandleInvariance == HSpec => []HInv
<1>1. HInit => HInv
  BY InitHInv
<1>2. HInv /\ [HNext]_hvars => HInv'
  <2> SUFFICES ASSUME HInv, [HNext]_hvars PROVE HInv'
    OBVIOUS
  <2>1. CASE UNCHANGED hvars
    BY <2>1 DEF hvars, HInv, HTypeOK, LockHeld, CloseLocked, SharedTracks
  <2>2. CASE HNext
    BY <2>2, OwnerStep, InterrupterStep, Zenon DEF HNext
  <2> QED BY <2>1, <2>2
<1> QED BY <1>1, <1>2, PTL DEF HSpec

\* Every variable keeps its type.
THEOREM HandleTypeCorrect == HSpec => []HTypeOK
<1>1. HInv => HTypeOK
  BY DEF HInv
<1> QED BY <1>1, HandleInvariance, PTL

\* No thread is inside sqlite3_interrupt while the sqlite3 object is being
\* closed or is closed, whatever the number of handles and of attempts to close.
THEOREM InterruptSafe == HSpec => []NoInterruptOfClosed
<1>1. HInv => NoInterruptOfClosed
  BY ThreadAssumption DEF HInv, HTypeOK, LockHeld, CloseLocked, SharedTracks, NoInterruptOfClosed
<1> QED BY <1>1, HandleInvariance, PTL

\* The assertion in InnerConnection::close never fails.
THEOREM AssertionHolds == HSpec => []CloseAssertion
<1>1. HInv => CloseAssertion
  BY DEF HInv, SharedTracks, CloseAssertion
<1> QED BY <1>1, HandleInvariance, PTL

=============================================================================
