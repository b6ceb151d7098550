------------------------ MODULE FunctionCalls_proofs ------------------------
(***************************************************************************)
(* Aggregates and FunctionCalls are correct for any invocations,           *)
(* accumulators, faults and number of rows, and for any functions,         *)
(* arguments and auxiliary values.  IInv says who owns an accumulator: a   *)
(* context with a pointer owns one that was made and not dropped, alone,   *)
(* and that has counted exactly the rows SQLite has in the invocation; an  *)
(* accumulator in no context was dropped once.  FInv adds that the count   *)
(* of an Arc is the number of its owners, and that an entry for an         *)
(* argument that is not constant exists only in the call that made it.     *)
(***************************************************************************)
EXTENDS FunctionCalls, TLAPS

\* A context with a pointer was begun, and its accumulator is alive and right.
Holds(s) ==
    /\ mem[s] /\ begun[s]
    /\ pac[s] \in made
    /\ dropped[pac[s]] = 0
    /\ rows[pac[s]] = frame[s]

Owned ==
    /\ \A s \in Site : pac[s] # None => Holds(s)
    /\ \A s \in Site : pac[s] = None => frame[s] = 0 /\ ~begun[s]
    /\ \A s, t \in Site : pac[s] # None /\ pac[s] = pac[t] => s = t

\* An accumulator in no context was dropped; one not made yet is untouched.
Settled ==
    /\ \A a \in made : dropped[a] = 1 \/ (dropped[a] = 0 /\ \E s \in Site : pac[s] = a)
    /\ \A a \in Acc \ made : rows[a] = 0 /\ dropped[a] = 0
    /\ stmt = "idle" => \A s \in Site : ~mem[s]

IInv == TypeOK /\ Owned /\ Settled /\ GivenRight

-----------------------------------------------------------------------------
\* The invariant holds at first: no context and no accumulator exist.
LEMMA InitHolds == Init => IInv
  BY NoneAssumption, RowsAssumption
  DEF Init, IInv, TypeOK, Owned, Holds, Settled, GivenRight, Result

\* What value and finalize are given is right where the invariant holds.
LEMMA GivenIsRight ==
  ASSUME IInv, NEW s \in Site, Given(s)
  PROVE  out' \in [want : Result, got : Result] /\ GivenRight'
<1>1. Want(s) \in Result
  BY DEF Want, IInv, TypeOK, Result
<1>2. Yields(pac[s]) = Want(s)
  BY DEF Want, Yields, IInv, TypeOK, Owned, Holds
<1> QED BY <1>1, <1>2 DEF Given, GivenRight

\* The user's step on the accumulator of s, new or not, keeps the invariant.
\* It is stated for both ways in which call_boxed_step gets there.
LEMMA StepKeeps ==
  ASSUME IInv, NEW s \in Site, NEW a \in Acc, NEW o, UserStep(s, a, o),
         stmt = "running", frame[s] < MaxRows,
         mem' = [mem EXCEPT ![s] = TRUE],
         pac' = [pac EXCEPT ![s] = a],
         made' = made \cup {a},
         \/ pac[s] = None /\ a \notin made
         \/ pac[s] = a
  PROVE  IInv'
<1> USE DEF IInv
<1>a. a # None /\ None \notin Acc
  BY NoneAssumption
<1>b. \A t \in Site : t # s => pac[t] # a
  BY <1>a DEF Owned, Holds, TypeOK
<1>c. rows[a] = frame[s] /\ dropped[a] = 0
  BY <1>a DEF Owned, Holds, Settled, TypeOK
<1>1. TypeOK'
  BY RowsAssumption DEF UserStep, Reported, TypeOK
<1>2. Owned'
  <2>1. \A t \in Site : pac'[t] # None => Holds(t)'
    <3>1. Holds(s)'
      BY <1>a, <1>c DEF UserStep, TypeOK, Holds
    <3>2. ASSUME NEW t \in Site, t # s, pac'[t] # None PROVE Holds(t)'
      BY <3>2, <1>b DEF UserStep, TypeOK, Owned, Holds
    <3> QED BY <3>1, <3>2
  <2>2. \A t \in Site : pac'[t] = None => frame'[t] = 0 /\ ~begun'[t]
    BY <1>a DEF UserStep, TypeOK, Owned
  <2>3. \A t, u \in Site : pac'[t] # None /\ pac'[t] = pac'[u] => t = u
    BY <1>b DEF TypeOK, Owned
  <2> QED BY <2>1, <2>2, <2>3 DEF Owned
<1>3. Settled'
  <2>1. \A b \in made' : dropped'[b] = 1 \/ (dropped'[b] = 0 /\ \E t \in Site : pac'[t] = b)
    <3>1. pac'[s] = a /\ dropped'[a] = 0
      BY <1>c DEF UserStep, TypeOK
    <3>2. ASSUME NEW b \in made, b # a
          PROVE  dropped'[b] = 1 \/ (dropped'[b] = 0 /\ \E t \in Site : pac'[t] = b)
      <4>1. CASE dropped[b] = 1
        BY <4>1 DEF UserStep
      <4>2. CASE dropped[b] = 0 /\ \E t \in Site : pac[t] = b
        <5>1. PICK t \in Site : pac[t] = b
          BY <4>2
        <5>2. t # s
          BY <5>1, <3>2, <1>a, NoneAssumption DEF TypeOK
        <5> QED BY <5>1, <5>2, <4>2 DEF UserStep, TypeOK
      <4> QED BY <4>1, <4>2 DEF Settled
    <3> QED BY <3>1, <3>2
  <2>2. \A b \in Acc \ made' : rows'[b] = 0 /\ dropped'[b] = 0
    BY DEF UserStep, TypeOK, Settled
  <2>3. stmt' # "idle"
    BY DEF UserStep, Reported
  <2> QED BY <2>1, <2>2, <2>3 DEF Settled
<1>4. GivenRight'
  BY DEF UserStep, GivenRight
<1> QED BY <1>1, <1>2, <1>3, <1>4

\* The end of an invocation keeps the invariant: its accumulator goes.
LEMMA FinalKeeps ==
  ASSUME IInv, NEW s \in Site, NEW o, Final(s, o)
  PROVE  IInv'
<1> USE DEF IInv
<1>1. TypeOK'
  BY GivenIsRight, RowsAssumption DEF Final, Consumed, Answered, Reported, TypeOK
<1>2. Owned'
  BY DEF Final, Consumed, TypeOK, Owned, Holds
<1>3. Settled'
  <2>1. \A a \in made' : dropped'[a] = 1 \/ (dropped'[a] = 0 /\ \E t \in Site : pac'[t] = a)
    <3> SUFFICES ASSUME NEW a \in made
                 PROVE  dropped'[a] = 1 \/ (dropped'[a] = 0 /\ \E t \in Site : pac'[t] = a)
      BY DEF Final, Consumed
    <3>0. a \in Acc /\ a # None
      BY NoneAssumption DEF TypeOK
    <3>1. CASE pac[s] = a
      BY <3>0, <3>1 DEF Final, Consumed, TypeOK, Owned, Holds
    <3>2. CASE pac[s] # a
      <4>1. dropped'[a] = dropped[a]
        BY <3>0, <3>2 DEF Final, Consumed, TypeOK
      <4>2. \A t \in Site : pac[t] = a => pac'[t] = a
        BY <3>2 DEF Final, Consumed, TypeOK
      <4> QED BY <4>1, <4>2 DEF Settled
    <3> QED BY <3>1, <3>2
  <2>2. \A a \in Acc \ made' : rows'[a] = 0 /\ dropped'[a] = 0
    BY DEF Final, Consumed, TypeOK, Settled, Owned, Holds
  <2>3. stmt' # "idle"
    BY DEF Final, Answered, Reported
  <2> QED BY <2>1, <2>2, <2>3 DEF Settled
<1>4. GivenRight'
  BY GivenIsRight DEF Final
<1> QED BY <1>1, <1>2, <1>3, <1>4

\* Every step keeps the invariant.
LEMMA NextKeeps == IInv /\ [Next]_vars => IInv'
<1> SUFFICES ASSUME IInv, [Next]_vars PROVE IInv'
  OBVIOUS
<1> USE DEF IInv
<1>1. CASE Start \/ Reset
  BY <1>1 DEF Start, Reset, TypeOK, Owned, Holds, Settled, GivenRight
<1>2. CASE Done
  BY <1>2 DEF Done, TypeOK, Owned, Holds, Settled, GivenRight
<1>3. ASSUME NEW s \in Site, StepNoMem(s) \/ StepInitFails(s) PROVE IInv'
  <2>1. /\ mem' = [mem EXCEPT ![s] = TRUE]
        /\ stmt' = "halting"
        /\ UNCHANGED <<pac, frame, begun, made, rows, dropped, out>>
    BY <1>3 DEF StepNoMem, StepInitFails
  <2>2. TypeOK' /\ GivenRight'
    BY <2>1 DEF TypeOK, GivenRight
  <2>3. Owned'
    BY <2>1 DEF TypeOK, Owned, Holds
  <2>4. Settled'
    BY <2>1 DEF Settled
  <2> QED BY <2>2, <2>3, <2>4
<1>4. ASSUME NEW s \in Site, NEW a \in Acc, NEW o \in Outcome, StepFirst(s, a, o) PROVE IInv'
  BY <1>4, StepKeeps DEF StepFirst
<1>5. ASSUME NEW s \in Site, NEW o \in Outcome, StepNext(s, o) PROVE IInv'
  <2>1. pac[s] \in Acc /\ pac[s] \in made /\ mem[s]
    BY <1>5, NoneAssumption DEF StepNext, TypeOK, Owned, Holds
  <2>2. /\ mem' = [mem EXCEPT ![s] = TRUE]
        /\ pac' = [pac EXCEPT ![s] = pac[s]]
        /\ made' = made \cup {pac[s]}
    BY <1>5, <2>1 DEF StepNext, TypeOK
  <2> QED BY <1>5, <2>1, <2>2, StepKeeps DEF StepNext
<1>6. ASSUME NEW s \in Site, NEW o \in Outcome, Inverse(s, o) PROVE IInv'
  <2>0. pac[s] \in Acc /\ Holds(s)
    BY <1>6 DEF Inverse, Owned, Holds, TypeOK
  <2>1. TypeOK'
    BY <1>6, <2>0, RowsAssumption DEF Inverse, Reported, TypeOK, Holds
  <2>2. Owned'
    BY <1>6, <2>0 DEF Inverse, TypeOK, Owned, Holds
  <2>3. Settled' /\ GivenRight'
    BY <1>6, <2>0 DEF Inverse, Reported, TypeOK, Holds, Settled, GivenRight
  <2> QED BY <2>1, <2>2, <2>3
<1>7. ASSUME NEW s \in Site, NEW o \in Outcome, Value(s, o) PROVE IInv'
  BY <1>7, GivenIsRight DEF Value, Answered, Reported, TypeOK, Owned, Holds, Settled
<1>8. ASSUME NEW s \in Site, NEW o \in Outcome, Final(s, o) PROVE IInv'
  BY <1>8, FinalKeeps
<1>9. CASE UNCHANGED vars
  BY <1>9 DEF vars, TypeOK, Owned, Holds, Settled, GivenRight
<1> QED BY <1>1, <1>2, <1>3, <1>4, <1>5, <1>6, <1>7, <1>8, <1>9 DEF Next

\* Each context that has a pointer owns an accumulator alone, so the invariant
\* gives the property.
LEMMA OwnedOnce == IInv => AccOnce
<1> SUFFICES ASSUME IInv PROVE AccOnce
  OBVIOUS
<1> USE DEF IInv
<1>0. \A a \in made : a \in Acc /\ a # None
  BY NoneAssumption DEF TypeOK
<1>1. ASSUME NEW a \in made
      PROVE  \/ dropped[a] = 0 /\ \E s \in Site : {t \in Site : pac[t] = a} = {s}
             \/ dropped[a] = 1 /\ {t \in Site : pac[t] = a} = {}
  <2>1. CASE dropped[a] = 1
    BY <2>1, <1>0, <1>1 DEF Owned, Holds
  <2>2. CASE dropped[a] = 0 /\ \E s \in Site : pac[s] = a
    BY <2>2, <1>0, <1>1 DEF Owned
  <2> QED BY <1>1, <2>1, <2>2 DEF Settled
<1>2. stmt = "idle" => \A a \in made : dropped[a] = 1
  BY <1>0 DEF Settled, Owned, Holds
<1> QED BY <1>1, <1>2 DEF AccOnce

-----------------------------------------------------------------------------
(* Scalar calls and auxiliary data.                                        *)

InEntry(a) == \E x \in Arg : pAuxData[x] = a

\* Entries are different values, and each Arc counts its owners.
Counted ==
    /\ \A x \in Arg : pAuxData[x] # None => pAuxData[x] \in auxMade
    /\ \A x, y \in Arg : pAuxData[x] # None /\ pAuxData[x] = pAuxData[y] => x = y
    /\ \A a \in auxMade : count[a] = (IF InEntry(a) THEN 1 ELSE 0) + (IF a \in held THEN 1 ELSE 0)

\* When there are calls and entries, and that those of functions are fresh.
Fresh ==
    /\ call # None => stmt = (IF planning THEN "idle" ELSE "running")
    /\ call = None => ~planning
    /\ stmt = "idle" => \A x \in Arg : pAuxData[x] = None
    /\ \A x \in Arg : OpOf[x] \notin AggOp /\ pAuxData[x] # None =>
         /\ from[pAuxData[x]] = val[x]
         /\ x \in ConstMask \/ (call = OpOf[x] /\ isError)

FInv == IInv /\ FTypeOK /\ Counted /\ Fresh

\* The invariant holds at first: there are no calls and no entries.
LEMMA FInitHolds == FInit => FInv
<1> SUFFICES ASSUME FInit PROVE FInv
  OBVIOUS
<1>1. IInv
  BY InitHolds DEF FInit
<1>2. FTypeOK
  <2>1. TypeOK
    BY <1>1 DEF IInv
  <2>2. call \in Op \cup {None} /\ planning \in BOOLEAN /\ isError \in BOOLEAN
    BY DEF FInit
  <2>3. /\ val \in [Arg -> Val \cup {None}] /\ pAuxData \in [Arg -> Aux \cup {None}]
        /\ from \in [Aux -> Val \cup {None}] /\ count \in [Aux -> Int]
        /\ auxMade \subseteq Aux /\ held \subseteq auxMade
    BY DEF FInit
  <2> QED BY <2>1, <2>2, <2>3 DEF FTypeOK
<1>3. Counted
  BY DEF FInit, Counted
<1>4. Fresh
  BY DEF FInit, Fresh
<1> QED BY <1>1, <1>2, <1>3, <1>4 DEF FInv

\* Discarding entries keeps the counts right.
LEMMA DeleteKeeps ==
  ASSUME FInv, NEW X \in SUBSET Arg, DeleteAuxData(X), UNCHANGED <<auxMade, held>>
  PROVE  /\ Counted'
         /\ pAuxData' \in [Arg -> Aux \cup {None}] /\ count' \in [Aux -> Int]
         /\ \A x \in Arg : pAuxData'[x] = IF x \in X THEN None ELSE pAuxData[x]
<1> USE DEF FInv
<1>1. \A x \in Arg : pAuxData'[x] = IF x \in X THEN None ELSE pAuxData[x]
  BY DEF DeleteAuxData
<1>2. pAuxData' \in [Arg -> Aux \cup {None}] /\ count' \in [Aux -> Int]
  BY DEF DeleteAuxData, FTypeOK
<1>3. ASSUME NEW a \in auxMade
      PROVE  count'[a] = (IF InEntry(a)' THEN 1 ELSE 0) + (IF a \in held THEN 1 ELSE 0)
  <2>0. a \in Aux /\ a # None
    BY AuxAssumption DEF FTypeOK
  <2>1. CASE \E x \in X : pAuxData[x] = a
    <3>1. InEntry(a)
      BY <2>1 DEF InEntry
    <3>2. ~InEntry(a)'
      BY <2>0, <2>1, <1>1 DEF InEntry, Counted
    <3>3. count'[a] = count[a] - 1
      BY <2>0, <2>1 DEF DeleteAuxData
    <3> QED BY <3>1, <3>2, <3>3, <2>0 DEF Counted, FTypeOK
  <2>2. CASE ~ \E x \in X : pAuxData[x] = a
    <3>1. InEntry(a)' <=> InEntry(a)
      BY <2>0, <2>2, <1>1 DEF InEntry
    <3>2. count'[a] = count[a]
      BY <2>0, <2>2 DEF DeleteAuxData
    <3> QED BY <3>1, <3>2 DEF Counted
  <2> QED BY <2>1, <2>2
<1>4. Counted'
  BY <1>1, <1>3 DEF Counted
<1> QED BY <1>1, <1>2, <1>4

\* Nothing but the statement's state changes, to a state in which it does not begin.
LEMMA EndKeeps ==
  ASSUME IInv, UNCHANGED <<mem, pac, frame, begun, made, rows, dropped, out>>,
         stmt' \in {stmt, "halting", "abort"}
  PROVE  IInv'
  BY DEF IInv, TypeOK, Owned, Holds, Settled, GivenRight

\* What an evaluation of arguments leaves.
LEMMA EvaluatedValues ==
  ASSUME FTypeOK, NEW X \in SUBSET Arg, Evaluated(X)
  PROVE  val' \in [Arg -> Val \cup {None}] /\ \A x \in Arg \ X : val'[x] = val[x]
  BY DEF FTypeOK, Evaluated

LEMMA AggregateStepKeeps == FInv /\ AggregateStep => FInv'
<1> SUFFICES ASSUME FInv, AggregateStep PROVE FInv'
  OBVIOUS
<1> USE DEF FInv
<1>1. IInv'
  BY NextKeeps DEF AggregateStep
<1>0. UNCHANGED <<call, planning, isError, from, auxMade, held>> /\ call = None
  BY DEF AggregateStep
<1>2. CASE stmt = "idle"
  <2>1. Evaluated(ConstMask) /\ stmt' # "idle" /\ UNCHANGED <<pAuxData, count>>
    <3>1. stmt' # "idle"
      BY <1>2 DEF AggregateStep, Next, Start, Reset, Done, StepNoMem, StepInitFails, StepFirst,
                  StepNext, Inverse, Value, Final, UserStep, Answered, Reported, IInv, Settled
    <3> QED BY <3>1, <1>2 DEF AggregateStep
  <2>2. val' \in [Arg -> Val \cup {None}]
    BY <2>1, ArgAssumption, EvaluatedValues
  <2>3. FTypeOK'
    BY <1>0, <1>1, <2>1, <2>2 DEF FTypeOK, IInv
  <2>4. Counted'
    BY <1>0, <2>1 DEF Counted, InEntry
  <2>5. Fresh'
    BY <1>0, <1>2, <2>1 DEF Fresh
  <2> QED BY <1>1, <2>3, <2>4, <2>5
<1>3. CASE stmt # "idle" /\ stmt' = "idle"
  <2>1. Released(Arg) /\ DeleteAuxData(Arg)
    BY <1>3 DEF AggregateStep
  <2>2. val' \in [Arg -> Val \cup {None}]
    BY <2>1 DEF Released
  <2>3. FTypeOK' /\ Counted'
    BY <1>0, <1>1, <2>1, <2>2, DeleteKeeps DEF FTypeOK, IInv
  <2>4. \A x \in Arg : pAuxData'[x] = None
    BY <1>0, <2>1, DeleteKeeps
  <2>5. Fresh'
    BY <1>0, <2>4 DEF Fresh
  <2> QED BY <1>1, <2>3, <2>5
<1>4. CASE stmt # "idle" /\ stmt' # "idle"
  <2>1. UNCHANGED <<val, pAuxData, count>>
    BY <1>4 DEF AggregateStep
  <2> QED BY <1>0, <1>1, <1>4, <2>1 DEF FTypeOK, IInv, Counted, InEntry, Fresh
<1> QED BY <1>2, <1>3, <1>4

\* A call begins.
LEMMA CallKeeps == ASSUME FInv, NEW o \in Op, Call(o) \/ CallPlanning(o) PROVE FInv'
<1> USE DEF FInv
<1>0. UNCHANGED <<vars, isError, pAuxData, from, auxMade, count, held>> /\ call = None /\ call' = o
  BY DEF Call, CallPlanning
<1>1. IInv'
  BY <1>0, NextKeeps
<1>2. Counted'
  BY <1>0 DEF Counted, InEntry
<1>3. CASE Call(o)
  <2>1. Evaluated(ArgsOf(o) \ ConstMask) /\ stmt = "running" /\ planning' = planning
    BY <1>3 DEF Call
  <2>2. val' \in [Arg -> Val \cup {None}] /\ \A x \in Arg \ (ArgsOf(o) \ ConstMask) : val'[x] = val[x]
    BY <2>1, EvaluatedValues DEF ArgsOf
  <2>3. FTypeOK'
    BY <1>0, <1>1, <2>1, <2>2 DEF FTypeOK, IInv
  <2>4. Fresh'
    <3>1. ASSUME NEW x \in Arg, OpOf[x] \notin AggOp, pAuxData[x] # None
          PROVE  from[pAuxData[x]] = val'[x] /\ x \in ConstMask
      BY <3>1, <1>0, <2>2, OpAssumption, ArgAssumption DEF Fresh, ArgsOf
    <3>2. call' # None /\ stmt' = "running" /\ ~planning'
      BY <1>0, <2>1, OpAssumption DEF Fresh, vars
    <3> QED BY <1>0, <3>1, <3>2 DEF Fresh
  <2> QED BY <1>1, <1>2, <2>3, <2>4
<1>4. CASE CallPlanning(o)
  <2>1. Evaluated(ArgsOf(o)) /\ stmt = "idle" /\ planning' = TRUE
    BY <1>4 DEF CallPlanning
  <2>2. val' \in [Arg -> Val \cup {None}]
    BY <2>1, EvaluatedValues DEF ArgsOf
  <2>3. FTypeOK'
    BY <1>0, <1>1, <2>1, <2>2 DEF FTypeOK, IInv
  <2>4. Fresh'
    BY <1>0, <2>1, OpAssumption DEF Fresh, vars
  <2> QED BY <1>1, <1>2, <2>3, <2>4
<1> QED BY <1>3, <1>4

\* set_aux stores a value, or SQLite gives the box back at once.
LEMMA SetKeeps == ASSUME FInv, NEW x \in Arg, NEW a \in Aux, set_aux(x, a) PROVE FInv'
<1> USE DEF FInv
<1>0. /\ UNCHANGED <<vars, call, planning, val>>
      /\ call # None /\ OpOf[x] = call /\ a \notin auxMade
      /\ auxMade' = auxMade \cup {a} /\ held' = held \cup {a}
      /\ from' = [from EXCEPT ![a] = val[x]]
  BY DEF set_aux
<1>1. IInv'
  BY <1>0, NextKeeps
<1>a. a # None /\ ~InEntry(a)
  BY <1>0, AuxAssumption DEF InEntry, Counted
<1>b. \A b \in auxMade : b \in Aux /\ b # a /\ b # None
  BY <1>0, AuxAssumption DEF FTypeOK
<1>2. CASE /\ ~planning
           /\ pAuxData' = [pAuxData EXCEPT ![x] = a]
           /\ isError' = (isError \/ pAuxData[x] = None)
           /\ count' = [c \in Aux |-> IF c = a THEN 2
                                      ELSE IF c = pAuxData[x] THEN count[c] - 1 ELSE count[c]]
  <2>1. FTypeOK'
    BY <1>0, <1>1, <1>2 DEF FTypeOK, IInv
  <2>2. \A y \in Arg : pAuxData'[y] = IF y = x THEN a ELSE pAuxData[y]
    BY <1>2 DEF FTypeOK
  <2>3. ASSUME NEW b \in auxMade'
        PROVE  count'[b] = (IF InEntry(b)' THEN 1 ELSE 0) + (IF b \in held' THEN 1 ELSE 0)
    <3>1. CASE b = a
      BY <3>1, <1>0, <1>2, <2>2 DEF InEntry
    <3>2. CASE b # a
      <4>0. b \in auxMade /\ b \in Aux /\ (b \in held' <=> b \in held)
        BY <3>2, <2>3, <1>0, <1>b
      <4>1. CASE b = pAuxData[x]
        <5>1. InEntry(b) /\ ~InEntry(b)'
          BY <4>0, <4>1, <3>2, <2>2, <1>b DEF InEntry, Counted
        <5> QED BY <5>1, <4>0, <4>1, <3>2, <1>2 DEF Counted, FTypeOK
      <4>2. CASE b # pAuxData[x]
        <5>1. InEntry(b)' <=> InEntry(b)
          BY <4>2, <3>2, <2>2 DEF InEntry
        <5> QED BY <5>1, <4>0, <4>2, <3>2, <1>2 DEF Counted, FTypeOK
      <4> QED BY <4>1, <4>2
    <3> QED BY <3>1, <3>2
  <2>4. Counted'
    <3>1. \A y \in Arg : pAuxData'[y] # None => pAuxData'[y] \in auxMade'
      BY <2>2, <1>0 DEF Counted
    <3>2. \A y, z \in Arg : pAuxData'[y] # None /\ pAuxData'[y] = pAuxData'[z] => y = z
      BY <2>2, <1>a DEF Counted, InEntry
    <3> QED BY <2>3, <3>1, <3>2 DEF Counted
  <2>5. Fresh'
    <3>1. stmt' = "running"
      BY <1>0, <1>2 DEF Fresh, vars
    <3>2. ASSUME NEW y \in Arg, OpOf[y] \notin AggOp, pAuxData'[y] # None
          PROVE  from'[pAuxData'[y]] = val'[y] /\ (y \in ConstMask \/ (call' = OpOf[y] /\ isError'))
      <4>1. CASE y = x
        BY <4>1, <3>2, <2>2, <1>0, <1>2 DEF Fresh, FTypeOK
      <4>2. CASE y # x
        BY <4>2, <3>2, <2>2, <1>0, <1>2, <1>a DEF Fresh, FTypeOK, InEntry
      <4> QED BY <4>1, <4>2
    <3> QED BY <3>1, <3>2, <1>0, <1>2 DEF Fresh
  <2> QED BY <1>1, <2>1, <2>4, <2>5
<1>3. CASE count' = [count EXCEPT ![a] = 1] /\ UNCHANGED <<pAuxData, isError>>
  <2>1. FTypeOK'
    BY <1>0, <1>1, <1>3 DEF FTypeOK, IInv
  <2>2. Counted'
    BY <1>0, <1>3, <1>a, <1>b DEF Counted, FTypeOK, InEntry
  <2>3. Fresh'
    BY <1>0, <1>3, <1>a DEF Fresh, FTypeOK, InEntry, vars
  <2> QED BY <1>1, <2>1, <2>2, <2>3
<1> QED BY <1>2, <1>3 DEF set_aux

\* The user gets or drops an Arc.
LEMMA ArcKeeps == ASSUME FInv, (\E x \in Arg : get_aux(x)) \/ (\E a \in Aux : DropArc(a)) PROVE FInv'
<1> USE DEF FInv
<1>0. UNCHANGED <<vars, call, planning, isError, val, pAuxData, from, auxMade>>
  BY DEF get_aux, DropArc
<1>1. IInv'
  BY <1>0, NextKeeps
<1>2. Fresh'
  BY <1>0 DEF Fresh, vars
<1>3. ASSUME NEW x \in Arg, get_aux(x) PROVE FTypeOK' /\ Counted'
  <2>1. pAuxData[x] \in auxMade /\ pAuxData[x] \in Aux
    BY <1>3 DEF get_aux, Counted, FTypeOK
  <2> QED BY <1>0, <1>1, <1>3, <2>1 DEF get_aux, FTypeOK, IInv, Counted, InEntry
<1>4. ASSUME NEW a \in Aux, DropArc(a) PROVE FTypeOK' /\ Counted'
  BY <1>0, <1>1, <1>4 DEF DropArc, FTypeOK, IInv, Counted, InEntry
<1> QED BY <1>1, <1>2, <1>3, <1>4

\* A call ends.
LEMMA ReturnPreserves == ASSUME FInv, NEW o \in Outcome, Return(o) PROVE FInv'
<1> USE DEF FInv
<1>0. /\ call # None /\ call' = None /\ planning' = FALSE /\ isError' = FALSE
      /\ UNCHANGED <<mem, pac, frame, begun, made, rows, dropped, out, from, auxMade, held>>
  BY DEF Return
<1>1. stmt' \in {stmt, "halting", "abort"}
  BY DEF Return, Ends, Reported, Answered, Fresh
<1>a. stmt' = "idle" => stmt = "idle"
  BY <1>1
<1>2. IInv'
  BY <1>0, <1>1, EndKeeps
<1>3. /\ val' \in [Arg -> Val \cup {None}]
      /\ ~planning => \A x \in Arg \ (ArgsOf(call) \ ConstMask) : val'[x] = val[x]
  BY DEF Return, Released, FTypeOK, ArgsOf
<1>4. CASE call \notin AggOp /\ (isError \/ o # "ok")
  <2>0. DeleteAuxData(ArgsOf(call) \ ConstMask) /\ ArgsOf(call) \ ConstMask \in SUBSET Arg
    BY <1>4 DEF Return, ArgsOf
  <2>1. /\ Counted'
        /\ pAuxData' \in [Arg -> Aux \cup {None}] /\ count' \in [Aux -> Int]
        /\ \A x \in Arg : pAuxData'[x] = IF x \in ArgsOf(call) \ ConstMask THEN None ELSE pAuxData[x]
    BY <1>0, <2>0, DeleteKeeps
  <2>2. FTypeOK'
    BY <1>0, <1>2, <1>3, <2>1 DEF FTypeOK, IInv
  <2>3. Fresh'
    BY <1>0, <1>a, <1>3, <2>1 DEF Fresh, ArgsOf
  <2> QED BY <1>2, <2>1, <2>2, <2>3
<1>5. CASE ~(call \notin AggOp /\ (isError \/ o # "ok"))
  <2>1. UNCHANGED <<pAuxData, count>>
    BY <1>5 DEF Return
  <2>2. FTypeOK'
    BY <1>0, <1>2, <1>3, <2>1 DEF FTypeOK, IInv
  <2>3. Counted'
    BY <1>0, <2>1 DEF Counted, InEntry
  <2>4. Fresh'
    BY <1>0, <1>a, <1>3, <1>5, <2>1, ArgAssumption DEF Fresh, ArgsOf
  <2> QED BY <1>2, <2>2, <2>3, <2>4
<1> QED BY <1>4, <1>5

\* Every step keeps the invariant.
LEMMA FNextKeeps == FInv /\ [FNext]_allVars => FInv'
<1> SUFFICES ASSUME FInv, [FNext]_allVars PROVE FInv'
  OBVIOUS
<1>1. CASE AggregateStep
  BY <1>1, AggregateStepKeeps
<1>2. ASSUME NEW o \in Op, Call(o) \/ CallPlanning(o) PROVE FInv'
  BY <1>2, CallKeeps
<1>3. ASSUME NEW x \in Arg, NEW a \in Aux, set_aux(x, a) \/ get_or_create_aux(x, a) PROVE FInv'
  BY <1>3, SetKeeps, ArcKeeps DEF get_or_create_aux
<1>4. ASSUME NEW a \in Aux, DropArc(a) PROVE FInv'
  BY <1>4, ArcKeeps
<1>5. ASSUME NEW o \in Outcome, Return(o) PROVE FInv'
  BY <1>5, ReturnPreserves
<1>6. CASE UNCHANGED allVars
  <2>1. UNCHANGED vars /\ UNCHANGED aux
    BY <1>6 DEF allVars
  <2>2. IInv'
    BY <2>1, NextKeeps DEF FInv
  <2> QED BY <2>1, <2>2 DEF FInv, aux, vars, FTypeOK, IInv, Counted, InEntry, Fresh
<1> QED BY <1>1, <1>2, <1>3, <1>4, <1>5, <1>6 DEF FNext

-----------------------------------------------------------------------------
\* The invariant holds in every reachable state.
THEOREM Invariance == FSpec => []FInv
  BY FInitHolds, FNextKeeps, PTL DEF FSpec

\* The calls of functions and aggregates keep every variable in its type; an
\* accumulator never counts below zero.
THEOREM TypeCorrect == FSpec => []FTypeOK
<1>1. FInv => FTypeOK
  BY DEF FInv
<1> QED BY Invariance, <1>1, PTL

\* No accumulator leaks or is dropped twice, for any number of invocations and
\* whatever the user's code does in a call.
THEOREM AccumulatorsOnce == FSpec => []AccOnce
<1>1. FInv => AccOnce
  BY OwnedOnce DEF FInv
<1> QED BY Invariance, <1>1, PTL

\* call_boxed_inverse never meets a null pointer.
THEOREM InverseSafe == FSpec => []NoNullDeref
<1>1. FInv => NoNullDeref
  BY DEF FInv, IInv, NoNullDeref, Owned, TypeOK
<1> QED BY Invariance, <1>1, PTL

\* value and finalize are given the accumulator of their rows, or None if step
\* was never called.
THEOREM GivenCorrect == FSpec => []GivenRight
<1>1. FInv => GivenRight
  BY DEF FInv, IInv
<1> QED BY Invariance, <1>1, PTL

\* A scalar function never gets auxiliary data of another row or execution.
THEOREM AuxiliaryFresh == FSpec => []AuxFresh
<1>1. FInv => AuxFresh
  BY DEF FInv, Fresh, AuxFresh, ArgsOf
<1> QED BY Invariance, <1>1, PTL

\* Auxiliary data lives exactly as long as SQLite or the user refers to it.
THEOREM AuxiliaryLive == FSpec => []AuxLive
<1>1. FInv => AuxLive
  BY DEF FInv, Counted, InEntry, Fresh, AuxLive
<1> QED BY Invariance, <1>1, PTL

=============================================================================
