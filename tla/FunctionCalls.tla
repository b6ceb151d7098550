--------------------------- MODULE FunctionCalls ----------------------------
(***************************************************************************)
(* Calls of scalar functions and the auxiliary data of their arguments     *)
(* (functions.rs), in the statement whose aggregates are those of          *)
(* Aggregates, which this module extends.  set_aux puts the value into an  *)
(* Arc, gives SQLite a box with one reference and the user another.        *)
(* SQLite keeps the box per call in the program and argument, and discards *)
(* it after the call unless the argument is a constant.  Triggers, which   *)
(* have a list of boxes of their own, are left out.                        *)
(***************************************************************************)
EXTENDS Aggregates

CONSTANTS
    Op,        \* OP_Function and OP_AggStep instructions of the statement
    AggOp,     \* those that call a step
    Arg,       \* their arguments
    OpOf,      \* the instruction of an argument
    ConstMask, \* the arguments of functions that are constant while the statement runs
    Val,       \* values of arguments
    Aux        \* values that become auxiliary data; each is made once

ASSUME OpAssumption == AggOp \subseteq Op /\ None \notin Op
ASSUME ArgAssumption == OpOf \in [Arg -> Op] /\ ConstMask \subseteq {x \in Arg : OpOf[x] \notin AggOp}
ASSUME AuxAssumption == None \notin Aux /\ Val # {}

VARIABLES
    call,      \* the instruction whose function runs, or None
    planning,  \* it runs while the statement is being prepared (ctx.pVdbe is null)
    isError,   \* sqlite3_context.isError is -1: an entry was made in this call
    val,       \* values of the arguments, None: not evaluated
    pAuxData,  \* the box SQLite keeps for an argument
    from,      \* the value of the argument that an auxiliary value was made from
    auxMade,   \* auxiliary values made so far
    count,     \* strong count of their Arc
    held       \* those of which the user has an Arc

aux == <<call, planning, isError, val, pAuxData, from, auxMade, count, held>>
allVars == <<vars, aux>>

FTypeOK ==
    /\ TypeOK
    /\ call \in Op \cup {None}
    /\ planning \in BOOLEAN /\ isError \in BOOLEAN
    /\ val \in [Arg -> Val \cup {None}]
    /\ pAuxData \in [Arg -> Aux \cup {None}]
    /\ from \in [Aux -> Val \cup {None}]
    /\ auxMade \subseteq Aux /\ held \subseteq auxMade
    /\ count \in [Aux -> Int]

FInit ==
    /\ Init
    /\ call = None /\ planning = FALSE /\ isError = FALSE
    /\ val = [x \in Arg |-> None]
    /\ pAuxData = [x \in Arg |-> None]
    /\ from = [a \in Aux |-> None]
    /\ auxMade = {} /\ held = {}
    /\ count = [a \in Aux |-> 0]

ArgsOf(o) == {x \in Arg : OpOf[x] = o}

\* The arguments in X are evaluated, or no longer have a value.
Evaluated(X) ==
    \E v \in [X -> Val] : val' = [x \in Arg |-> IF x \in X THEN v[x] ELSE val[x]]
Released(X) == val' = [x \in Arg |-> IF x \in X THEN None ELSE val[x]]

-----------------------------------------------------------------------------
\* sqlite3VdbeDeleteAuxData: the boxes of the arguments in X are freed, and with
\* each the reference in it.
DeleteAuxData(X) ==
    /\ pAuxData' = [x \in Arg |-> IF x \in X THEN None ELSE pAuxData[x]]
    /\ count' = [a \in Aux |-> IF \E x \in X : pAuxData[x] = a THEN count[a] - 1 ELSE count[a]]

\* A step of Aggregates, outside of the calls below.  When a statement begins its
\* constants, which its parameters are part of, get their values; when it ends,
\* SQLite finalizes the aggregates that are left and then discards all auxiliary data.
AggregateStep ==
    /\ call = None
    /\ Next
    /\ stmt = "idle" => Evaluated(ConstMask)
    /\ stmt # "idle" => IF stmt' = "idle" THEN Released(Arg) ELSE val' = val
    /\ IF stmt' = "idle" THEN DeleteAuxData(Arg) ELSE UNCHANGED <<pAuxData, count>>
    /\ UNCHANGED <<call, planning, isError, from, auxMade, held>>

\* The function of o is called for a row.
Call(o) ==
    /\ stmt = "running" /\ call = None
    /\ call' = o
    /\ Evaluated(ArgsOf(o) \ ConstMask)
    /\ UNCHANGED <<vars, planning, isError, pAuxData, from, auxMade, count, held>>

\* valueFromFunction: a deterministic function of constants is called by the
\* planner, in a context without a statement.
CallPlanning(o) ==
    /\ stmt = "idle" /\ call = None
    /\ o \notin AggOp /\ ArgsOf(o) \subseteq ConstMask
    /\ call' = o /\ planning' = TRUE
    /\ Evaluated(ArgsOf(o))
    /\ UNCHANGED <<vars, isError, pAuxData, from, auxMade, count, held>>

\* Mutation of set_aux: the Arc that is returned is not a clone of the boxed one.
set_auxUnshared(x, a) ==
    LET old == pAuxData[x] IN
    /\ call # None /\ OpOf[x] = call
    /\ a \notin auxMade
    /\ auxMade' = auxMade \cup {a} /\ held' = held \cup {a}
    /\ from' = [from EXCEPT ![a] = val[x]]
    /\ ~planning
    /\ pAuxData' = [pAuxData EXCEPT ![x] = a]
    /\ isError' = (isError \/ old = None)
    /\ count' = [c \in Aux |-> IF c = a THEN 1 ELSE IF c = old THEN count[c] - 1 ELSE count[c]]
    /\ UNCHANGED <<vars, call, planning, val>>

\* Context::set_aux with a value made from the argument.  sqlite3_set_auxdata frees
\* the box that it replaces, or the new one if it cannot keep it: when planning, and
\* when there is no memory for a new entry.
set_aux(x, a) ==
    LET old == pAuxData[x] IN
    /\ call # None /\ OpOf[x] = call
    /\ a \notin auxMade
    /\ auxMade' = auxMade \cup {a} /\ held' = held \cup {a}
    /\ from' = [from EXCEPT ![a] = val[x]]
    /\ \/ /\ ~planning
          /\ pAuxData' = [pAuxData EXCEPT ![x] = a]
          /\ isError' = (isError \/ old = None)
          /\ count' = [c \in Aux |-> IF c = a THEN 2 ELSE IF c = old THEN count[c] - 1 ELSE count[c]]
       \/ /\ planning \/ ("nomem" \in Fault /\ old = None)
          /\ count' = [count EXCEPT ![a] = 1]
          /\ UNCHANGED <<pAuxData, isError>>
    /\ UNCHANGED <<vars, call, planning, val>>

\* Context::get_aux finds an entry.  A clone that is dropped again, because the user
\* has one or the type is wrong, changes nothing.
get_aux(x) ==
    LET a == pAuxData[x] IN
    /\ call # None /\ OpOf[x] = call
    /\ ~planning /\ a # None /\ a \notin held
    /\ held' = held \cup {a}
    /\ count' = [count EXCEPT ![a] = @ + 1]
    /\ UNCHANGED <<vars, call, planning, isError, val, pAuxData, from, auxMade>>

\* Context::get_or_create_aux.  If func fails nothing changes; if it uses the context
\* itself, that is a step before this one.
get_or_create_aux(x, a) ==
    IF planning \/ pAuxData[x] = None THEN set_aux(x, a) ELSE get_aux(x)

\* The user drops an Arc, during the call or at any time later.
DropArc(a) ==
    /\ stmt # "abort" /\ a \in held
    /\ held' = held \ {a}
    /\ count' = [count EXCEPT ![a] = @ - 1]
    /\ UNCHANGED <<vars, call, planning, isError, val, pAuxData, from, auxMade>>

\* How a call ends.  A step returns no value, and the planner runs no statement.
Ends(o) ==
    \/ /\ planning
       /\ stmt' = "idle" \/ (o = "ok" /\ "to_sql" \in Fault /\ stmt' = "abort")
    \/ ~planning /\ (IF call \in AggOp THEN Reported(o) ELSE Answered(o))

\* Mutation of Return: the function's boxes are only discarded after an error.
ReturnKeeps(o) ==
    /\ call # None
    /\ Ends(o)
    /\ IF call \notin AggOp /\ o # "ok"
       THEN DeleteAuxData(ArgsOf(call) \ ConstMask)
       ELSE UNCHANGED <<pAuxData, count>>
    /\ Released(IF planning THEN ArgsOf(call) ELSE ArgsOf(call) \ ConstMask)
    /\ call' = None /\ planning' = FALSE /\ isError' = FALSE
    /\ UNCHANGED <<mem, pac, frame, begun, made, rows, dropped, out>>
    /\ UNCHANGED <<from, auxMade, held>>

\* call_boxed_closure returns: OP_Function discards the boxes of arguments that are
\* not constant if the call made an entry or failed, OP_AggStep none.
Return(o) ==
    /\ call # None
    /\ Ends(o)
    /\ IF call \notin AggOp /\ (isError \/ o # "ok")
       THEN DeleteAuxData(ArgsOf(call) \ ConstMask)
       ELSE UNCHANGED <<pAuxData, count>>
    /\ Released(IF planning THEN ArgsOf(call) ELSE ArgsOf(call) \ ConstMask)
    /\ call' = None /\ planning' = FALSE /\ isError' = FALSE
    /\ UNCHANGED <<mem, pac, frame, begun, made, rows, dropped, out>>
    /\ UNCHANGED <<from, auxMade, held>>

-----------------------------------------------------------------------------
FNext ==
    \/ AggregateStep
    \/ \E o \in Op : Call(o) \/ CallPlanning(o)
    \/ \E x \in Arg, a \in Aux : set_aux(x, a) \/ get_or_create_aux(x, a)
    \/ \E a \in Aux : DropArc(a)
    \/ \E o \in Outcome : Return(o)

FSpec == FInit /\ [][FNext]_allVars

-----------------------------------------------------------------------------
(* Properties.                                                             *)

\* What get_aux and get_or_create_aux give a scalar function was made from the value
\* its argument has in this call, not from that of an earlier row or of an earlier
\* execution with other parameters.
AuxFresh ==
    call # None /\ call \notin AggOp =>
        \A x \in ArgsOf(call) : pAuxData[x] # None => from[pAuxData[x]] = val[x]

\* An auxiliary value lives as long as SQLite has its box or the user an Arc, which
\* may outlast the box from the start, and no longer; none is left when the
\* statement ends.
AuxLive ==
    /\ \A a \in auxMade : count[a] > 0 <=> a \in held \/ \E x \in Arg : pAuxData[x] = a
    /\ stmt = "idle" => \A x \in Arg : pAuxData[x] = None

=============================================================================
