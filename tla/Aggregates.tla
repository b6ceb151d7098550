----------------------------- MODULE Aggregates -----------------------------
(***************************************************************************)
(* The calls of user-defined aggregate and window functions (functions.rs):*)
(* call_boxed_step, call_boxed_inverse, call_boxed_value, call_boxed_final.*)
(* SQLite gives each invocation a few bytes of context memory, in which    *)
(* rusqlite keeps a pointer to a boxed accumulator that the user's init    *)
(* makes.  User code may fail or panic in each call; SQLite then gives the *)
(* statement up and calls xFinal where there still is context memory.      *)
(***************************************************************************)
EXTENDS Integers, FiniteSets

CONSTANTS
    Site,      \* invocations of functions in one statement
    Acc,       \* boxed accumulators; each is made once
    None,      \* no accumulator: a null pointer, Option::None
    Fault,     \* what can go wrong: a subset of AllFaults
    MaxRows    \* bound on the rows in an invocation

\* User code returns an error or panics; no memory for a context; the user's
\* to_sql panics, which nothing catches.
AllFaults == {"err", "panic", "nomem", "to_sql"}

ASSUME FaultAssumption == Fault \subseteq AllFaults
ASSUME NoneAssumption == None \notin Acc
ASSUME RowsAssumption == MaxRows \in Nat

VARIABLES
    stmt,      \* "idle", "running", "halting" (failed or reset), "abort" (process is gone)
    mem,       \* the invocation has a context (MEM_Agg), for which xFinal is due
    pac,       \* the pointer in it
    frame,     \* rows SQLite has in the invocation's group or window
    begun,     \* some row was passed to step since the invocation began
    made,      \* accumulators made so far
    rows,      \* rows an accumulator has counted
    dropped,   \* how often an accumulator was dropped
    out        \* what value or finalize should have been given last, and what it was given

vars == <<stmt, mem, pac, frame, begun, made, rows, dropped, out>>

\* What value and finalize are given: the rows the accumulator has counted.
Result == Nat \cup {None}

TypeOK ==
    /\ stmt \in {"idle", "running", "halting", "abort"}
    /\ mem \in [Site -> BOOLEAN]
    /\ pac \in [Site -> Acc \cup {None}]
    /\ frame \in [Site -> 0..MaxRows]
    /\ begun \in [Site -> BOOLEAN]
    /\ made \subseteq Acc
    /\ rows \in [Acc -> Nat]
    /\ dropped \in [Acc -> Nat]
    /\ out \in [want : Result, got : Result]

Init ==
    /\ stmt = "idle"
    /\ mem = [s \in Site |-> FALSE]
    /\ pac = [s \in Site |-> None]
    /\ frame = [s \in Site |-> 0]
    /\ begun = [s \in Site |-> FALSE]
    /\ made = {}
    /\ rows = [a \in Acc |-> 0]
    /\ dropped = [a \in Acc |-> 0]
    /\ out = [want |-> None, got |-> None]

-----------------------------------------------------------------------------
(* SQLite and user code.                                                   *)

\* How a call of user code may end; catch_unwind makes an error of a panic.
Outcome == {"ok"} \cup (Fault \cap {"err", "panic"})

\* report_error: the statement is given up.
Reported(o) == stmt' = IF o = "ok" THEN stmt ELSE "halting"

\* A statement begins.
Start ==
    /\ stmt = "idle"
    /\ stmt' = "running"
    /\ UNCHANGED <<mem, pac, frame, begun, made, rows, dropped, out>>

\* The application resets or finalizes the statement before its end.
Reset ==
    /\ stmt = "running"
    /\ stmt' = "halting"
    /\ UNCHANGED <<mem, pac, frame, begun, made, rows, dropped, out>>

\* No invocation is left.
Done ==
    /\ stmt \in {"running", "halting"}
    /\ \A s \in Site : ~mem[s]
    /\ stmt' = "idle"
    /\ UNCHANGED <<mem, pac, frame, begun, made, rows, dropped, out>>

-----------------------------------------------------------------------------
(* xStep.                                                                  *)

\* sqlite3_aggregate_context returns null: a context without memory.
StepNoMem(s) ==
    /\ stmt = "running" /\ "nomem" \in Fault /\ ~mem[s]
    /\ stmt' = "halting"
    /\ mem' = [mem EXCEPT ![s] = TRUE]
    /\ UNCHANGED <<pac, frame, begun, made, rows, dropped, out>>

\* Mutation of StepInitFails: the error of init is not reported.
StepInitFailsQuietly(s) ==
    /\ stmt = "running" /\ frame[s] < MaxRows /\ pac[s] = None
    /\ Outcome # {"ok"}
    /\ mem' = [mem EXCEPT ![s] = TRUE]
    /\ frame' = [frame EXCEPT ![s] = @ + 1]
    /\ begun' = [begun EXCEPT ![s] = TRUE]
    /\ UNCHANGED <<stmt, pac, made, rows, dropped, out>>

\* init returns an error or panics: the memory exists, its pointer is null.
StepInitFails(s) ==
    /\ stmt = "running" /\ frame[s] < MaxRows /\ pac[s] = None
    /\ Outcome # {"ok"}
    /\ mem' = [mem EXCEPT ![s] = TRUE]
    /\ stmt' = "halting"
    /\ UNCHANGED <<pac, frame, begun, made, rows, dropped, out>>

\* The user's step on accumulator a.  SQLite counts the row if it went well.
UserStep(s, a, o) ==
    /\ Reported(o)
    /\ begun' = [begun EXCEPT ![s] = TRUE]
    /\ frame' = IF o = "ok" THEN [frame EXCEPT ![s] = @ + 1] ELSE frame
    /\ rows' = IF o = "ok" THEN [rows EXCEPT ![a] = @ + 1] ELSE rows
    /\ UNCHANGED <<dropped, out>>

\* Mutation of StepFirst: the box goes to the context after the user's step.
StepFirstLate(s, a, o) ==
    /\ stmt = "running" /\ frame[s] < MaxRows /\ pac[s] = None
    /\ a \notin made
    /\ mem' = [mem EXCEPT ![s] = TRUE]
    /\ pac' = IF o = "ok" THEN [pac EXCEPT ![s] = a] ELSE pac
    /\ made' = made \cup {a}
    /\ UserStep(s, a, o)

\* The pointer is null: init makes an accumulator, which is boxed and stored
\* before step is called.
StepFirst(s, a, o) ==
    /\ stmt = "running" /\ frame[s] < MaxRows /\ pac[s] = None
    /\ a \notin made
    /\ mem' = [mem EXCEPT ![s] = TRUE]
    /\ pac' = [pac EXCEPT ![s] = a]
    /\ made' = made \cup {a}
    /\ UserStep(s, a, o)

StepNext(s, o) ==
    /\ stmt = "running" /\ frame[s] < MaxRows /\ pac[s] # None
    /\ UserStep(s, pac[s], o)
    /\ UNCHANGED <<mem, pac, made>>

-----------------------------------------------------------------------------
(* xInverse and xValue, for window functions.                              *)

\* A row leaves the window.  The pointer is used without a test for null.
Inverse(s, o) ==
    /\ stmt = "running" /\ frame[s] > 0
    /\ Reported(o)
    /\ frame' = IF o = "ok" THEN [frame EXCEPT ![s] = @ - 1] ELSE frame
    /\ rows' = IF o = "ok" THEN [rows EXCEPT ![pac[s]] = @ - 1] ELSE rows
    /\ UNCHANGED <<mem, pac, begun, made, dropped, out>>

\* What the rows of s call for, and what the pointer in the context gives.
Want(s) == IF begun[s] THEN frame[s] ELSE None
Yields(a) == IF a = None THEN None ELSE rows[a]

\* The user's value or finalize is called.
Given(s) == out' = [want |-> Want(s), got |-> Yields(pac[s])]

\* sql_result: an error is reported; the conversion of an Ok value is not under
\* catch_unwind, so a panic in it ends the process.
Answered(o) ==
    \/ Reported(o)
    \/ o = "ok" /\ "to_sql" \in Fault /\ stmt' = "abort"

\* Mutation of Value: value consumes the accumulator, as finalize does.
ValueConsumes(s, o) ==
    /\ stmt = "running"
    /\ Given(s) /\ Answered(o)
    /\ pac' = [pac EXCEPT ![s] = None]
    /\ dropped' = IF pac[s] = None THEN dropped ELSE [dropped EXCEPT ![pac[s]] = @ + 1]
    /\ UNCHANGED <<mem, frame, begun, made, rows>>

\* There may be no context, or a null pointer in it.
Value(s, o) ==
    /\ stmt = "running"
    /\ Given(s) /\ Answered(o)
    /\ UNCHANGED <<mem, pac, frame, begun, made, rows, dropped>>

-----------------------------------------------------------------------------
(* xFinal.                                                                 *)

\* The box is taken back, finalize consumes it whatever it returns, and SQLite
\* frees the context memory.
Consumed(s) ==
    /\ dropped' = IF pac[s] = None THEN dropped ELSE [dropped EXCEPT ![pac[s]] = @ + 1]
    /\ mem' = [mem EXCEPT ![s] = FALSE]
    /\ pac' = [pac EXCEPT ![s] = None]
    /\ frame' = [frame EXCEPT ![s] = 0]
    /\ begun' = [begun EXCEPT ![s] = FALSE]
    /\ UNCHANGED <<made, rows>>

\* Final: a group or partition ends, perhaps without a row, or the statement was
\* given up and the context is still there.
Final(s, o) ==
    /\ stmt = "running" \/ (stmt = "halting" /\ mem[s])
    /\ Given(s) /\ Answered(o)
    /\ Consumed(s)

-----------------------------------------------------------------------------
Next ==
    \/ Start \/ Reset \/ Done
    \/ \E s \in Site : StepNoMem(s) \/ StepInitFails(s)
    \/ \E s \in Site, a \in Acc, o \in Outcome : StepFirst(s, a, o)
    \/ \E s \in Site, o \in Outcome :
         StepNext(s, o) \/ Inverse(s, o) \/ Value(s, o) \/ Final(s, o)

Spec == Init /\ [][Next]_vars

-----------------------------------------------------------------------------
(* Properties.                                                             *)

\* Every accumulator that init made is owned by one context until it is handed
\* to finalize, and dropped once: none leaks and none is freed twice, whatever
\* fails or panics in step, inverse, value or finalize (call_boxed_step stores
\* the box before it calls step; call_boxed_final takes it back).
AccOnce ==
    /\ \A a \in made : LET owners == {s \in Site : pac[s] = a} IN
         \/ dropped[a] = 0 /\ \E s \in Site : owners = {s}
         \/ dropped[a] = 1 /\ owners = {}
    /\ stmt = "idle" => \A a \in made : dropped[a] = 1

\* Where a window may lose a row, the context holds an accumulator:
\* call_boxed_inverse dereferences the pointer without looking.
NoNullDeref == stmt = "running" => \A s \in Site : frame[s] > 0 => pac[s] \in Acc

\* value and finalize are given the accumulator that has seen the rows of the
\* group or window, and None if step was never called (Aggregate::finalize:
\* "the same A as was created by init and given to step").
GivenRight == out.got = out.want

=============================================================================
