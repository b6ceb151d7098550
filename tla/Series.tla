------------------------------- MODULE Series -------------------------------
(***************************************************************************)
(* The generate_series virtual table (vtab/series.rs): the plan made by    *)
(* best_index, the cursor's filter, eof, column and next as SQLite calls   *)
(* them, in i64 arithmetic that wraps around as it does in release builds. *)
(***************************************************************************)
EXTENDS Integers, Sequences, FiniteSets

CONSTANTS
    I64Max,        \* i64::MAX
    Value, Step,   \* values of the constraints to try
    Unbounded,     \* the stop of a series without one, 0xffff_ffff in the code
    MaxRows        \* bound on the rows that are read

ASSUME SeriesAssumption ==
    /\ I64Max \in Nat \ {0} /\ Unbounded \in 0..I64Max /\ MaxRows \in Nat
    /\ Value \subseteq (-I64Max - 1)..I64Max /\ Step \subseteq (-I64Max - 1)..I64Max

I64 == (-I64Max - 1)..I64Max

AsI64(x) == ((x + I64Max + 1) % (2 * (I64Max + 1))) - (I64Max + 1)
Abs(x) == IF x < 0 THEN -x ELSE x

\* Rust's %: the sign of the dividend.
Rem(x, y) == IF x < 0 THEN -(Abs(x) % y) ELSE x % y

\* What a query says about a column: nothing that is an equality, an equality SQLite
\* cannot use in this plan, with NULL, or with a value.
Constraint(values) ==
    {[c |-> k, v |-> 0] : k \in {"absent", "unusable", "null"}} \cup {[c |-> "eq", v |-> v] : v \in values}

VARIABLES
    in,        \* the query: constraints on start, stop, step, and the ORDER BY
    pc,        \* the next call: "best_index", "filter", "scan"; "done", "no plan"
    idx_num,   \* query plan flags
    consumed,  \* order_by_consumed
    cursor,    \* SeriesTabCursor
    emitted    \* the values SQLite has read

vars == <<in, pc, idx_num, consumed, cursor, emitted>>

Query == [start : Constraint(Value), stop : Constraint(Value), step : Constraint(Step),
          order : {"none", "value asc", "value desc", "other"}]
Flag == {"START", "STOP", "STEP", "ASC", "DESC"}

TypeOK ==
    /\ in \in Query
    /\ pc \in {"best_index", "filter", "scan", "done", "no plan"}
    /\ idx_num \in SUBSET Flag /\ consumed \in BOOLEAN
    /\ cursor \in [is_desc : BOOLEAN, value : I64, min_value : I64, max_value : I64, step : I64]
    /\ emitted \in Seq(I64) /\ Len(emitted) <= MaxRows

Init ==
    /\ in \in Query
    /\ pc = "best_index" /\ idx_num = {} /\ consumed = FALSE
    /\ cursor = [is_desc |-> FALSE, value |-> 0, min_value |-> 0, max_value |-> 0, step |-> 0]
    /\ emitted = <<>>

-----------------------------------------------------------------------------
Given(k) == k.c \in {"eq", "null"}

\* The flags of the constraints that are passed on to filter.
Bounds ==
    (IF Given(in.start) THEN {"START"} ELSE {})
    \cup (IF Given(in.stop) THEN {"STOP"} ELSE {})
    \cup (IF Given(in.step) THEN {"STEP"} ELSE {})

\* Without a usable plan SQLite tries another one.
best_index ==
    /\ pc = "best_index"
    /\ \/ /\ \E k \in {in.start, in.stop, in.step} : k.c = "unusable"
          /\ pc' = "no plan"
          /\ UNCHANGED <<idx_num, consumed>>
       \/ /\ \A k \in {in.start, in.stop, in.step} : k.c # "unusable"
          /\ consumed' = ({"START", "STOP"} \subseteq Bounds /\ in.order \in {"value asc", "value desc"})
          /\ idx_num' = Bounds \cup
                (IF ~consumed' THEN {} ELSE IF in.order = "value desc" THEN {"DESC"} ELSE {"ASC"})
          /\ pc' = "filter"
    /\ UNCHANGED <<in, cursor, emitted>>

\* Mutation of IsDesc: a negative step overrides the order that SQLite asked for.
IsDescByStep == "DESC" \in idx_num \/ ("STEP" \in idx_num /\ in.step.v < 0)

\* Whether the series runs down: asked for, or a negative step not sorted upwards.
IsDesc == "DESC" \in idx_num \/ ("STEP" \in idx_num /\ in.step.v < 0 /\ "ASC" \notin idx_num)

\* Mutation of StepOf: a step of zero is kept.
StepOfZero == IF "STEP" \in idx_num THEN AsI64(Abs(in.step.v)) ELSE 1

\* The absolute value; zero and NULL count as one.
StepOf == IF "STEP" \notin idx_num \/ in.step.v = 0 THEN 1 ELSE AsI64(Abs(in.step.v))

\* Mutation of FirstDown: a descending series begins at its stop.
FirstDownAtStop(min, max, step) == max

\* The largest value of the series, counted from the start.
FirstDown(min, max, step) ==
    IF step > 0 THEN AsI64(max - Rem(AsI64(max - min), step)) ELSE max

\* A NULL among the arguments makes the range empty.
filter ==
    /\ pc = "filter"
    /\ LET null == \E k \in {in.start, in.stop, in.step} : k.c = "null"
           min == IF null THEN 1 ELSE IF "START" \in idx_num THEN in.start.v ELSE 0
           max == IF null THEN 0 ELSE IF "STOP" \in idx_num THEN in.stop.v ELSE Unbounded
       IN  cursor' = [is_desc |-> IsDesc,
                      value |-> IF IsDesc THEN FirstDown(min, max, StepOf) ELSE min,
                      min_value |-> min, max_value |-> max, step |-> StepOf]
    /\ pc' = "scan"
    /\ UNCHANGED <<in, idx_num, consumed, emitted>>

eof == IF cursor.is_desc THEN cursor.value < cursor.min_value ELSE cursor.value > cursor.max_value

\* column, then next.
next ==
    /\ pc = "scan" /\ ~eof /\ Len(emitted) < MaxRows
    /\ emitted' = Append(emitted, cursor.value)
    /\ cursor' = [cursor EXCEPT !.value = AsI64(IF cursor.is_desc THEN @ - cursor.step ELSE @ + cursor.step)]
    /\ UNCHANGED <<in, pc, idx_num, consumed>>

AtEof ==
    /\ pc = "scan" /\ eof
    /\ pc' = "done"
    /\ UNCHANGED <<in, idx_num, consumed, cursor, emitted>>

Next == best_index \/ filter \/ next \/ AtEof

Spec == Init /\ [][Next]_vars
FairSpec == Spec /\ WF_vars(Next)

-----------------------------------------------------------------------------
(* What the table promises.                                                *)

Low == IF Given(in.start) THEN in.start.v ELSE 0
High == IF Given(in.stop) THEN in.stop.v ELSE Unbounded
By == IF ~Given(in.step) \/ in.step.v = 0 THEN 1 ELSE Abs(in.step.v)
HasNull == \E k \in {in.start, in.stop, in.step} : k.c = "null"

\* The sums of the series stay inside i64.
InI64 == By <= I64Max /\ High - Low <= I64Max /\ High + By <= I64Max /\ Low - By >= -I64Max - 1

\* The members of the series.
Members == {v \in Low..High : (v - Low) % By = 0}

Sorted(s, down) == \A i \in 1..Len(s) - 1 : IF down THEN s[i] > s[i + 1] ELSE s[i] < s[i + 1]

\* Read to the end, a series yields each of its members once, upwards or downwards
\* (series.rs:226-235), for every mix of given, missing and zero arguments.
RowsMatch ==
    pc = "done" /\ InI64 /\ Low <= High /\ ~HasNull =>
        /\ {emitted[i] : i \in 1..Len(emitted)} = Members
        /\ Len(emitted) = Cardinality(Members)

\* best_index tells SQLite that the rows come sorted, and SQLite then does not sort
\* them: they do, also with a negative step (series.rs:131, 211).
OrderHonoured == consumed /\ InI64 => Sorted(emitted, in.order = "value desc")

\* A series whose sums stay inside i64 ends.
Ends == InI64 ~> pc \in {"done", "no plan"}

\* "If any of the constraints have a NULL value, then return no rows."
\* (series.rs:220)
NullNoRows == HasNull => emitted = <<>>

=============================================================================
