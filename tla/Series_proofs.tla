---------------------------- MODULE Series_proofs ----------------------------
(***************************************************************************)
(* Proofs about Series, for any width of i64 and any queries.  While SQLite*)
(* reads the cursor, the value it will read next is the member of the      *)
(* series that follows the ones it has read (InSeries), and lies beyond    *)
(* the last of them (InOrder), as long as no sum leaves i64.  Both need    *)
(* that filter found in the plan what the query says (Planned, Scanned).   *)
(***************************************************************************)
EXTENDS Series, FiniteSetTheorems, TLAPS

Reading == pc \in {"scan", "done"}

\* The flags say what the query says.
Planned ==
    /\ pc \in {"filter", "scan", "done"} =>
         /\ "START" \in idx_num <=> Given(in.start)
         /\ "STOP" \in idx_num <=> Given(in.stop)
         /\ "STEP" \in idx_num <=> Given(in.step)
    /\ "ASC" \in idx_num <=> consumed /\ in.order = "value asc"
    /\ "DESC" \in idx_num <=> consumed /\ in.order = "value desc"
    /\ consumed => in.order \in {"value asc", "value desc"}

\* The cursor's range, step and direction.
Scanned ==
    Reading /\ By <= I64Max =>
        /\ cursor.step = By
        /\ cursor.min_value = IF HasNull THEN 1 ELSE Low
        /\ cursor.max_value = IF HasNull THEN 0 ELSE High
        /\ consumed => (cursor.is_desc <=> in.order = "value desc")

\* Rows are read between filter and the end of the scan.
ReadInScan ==
    /\ ~Reading => emitted = <<>>
    /\ pc = "done" => eof

\* What is read next goes on in the direction of what has been read.
InOrder == Reading /\ InI64 => Sorted(Append(emitted, cursor.value), cursor.is_desc)

\* The k-th value of the series in the direction of the scan, from 0.
Highest == High - ((High - Low) % By)
Nth(k, down) == IF down THEN Highest - k * By ELSE Low + k * By

InSeries ==
    Reading /\ InI64 /\ Low <= High /\ ~HasNull =>
        /\ \A i \in 1..Len(emitted) :
             emitted[i] = Nth(i - 1, cursor.is_desc) /\ emitted[i] \in Low..High
        /\ cursor.value = Nth(Len(emitted), cursor.is_desc)

IInv == TypeOK /\ Planned /\ Scanned /\ ReadInScan /\ InOrder /\ InSeries

-----------------------------------------------------------------------------
(* Arithmetic.                                                             *)

\* A wrapping sum stays in i64 and is the sum itself if that fits.
LEMMA WrapFacts ==
    ASSUME NEW x \in Int
    PROVE  AsI64(x) \in I64 /\ (x \in I64 => AsI64(x) = x)
<1> DEFINE k == 2 * (I64Max + 1)
           y == x + I64Max + 1
<1>1. k \in Nat /\ k > 0 /\ y \in Int
  BY SeriesAssumption
<1>2. AsI64(x) = (y % k) - (I64Max + 1)
  BY DEF AsI64
<1> HIDE DEF k, y
<1>3. y % k \in 0..(k - 1) /\ (0 <= y /\ y < k => y % k = y)
  BY <1>1
<1>4. k = 2 * (I64Max + 1) /\ y = x + I64Max + 1
  BY DEF k, y
<1> QED BY <1>2, <1>3, <1>4, SeriesAssumption DEF I64

\* Multiples of a positive number are ordered as their factors.
LEMMA Multiples ==
    ASSUME NEW a \in Int, NEW b \in Int, NEW s \in Nat, s > 0, a * s < b * s
    PROVE  a < b
<1>1. SUFFICES ASSUME a >= b PROVE FALSE
  OBVIOUS
<1>2. PICK d \in Nat : a = b + d
  <2>1. a - b \in Nat /\ a = b + (a - b)
    BY <1>1
  <2> QED BY <2>1
<1>3. d * s >= 0 /\ a * s = b * s + d * s
  BY <1>2
<1>4. a * s \in Int /\ b * s \in Int /\ d * s \in Int
  OBVIOUS
<1> QED BY <1>3, <1>4

\* A nonnegative number is a multiple and a remainder.
LEMMA Division ==
    ASSUME NEW x \in Nat, NEW s \in Nat, s > 0
    PROVE  \E q \in Nat : x = q * s + (x % s) /\ x % s \in 0..(s - 1)
<1>1. x \div s \in Nat /\ x = (x \div s) * s + (x % s) /\ x % s \in 0..(s - 1)
  OBVIOUS
<1> QED BY <1>1

\* The remainder is what a multiple leaves.
LEMMA RemainderIs ==
    ASSUME NEW q \in Nat, NEW s \in Nat, s > 0, NEW r \in 0..(s - 1)
    PROVE  (q * s + r) % s = r
<1>1. q * s \in Nat /\ q * s + r \in Nat
  OBVIOUS
<1>2. PICK p \in Nat, t \in 0..(s - 1) : q * s + r = p * s + t /\ t = (q * s + r) % s
  BY <1>1, Division
<1>3. p * s \in Nat /\ (p + 1) * s = p * s + s /\ (q + 1) * s = q * s + s
  OBVIOUS
<1>4. p * s < (q + 1) * s /\ q * s < (p + 1) * s
  BY <1>1, <1>2, <1>3
<1>5. p < q + 1 /\ q < p + 1
  BY <1>4, Multiples
<1>6. p = q
  BY <1>5
<1> QED BY <1>1, <1>2, <1>6

-----------------------------------------------------------------------------
(* The query.                                                              *)

LEMMA ConstraintFacts ==
    ASSUME NEW values, values \subseteq I64, NEW k \in Constraint(values)
    PROVE  /\ k.v \in I64 /\ k.c \in {"absent", "unusable", "null", "eq"}
           /\ k.c # "eq" => k.v = 0
BY SeriesAssumption DEF Constraint, I64

\* Every argument is an i64, and what is not given is 0.
LEMMA QueryFacts ==
    ASSUME in \in Query
    PROVE  /\ in.start.v \in I64 /\ in.stop.v \in I64 /\ in.step.v \in I64
           /\ in.step.c = "null" => in.step.v = 0
           /\ in.order \in {"none", "value asc", "value desc", "other"}
<1>1. Value \subseteq I64 /\ Step \subseteq I64
  BY SeriesAssumption DEF I64
<1>2. /\ in.start \in Constraint(Value) /\ in.stop \in Constraint(Value)
      /\ in.step \in Constraint(Step)
      /\ in.order \in {"none", "value asc", "value desc", "other"}
  BY DEF Query
<1> QED BY <1>1, <1>2, ConstraintFacts

\* The range and the step of the series.
LEMMA RangeFacts ==
    ASSUME in \in Query
    PROVE  /\ Low \in I64 /\ High \in I64 /\ By \in 1..(I64Max + 1)
           /\ Low \in Int /\ High \in Int /\ By \in Nat /\ By > 0
<1>1. in.start.v \in I64 /\ in.stop.v \in I64 /\ in.step.v \in I64
  BY QueryFacts
<1>2. 0 \in I64 /\ Unbounded \in I64
  BY SeriesAssumption DEF I64
<1>3. Low \in I64 /\ High \in I64
  BY <1>1, <1>2 DEF Low, High
<1>4. in.step.v # 0 => Abs(in.step.v) \in 1..(I64Max + 1)
  BY <1>1, SeriesAssumption DEF Abs, I64
<1>5. 1 \in 1..(I64Max + 1)
  BY SeriesAssumption
<1>6. By \in 1..(I64Max + 1)
  BY <1>4, <1>5 DEF By
<1> QED BY <1>3, <1>6, SeriesAssumption DEF I64

\* filter's step is the step of the series, unless that is 2^63.
LEMMA StepOfFacts ==
    ASSUME in \in Query, "STEP" \in idx_num <=> Given(in.step)
    PROVE  StepOf \in I64 /\ (By <= I64Max => StepOf = By)
<1>1. in.step.v \in Int /\ Abs(in.step.v) \in Nat
  <2>1. in.step.v \in I64
    BY QueryFacts
  <2> QED BY <2>1, SeriesAssumption DEF Abs, I64
<1>2. AsI64(Abs(in.step.v)) \in I64 /\ (Abs(in.step.v) \in I64 => AsI64(Abs(in.step.v)) = Abs(in.step.v))
  BY <1>1, WrapFacts
<1>3. 1 \in I64 /\ (Abs(in.step.v) <= I64Max => Abs(in.step.v) \in I64)
  BY <1>1, SeriesAssumption DEF I64
<1> QED BY <1>1, <1>2, <1>3 DEF StepOf, By

\* The first value of a descending scan is an i64, and the largest member if there
\* are members and no sum leaves i64.
LEMMA FirstDownFacts ==
    ASSUME NEW min \in I64, NEW max \in I64, NEW step \in I64
    PROVE  /\ FirstDown(min, max, step) \in I64
           /\ step > 0 /\ min <= max /\ max - min <= I64Max
                => FirstDown(min, max, step) = max - ((max - min) % step)
<1>1. min \in Int /\ max \in Int /\ step \in Int /\ I64Max \in Nat
  BY SeriesAssumption DEF I64
<1>2. CASE step <= 0
  BY <1>1, <1>2 DEF FirstDown
<1>3. CASE step > 0
  <2> DEFINE d == AsI64(max - min)
             r == Rem(d, step)
  <2>1. d \in Int /\ (max - min \in I64 => d = max - min)
    BY <1>1, WrapFacts DEF I64
  <2> HIDE DEF d
  <2>2. \A x \in Nat : x % step \in Int /\ x % step \in 0..x
    BY <1>1, <1>3
  <2>3. r \in Int
    BY <2>1, <2>2 DEF Rem, Abs
  <2>4. FirstDown(min, max, step) = AsI64(max - r)
    BY <1>3 DEF FirstDown, d
  <2> HIDE DEF r
  <2>5. FirstDown(min, max, step) \in I64 /\ (max - r \in I64 => FirstDown(min, max, step) = max - r)
    BY <1>1, <2>3, <2>4, WrapFacts
  <2>6. ASSUME min <= max, max - min <= I64Max
        PROVE  FirstDown(min, max, step) = max - ((max - min) % step)
    <3>1. max - min \in Nat /\ max - min \in I64
      BY <1>1, <2>6 DEF I64
    <3>2. d = max - min
      BY <2>1, <3>1
    <3>3. r = (max - min) % step
      BY <3>1, <3>2 DEF r, Rem
    <3>4. max - r \in I64
      BY <1>1, <2>2, <3>1, <3>3 DEF I64
    <3> QED BY <2>5, <3>3, <3>4
  <2> QED BY <1>3, <2>5, <2>6
<1> QED BY <1>1, <1>2, <1>3

-----------------------------------------------------------------------------
(* The inductive invariant.                                                *)

\* A cursor is opened with zeros, before the plan is known.
LEMMA InitIInv == Init => IInv
<1> SUFFICES ASSUME Init PROVE IInv
  OBVIOUS
<1>1. TypeOK
  <2>1. 0 \in I64 /\ MaxRows \in Nat
    BY SeriesAssumption DEF I64
  <2>2. <<>> \in Seq(I64) /\ Len(<<>>) = 0
    OBVIOUS
  <2>3. idx_num \in SUBSET Flag /\ consumed \in BOOLEAN /\ cursor.is_desc \in BOOLEAN
    BY DEF Init
  <2> QED BY <2>1, <2>2, <2>3 DEF Init, TypeOK
<1>2. Planned
  BY DEF Init, Planned
<1>3. Scanned /\ ReadInScan /\ InOrder /\ InSeries
  BY DEF Init, Scanned, ReadInScan, InOrder, InSeries, Reading
<1> QED BY <1>1, <1>2, <1>3 DEF IInv

\* The plan records which constraints filter is given, and the order it promises.
LEMMA BestIndexStep ==
    ASSUME IInv, best_index
    PROVE  IInv'
<1>1. /\ pc = "best_index" /\ pc' \in {"filter", "no plan"}
      /\ in' = in /\ cursor' = cursor /\ emitted' = emitted
  BY DEF best_index
<1>2. CASE pc' = "no plan"
  <2>1. idx_num' = idx_num /\ consumed' = consumed
    BY <1>2 DEF best_index
  <2> QED BY <1>1, <1>2, <2>1
     DEF IInv, TypeOK, Planned, Scanned, ReadInScan, InOrder, InSeries, Reading
<1>3. CASE pc' = "filter"
  <2>1. /\ consumed' = ({"START", "STOP"} \subseteq Bounds /\ in.order \in {"value asc", "value desc"})
        /\ idx_num' = Bounds \cup
              (IF ~consumed' THEN {} ELSE IF in.order = "value desc" THEN {"DESC"} ELSE {"ASC"})
    BY <1>3 DEF best_index
  <2>2. consumed' \in BOOLEAN /\ (consumed' => in.order \in {"value asc", "value desc"})
    BY <2>1, Zenon
  <2>3. /\ "START" \in Bounds <=> Given(in.start)
        /\ "STOP" \in Bounds <=> Given(in.stop)
        /\ "STEP" \in Bounds <=> Given(in.step)
        /\ "ASC" \notin Bounds /\ "DESC" \notin Bounds /\ Bounds \subseteq Flag
    BY DEF Bounds, Flag
  <2>4. idx_num' = Bounds \cup
              (IF ~consumed' THEN {} ELSE IF in.order = "value desc" THEN {"DESC"} ELSE {"ASC"})
    BY <2>1
  <2>5. idx_num' \subseteq Flag
    BY <2>3, <2>4 DEF Flag
  <2>6. Planned'
    BY <1>1, <2>2, <2>3, <2>4 DEF Planned, Given
  <2>7. TypeOK'
    BY <1>1, <1>3, <2>2, <2>5 DEF IInv, TypeOK
  <2> QED BY <1>1, <1>3, <2>6, <2>7
     DEF IInv, Scanned, ReadInScan, InOrder, InSeries, Reading
<1> QED BY <1>1, <1>2, <1>3

\* filter sets the cursor on the first member of the series.
LEMMA FilterStep ==
    ASSUME IInv, filter
    PROVE  IInv'
<1> DEFINE min == IF HasNull THEN 1 ELSE IF "START" \in idx_num THEN in.start.v ELSE 0
           max == IF HasNull THEN 0 ELSE IF "STOP" \in idx_num THEN in.stop.v ELSE Unbounded
<1>1. /\ pc = "filter" /\ pc' = "scan" /\ in' = in
      /\ idx_num' = idx_num /\ consumed' = consumed /\ emitted' = emitted
      /\ cursor' = [is_desc |-> IsDesc,
                    value |-> IF IsDesc THEN FirstDown(min, max, StepOf) ELSE min,
                    min_value |-> min, max_value |-> max, step |-> StepOf]
  BY DEF filter, HasNull
<1>2. /\ in \in Query /\ emitted = <<>> /\ Planned /\ TypeOK
      /\ "START" \in idx_num <=> Given(in.start)
      /\ "STOP" \in idx_num <=> Given(in.stop)
      /\ "STEP" \in idx_num <=> Given(in.step)
  BY <1>1 DEF IInv, TypeOK, Planned, ReadInScan, Reading
<1>3. min = IF HasNull THEN 1 ELSE Low
  BY <1>2 DEF Low
<1>4. max = IF HasNull THEN 0 ELSE High
  BY <1>2 DEF High
<1>5. StepOf \in I64 /\ (By <= I64Max => StepOf = By)
  BY <1>2, StepOfFacts
<1>6. /\ Low \in I64 /\ High \in I64 /\ Low \in Int /\ High \in Int /\ By \in Nat /\ By > 0
  BY <1>2, RangeFacts
<1>7. 0 \in I64 /\ 1 \in I64
  BY SeriesAssumption DEF I64
<1>8. min \in I64 /\ max \in I64
  BY <1>3, <1>4, <1>6, <1>7
<1> HIDE DEF min, max
<1>9. /\ FirstDown(min, max, StepOf) \in I64
      /\ StepOf > 0 /\ min <= max /\ max - min <= I64Max
           => FirstDown(min, max, StepOf) = max - ((max - min) % StepOf)
  BY <1>5, <1>8, FirstDownFacts
<1>10. IsDesc \in BOOLEAN
  BY DEF IsDesc
<1>11. /\ cursor'.is_desc = IsDesc /\ cursor'.min_value = min /\ cursor'.max_value = max
       /\ cursor'.step = StepOf
       /\ cursor'.value = IF IsDesc THEN FirstDown(min, max, StepOf) ELSE min
  BY <1>1
<1>12. TypeOK'
  <2>1. cursor' \in [is_desc : BOOLEAN, value : I64, min_value : I64, max_value : I64, step : I64]
    BY <1>1, <1>5, <1>8, <1>9, <1>10
  <2> QED BY <1>1, <1>2, <2>1 DEF TypeOK
<1>13. Planned'
  BY <1>1, <1>2 DEF Planned, Given
<1>14. Reading' /\ By' = By /\ Low' = Low /\ High' = High /\ (HasNull' <=> HasNull) /\ (InI64' <=> InI64)
  BY <1>1 DEF Reading, By, Low, High, HasNull, InI64, Given
<1>15. consumed => (IsDesc <=> in.order = "value desc")
  BY <1>2 DEF Planned, IsDesc
<1>16. Scanned'
  BY <1>1, <1>3, <1>4, <1>5, <1>11, <1>14, <1>15 DEF Scanned
<1>17. ReadInScan'
  BY <1>1 DEF ReadInScan, Reading
<1>18. Len(emitted') = 0 /\ Len(Append(emitted', cursor'.value)) = 1
  BY <1>1, <1>2
<1>19. InOrder'
  BY <1>18 DEF InOrder, Sorted
<1>20. InSeries'
  <2>1. SUFFICES ASSUME InI64, Low <= High, ~HasNull
                 PROVE  cursor'.value = Nth(0, cursor.is_desc)'
    BY <1>14, <1>18 DEF InSeries
  <2>2. min = Low /\ max = High /\ StepOf = By /\ High - Low <= I64Max
    BY <1>3, <1>4, <1>5, <2>1 DEF InI64
  <2>3. (High - Low) % By \in Int
    BY <1>6
  <2>4. Highest - 0 * By = Highest /\ Low + 0 * By = Low
    BY <1>6, <2>3 DEF Highest
  <2>5. Highest' = Highest
    BY <1>14 DEF Highest
  <2>6. Nth(0, cursor.is_desc)' = IF IsDesc THEN Highest ELSE Low
    BY <1>11, <1>14, <2>4, <2>5 DEF Nth
  <2>7. FirstDown(min, max, StepOf) = Highest
    BY <1>6, <1>9, <2>1, <2>2 DEF Highest
  <2> QED BY <1>11, <2>2, <2>6, <2>7
<1> QED BY <1>12, <1>13, <1>16, <1>17, <1>19, <1>20 DEF IInv

\* A value beyond the last one keeps a sequence sorted.
LEMMA SortedOn ==
    ASSUME NEW T, NEW s \in Seq(T), NEW v \in T, NEW w \in T, NEW down \in BOOLEAN,
           Sorted(Append(s, v), down), IF down THEN v > w ELSE v < w
    PROVE  Sorted(Append(Append(s, v), w), down)
<1> DEFINE t == Append(s, v)
           u == Append(t, w)
           n == Len(s)
<1>1. /\ n \in Nat /\ t \in Seq(T) /\ u \in Seq(T) /\ Len(t) = n + 1 /\ Len(u) = n + 2
      /\ \A i \in 1..(n + 1) : u[i] = t[i]
      /\ t[n + 1] = v /\ u[n + 2] = w
  OBVIOUS
<1>2. \A i \in 1..n : IF down THEN t[i] > t[i + 1] ELSE t[i] < t[i + 1]
  BY <1>1 DEF Sorted
<1> HIDE DEF t, u, n
<1>3. ASSUME NEW i \in 1..(n + 1)
      PROVE  IF down THEN u[i] > u[i + 1] ELSE u[i] < u[i + 1]
  <2>1. CASE i = n + 1
    BY <1>1, <2>1
  <2>2. CASE i # n + 1
    <3>1. i \in 1..n /\ i \in 1..(n + 1) /\ i + 1 \in 1..(n + 1)
      BY <1>1, <2>2
    <3> QED BY <1>1, <1>2, <3>1
  <2> QED BY <2>1, <2>2
<1>4. Len(u) - 1 = n + 1
  BY <1>1
<1>5. Sorted(u, down)
  BY <1>3, <1>4 DEF Sorted
<1> QED BY <1>5 DEF u, t

\* One more step along the series.
LEMMA NthFacts ==
    ASSUME in \in Query, NEW k \in Nat, NEW down \in BOOLEAN
    PROVE  /\ Nth(k, down) \in Int
           /\ Nth(k + 1, down) = IF down THEN Nth(k, down) - By ELSE Nth(k, down) + By
           /\ Low <= High => IF down THEN Nth(k, down) <= High ELSE Nth(k, down) >= Low
<1>1. Low \in Int /\ High \in Int /\ By \in Nat /\ By > 0
  BY RangeFacts
<1>2. (High - Low) % By \in Nat
  BY <1>1
<1>3. Highest \in Int /\ Highest <= High
  BY <1>1, <1>2 DEF Highest
<1>4. k * By \in Nat /\ (k + 1) * By = k * By + By
  BY <1>1
<1> QED BY <1>1, <1>3, <1>4 DEF Nth

\* While a row is read, the sum in next does not leave i64.
LEMMA NextValue ==
    ASSUME IInv, next, InI64
    PROVE  /\ cursor'.value = IF cursor.is_desc THEN cursor.value - By ELSE cursor.value + By
           /\ IF cursor.is_desc
              THEN cursor.value >= IF HasNull THEN 1 ELSE Low
              ELSE cursor.value <= IF HasNull THEN 0 ELSE High
<1>1. /\ cursor \in [is_desc : BOOLEAN, value : I64, min_value : I64, max_value : I64, step : I64]
      /\ in \in Query /\ By <= I64Max /\ Reading
  BY DEF IInv, TypeOK, next, InI64, Reading
<1>2. /\ cursor.step = By
      /\ cursor.min_value = IF HasNull THEN 1 ELSE Low
      /\ cursor.max_value = IF HasNull THEN 0 ELSE High
  BY <1>1 DEF IInv, Scanned
<1>3. Low \in Int /\ High \in Int /\ By \in Nat /\ By > 0
  BY <1>1, RangeFacts
<1>4. /\ cursor.value \in I64 /\ cursor.is_desc \in BOOLEAN /\ cursor.min_value \in I64
      /\ cursor.max_value \in I64
  BY <1>1
<1>5. IF cursor.is_desc THEN cursor.value >= cursor.min_value ELSE cursor.value <= cursor.max_value
  BY <1>4, SeriesAssumption DEF next, eof, I64
<1> DEFINE to == IF cursor.is_desc THEN cursor.value - cursor.step ELSE cursor.value + cursor.step
<1>6. to \in I64
  BY <1>2, <1>3, <1>4, <1>5, SeriesAssumption DEF InI64, I64
<1>7. to \in Int
  BY <1>6, SeriesAssumption DEF I64
<1>8. cursor'.value = AsI64(to)
  BY <1>1 DEF next
<1> HIDE DEF to
<1>9. cursor'.value = to
  BY <1>6, <1>7, <1>8, WrapFacts
<1> QED BY <1>2, <1>5, <1>9 DEF to

\* column and next: the value that is read is the next member of the series.
LEMMA NextStep ==
    ASSUME IInv, next
    PROVE  IInv'
<1> DEFINE to == IF cursor.is_desc THEN cursor.value - cursor.step ELSE cursor.value + cursor.step
           n == Len(emitted)
<1>1. /\ pc = "scan" /\ pc' = pc /\ in' = in /\ idx_num' = idx_num /\ consumed' = consumed
      /\ emitted' = Append(emitted, cursor.value) /\ n < MaxRows
      /\ cursor' = [cursor EXCEPT !.value = AsI64(to)]
  BY DEF next
<1>2. /\ in \in Query /\ TypeOK /\ Planned /\ emitted \in Seq(I64) /\ n \in Nat
      /\ cursor \in [is_desc : BOOLEAN, value : I64, min_value : I64, max_value : I64, step : I64]
  <2>1. TypeOK /\ Planned
    BY DEF IInv
  <2>2. /\ in \in Query /\ emitted \in Seq(I64)
        /\ cursor \in [is_desc : BOOLEAN, value : I64, min_value : I64, max_value : I64, step : I64]
    BY <2>1 DEF TypeOK
  <2> QED BY <2>1, <2>2
<1>3. to \in Int /\ I64 \subseteq Int
  BY <1>2, SeriesAssumption DEF I64
<1>4. AsI64(to) \in I64
  BY <1>3, WrapFacts
<1> HIDE DEF to
<1>5. /\ cursor' \in [is_desc : BOOLEAN, value : I64, min_value : I64, max_value : I64, step : I64]
      /\ cursor'.is_desc = cursor.is_desc /\ cursor'.step = cursor.step
      /\ cursor'.min_value = cursor.min_value /\ cursor'.max_value = cursor.max_value
  BY <1>1, <1>2, <1>4
<1>6. /\ emitted' \in Seq(I64) /\ Len(emitted') = n + 1 /\ emitted'[n + 1] = cursor.value
      /\ \A i \in 1..n : emitted'[i] = emitted[i]
  BY <1>1, <1>2
<1>7. TypeOK'
  BY <1>1, <1>2, <1>5, <1>6, SeriesAssumption DEF TypeOK
<1>8. Planned'
  BY <1>1, <1>2 DEF Planned, Given
<1>9. /\ Reading /\ Reading' /\ By' = By /\ Low' = Low /\ High' = High /\ Highest' = Highest
      /\ (HasNull' <=> HasNull) /\ (InI64' <=> InI64)
  BY <1>1 DEF Reading, By, Low, High, Highest, HasNull, InI64, Given
<1>10. Scanned'
  BY <1>1, <1>5, <1>9 DEF IInv, Scanned
<1>11. ReadInScan'
  BY <1>1 DEF ReadInScan, Reading
<1>12. Low \in Int /\ High \in Int /\ By \in Nat /\ By > 0
  BY <1>2, RangeFacts
<1>13. /\ cursor.value \in I64 /\ cursor'.value \in I64 /\ cursor.is_desc \in BOOLEAN
       /\ cursor.value \in Int /\ cursor'.value \in Int
  BY <1>2, <1>3, <1>5
<1>14. InOrder'
  <2> SUFFICES ASSUME InI64 PROVE Sorted(Append(emitted', cursor'.value), cursor'.is_desc)
    BY <1>9 DEF InOrder
  <2>1. Sorted(Append(emitted, cursor.value), cursor.is_desc)
    BY <1>9 DEF IInv, InOrder
  <2>2. IF cursor.is_desc THEN cursor.value > cursor'.value ELSE cursor.value < cursor'.value
    BY <1>12, <1>13, NextValue
  <2> QED BY <1>1, <1>2, <1>5, <1>13, <2>1, <2>2, SortedOn
<1>15. InSeries'
  <2>1. SUFFICES ASSUME InI64, Low <= High, ~HasNull
                 PROVE  /\ \A i \in 1..(n + 1) :
                             /\ emitted'[i] = IF cursor.is_desc THEN Highest - (i - 1) * By ELSE Low + (i - 1) * By
                             /\ emitted'[i] \in Low..High
                        /\ cursor'.value = IF cursor.is_desc THEN Highest - (n + 1) * By ELSE Low + (n + 1) * By
    BY <1>5, <1>6, <1>9 DEF InSeries, Nth
  <2>2. /\ \A i \in 1..n : emitted[i] = Nth(i - 1, cursor.is_desc) /\ emitted[i] \in Low..High
        /\ cursor.value = Nth(n, cursor.is_desc)
    BY <1>9, <2>1 DEF IInv, InSeries
  <2>3. /\ cursor'.value = IF cursor.is_desc THEN cursor.value - By ELSE cursor.value + By
        /\ IF cursor.is_desc THEN cursor.value >= Low ELSE cursor.value <= High
    BY <2>1, NextValue
  <2>4. /\ Nth(n + 1, cursor.is_desc) = IF cursor.is_desc THEN cursor.value - By ELSE cursor.value + By
        /\ IF cursor.is_desc THEN cursor.value <= High ELSE cursor.value >= Low
    BY <1>2, <1>13, <2>1, <2>2, NthFacts
  <2>5. cursor'.value = Nth(n + 1, cursor.is_desc)
    BY <2>3, <2>4
  <2>6. cursor.value \in Low..High
    BY <1>12, <1>13, <2>3, <2>4
  <2>7. ASSUME NEW i \in 1..(n + 1)
        PROVE  emitted'[i] = Nth(i - 1, cursor.is_desc) /\ emitted'[i] \in Low..High
    <3>1. CASE i \in 1..n
      BY <1>6, <2>2, <3>1
    <3>2. CASE i = n + 1
      <4>1. i - 1 = n
        BY <1>2, <3>2
      <4> QED BY <1>6, <2>2, <2>6, <3>2, <4>1
    <3> QED BY <1>2, <3>1, <3>2
  <2> QED BY <2>5, <2>7 DEF Nth
<1> QED BY <1>7, <1>8, <1>10, <1>11, <1>14, <1>15 DEF IInv

\* The end of the scan changes nothing that was read.
LEMMA AtEofStep ==
    ASSUME IInv, AtEof
    PROVE  IInv'
<1>1. /\ pc = "scan" /\ pc' = "done" /\ eof /\ in' = in /\ idx_num' = idx_num
      /\ consumed' = consumed /\ cursor' = cursor /\ emitted' = emitted
  BY DEF AtEof
<1>2. TypeOK'
  BY <1>1 DEF IInv, TypeOK
<1>3. Planned'
  BY <1>1 DEF IInv, Planned, Given
<1>4. /\ Reading /\ Reading' /\ By' = By /\ Low' = Low /\ High' = High /\ Highest' = Highest
      /\ (HasNull' <=> HasNull) /\ (InI64' <=> InI64) /\ (eof' <=> eof)
  BY <1>1 DEF Reading, By, Low, High, Highest, HasNull, InI64, Given, eof
<1>5. Scanned' /\ ReadInScan' /\ InOrder'
  BY <1>1, <1>4 DEF IInv, Scanned, ReadInScan, InOrder, Sorted
<1>6. InSeries'
  BY <1>1, <1>4 DEF IInv, InSeries, Nth
<1> QED BY <1>2, <1>3, <1>5, <1>6 DEF IInv

\* The inductive invariant holds in every reachable state.
THEOREM Invariance == Spec => []IInv
<1>1. Init => IInv
  BY InitIInv
<1>2. IInv /\ [Next]_vars => IInv'
  <2> SUFFICES ASSUME IInv, [Next]_vars PROVE IInv'
    OBVIOUS
  <2>1. CASE UNCHANGED vars
    <3>1. /\ pc' = pc /\ in' = in /\ idx_num' = idx_num /\ consumed' = consumed
          /\ cursor' = cursor /\ emitted' = emitted
      BY <2>1 DEF vars
    <3>2. TypeOK' /\ Planned'
      BY <3>1 DEF IInv, TypeOK, Planned, Given
    <3>3. /\ Reading' <=> Reading
          /\ By' = By /\ Low' = Low /\ High' = High /\ Highest' = Highest
          /\ (HasNull' <=> HasNull) /\ (InI64' <=> InI64) /\ (eof' <=> eof)
      BY <3>1 DEF Reading, By, Low, High, Highest, HasNull, InI64, Given, eof
    <3>4. Scanned' /\ ReadInScan' /\ InOrder'
      BY <3>1, <3>3 DEF IInv, Scanned, ReadInScan, InOrder, Sorted
    <3>5. InSeries'
      BY <3>1, <3>3 DEF IInv, InSeries, Nth
    <3> QED BY <3>2, <3>4, <3>5 DEF IInv
  <2>2. CASE Next
    BY <2>2, BestIndexStep, FilterStep, NextStep, AtEofStep DEF Next
  <2> QED BY <2>1, <2>2
<1> QED BY <1>1, <1>2, PTL DEF Spec

\* Every variable keeps its type.
THEOREM TypeCorrect == Spec => []TypeOK
<1>1. IInv => TypeOK
  BY DEF IInv
<1> QED BY <1>1, Invariance, PTL

\* Also when SQLite stops reading early, the rows are the first members of the series
\* in the direction of the scan, and the cursor is on the next one.
THEOREM RowsInTurn == Spec => []InSeries
<1>1. IInv => InSeries
  BY DEF IInv
<1> QED BY <1>1, Invariance, PTL

\* Every prefix of a sorted sequence is sorted: the rows are in the order that
\* best_index promised to SQLite, which does not sort them then.
THEOREM PromisedOrder == Spec => []OrderHonoured
<1>1. IInv => OrderHonoured
  <2> SUFFICES ASSUME IInv, consumed, InI64 PROVE Sorted(emitted, in.order = "value desc")
    BY DEF OrderHonoured
  <2>1. CASE ~Reading
    <3>1. emitted = <<>>
      BY <2>1 DEF IInv, ReadInScan
    <3>2. Len(emitted) = 0
      BY <3>1
    <3>3. 1..(Len(emitted) - 1) = {}
      BY <3>2
    <3> QED BY <3>3, Zenon DEF Sorted
  <2>2. CASE Reading
    <3>1. emitted \in Seq(I64) /\ Len(emitted) \in Nat
      <4>1. emitted \in Seq(I64)
        BY DEF IInv, TypeOK
      <4> QED BY <4>1
    <3>2. cursor.is_desc <=> in.order = "value desc"
      BY <2>2 DEF IInv, Scanned, InI64
    <3>3. Sorted(Append(emitted, cursor.value), cursor.is_desc)
      BY <2>2 DEF IInv, InOrder
    <3>4. cursor.value \in I64
      BY DEF IInv, TypeOK
    <3>5. /\ Len(Append(emitted, cursor.value)) = Len(emitted) + 1
          /\ \A i \in 1..Len(emitted) : Append(emitted, cursor.value)[i] = emitted[i]
      BY <3>1, <3>4
    <3>6. ASSUME NEW i \in 1..(Len(emitted) - 1)
          PROVE  IF in.order = "value desc" THEN emitted[i] > emitted[i + 1] ELSE emitted[i] < emitted[i + 1]
      <4>1. i \in 1..Len(emitted) /\ i + 1 \in 1..Len(emitted)
        BY <3>1
      <4>2. i \in 1..(Len(Append(emitted, cursor.value)) - 1)
        BY <3>1, <3>5
      <4> QED BY <3>2, <3>3, <3>5, <4>1, <4>2 DEF Sorted
    <3> QED BY <3>6 DEF Sorted
  <2> QED BY <2>1, <2>2
<1> QED BY <1>1, Invariance, PTL

\* What the Nth value says about membership: the values of the scan up to the first
\* one outside the range are members, and every member is one of them.
LEMMA MembersAreRead ==
    ASSUME in \in Query, Low <= High, NEW n \in Nat, NEW down \in BOOLEAN,
           IF down THEN Nth(n, down) < Low ELSE Nth(n, down) > High
    PROVE  \A v \in Members : \E i \in 1..n : v = Nth(i - 1, down)
<1>1. Low \in Int /\ High \in Int /\ By \in Nat /\ By > 0
  BY RangeFacts
<1>2. SUFFICES ASSUME NEW v \in Members PROVE \E i \in 1..n : v = Nth(i - 1, down)
  OBVIOUS
<1>3. v \in Int /\ Low <= v /\ v <= High /\ (v - Low) % By = 0 /\ v - Low \in Nat
  BY <1>1 DEF Members
<1>4. PICK q \in Nat : v - Low = q * By
  <2>1. PICK q \in Nat : v - Low = q * By + ((v - Low) % By)
    BY <1>1, <1>3, Division
  <2>2. q * By \in Nat
    BY <1>1
  <2> QED BY <1>3, <2>1, <2>2
<1>5. n * By \in Nat /\ q * By \in Nat
  BY <1>1
<1>6. CASE ~down
  <2>1. Low + n * By > High
    BY <1>6 DEF Nth
  <2>2. q * By < n * By
    BY <1>1, <1>3, <1>4, <1>5, <2>1
  <2>3. q < n
    BY <1>1, <2>2, Multiples
  <2>4. q + 1 \in 1..n /\ (q + 1) - 1 = q
    BY <2>3
  <2>5. v = Nth((q + 1) - 1, down)
    BY <1>1, <1>3, <1>4, <1>5, <1>6, <2>4 DEF Nth
  <2> QED BY <2>4, <2>5
<1>7. CASE down
  <2>1. PICK p \in Nat : High - Low = p * By + ((High - Low) % By) /\ (High - Low) % By \in 0..(By - 1)
    <3>1. High - Low \in Nat
      BY <1>1
    <3> QED BY <1>1, <3>1, Division
  <2>2. p * By \in Nat /\ (p + 1) * By = p * By + By
    BY <1>1
  <2>3. Highest = Low + p * By
    BY <1>1, <2>1, <2>2 DEF Highest
  <2>4. Highest - n * By < Low
    BY <1>7 DEF Nth
  <2>5. p * By < n * By /\ q * By < (p + 1) * By
    BY <1>1, <1>3, <1>4, <1>5, <2>1, <2>2, <2>3, <2>4
  <2>6. p < n /\ q < p + 1
    BY <1>1, <2>5, Multiples
  <2>7. p - q \in Nat /\ (p - q) + 1 \in 1..n /\ ((p - q) + 1) - 1 = p - q
    BY <2>6
  <2>8. (p - q) * By = p * By - q * By
    BY <1>1
  <2>9. Nth(p - q, down) = Highest - (p - q) * By
    BY <1>7 DEF Nth
  <2>10. v = Nth(p - q, down)
    BY <1>1, <1>3, <1>4, <1>5, <2>2, <2>3, <2>8, <2>9
  <2> QED BY <2>7, <2>10
<1> QED BY <1>6, <1>7

\* The values of a scan that are in the range are members.
LEMMA ReadAreMembers ==
    ASSUME in \in Query, Low <= High, NEW k \in Nat, NEW down \in BOOLEAN, Nth(k, down) \in Low..High
    PROVE  Nth(k, down) \in Members
<1>1. Low \in Int /\ High \in Int /\ By \in Nat /\ By > 0
  BY RangeFacts
<1>2. \A q \in Nat : (q * By + 0) % By = 0
  <2>1. 0 \in 0..(By - 1)
    BY <1>1
  <2> QED BY <1>1, <2>1, RemainderIs
<1>3. \A q \in Nat : q * By \in Nat
  BY <1>1
<1>4. \A q \in Nat : (q * By) % By = 0
  <2> TAKE q \in Nat
  <2>1. q * By + 0 = q * By
    BY <1>3
  <2> QED BY <1>2, <2>1
<1>5. CASE ~down
  <2>1. Nth(k, down) = Low + k * By
    BY <1>5 DEF Nth
  <2>2. Nth(k, down) - Low = k * By
    BY <1>1, <1>3, <2>1
  <2> QED BY <1>4, <2>2 DEF Members
<1>6. CASE down
  <2>1. PICK p \in Nat : High - Low = p * By + ((High - Low) % By) /\ (High - Low) % By \in 0..(By - 1)
    <3>1. High - Low \in Nat
      BY <1>1
    <3> QED BY <1>1, <3>1, Division
  <2>2. p * By \in Nat /\ k * By \in Nat /\ (p + 1) * By = p * By + By
    BY <1>1
  <2>3. Nth(k, down) = Highest - k * By /\ Highest = Low + p * By
    BY <1>1, <1>6, <2>1, <2>2 DEF Nth, Highest
  <2>4. k * By < (p + 1) * By
    BY <1>1, <2>2, <2>3
  <2>5. k < p + 1
    BY <1>1, <2>4, Multiples
  <2>6. p - k \in Nat /\ (p - k) * By = p * By - k * By
    BY <1>1, <2>5
  <2>7. Nth(k, down) - Low = (p - k) * By
    BY <1>1, <2>2, <2>3, <2>6
  <2> QED BY <1>4, <2>6, <2>7 DEF Members
<1> QED BY <1>5, <1>6

\* Read to the end, the rows are the members of the series, each once.
THEOREM EachMemberOnce == Spec => []RowsMatch
<1>1. IInv => RowsMatch
  <2> DEFINE n == Len(emitted)
             down == cursor.is_desc
             Rows == {emitted[i] : i \in 1..n}
  <2>1. SUFFICES ASSUME IInv, pc = "done", InI64, Low <= High, ~HasNull
                 PROVE  Rows = Members /\ n = Cardinality(Members)
    BY DEF RowsMatch
  <2>2. /\ in \in Query /\ emitted \in Seq(I64)
        /\ cursor \in [is_desc : BOOLEAN, value : I64, min_value : I64, max_value : I64, step : I64]
    BY <2>1 DEF IInv, TypeOK
  <2>3. n \in Nat /\ down \in BOOLEAN /\ emitted \in [1..n -> I64]
    BY <2>2
  <2>4. Reading /\ eof
    BY <2>1 DEF Reading, IInv, ReadInScan
  <2>5. cursor.min_value = Low /\ cursor.max_value = High
    BY <2>1, <2>4 DEF IInv, Scanned, InI64
  <2>6. /\ \A i \in 1..n : emitted[i] = Nth(i - 1, down) /\ emitted[i] \in Low..High
        /\ cursor.value = Nth(n, down)
    BY <2>1, <2>4 DEF IInv, InSeries
  <2>7. IF down THEN Nth(n, down) < Low ELSE Nth(n, down) > High
    BY <2>4, <2>5, <2>6 DEF eof
  <2> HIDE DEF n, down
  <2>8. \A i \in 1..n : emitted[i] \in Members
    <3> TAKE i \in 1..n
    <3>1. i - 1 \in Nat /\ Nth(i - 1, down) \in Low..High /\ emitted[i] = Nth(i - 1, down)
      <4>1. i - 1 \in Nat
        BY <2>3
      <4> QED BY <2>6, <4>1, Zenon
    <3>2. Nth(i - 1, down) \in Members
      BY <2>1, <2>2, <2>3, <3>1, ReadAreMembers
    <3> QED BY <3>1, <3>2
  <2>9. \A v \in Members : \E i \in 1..n : v = emitted[i]
    <3> TAKE v \in Members
    <3>1. PICK i \in 1..n : v = Nth(i - 1, down)
      BY <2>1, <2>2, <2>3, <2>7, MembersAreRead
    <3> QED BY <2>6, <3>1
  <2>10. Rows = Members
    BY <2>8, <2>9
  <2>11. \A i, j \in 1..n : emitted[i] = emitted[j] => i = j
    <3> SUFFICES ASSUME NEW i \in 1..n, NEW j \in 1..n, emitted[i] = emitted[j] PROVE i = j
      OBVIOUS
    <3>1. Low \in Int /\ High \in Int /\ By \in Nat /\ By > 0
      BY <2>2, RangeFacts
    <3>2. Highest \in Int
      BY <3>1 DEF Highest
    <3>3. i - 1 \in Int /\ j - 1 \in Int /\ (i - 1) * By \in Int /\ (j - 1) * By \in Int
      BY <2>3, <3>1
    <3>4. Nth(i - 1, down) = Nth(j - 1, down)
      BY <2>6
    <3>5. (i - 1) * By = (j - 1) * By
      BY <3>1, <3>2, <3>3, <3>4 DEF Nth
    <3>6. i * By = (i - 1) * By + By /\ j * By = (j - 1) * By + By /\ i * By \in Int /\ j * By \in Int
      BY <2>3, <3>1
    <3>7. (i - 1) * By < j * By /\ (j - 1) * By < i * By
      BY <3>1, <3>3, <3>5, <3>6
    <3>8. i - 1 < j /\ j - 1 < i
      BY <2>3, <3>1, <3>3, <3>7, Multiples
    <3> QED BY <2>3, <3>8
  <2>12. emitted \in [1..n -> Members]
    BY <2>3, <2>8
  <2>13. emitted \in Surjection(1..n, Members)
    BY <2>9, <2>12 DEF Surjection
  <2>14. emitted \in Injection(1..n, Members)
    BY <2>11, <2>12 DEF Injection, IsInjective
  <2>15. IsFiniteSet(1..n) /\ Cardinality(1..n) = n
    BY <2>3, FS_Interval
  <2>16. Cardinality(Members) = n
    BY <2>13, <2>14, <2>15, FS_Surjection
  <2> QED BY <2>10, <2>16
<1> QED BY <1>1, Invariance, PTL

=============================================================================
