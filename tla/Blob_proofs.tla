----------------------------- MODULE Blob_proofs -----------------------------
(***************************************************************************)
(* Proofs about Blob, for any sets of rows and bytes and integers of any   *)
(* width.  What makes the properties inductive is PosInside: on a handle   *)
(* that is not aborted the position is inside the blob, and SizeCurrent:   *)
(* while SQLite has not noticed a change of the row, the size cached in    *)
(* the handle is the length of the row it is on.                           *)
(***************************************************************************)
EXTENDS Blob, TLAPS

-----------------------------------------------------------------------------
(* Arithmetic.                                                             *)

\* std::cmp::min.
LEMMA MinPair == \A a, b \in Int : Min({a, b}) = IF a <= b THEN a ELSE b
BY DEF Min

\* Remainders: their range, and where they are the number itself.
LEMMA ModFacts ==
    ASSUME NEW x \in Int, NEW k \in Nat, k > 0
    PROVE  /\ x % k \in 0..(k - 1)
           /\ 0 <= x /\ x < k => x % k = x
           /\ 0 <= x => x % k <= x
           /\ x < 0 /\ -k <= x => x % k = x + k
<1>1. x % k \in 0..(k - 1)
  OBVIOUS
<1>2. 0 <= x /\ x < k => x % k = x
  OBVIOUS
<1>3. 0 <= x => x % k <= x
  OBVIOUS
<1>4. x < 0 /\ -k <= x => x % k = x + k
  OBVIOUS
<1> QED BY <1>1, <1>2, <1>3, <1>4

\* A cast to a signed type stays in the type, is exact on numbers that fit and
\* never increases a nonnegative number.
LEMMA WrappedFacts ==
    ASSUME NEW x \in Int, NEW max \in Nat
    PROVE  /\ Wrapped(x, max) \in (-max - 1)..max
           /\ x \in (-max - 1)..max => Wrapped(x, max) = x
           /\ x >= 0 => Wrapped(x, max) <= x
<1> DEFINE k == 2 * (max + 1)
           y == x + max + 1
<1>1. k \in Nat /\ k > 0 /\ y \in Int
  OBVIOUS
<1>2. Wrapped(x, max) = (y % k) - (max + 1)
  BY DEF Wrapped
<1> HIDE DEF k, y
<1>3. /\ y % k \in 0..(k - 1)
      /\ 0 <= y /\ y < k => y % k = y
      /\ 0 <= y => y % k <= y
  BY <1>1, ModFacts
<1>4. k = 2 * (max + 1) /\ y = x + max + 1
  BY DEF k, y
<1> QED BY <1>2, <1>3, <1>4

\* Contents are sequences of bytes, none of them the mark of a missing row.
LEMMA ContentFacts ==
    ASSUME NEW c \in Content
    PROVE  /\ c \in Seq(Byte) /\ Len(c) \in 0..I32Max /\ c # NoRow
           /\ c = [i \in 1..Len(c) |-> c[i]]
<1>1. PICK n \in 0..I32Max : c \in [1..n -> Byte]
  BY DEF Content
<1>2. n \in Nat
  BY WidthAssumption
<1>3. c \in Seq(Byte) /\ Len(c) = n
  BY <1>1, <1>2
<1>4. c # NoRow
  <2> SUFFICES ASSUME c = NoRow PROVE FALSE
    OBVIOUS
  <2>1. NoRow[1] = "no row"
    BY DEF NoRow
  <2>2. Len(NoRow) = 1
    BY DEF NoRow
  <2>3. c[1] \in Byte
    BY <1>1, <1>2, <1>3, <2>2
  <2> QED BY <2>1, <2>3, ByteAssumption
<1> QED BY <1>1, <1>3, <1>4

\* A function on 1..n with bytes as values is a content.
LEMMA ContentIs ==
    ASSUME NEW n \in 0..I32Max, NEW c \in [1..n -> Byte]
    PROVE  c \in Content /\ Len(c) = n
<1>1. n \in Nat
  BY WidthAssumption
<1> QED BY <1>1 DEF Content

-----------------------------------------------------------------------------
(* The inductive invariant.                                                *)

PosInside == handle.stmt => pos <= handle.nByte

SizeCurrent ==
    handle.stmt /\ handle.cursor =>
        rows[handle.row] \in Content /\ Len(rows[handle.row]) = handle.nByte

IInv == TypeOK /\ PosInside /\ SizeCurrent

\* A new Blob value does not exist yet: its handle is aborted.
LEMMA InitInv == Init => IInv
<1> SUFFICES ASSUME Init PROVE IInv
  OBVIOUS
<1>1. Created \subseteq Content
  BY InputAssumption DEF Content
<1>2. handle \in Handle /\ handle.stmt = FALSE
  <2>1. PICK r \in Row :
           handle = [row |-> r, nByte |-> 0, stmt |-> FALSE, cursor |-> FALSE, ro |-> TRUE]
    BY DEF Init
  <2>2. 0 \in 0..I32Max
    BY WidthAssumption
  <2> QED BY <2>1, <2>2 DEF Handle
<1>3. TypeOK
  <2>1. debug \in BOOLEAN /\ open \in BOOLEAN
    BY BuildAssumption DEF Init
  <2>2. pos \in 0..I32Max
    BY WidthAssumption DEF Init
  <2>3. rows \in [Row -> Content \cup {NoRow}]
    BY <1>1 DEF Init
  <2> QED BY <1>2, <2>1, <2>2, <2>3 DEF TypeOK
<1> QED BY <1>2, <1>3 DEF IInv, PosInside, SizeCurrent

\* The lengths and offsets that callers pass are of their types.
LEMMA InputFacts ==
    /\ I32Max \in Nat /\ I64Max \in Nat /\ I32Max < I64Max
    /\ UsizeMax = 2 * I64Max + 1
    /\ \A len \in BufLen : len \in 0..I64Max
    /\ \A start \in Start : start \in 0..(2 * I64Max + 1)
    /\ \A offset \in Offset : offset \in (-I64Max - 1)..I64Max
BY WidthAssumption, InputAssumption DEF UsizeMax

\* The size SQLite reports is at most the cached one.
LEMMA SizeFacts ==
    ASSUME TypeOK
    PROVE  /\ size \in 0..I32Max /\ pos \in 0..I32Max /\ handle.nByte \in 0..I32Max
           /\ size <= handle.nByte
           /\ handle.stmt => size = handle.nByte
BY WidthAssumption DEF TypeOK, Handle, size

\* The casts to i32 are exact on what fits.
LEMMA AsI32Facts ==
    ASSUME NEW x \in Int
    PROVE  /\ AsI32(x) \in (-I32Max - 1)..I32Max
           /\ x \in 0..I32Max => AsI32(x) = x
           /\ x >= 0 => AsI32(x) <= x
<1>1. I32Max \in Nat
  BY WidthAssumption
<1>2. /\ Wrapped(x, I32Max) \in (-I32Max - 1)..I32Max
      /\ x \in (-I32Max - 1)..I32Max => Wrapped(x, I32Max) = x
      /\ x >= 0 => Wrapped(x, I32Max) <= x
  BY <1>1, WrappedFacts
<1> QED BY <1>1, <1>2 DEF AsI32

\* What read and write ask for: never more than the buffer, and exactly what
\* there is room for when the handle is not aborted.
LEMMA CountFacts ==
    ASSUME TypeOK, PosInside, NEW len \in BufLen
    PROVE  /\ Count(len) \in Int /\ Count(len) <= len
           /\ handle.stmt => /\ Count(len) = IF len <= handle.nByte - pos THEN len ELSE handle.nByte - pos
                             /\ Count(len) >= 0
<1>1. /\ size \in 0..I32Max /\ pos \in 0..I32Max /\ handle.nByte \in 0..I32Max
      /\ handle.stmt => size = handle.nByte
      /\ len \in 0..I64Max /\ I32Max \in Nat /\ I64Max \in Nat /\ I32Max < I64Max
  BY SizeFacts, InputFacts
<1> DEFINE u == AsUsize(size - pos)
           m == Min({len, u})
<1>2. u \in Nat /\ (size - pos >= 0 => u = size - pos)
  <2> DEFINE k == 2 * I64Max + 2
             x == size - pos
  <2>1. k \in Nat /\ k > 0 /\ x \in Int /\ x < k
    BY <1>1
  <2>2. UsizeMax + 1 = k
    BY <1>1 DEF UsizeMax
  <2>3. u = x % k
    BY <2>2 DEF AsUsize
  <2> HIDE DEF k, x
  <2>4. x % k \in 0..(k - 1) /\ (0 <= x /\ x < k => x % k = x)
    BY <2>1, ModFacts
  <2>5. u \in Nat /\ (x >= 0 => u = x)
    BY <2>1, <2>3, <2>4
  <2> QED BY <2>5 DEF x
<1> HIDE DEF u
<1>3. len \in Int /\ u \in Int
  BY <1>1, <1>2
<1>4. m = IF len <= u THEN len ELSE u
  BY <1>3, MinPair
<1> HIDE DEF m
<1>5. m \in Nat /\ m <= len
  BY <1>1, <1>2, <1>4
<1>6. Count(len) = AsI32(m)
  BY DEF Count, m, u
<1>7. AsI32(m) \in (-I32Max - 1)..I32Max /\ AsI32(m) <= m /\ (m \in 0..I32Max => AsI32(m) = m)
  BY <1>5, AsI32Facts
<1>8. Count(len) \in Int /\ Count(len) <= len
  BY <1>1, <1>5, <1>6, <1>7
<1>9. ASSUME handle.stmt
      PROVE  m = (IF len <= handle.nByte - pos THEN len ELSE handle.nByte - pos) /\ m \in 0..I32Max
  <2>1. pos <= handle.nByte /\ size = handle.nByte
    BY <1>1, <1>9 DEF PosInside
  <2>2. u = handle.nByte - pos
    BY <1>1, <1>2, <2>1
  <2> QED BY <1>1, <1>4, <2>1, <2>2
<1> QED BY <1>6, <1>7, <1>8, <1>9

\* What raw_read_at asks for: inside the blob and no more than the buffer.
LEMMA ReadLenFacts ==
    ASSUME TypeOK, NEW len \in BufLen, NEW start \in Start
    PROVE  /\ ReadLen(len, start) \in 0..len /\ ReadLen(len, start) \in 0..I32Max
           /\ AsI32(ReadLen(len, start)) = ReadLen(len, start)
           /\ ReadLen(len, start) = IF start >= size THEN 0
                                    ELSE IF size - start <= len THEN size - start ELSE len
           /\ ReadLen(len, start) # 0 => /\ start + ReadLen(len, start) <= size
                                         /\ AsI32(start) = start
<1>1. /\ size \in 0..I32Max /\ len \in 0..I64Max /\ start \in 0..(2 * I64Max + 1)
      /\ I32Max \in Nat /\ I64Max \in Nat
  BY SizeFacts, InputFacts
<1> DEFINE n == ReadLen(len, start)
<1>2. Min({size - start, len}) = IF size - start <= len THEN size - start ELSE len
  BY <1>1, MinPair
<1>3. n = IF start >= size THEN 0 ELSE IF size - start <= len THEN size - start ELSE len
  BY <1>2 DEF ReadLen
<1> HIDE DEF n
<1>4. n \in 0..len /\ n \in 0..I32Max /\ (n # 0 => start + n <= size /\ start \in 0..I32Max)
  BY <1>1, <1>3
<1>5. AsI32(n) = n
  BY <1>1, <1>4, AsI32Facts
<1>6. n # 0 => AsI32(start) = start
  BY <1>1, <1>4, AsI32Facts
<1> QED BY <1>3, <1>4, <1>5, <1>6 DEF n

\* What write_at lets through is inside the blob, and its casts are exact.
LEMMA FitsFacts ==
    ASSUME TypeOK, NEW len \in BufLen, NEW start \in Start
    PROVE  /\ Fits(len, start) <=> start + len <= size
           /\ Fits(len, start) => AsI32(len) = len /\ AsI32(start) = start /\ len >= 0
<1>1. /\ size \in 0..I32Max /\ len \in 0..I64Max /\ start \in 0..(2 * I64Max + 1)
      /\ I32Max \in Nat /\ I64Max \in Nat /\ I32Max < I64Max /\ UsizeMax = 2 * I64Max + 1
  BY SizeFacts, InputFacts
<1>2. Min({len + start, UsizeMax}) = IF len + start <= UsizeMax THEN len + start ELSE UsizeMax
  BY <1>1, MinPair
<1>3. Fits(len, start) <=> start + len <= size
  BY <1>1, <1>2 DEF Fits
<1>4. Fits(len, start) => len \in 0..I32Max /\ start \in 0..I32Max
  BY <1>1, <1>3
<1> QED BY <1>1, <1>3, <1>4, AsI32Facts

\* No call passes SQLite a count beyond the caller's buffer.
LEMMA BufferSafeInv == IInv => BufferSafe
<1> SUFFICES ASSUME IInv, NEW len \in BufLen
             PROVE  /\ Count(len) <= len
                    /\ \A start \in Start : AsI32(ReadLen(len, start)) \in 0..len
                    /\ \A start \in Start : Fits(len, start) => AsI32(len) \in 0..len
  BY DEF BufferSafe
<1>1. len \in Nat
  BY InputFacts
<1>2. Count(len) <= len
  BY CountFacts DEF IInv
<1>3. \A start \in Start : AsI32(ReadLen(len, start)) \in 0..len
  BY ReadLenFacts DEF IInv
<1>4. \A start \in Start : Fits(len, start) => AsI32(len) \in 0..len
  BY <1>1, FitsFacts DEF IInv
<1> QED BY <1>2, <1>3, <1>4

\* No cast loses anything on a handle that is not aborted.
LEMMA CastsExactInv == IInv => CastsExact
<1> SUFFICES ASSUME IInv, handle.stmt, NEW len \in BufLen
             PROVE  /\ Count(len) = Min({len, handle.nByte - pos})
                    /\ \A start \in Start :
                         /\ ReadLen(len, start) > 0
                              => /\ AsI32(start) = start
                                 /\ AsI32(ReadLen(len, start)) = ReadLen(len, start)
                         /\ Fits(len, start)
                              => AsI32(start) = start /\ AsI32(len) = len /\ start + len <= handle.nByte
  BY DEF CastsExact
<1>1. len \in Int /\ handle.nByte \in Int /\ pos \in Int /\ size = handle.nByte
  BY InputFacts, SizeFacts DEF IInv
<1>2. Count(len) = IF len <= handle.nByte - pos THEN len ELSE handle.nByte - pos
  BY CountFacts DEF IInv
<1>3. Count(len) = Min({len, handle.nByte - pos})
  BY <1>1, <1>2, MinPair
<1>4. ASSUME NEW start \in Start
      PROVE  /\ ReadLen(len, start) > 0
                  => AsI32(start) = start /\ AsI32(ReadLen(len, start)) = ReadLen(len, start)
             /\ Fits(len, start)
                  => AsI32(start) = start /\ AsI32(len) = len /\ start + len <= handle.nByte
  <2>1. ReadLen(len, start) > 0 => ReadLen(len, start) # 0
    BY ReadLenFacts DEF IInv
  <2> QED BY <1>1, <2>1, ReadLenFacts, FitsFacts DEF IInv
<1> QED BY <1>3, <1>4

-----------------------------------------------------------------------------
(* The steps preserve it.                                                  *)

\* SQLite moves bytes only inside the blob, through a handle on a current row.
LEMMA BlobRcFacts ==
    ASSUME NEW n \in Int, NEW off \in Int
    PROVE  /\ BlobRc(n, off) \in {"ok", "error", "abort"}
           /\ BlobRc(n, off) = "ok" =>
                n >= 0 /\ off >= 0 /\ ~(off + n > handle.nByte) /\ handle.stmt /\ handle.cursor
           /\ n >= 0 /\ off >= 0 /\ ~(off + n > handle.nByte) /\ handle.stmt /\ handle.cursor
                => BlobRc(n, off) = "ok"
BY DEF BlobRc

\* A transfer leaves the handle as it is or aborts it.
LEMMA AfterRcFacts ==
    ASSUME TypeOK, NEW rc, AfterRc(rc)
    PROVE  /\ handle' \in Handle /\ handle'.row = handle.row
           /\ handle' = handle \/ handle'.stmt = FALSE
           /\ handle'.stmt => handle.stmt
           /\ rc # "abort" => handle' = handle
BY DEF TypeOK, Handle, AfterRc

\* Overwriting bytes of a row keeps its length.
LEMMA OverwrittenFacts ==
    ASSUME TypeOK, rows[handle.row] \in Content, NEW off, NEW n, NEW b \in Byte
    PROVE  /\ Overwritten(off, n, b) \in Content
           /\ Len(Overwritten(off, n, b)) = Len(rows[handle.row])
<1> DEFINE l == Len(rows[handle.row])
<1>1. l \in 0..I32Max /\ rows[handle.row] \in Seq(Byte)
  BY ContentFacts
<1>2. \A i \in 1..l : Blob[i] \in Byte
  BY <1>1 DEF Blob
<1>3. Overwritten(off, n, b) \in [1..l -> Byte]
  BY <1>2 DEF Overwritten, Blob
<1> HIDE DEF l
<1>4. Overwritten(off, n, b) \in Content /\ Len(Overwritten(off, n, b)) = l
  BY <1>1, <1>3, ContentIs
<1> QED BY <1>4 DEF l

\* Seeking the handle to a row yields a handle on that row, or an aborted one.
LEMMA SeekToRowFacts ==
    ASSUME TypeOK, NEW h \in Handle, NEW r \in Row, NEW g, g = SeekToRow(h, r)
    PROVE  /\ g \in Handle /\ g.ro = h.ro
           /\ g.stmt => /\ g.row = r /\ rows[r] \in Content /\ g.nByte = Len(rows[r])
           /\ ~g.stmt => g.row = h.row
<1>1. CASE rows[r] # NoRow
  <2>1. rows[r] \in Content
    BY <1>1 DEF TypeOK
  <2>2. Len(rows[r]) \in 0..I32Max
    BY <2>1, ContentFacts
  <2>3. g = [row |-> r, nByte |-> Len(rows[r]), stmt |-> TRUE, cursor |-> TRUE, ro |-> h.ro]
    BY <1>1 DEF SeekToRow
  <2> QED BY <2>1, <2>2, <2>3 DEF Handle
<1>2. CASE rows[r] = NoRow
  BY <1>2 DEF SeekToRow, Handle
<1> QED BY <1>1, <1>2

\* What a transfer of n bytes at off does to rows and handle, whatever SQLite answers.
LEMMA TransferInv ==
    ASSUME IInv, NEW n \in Int, NEW off \in Int, NEW rc, AfterRc(rc),
           rc = "ok" => BlobRc(n, off) = "ok",
           \/ rows' = rows
           \/ rc = "ok" /\ \E b \in Byte : rows' = [rows EXCEPT ![handle.row] = Overwritten(off, n, b)]
    PROVE  /\ rows' \in [Row -> Content \cup {NoRow}] /\ handle' \in Handle /\ SizeCurrent'
           /\ handle'.stmt => handle.stmt /\ handle' = handle
<1>1. /\ handle' \in Handle /\ handle'.row = handle.row /\ (handle' = handle \/ handle'.stmt = FALSE)
      /\ handle'.stmt => handle.stmt
      /\ handle.row \in Row
  BY AfterRcFacts DEF IInv, TypeOK, Handle
<1>2. CASE rows' = rows
  BY <1>1, <1>2 DEF IInv, TypeOK, SizeCurrent
<1>3. CASE rc = "ok" /\ \E b \in Byte : rows' = [rows EXCEPT ![handle.row] = Overwritten(off, n, b)]
  <2>1. handle.stmt /\ handle.cursor
    BY <1>3, BlobRcFacts
  <2>2. rows[handle.row] \in Content /\ Len(rows[handle.row]) = handle.nByte
    BY <2>1 DEF IInv, SizeCurrent
  <2>3. PICK b \in Byte : rows' = [rows EXCEPT ![handle.row] = Overwritten(off, n, b)]
    BY <1>3
  <2>4. Overwritten(off, n, b) \in Content /\ Len(Overwritten(off, n, b)) = handle.nByte
    BY <2>2, OverwrittenFacts DEF IInv
  <2>5. handle' = handle
    BY <1>3, AfterRcFacts DEF IInv
  <2> HIDE DEF Overwritten
  <2>6. rows' \in [Row -> Content \cup {NoRow}] /\ rows'[handle.row] = Overwritten(off, n, b)
    BY <1>1, <2>3, <2>4 DEF IInv, TypeOK
  <2> QED BY <1>1, <2>4, <2>5, <2>6 DEF SizeCurrent
<1> QED BY <1>2, <1>3

\* SQL changes a row.
LEMMA ChangeRowInv ==
    ASSUME IInv, NEW r \in Row, NEW c \in Created \cup {NoRow}, ChangeRow(r, c)
    PROVE  IInv'
<1> USE DEF ChangeRow
<1>1. Created \subseteq Content
  BY InputAssumption DEF Content
<1>2. rows' \in [Row -> Content \cup {NoRow}]
  BY <1>1 DEF IInv, TypeOK
<1>3. handle' \in Handle /\ handle'.nByte = handle.nByte /\ handle'.stmt = handle.stmt
      /\ handle'.row = handle.row
      /\ (handle'.cursor => handle.cursor /\ handle.row # r)
  BY DEF IInv, TypeOK, Handle
<1>4. TypeOK'
  BY <1>2, <1>3 DEF IInv, TypeOK
<1>5. PosInside'
  BY <1>3 DEF IInv, PosInside
<1>6. SizeCurrent'
  BY <1>3 DEF IInv, SizeCurrent, TypeOK, Handle
<1> QED BY <1>4, <1>5, <1>6 DEF IInv

\* Opening, moving and closing.
LEMMA MoveInv ==
    ASSUME IInv, NEW r \in Row, (\E ro \in BOOLEAN : blob_open(r, ro)) \/ reopen(r) \/ close
    PROVE  IInv'
<1>0. 0 \in 0..I32Max /\ debug \in BOOLEAN /\ handle \in Handle /\ pos \in 0..I32Max
  BY WidthAssumption DEF IInv, TypeOK
<1>1. ASSUME NEW ro \in BOOLEAN, blob_open(r, ro) PROVE IInv'
  <2>1. [handle EXCEPT !.ro = ro] \in Handle
    BY <1>0 DEF Handle
  <2>2. /\ handle' \in Handle
        /\ handle'.stmt => handle'.row = r /\ rows[r] \in Content /\ handle'.nByte = Len(rows[r])
    BY <1>1, <2>1, SeekToRowFacts DEF blob_open, IInv
  <2>3. pos' = 0 /\ rows' = rows /\ debug' = debug /\ open' = handle'.stmt
    BY <1>1 DEF blob_open
  <2>4. open' \in BOOLEAN /\ handle'.nByte \in 0..I32Max
    BY <2>2, <2>3 DEF Handle
  <2>5. TypeOK'
    BY <1>0, <2>2, <2>3, <2>4 DEF IInv, TypeOK
  <2>6. PosInside'
    BY <2>3, <2>4, WidthAssumption DEF PosInside
  <2>7. SizeCurrent'
    BY <2>2, <2>3 DEF SizeCurrent
  <2> QED BY <2>5, <2>6, <2>7 DEF IInv
<1>2. CASE reopen(r)
  <2>1. CASE ~handle.stmt
    BY <1>2, <2>1 DEF reopen, IInv, TypeOK, PosInside, SizeCurrent
  <2>2. CASE handle.stmt
    <3>1. /\ handle' \in Handle
          /\ handle'.stmt => handle'.row = r /\ rows[r] \in Content /\ handle'.nByte = Len(rows[r])
      BY <1>0, <1>2, <2>2, SeekToRowFacts DEF reopen, IInv
    <3>2. /\ rows' = rows /\ debug' = debug /\ open' = open
          /\ IF handle'.stmt THEN pos' = 0 ELSE pos' = pos
      BY <1>2 DEF reopen
    <3>3. TypeOK'
      BY <1>0, <3>1, <3>2 DEF IInv, TypeOK
    <3>4. PosInside'
      BY <3>1, <3>2, WidthAssumption DEF PosInside, Handle
    <3>5. SizeCurrent'
      BY <3>1, <3>2 DEF SizeCurrent
    <3> QED BY <3>3, <3>4, <3>5 DEF IInv
  <2> QED BY <2>1, <2>2
<1>3. CASE close
  <2>1. handle' \in Handle /\ handle'.stmt = FALSE
    BY <1>0, <1>3 DEF close, Handle
  <2>2. TypeOK'
    BY <1>3, <2>1 DEF close, IInv, TypeOK
  <2> QED BY <2>1, <2>2 DEF IInv, PosInside, SizeCurrent
<1> QED BY <1>1, <1>2, <1>3

\* A result without a call of SQLite changes nothing the invariant is about.
LEMMA AnswerInv ==
    ASSUME IInv, NEW v, Answer(v), UNCHANGED <<debug, open>>
    PROVE  IInv'
BY DEF Answer, IInv, TypeOK, PosInside, SizeCurrent

\* std::io::Read and Write.
LEMMA StreamInv ==
    ASSUME IInv, NEW len \in BufLen, read(len) \/ \E b \in Byte : write(len, b)
    PROVE  IInv'
<1> DEFINE n == Count(len)
<1>0. n \in Int /\ pos \in 0..I32Max /\ I32Max \in Nat /\ handle.nByte \in 0..I32Max /\ pos \in Int
  BY CountFacts, SizeFacts, InputFacts DEF IInv
<1>1. UNCHANGED <<debug, open>>
  BY DEF read, write
<1>2. CASE \E v : Answer(v)
  BY <1>1, <1>2, AnswerInv
<1>3. ASSUME NEW rc, AfterRc(rc), rc = "ok" => BlobRc(n, pos) = "ok",
             pos' = IF rc = "ok" THEN pos + n ELSE pos,
             \/ rows' = rows
             \/ rc = "ok" /\ \E b \in Byte : rows' = [rows EXCEPT ![handle.row] = Overwritten(pos, n, b)]
      PROVE  IInv'
  <2> HIDE DEF n
  <2>1. /\ rows' \in [Row -> Content \cup {NoRow}] /\ handle' \in Handle /\ SizeCurrent'
        /\ handle'.stmt => handle.stmt /\ handle' = handle
    BY <1>0, <1>3, TransferInv
  <2>2. rc = "ok" => n >= 0 /\ pos + n <= handle.nByte
    BY <1>0, <1>3, BlobRcFacts
  <2>3. pos' \in 0..I32Max
    BY <1>0, <1>3, <2>2
  <2>4. TypeOK'
    BY <1>1, <2>1, <2>3 DEF IInv, TypeOK
  <2>5. PosInside'
    BY <1>3, <2>1, <2>2 DEF IInv, PosInside
  <2> QED BY <2>1, <2>4, <2>5 DEF IInv
<1>4. CASE read(len)
  BY <1>2, <1>3, <1>4 DEF read
<1>5. ASSUME NEW b \in Byte, write(len, b) PROVE IInv'
  <2> DEFINE rc == IF BlobRc(n, pos) = "ok" /\ handle.ro THEN "readonly" ELSE BlobRc(n, pos)
  <2>1. \/ Answer(Num(0))
        \/ /\ AfterRc(rc)
           /\ pos' = IF rc = "ok" THEN pos + n ELSE pos
           /\ rows' = IF rc = "ok" THEN [rows EXCEPT ![handle.row] = Overwritten(pos, n, b)] ELSE rows
    BY <1>5 DEF write
  <2>2. rc = "ok" => BlobRc(n, pos) = "ok"
    OBVIOUS
  <2> HIDE DEF rc, n
  <2> QED BY <1>2, <1>3, <2>1, <2>2
<1> QED BY <1>4, <1>5

\* std::io::Seek.
LEMMA SeekInv ==
    ASSUME IInv, NEW exact \in Int, SeekTo(exact), UNCHANGED <<debug, open>>
    PROVE  IInv'
<1>1. CASE \E v : Answer(v)
  BY <1>1, AnswerInv
<1>2. CASE 0 <= AsI64(exact) /\ AsI64(exact) <= size /\ pos' = AsI32(AsI64(exact))
           /\ UNCHANGED <<rows, handle>>
  <2> DEFINE to == AsI64(exact)
  <2>1. to \in Int
    BY WrappedFacts, WidthAssumption DEF AsI64
  <2>2. size \in 0..I32Max /\ I32Max \in Nat /\ (handle.stmt => size = handle.nByte)
    BY SizeFacts, InputFacts DEF IInv
  <2> HIDE DEF to
  <2>3. to \in 0..size /\ to \in 0..I32Max
    BY <1>2, <2>1, <2>2 DEF to
  <2>4. pos' = to
    BY <1>2, <2>1, <2>3, AsI32Facts DEF to
  <2>5. TypeOK'
    BY <1>2, <2>3, <2>4 DEF IInv, TypeOK
  <2>6. PosInside'
    BY <1>2, <2>2, <2>3, <2>4 DEF PosInside
  <2> QED BY <1>2, <2>5, <2>6 DEF IInv, SizeCurrent
<1> QED BY <1>1, <1>2 DEF SeekTo

\* Where a seek goes is an integer, whatever it is relative to.
LEMMA SeekFromFacts ==
    ASSUME TypeOK, NEW from \in {"Start", "Current", "End"}, NEW offset \in Int
    PROVE  [Start |-> AsI64(offset), Current |-> pos + offset, End |-> size + offset][from] \in Int
<1>1. AsI64(offset) \in Int
  BY WrappedFacts, WidthAssumption DEF AsI64
<1>2. pos + offset \in Int /\ size + offset \in Int
  BY SizeFacts
<1> HIDE DEF size
<1> QED BY <1>1, <1>2

\* Positional reads and writes.
LEMMA PositionalInv ==
    ASSUME IInv, NEW len \in BufLen, NEW start \in Start,
           \/ \E exact \in BOOLEAN : read_at(len, start, exact)
           \/ \E b \in Byte : write_at(len, start, b)
    PROVE  IInv'
<1>0. len \in Int /\ start \in Int /\ ReadLen(len, start) \in Int
  BY InputFacts, ReadLenFacts DEF IInv
<1>1. UNCHANGED <<debug, open>>
  BY DEF read_at, write_at
<1>2. CASE \E v : Answer(v)
  BY <1>1, <1>2, AnswerInv
<1>3. ASSUME NEW n \in Int, NEW off \in Int, NEW rc, AfterRc(rc), rc = "ok" => BlobRc(n, off) = "ok",
             UNCHANGED pos,
             \/ rows' = rows
             \/ rc = "ok" /\ \E b \in Byte : rows' = [rows EXCEPT ![handle.row] = Overwritten(off, n, b)]
      PROVE  IInv'
  <2>1. /\ rows' \in [Row -> Content \cup {NoRow}] /\ handle' \in Handle /\ SizeCurrent'
        /\ handle'.stmt => handle.stmt /\ handle' = handle
    BY <1>3, TransferInv
  <2> QED BY <1>1, <1>3, <2>1 DEF IInv, TypeOK, PosInside
<1>4. ASSUME NEW exact \in BOOLEAN, read_at(len, start, exact) PROVE IInv'
  <2> DEFINE n == AsI32(ReadLen(len, start))
             off == AsI32(start)
             rc == BlobRc(n, off)
  <2>1. n \in Int /\ off \in Int
    BY <1>0, AsI32Facts, InputFacts
  <2>2. (\E v : Answer(v)) \/ (AfterRc(rc) /\ UNCHANGED <<rows, pos>>)
    BY <1>4 DEF read_at
  <2>3. rc = "ok" => BlobRc(n, off) = "ok"
    OBVIOUS
  <2> HIDE DEF rc, n, off
  <2> QED BY <1>2, <1>3, <2>1, <2>2, <2>3
<1>5. ASSUME NEW b \in Byte, write_at(len, start, b) PROVE IInv'
  <2> DEFINE n == AsI32(len)
             off == AsI32(start)
             rc == IF BlobRc(n, off) = "ok" /\ handle.ro THEN "readonly" ELSE BlobRc(n, off)
  <2>1. n \in Int /\ off \in Int
    BY <1>0, AsI32Facts, InputFacts
  <2>2. \/ \E v : Answer(v)
        \/ /\ AfterRc(rc) /\ UNCHANGED pos
           /\ rows' = IF rc = "ok" THEN [rows EXCEPT ![handle.row] = Overwritten(off, n, b)] ELSE rows
    BY <1>5 DEF write_at
  <2>3. rc = "ok" => BlobRc(n, off) = "ok"
    OBVIOUS
  <2> HIDE DEF rc, n, off
  <2> QED BY <1>2, <1>3, <2>1, <2>2, <2>3
<1> QED BY <1>4, <1>5

\* Every step preserves the invariant.
LEMMA NextInv == IInv /\ [Next]_vars => IInv'
<1> SUFFICES ASSUME IInv, [Next]_vars PROVE IInv'
  OBVIOUS
<1>1. ASSUME NEW r \in Row, NEW c \in Created \cup {NoRow}, ChangeRow(r, c) PROVE IInv'
  BY <1>1, ChangeRowInv
<1>2. ASSUME NEW r \in Row, (\E ro \in BOOLEAN : blob_open(r, ro)) \/ reopen(r) PROVE IInv'
  BY <1>2, MoveInv
<1>3. CASE close
  BY <1>3, MoveInv DEF IInv, TypeOK, Handle
<1>4. ASSUME NEW len \in BufLen, read(len) \/ \E b \in Byte : write(len, b) PROVE IInv'
  BY <1>4, StreamInv
<1>5. ASSUME NEW from \in {"Start", "Current", "End"}, NEW offset \in Int, seek(from, offset) PROVE IInv'
  BY <1>5, SeekInv, SeekFromFacts DEF seek, IInv
<1>6. ASSUME NEW len \in BufLen, NEW start \in Start,
             \/ \E exact \in BOOLEAN : read_at(len, start, exact)
             \/ \E b \in Byte : write_at(len, start, b)
      PROVE  IInv'
  BY <1>6, PositionalInv
<1>7. CASE UNCHANGED vars
  BY <1>7 DEF vars, IInv, TypeOK, PosInside, SizeCurrent
<1>8. Start \subseteq Int /\ Offset \subseteq Int
  BY InputFacts
<1> QED BY <1>1, <1>2, <1>3, <1>4, <1>5, <1>6, <1>7, <1>8 DEF Next

\* The inductive invariant holds in every reachable state.
THEOREM Invariance == Spec => []IInv
<1> QED BY InitInv, NextInv, PTL DEF Spec

\* Position and sizes stay i32, for integers of any width: no seek, transfer or
\* reopen moves the position out of the type.
THEOREM TypeCorrect == Spec => []TypeOK
<1>1. IInv => TypeOK
  BY DEF IInv
<1> QED BY <1>1, Invariance, PTL

\* SQLite is never given a count larger than the caller's buffer, also through an
\* aborted handle, where size() - pos is negative before it is cast.
THEOREM NoOverrun == Spec => []BufferSafe
<1> QED BY BufferSafeInv, Invariance, PTL

\* Through a handle that is not aborted the casts to i32 and usize lose nothing and
\* no request reaches beyond the blob.
THEOREM ExactCasts == Spec => []CastsExact
<1> QED BY CastsExactInv, Invariance, PTL

-----------------------------------------------------------------------------
(* The refinement: a live handle is a file of fixed size.                  *)

\* What the mapping takes for the file's content, and the positions it allows.
Contents == IF Blob = NoRow THEN <<>> ELSE Blob
Positions == (-I64Max - 1)..2 * I64Max + 1

\* The mapping leaves results alone, panics aside.
LEMMA ResultFacts ==
    /\ \A b : out' = Data(b) => Result' = Data(b)
    /\ \A n : out' = Num(n) => Result' = Num(n)
    /\ out' = Done => Result' = Done
    /\ out' = Err => Result' = Err
    /\ out' \in {<<"overflow">>, <<"assert">>} => Result' = Err
<1>1. ASSUME NEW b PROVE Data(b) \notin {<<"overflow">>, <<"assert">>}
  BY DEF Data
<1>2. ASSUME NEW n PROVE Num(n) \notin {<<"overflow">>, <<"assert">>}
  BY DEF Num
<1>3. Done \notin {<<"overflow">>, <<"assert">>} /\ Err \notin {<<"overflow">>, <<"assert">>}
  BY DEF Done, Err
<1> QED BY <1>1, <1>2, <1>3 DEF Result

\* On a live handle the size SQLite cached is the length of the content.
LEMMA AliveFacts ==
    ASSUME IInv, Alive
    PROVE  /\ Contents = Blob /\ Blob \in Content /\ Blob \in Seq(Byte)
           /\ Len(Contents) = handle.nByte /\ size = handle.nByte
           /\ handle.stmt /\ handle.cursor /\ pos \in 0..handle.nByte /\ handle.nByte \in Nat
<1>1. Blob \in Content /\ Len(Blob) = handle.nByte /\ handle.stmt /\ handle.cursor
  BY DEF Alive, IInv, SizeCurrent, Blob
<1>2. Blob # NoRow /\ Blob \in Seq(Byte)
  BY <1>1, ContentFacts
<1>3. Contents = Blob
  BY <1>2 DEF Contents
<1>4. size = handle.nByte /\ pos \in 0..I32Max /\ handle.nByte \in 0..I32Max /\ pos <= handle.nByte
  BY <1>1, SizeFacts DEF IInv, PosInside
<1> QED BY <1>1, <1>2, <1>3, <1>4

\* A call that touches no row and leaves the handle on it.
LEMMA ContentSame ==
    ASSUME rows' = rows, handle'.row = handle.row
    PROVE  Contents' = Contents
BY DEF Contents, Blob

\* Steps of the file, from what they do to the mapped variables.
LEMMA DeadStep ==
    ASSUME ~Alive, ~Alive', Contents' = Contents,
           Result' \in {Err, Data(<<>>)} \cup {Num(p) : p \in Positions}
    PROVE  File!Next
BY DEF File!Next, File!DeadCall, File!Err, File!Data, File!Num, Err, Data, Num, Contents, Positions

LEMMA FailStep ==
    ASSUME Alive, Alive' = Alive, Contents' = Contents, pos' = pos, Result' = Err
    PROVE  File!Next
BY DEF File!Next, File!AliveCall, File!Fail, File!Err, Err, Contents

\* A call on a handle that is not alive never succeeds, and leaves it so.
LEMMA DeadCallFacts ==
    ASSUME IInv, open, ~Alive, open' = open, NEW n \in Int, NEW off \in Int
    PROVE  /\ BlobRc(n, off) # "ok"
           /\ \A rc : AfterRc(rc) => ~Alive' /\ handle'.row = handle.row
           /\ UNCHANGED handle => ~Alive'
<1>1. ~(handle.stmt /\ handle.cursor)
  BY DEF Alive
<1>2. BlobRc(n, off) # "ok"
  BY <1>1, BlobRcFacts
<1>3. ASSUME NEW rc, AfterRc(rc) PROVE ~Alive' /\ handle'.row = handle.row
  BY <1>1, <1>3, AfterRcFacts DEF Alive, IInv
<1>4. UNCHANGED handle => ~Alive'
  BY <1>1 DEF Alive
<1> QED BY <1>2, <1>3, <1>4

\* A call on a live handle that SQLite does not abort leaves it alive.
LEMMA AliveCallFacts ==
    ASSUME IInv, Alive, open' = open
    PROVE  /\ \A rc : AfterRc(rc) /\ rc # "abort" => UNCHANGED handle
           /\ UNCHANGED handle => Alive' = Alive
BY AfterRcFacts DEF Alive, IInv

\* The rows change under the handle, or another row does.
LEMMA ChangeRowFile ==
    ASSUME IInv, NEW r \in Row, NEW c, ChangeRow(r, c)
    PROVE  [File!Next]_File!file
<1> USE DEF ChangeRow
<1>1. Result' = Result /\ pos' = pos
  BY DEF Result
<1>2. CASE handle.row = r
  <2>1. handle'.cursor = FALSE
    BY <1>2 DEF IInv, TypeOK, Handle
  <2>2. ~Alive'
    BY <2>1 DEF Alive
  <2>3. File!Expire
    BY <1>1, <2>2 DEF File!Expire
  <2> QED BY <2>3 DEF File!Next
<1>3. CASE handle.row # r
  <2>1. handle' = handle /\ handle.row \in Row
    BY <1>3 DEF IInv, TypeOK, Handle
  <2>2. rows'[handle.row] = rows[handle.row]
    BY <1>3, <2>1 DEF IInv, TypeOK
  <2>3. Contents' = Contents /\ Alive' = Alive
    BY <2>1, <2>2 DEF Contents, Blob, Alive
  <2> QED BY <1>1, <2>3 DEF File!file, Contents
<1> QED BY <1>2, <1>3

\* Opening, moving and closing.
LEMMA MoveFile ==
    ASSUME IInv, NEW r \in Row, (\E ro \in BOOLEAN : blob_open(r, ro)) \/ reopen(r) \/ close
    PROVE  File!Next
<1>1. ASSUME out' = Done, Alive' => pos' = 0 PROVE File!Next
  <2>1. Result' = Done
    BY <1>1, ResultFacts
  <2> QED BY <1>1, <2>1 DEF File!Next, File!Move, File!Done, Done
<1>2. ASSUME out' = Err, ~Alive', Contents' = Contents PROVE File!Next
  <2>1. Result' = Err
    BY <1>2, ResultFacts
  <2> QED BY <1>2, <2>1 DEF File!Next, File!Move, File!Err, Err, Contents
<1>3. handle \in Handle
  BY DEF IInv, TypeOK
<1>4. ASSUME NEW ro \in BOOLEAN, blob_open(r, ro) PROVE File!Next
  <2>1. CASE handle'.stmt
    BY <1>1, <1>4, <2>1 DEF blob_open
  <2>2. CASE ~handle'.stmt
    <3>1. PICK h : h = [handle EXCEPT !.ro = ro]
      OBVIOUS
    <3>2. h \in Handle /\ h.row = handle.row
      BY <1>3, <3>1 DEF Handle
    <3>3. handle' = SeekToRow(h, r)
      BY <1>4, <3>1 DEF blob_open
    <3>4. handle'.row = handle.row
      BY <2>2, <3>2, <3>3, SeekToRowFacts DEF IInv
    <3>5. Contents' = Contents
      BY <1>4, <3>4, ContentSame DEF blob_open
    <3> QED BY <1>2, <1>4, <2>2, <3>5 DEF blob_open, Alive
  <2> QED BY <2>1, <2>2
<1>5. CASE reopen(r)
  <2>1. CASE handle'.stmt
    BY <1>1, <1>5, <2>1 DEF reopen
  <2>2. CASE ~handle'.stmt
    <3>1. handle'.row = handle.row
      BY <1>3, <1>5, <2>2, SeekToRowFacts DEF reopen, IInv
    <3>2. Contents' = Contents
      BY <1>5, <3>1, ContentSame DEF reopen
    <3> QED BY <1>2, <1>5, <2>2, <3>2 DEF reopen, Alive
  <2> QED BY <2>1, <2>2
<1>6. CASE close
  <2>1. handle'.row = handle.row
    BY <1>3, <1>6 DEF close, Handle
  <2>2. Contents' = Contents /\ ~Alive'
    BY <1>6, <2>1, ContentSame DEF close, Alive
  <2> QED BY <1>1, <1>2, <1>6, <2>2 DEF close
<1> QED BY <1>4, <1>5, <1>6

\* A result without a call of SQLite, on a handle that is not alive.
LEMMA AnswerDead ==
    ASSUME IInv, open, ~Alive, open' = open, NEW v, Answer(v),
           v \in {Err, Data(<<>>), <<"overflow">>, <<"assert">>} \/ \E p \in Positions : v = Num(p)
    PROVE  File!Next
<1>1. out' = v /\ UNCHANGED <<rows, handle>>
  BY DEF Answer
<1>2. ~Alive' /\ Contents' = Contents
  BY <1>1, ContentSame, DeadCallFacts
<1>3. Result' \in {Err, Data(<<>>)} \cup {Num(p) : p \in Positions}
  BY <1>1, ResultFacts
<1> QED BY <1>2, <1>3, DeadStep

\* A transfer through a handle that is not alive.
LEMMA TransferDead ==
    ASSUME IInv, open, ~Alive, open' = open, NEW rc, AfterRc(rc), rows' = rows, out' = Err
    PROVE  File!Next
<1>1. ~Alive' /\ handle'.row = handle.row
  BY DeadCallFacts
<1>2. Contents' = Contents
  BY <1>1, ContentSame
<1>3. Result' = Err
  BY ResultFacts
<1> QED BY <1>1, <1>2, <1>3, DeadStep

\* 0 is a position.
LEMMA ZeroIsAPosition == 0 \in Positions
BY WidthAssumption DEF Positions

\* No bytes of a sequence.
LEMMA NoBytes == \A c \in Seq(Byte), at \in Nat : SubSeq(c, at + 1, at + 0) = <<>>
<1> SUFFICES ASSUME NEW c \in Seq(Byte), NEW at \in Nat PROVE SubSeq(c, at + 1, at + 0) = <<>>
  OBVIOUS
<1> QED OBVIOUS

\* std::io::Read.
LEMMA ReadFile ==
    ASSUME IInv, NEW len \in BufLen, read(len)
    PROVE  File!Next
<1> DEFINE n == Count(len)
           rc == BlobRc(n, pos)
<1>0. n \in Int /\ pos \in Nat /\ open /\ open' = open /\ pos \in Int
  BY CountFacts, SizeFacts DEF read, IInv
<1>1. \/ n <= 0 /\ Answer(Data(<<>>))
      \/ /\ n > 0 /\ AfterRc(rc) /\ UNCHANGED rows
         /\ out' = IF rc = "ok" THEN Data(Part(pos, n)) ELSE Err
         /\ pos' = IF rc = "ok" THEN pos + n ELSE pos
  BY DEF read
<1>2. CASE ~Alive
  <2>1. rc # "ok"
    BY <1>0, <1>2, DeadCallFacts
  <2> HIDE DEF rc, n
  <2> QED BY <1>0, <1>1, <1>2, <2>1, AnswerDead, TransferDead
<1>3. CASE Alive
  <2>1. /\ Contents = Blob /\ Blob \in Seq(Byte) /\ Len(Contents) = handle.nByte
        /\ handle.stmt /\ handle.cursor /\ pos \in 0..handle.nByte /\ handle.nByte \in Nat
    BY <1>3, AliveFacts
  <2>2. n = (IF len <= handle.nByte - pos THEN len ELSE handle.nByte - pos) /\ n >= 0
    BY <2>1, CountFacts DEF IInv
  <2>3. len \in Int
    BY InputFacts
  <2> HIDE DEF n
  <2>4. rc = "ok"
    BY <1>0, <2>1, <2>2, <2>3, BlobRcFacts
  <2>5. n = File!Least(len, File!Size - pos)
    BY <2>1, <2>2, <2>3 DEF File!Least, File!Size, Contents
  <2>6. UNCHANGED <<rows, handle>>
    BY <1>1, <1>3, <1>0, <2>4, AliveCallFacts DEF Answer
  <2>7. Contents' = Contents /\ Alive' = Alive
    BY <1>0, <1>3, <2>6, ContentSame, AliveCallFacts
  <2>8. out' = Data(Part(pos, n)) /\ pos' = pos + n
    <3>1. CASE n <= 0
      <4>1. n = 0
        BY <1>0, <2>2, <3>1
      <4>2. Part(pos, n) = <<>>
        BY <1>0, <2>1, <4>1, NoBytes DEF Part
      <4> QED BY <1>0, <1>1, <4>1, <4>2 DEF Answer
    <3>2. CASE n > 0
      BY <1>0, <1>1, <2>4, <3>2
    <3> QED BY <1>0, <3>1, <3>2
  <2>9. Result' = Data(Part(pos, n))
    BY <2>8, ResultFacts
  <2>10. File!Part(pos, n) = Part(pos, n)
    BY <2>1 DEF File!Part, Part, Contents
  <2>11. File!Read(len)
    BY <2>5, <2>7, <2>8, <2>9, <2>10 DEF File!Read, File!Data, Data, Contents
  <2> QED BY <1>3, <2>11 DEF File!Next, File!AliveCall
<1> QED BY <1>2, <1>3

\* A write that SQLite accepts changes the content as the file's does.
LEMMA OverwriteFile ==
    ASSUME IInv, Alive, NEW off, NEW n, NEW b \in Byte, UNCHANGED handle,
           rows' = [rows EXCEPT ![handle.row] = Overwritten(off, n, b)]
    PROVE  Contents' = File!Overwritten(off, n, b)
<1>1. Contents = Blob /\ Blob \in Content
  BY AliveFacts
<1>2. Overwritten(off, n, b) \in Content
  BY <1>1, OverwrittenFacts DEF IInv, Blob
<1>3. Overwritten(off, n, b) # NoRow
  BY <1>2, ContentFacts
<1>4. handle.row \in Row
  BY DEF IInv, TypeOK, Handle
<1> HIDE DEF Overwritten
<1>5. Blob' = Overwritten(off, n, b)
  BY <1>4 DEF Blob, IInv, TypeOK
<1>6. Contents' = Overwritten(off, n, b)
  BY <1>3, <1>5 DEF Contents
<1>7. File!Overwritten(off, n, b) = Overwritten(off, n, b)
  BY <1>1 DEF File!Overwritten, File!Size, Overwritten, Contents
<1> QED BY <1>6, <1>7

\* Writing no byte changes nothing.
LEMMA OverwriteNone ==
    ASSUME IInv, Alive, NEW off \in Nat, NEW b \in Byte
    PROVE  File!Overwritten(off, 0, b) = Contents
<1>1. Contents = Blob /\ Blob \in Content
  BY AliveFacts
<1>2. Contents = [i \in 1..Len(Contents) |-> Contents[i]] /\ Len(Contents) \in Nat
  BY <1>1, ContentFacts, WidthAssumption
<1>3. \A i \in 1..Len(Contents) : ~(i > off /\ i <= off + 0)
  BY <1>2
<1>4. File!Overwritten(off, 0, b) =
        [i \in 1..Len(Contents) |-> IF i > off /\ i <= off + 0 THEN b ELSE Contents[i]]
  BY DEF File!Overwritten, File!Size, Contents
<1> HIDE DEF Contents
<1> QED BY <1>2, <1>3, <1>4

\* std::io::Write.
LEMMA WriteFile ==
    ASSUME IInv, NEW len \in BufLen, NEW b \in Byte, write(len, b)
    PROVE  File!Next
<1> DEFINE n == Count(len)
           rc == IF BlobRc(n, pos) = "ok" /\ handle.ro THEN "readonly" ELSE BlobRc(n, pos)
<1>0. n \in Int /\ pos \in Nat /\ open /\ open' = open /\ pos \in Int
  BY CountFacts, SizeFacts DEF write, IInv
<1>1. \/ n <= 0 /\ Answer(Num(0))
      \/ /\ n > 0 /\ AfterRc(rc)
         /\ out' = IF rc = "ok" THEN Num(n) ELSE Err
         /\ pos' = IF rc = "ok" THEN pos + n ELSE pos
         /\ rows' = IF rc = "ok" THEN [rows EXCEPT ![handle.row] = Overwritten(pos, n, b)] ELSE rows
  BY DEF write
<1>2. CASE ~Alive
  <2>1. BlobRc(n, pos) # "ok"
    BY <1>0, <1>2, DeadCallFacts
  <2>2. rc # "ok"
    BY <2>1
  <2> HIDE DEF rc, n
  <2> QED BY <1>0, <1>1, <1>2, <2>2, AnswerDead, TransferDead, ZeroIsAPosition
<1>3. CASE Alive
  <2>1. /\ Contents = Blob /\ Len(Contents) = handle.nByte
        /\ handle.stmt /\ handle.cursor /\ pos \in 0..handle.nByte /\ handle.nByte \in Nat
    BY <1>3, AliveFacts
  <2>2. n = (IF len <= handle.nByte - pos THEN len ELSE handle.nByte - pos) /\ n >= 0
    BY <2>1, CountFacts DEF IInv
  <2>3. len \in Int
    BY InputFacts
  <2> HIDE DEF n
  <2>4. BlobRc(n, pos) = "ok"
    BY <1>0, <2>1, <2>2, <2>3, BlobRcFacts
  <2>5. rc \in {"ok", "readonly"}
    BY <2>4
  <2> HIDE DEF rc
  <2>6. n = File!Least(len, File!Size - pos)
    BY <2>1, <2>2, <2>3 DEF File!Least, File!Size, Contents
  <2>7. UNCHANGED handle
    BY <1>1, <1>3, <1>0, <2>5, AliveCallFacts DEF Answer
  <2>8. Alive' = Alive
    BY <1>0, <1>3, <2>7, AliveCallFacts
  <2>9. ASSUME out' = Num(n), pos' = pos + n, Contents' = File!Overwritten(pos, n, b) PROVE File!Next
    <3>1. Result' = Num(n)
      BY <2>9, ResultFacts
    <3>2. File!Write(len, b)
      BY <2>6, <2>8, <2>9, <3>1 DEF File!Write, File!Num, Num, Contents
    <3> QED BY <1>3, <3>2 DEF File!Next, File!AliveCall
  <2>10. CASE n <= 0
    <3>1. n = 0 /\ pos + n = pos
      BY <1>0, <2>2, <2>10
    <3>2. out' = Num(n) /\ pos' = pos + n /\ UNCHANGED <<rows, handle>>
      BY <1>0, <1>1, <3>1 DEF Answer
    <3>3. Contents' = Contents
      BY <3>2, ContentSame
    <3>4. Contents' = File!Overwritten(pos, n, b)
      BY <1>0, <1>3, <3>1, <3>3, OverwriteNone
    <3> QED BY <2>9, <3>2, <3>4
  <2>11. CASE n > 0 /\ rc = "ok"
    <3>1. /\ out' = Num(n) /\ pos' = pos + n
          /\ rows' = [rows EXCEPT ![handle.row] = Overwritten(pos, n, b)]
      BY <1>0, <1>1, <2>11
    <3>2. Contents' = File!Overwritten(pos, n, b)
      BY <1>3, <2>7, <3>1, OverwriteFile
    <3> QED BY <2>9, <3>1, <3>2
  <2>12. CASE n > 0 /\ rc # "ok"
    <3>1. out' = Err /\ pos' = pos /\ rows' = rows
      BY <1>0, <1>1, <2>12
    <3>2. Contents' = Contents /\ Result' = Err
      BY <2>7, <3>1, ContentSame, ResultFacts
    <3> QED BY <1>3, <2>8, <3>1, <3>2, FailStep
  <2> QED BY <1>0, <2>10, <2>11, <2>12
<1> QED BY <1>2, <1>3

\* std::io::Seek.
LEMMA SeekFile ==
    ASSUME IInv, open, open' = open, NEW exact \in Int, SeekTo(exact)
    PROVE  File!Next
<1> DEFINE to == AsI64(exact)
<1>1. to \in (-I64Max - 1)..I64Max /\ I64Max \in Nat
  BY WrappedFacts, WidthAssumption DEF AsI64
<1>2. \/ Answer(<<"overflow">>)
      \/ 0 <= to /\ to <= size /\ pos' = AsI32(to) /\ out' = Num(to) /\ UNCHANGED <<rows, handle>>
      \/ ~(0 <= to /\ to <= size) /\ Answer(Err)
  BY DEF SeekTo
<1> HIDE DEF to
<1>3. to \in Positions /\ to \in Int
  BY <1>1 DEF Positions
<1>4. UNCHANGED <<rows, handle>>
  BY <1>2 DEF Answer
<1>5. Contents' = Contents
  BY <1>4, ContentSame
<1>6. CASE ~Alive
  <2>1. ~Alive'
    BY <1>4, <1>6, DeadCallFacts
  <2>2. Result' \in {Err, Num(to)}
    BY <1>2, ResultFacts DEF Answer
  <2> QED BY <1>3, <1>5, <1>6, <2>1, <2>2, DeadStep
<1>7. CASE Alive
  <2>1. Len(Contents) = size /\ size \in 0..I32Max /\ I32Max \in Nat
    BY <1>7, AliveFacts, SizeFacts, InputFacts DEF IInv
  <2>2. Alive' = Alive
    BY <1>4, <1>7, AliveCallFacts
  <2>3. CASE Answer(<<"overflow">>) \/ Answer(Err)
    <3>1. Result' = Err /\ pos' = pos
      BY <2>3, ResultFacts DEF Answer
    <3> QED BY <1>5, <1>7, <2>2, <3>1, FailStep
  <2>4. CASE 0 <= to /\ to <= size /\ pos' = AsI32(to) /\ out' = Num(to)
    <3>1. to \in 0..size /\ to \in 0..I32Max
      BY <1>3, <2>1, <2>4
    <3>2. pos' = to
      BY <1>3, <2>4, <3>1, AsI32Facts
    <3>3. Result' = Num(to)
      BY <2>4, ResultFacts
    <3>4. to \in 0..File!Size
      BY <2>1, <3>1 DEF File!Size, Contents
    <3>5. File!Seek(to)
      BY <1>5, <2>2, <3>2, <3>3, <3>4 DEF File!Seek, File!Num, Num, Contents
    <3> QED BY <1>3, <1>7, <3>5 DEF File!Next, File!AliveCall, Positions
  <2> QED BY <1>2, <2>3, <2>4
<1> QED BY <1>6, <1>7

\* Positional reads.
LEMMA ReadAtFile ==
    ASSUME IInv, NEW len \in BufLen, NEW start \in Start, NEW exact \in BOOLEAN,
           read_at(len, start, exact)
    PROVE  File!Next
<1> DEFINE n == ReadLen(len, start)
           rc == BlobRc(AsI32(n), AsI32(start))
<1>0. open /\ open' = open /\ AsI32(n) \in Int /\ AsI32(start) \in Int /\ len \in Nat /\ start \in Nat
  BY InputFacts, ReadLenFacts, AsI32Facts DEF read_at, IInv
<1>1. \/ n = 0 /\ Answer(IF exact /\ len # 0 THEN Err ELSE Data(<<>>))
      \/ n # 0 /\ Answer(<<"assert">>)
      \/ /\ n # 0 /\ AfterRc(rc) /\ UNCHANGED <<rows, pos>>
         /\ out' = IF rc = "ok" /\ (exact => n = len) THEN Data(Part(start, n)) ELSE Err
  BY DEF read_at
<1>2. /\ n \in 0..len /\ AsI32(n) = n
      /\ n = (IF start >= size THEN 0 ELSE IF size - start <= len THEN size - start ELSE len)
      /\ n # 0 => start + n <= size /\ AsI32(start) = start
  BY ReadLenFacts DEF IInv
<1>3. CASE ~Alive
  <2>1. rc # "ok"
    BY <1>0, <1>3, DeadCallFacts
  <2> HIDE DEF rc, n
  <2> QED BY <1>0, <1>1, <1>3, <2>1, AnswerDead, TransferDead
<1>4. CASE Alive
  <2>1. /\ Contents = Blob /\ Blob \in Seq(Byte) /\ Len(Contents) = handle.nByte
        /\ size = handle.nByte
        /\ handle.stmt /\ handle.cursor /\ handle.nByte \in Nat
    BY <1>4, AliveFacts
  <2> HIDE DEF n
  <2>2. n # 0 => rc = "ok"
    <3> HAVE n # 0
    <3>1. AsI32(n) = n /\ AsI32(start) = start /\ n >= 0 /\ ~(start + n > handle.nByte)
      BY <1>0, <1>2, <2>1
    <3> QED BY <1>0, <2>1, <3>1, BlobRcFacts
  <2> HIDE DEF rc
  <2>3. UNCHANGED <<rows, handle, pos>>
    BY <1>1, <1>4, <1>0, <2>2, AliveCallFacts DEF Answer
  <2>4. Contents' = Contents /\ Alive' = Alive
    BY <1>0, <1>4, <2>3, ContentSame, AliveCallFacts
  <2>5. ASSUME out' = Err PROVE File!Next
    BY <1>4, <2>3, <2>4, <2>5, FailStep, ResultFacts
  <2>6. CASE Answer(<<"assert">>)
    <3>1. Result' = Err
      BY <2>6, ResultFacts DEF Answer
    <3> QED BY <1>4, <2>3, <2>4, <3>1, FailStep
  <2>7. ASSUME out' = Data(Part(start, n)), n # 0, exact => n = len PROVE File!Next
    <3>1. Result' = Data(Part(start, n))
      BY <2>7, ResultFacts
    <3>2. ~(start > File!Size) /\ n = File!Least(len, File!Size - start)
          /\ (n = len => start + len <= File!Size /\ len # 0)
      <4>1. File!Size = size
        BY <2>1 DEF File!Size, Contents
      <4>2. ~(start > size) /\ n = (IF len < size - start THEN len ELSE size - start)
            /\ (n = len => start + len <= size /\ len # 0)
        BY <1>0, <1>2, <2>1, <2>7
      <4> QED BY <4>1, <4>2 DEF File!Least
    <3>3. File!Part(start, n) = Part(start, n)
      BY <2>1 DEF File!Part, Part, Contents
    <3>4. CASE exact
      <4>1. File!ReadAtExact(len, start)
        BY <2>3, <2>4, <2>7, <3>1, <3>2, <3>3, <3>4 DEF File!ReadAtExact, File!Data, Data, Contents
      <4> QED BY <1>4, <4>1 DEF File!Next, File!AliveCall
    <3>5. CASE ~exact
      <4>1. File!ReadAt(len, start)
        BY <2>3, <2>4, <3>1, <3>2, <3>3 DEF File!ReadAt, File!Data, Data, Contents
      <4> QED BY <1>4, <4>1 DEF File!Next, File!AliveCall
    <3> QED BY <3>4, <3>5
  <2>8. ASSUME out' = Data(<<>>), n = 0, exact => len = 0 PROVE File!Next
    <3>1. Result' = Data(<<>>)
      BY <2>8, ResultFacts
    <3>2. CASE exact
      <4>1. File!ReadAtExact(len, start)
        BY <2>3, <2>4, <2>8, <3>1, <3>2 DEF File!ReadAtExact, File!Data, Data, Contents
      <4> QED BY <1>4, <4>1 DEF File!Next, File!AliveCall
    <3>3. CASE ~exact
      <4>1. File!Size = size
        BY <2>1 DEF File!Size, Contents
      <4>2. start > size \/ (IF len < size - start THEN len ELSE size - start) = 0
        BY <1>0, <1>2, <2>1, <2>8
      <4>3. start > File!Size \/ File!Least(len, File!Size - start) = 0
        BY <4>1, <4>2 DEF File!Least
      <4>4. File!Part(start, 0) = <<>>
        BY <1>0, <2>1, NoBytes DEF File!Part, Contents
      <4>5. File!ReadAt(len, start)
        BY <2>3, <2>4, <3>1, <4>3, <4>4 DEF File!ReadAt, File!Data, Data, Contents
      <4> QED BY <1>4, <4>5 DEF File!Next, File!AliveCall
    <3> QED BY <3>2, <3>3
  <2> QED BY <1>1, <2>2, <2>5, <2>6, <2>7, <2>8 DEF Answer
<1> QED BY <1>3, <1>4

\* Positional writes.
LEMMA WriteAtFile ==
    ASSUME IInv, NEW len \in BufLen, NEW start \in Start, NEW b \in Byte, write_at(len, start, b)
    PROVE  File!Next
<1> DEFINE n == AsI32(len)
           off == AsI32(start)
           rc == IF BlobRc(n, off) = "ok" /\ handle.ro THEN "readonly" ELSE BlobRc(n, off)
<1>0. open /\ open' = open /\ n \in Int /\ off \in Int /\ len \in Nat /\ start \in Nat
  BY InputFacts, AsI32Facts DEF write_at
<1>1. \/ ~Fits(len, start) /\ Answer(Err)
      \/ /\ Fits(len, start) /\ AfterRc(rc) /\ UNCHANGED pos
         /\ out' = IF rc = "ok" THEN Num(len) ELSE Err
         /\ rows' = IF rc = "ok" THEN [rows EXCEPT ![handle.row] = Overwritten(off, n, b)] ELSE rows
  BY DEF write_at
<1>2. /\ Fits(len, start) <=> start + len <= size
      /\ Fits(len, start) => n = len /\ off = start
  BY FitsFacts DEF IInv
<1>3. CASE ~Alive
  <2>1. BlobRc(n, off) # "ok"
    BY <1>0, <1>3, DeadCallFacts
  <2>2. rc # "ok"
    BY <2>1
  <2> HIDE DEF rc, n, off
  <2> QED BY <1>0, <1>1, <1>3, <2>2, AnswerDead, TransferDead
<1>4. CASE Alive
  <2>1. /\ Len(Contents) = handle.nByte /\ size = handle.nByte
        /\ handle.stmt /\ handle.cursor /\ handle.nByte \in Nat
    BY <1>4, AliveFacts
  <2>2. CASE ~Fits(len, start)
    <3>1. out' = Err /\ UNCHANGED <<rows, handle, pos>>
      BY <1>1, <2>2 DEF Answer
    <3>2. Contents' = Contents /\ Alive' = Alive /\ Result' = Err
      BY <1>0, <1>4, <3>1, ContentSame, AliveCallFacts, ResultFacts
    <3> QED BY <1>4, <3>1, <3>2, FailStep
  <2>3. CASE Fits(len, start)
    <3>1. n = len /\ off = start /\ start + len <= handle.nByte
      BY <1>2, <2>1, <2>3
    <3>2. BlobRc(n, off) = "ok"
      <4>1. n >= 0 /\ off >= 0 /\ ~(off + n > handle.nByte)
        BY <1>0, <2>1, <3>1
      <4> QED BY <1>0, <2>1, <4>1, BlobRcFacts
    <3>3. rc \in {"ok", "readonly"}
      BY <3>2
    <3> HIDE DEF rc, n, off
    <3>4. UNCHANGED handle /\ pos' = pos
      BY <1>0, <1>1, <1>4, <2>3, <3>3, AliveCallFacts
    <3>5. Alive' = Alive
      BY <1>0, <1>4, <3>4, AliveCallFacts
    <3>6. CASE rc # "ok"
      <4>1. out' = Err /\ rows' = rows
        BY <1>1, <2>3, <3>6
      <4>2. Contents' = Contents /\ Result' = Err
        BY <3>4, <4>1, ContentSame, ResultFacts
      <4> QED BY <1>4, <3>4, <3>5, <4>2, FailStep
    <3>7. CASE rc = "ok"
      <4>1. out' = Num(len) /\ rows' = [rows EXCEPT ![handle.row] = Overwritten(start, len, b)]
        BY <1>1, <2>3, <3>1, <3>7
      <4>2. Contents' = File!Overwritten(start, len, b) /\ Result' = Num(len)
        BY <1>4, <3>4, <4>1, OverwriteFile, ResultFacts
      <4>3. start + len <= File!Size
        BY <2>1, <3>1 DEF File!Size, Contents
      <4>4. File!WriteAt(len, start, b)
        BY <3>4, <3>5, <4>2, <4>3 DEF File!WriteAt, File!Num, Num, Contents
      <4> QED BY <1>4, <4>4 DEF File!Next, File!AliveCall
    <3> QED BY <3>6, <3>7
  <2> QED BY <2>2, <2>3
<1> QED BY <1>3, <1>4

\* Every step of the handle is a step of the file or a stutter.
LEMMA FileStep == IInv /\ [Next]_vars => [File!Next]_File!file
<1> SUFFICES ASSUME IInv, [Next]_vars PROVE [File!Next]_File!file
  OBVIOUS
<1>1. ASSUME NEW r \in Row, NEW c \in Created \cup {NoRow}, ChangeRow(r, c) PROVE [File!Next]_File!file
  BY <1>1, ChangeRowFile
<1>2. ASSUME NEW r \in Row, (\E ro \in BOOLEAN : blob_open(r, ro)) \/ reopen(r) PROVE File!Next
  BY <1>2, MoveFile
<1>3. CASE close
  BY <1>3, MoveFile DEF IInv, TypeOK, Handle
<1>4. ASSUME NEW len \in BufLen, read(len) \/ \E b \in Byte : write(len, b) PROVE File!Next
  BY <1>4, ReadFile, WriteFile
<1>5. ASSUME NEW from \in {"Start", "Current", "End"}, NEW offset \in Int, seek(from, offset)
      PROVE  File!Next
  BY <1>5, SeekFile, SeekFromFacts DEF seek, IInv
<1>6. ASSUME NEW len \in BufLen, NEW start \in Start,
             \/ \E exact \in BOOLEAN : read_at(len, start, exact)
             \/ \E b \in Byte : write_at(len, start, b)
      PROVE  File!Next
  BY <1>6, ReadAtFile, WriteAtFile
<1>7. CASE UNCHANGED vars
  BY <1>7 DEF vars, File!file, Blob, Alive, Result
<1>8. Start \subseteq Int /\ Offset \subseteq Int
  BY InputFacts
<1> QED BY <1>1, <1>2, <1>3, <1>4, <1>5, <1>6, <1>7, <1>8 DEF Next

\* On integers of any width a live handle behaves like a file of fixed size in
\* mathematical integers, and a dead one yields no data and changes no row.
THEOREM BlobIsAFile == Spec => ImplementsFile
<1> QED BY FileStep, Invariance, PTL DEF Spec, ImplementsFile, File!Spec

=============================================================================
