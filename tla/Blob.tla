-------------------------------- MODULE Blob --------------------------------
(***************************************************************************)
(* Incremental BLOB I/O (blob/mod.rs, blob/pos_io.rs) on one handle, while *)
(* SQL changes the rows.  Sizes and positions are i32, buffer lengths      *)
(* usize and seek offsets i64, with their casts; the widths are constants, *)
(* so that a few bytes are enough to reach every boundary.                 *)
(***************************************************************************)
EXTENDS Integers, Sequences, FiniteSetsExt

CONSTANTS
    Row,       \* rowids
    Byte,      \* byte values
    I32Max,    \* i32::MAX: the largest size of a blob
    I64Max,    \* i64::MAX and isize::MAX: the largest length of a buffer
    BufLen,    \* lengths of buffers to try
    Start,     \* offsets of positional I/O and of SeekFrom::Start to try
    Offset,    \* offsets of the other seeks to try
    Created,   \* contents SQL statements give a row
    Builds     \* builds to try: TRUE has debug assertions and overflow checks

ASSUME WidthAssumption ==
    I32Max \in Nat /\ I64Max \in Nat /\ I32Max < I64Max /\ (I64Max + 1) % (I32Max + 1) = 0
ASSUME InputAssumption ==
    /\ BufLen \subseteq 0..I64Max
    /\ Start \subseteq 0..2 * I64Max + 1
    /\ Offset \subseteq (-I64Max - 1)..I64Max
    /\ Created \subseteq UNION {[1..n -> Byte] : n \in 0..I32Max}
ASSUME BuildAssumption == Builds \subseteq BOOLEAN
ASSUME ByteAssumption == "no row" \notin Byte

UsizeMax == 2 * I64Max + 1
Content == UNION {[1..n -> Byte] : n \in 0..I32Max}
NoRow == <<"no row">>

\* Casts between the integer types.
Wrapped(x, max) == ((x + max + 1) % (2 * (max + 1))) - (max + 1)
AsI32(x) == Wrapped(x, I32Max)
AsI64(x) == Wrapped(x, I64Max)
AsUsize(x) == x % (UsizeMax + 1)

VARIABLES
    debug,     \* the build
    rows,      \* the blobs in the table, or NoRow
    handle,    \* SQLite's Incrblob: row, nByte, stmt (not aborted), cursor (row unchanged), ro
    open,      \* the Blob exists
    pos,       \* Blob::pos
    out        \* what the last call returned

vars == <<debug, rows, handle, open, pos, out>>

Handle == [row : Row, nByte : 0..I32Max, stmt : BOOLEAN, cursor : BOOLEAN, ro : BOOLEAN]
Data(bytes) == <<"data", bytes>>
Num(n) == <<"num", n>>
Done == <<"ok">>
Err == <<"err">>

TypeOK ==
    /\ debug \in BOOLEAN
    /\ rows \in [Row -> Content \cup {NoRow}]
    /\ handle \in Handle
    /\ open \in BOOLEAN
    /\ pos \in 0..I32Max

Init ==
    /\ debug \in Builds
    /\ rows \in [Row -> Created \cup {NoRow}]
    /\ handle \in {[row |-> r, nByte |-> 0, stmt |-> FALSE, cursor |-> FALSE, ro |-> TRUE] : r \in Row}
    /\ open = FALSE /\ pos = 0 /\ out = Err

-----------------------------------------------------------------------------
(* SQLite.                                                                 *)

\* sqlite3_blob_bytes: 0 on an aborted handle.
size == IF handle.stmt THEN handle.nByte ELSE 0

\* Result code of sqlite3_blob_read and sqlite3_blob_write.
BlobRc(n, off) ==
    IF n < 0 \/ off < 0 \/ off + n > handle.nByte THEN "error"
    ELSE IF handle.stmt /\ handle.cursor THEN "ok" ELSE "abort"

\* SQLITE_ABORT finalizes the handle's statement.
AfterRc(rc) == handle' = IF rc = "abort" THEN [handle EXCEPT !.stmt = FALSE] ELSE handle

Blob == rows[handle.row]
Part(off, n) == SubSeq(Blob, off + 1, off + n)
Overwritten(off, n, b) ==
    [i \in 1..Len(Blob) |-> IF i > off /\ i <= off + n THEN b ELSE Blob[i]]

\* An UPDATE, DELETE or INSERT of a row expires the handle that is on it.
ChangeRow(r, c) ==
    /\ rows[r] # c
    /\ rows' = [rows EXCEPT ![r] = c]
    /\ handle' = IF handle.row = r THEN [handle EXCEPT !.cursor = FALSE] ELSE handle
    /\ UNCHANGED <<debug, open, pos, out>>

\* blobSeekToRow: the handle is on row r, or aborted.
SeekToRow(h, r) ==
    IF rows[r] # NoRow
    THEN [row |-> r, nByte |-> Len(rows[r]), stmt |-> TRUE, cursor |-> TRUE, ro |-> h.ro]
    ELSE [h EXCEPT !.stmt = FALSE]

-----------------------------------------------------------------------------
(* Opening, moving and closing.                                            *)

blob_open(r, read_only) ==
    /\ ~open
    /\ handle' = SeekToRow([handle EXCEPT !.ro = read_only], r)
    /\ open' = handle'.stmt
    /\ pos' = 0
    /\ out' = IF handle'.stmt THEN Done ELSE Err
    /\ UNCHANGED <<debug, rows>>

\* An error leaves the position alone.
reopen(r) ==
    /\ open
    /\ handle' = IF handle.stmt THEN SeekToRow(handle, r) ELSE handle
    /\ IF handle'.stmt THEN pos' = 0 /\ out' = Done ELSE UNCHANGED pos /\ out' = Err
    /\ UNCHANGED <<debug, rows, open>>

\* close, and the destructor.
close ==
    /\ open /\ open' = FALSE
    /\ handle' = [handle EXCEPT !.stmt = FALSE]
    /\ out' \in {Err, Done}
    /\ UNCHANGED <<debug, rows, pos>>

-----------------------------------------------------------------------------
(* std::io.                                                                *)

\* The result v; SQLite is not called.
Answer(v) == out' = v /\ UNCHANGED <<rows, handle, pos>>

\* Mutation of Count: the cast is done before the minimum.
CountCastFirst(len) == Min({AsI32(len), size - pos})

\* How many bytes read and write ask for.
Count(len) == AsI32(Min({len, AsUsize(size - pos)}))

\* Mutation of read: the position is not advanced on a short read.
readShort(len) ==
    /\ open
    /\ LET n == Count(len)
           rc == BlobRc(n, pos)
       IN  \/ n <= 0 /\ Answer(Data(<<>>))
           \/ /\ n > 0
              /\ AfterRc(rc)
              /\ out' = IF rc = "ok" THEN Data(Part(pos, n)) ELSE Err
              /\ pos' = IF rc = "ok" /\ n = len THEN pos + n ELSE pos
              /\ UNCHANGED rows
    /\ UNCHANGED <<debug, open>>

read(len) ==
    /\ open
    /\ LET n == Count(len)
           rc == BlobRc(n, pos)
       IN  \/ n <= 0 /\ Answer(Data(<<>>))
           \/ /\ n > 0
              /\ AfterRc(rc)
              /\ out' = IF rc = "ok" THEN Data(Part(pos, n)) ELSE Err
              /\ pos' = IF rc = "ok" THEN pos + n ELSE pos
              /\ UNCHANGED rows
    /\ UNCHANGED <<debug, open>>

\* A read-only handle refuses the write.
write(len, b) ==
    /\ open
    /\ LET n == Count(len)
           rc == IF BlobRc(n, pos) = "ok" /\ handle.ro THEN "readonly" ELSE BlobRc(n, pos)
       IN  \/ n <= 0 /\ Answer(Num(0))
           \/ /\ n > 0
              /\ AfterRc(rc)
              /\ out' = IF rc = "ok" THEN Num(n) ELSE Err
              /\ pos' = IF rc = "ok" THEN pos + n ELSE pos
              /\ rows' = IF rc = "ok" THEN [rows EXCEPT ![handle.row] = Overwritten(pos, n, b)] ELSE rows
    /\ UNCHANGED <<debug, open>>

\* seek to exact, the sum in mathematical integers; overflow is a panic with
\* overflow checks and wraps around without.
SeekTo(exact) ==
    LET to == AsI64(exact)
    IN  \/ debug /\ exact # to /\ Answer(<<"overflow">>)
        \/ /\ ~(debug /\ exact # to)
           /\ IF 0 <= to /\ to <= size
              THEN pos' = AsI32(to) /\ out' = Num(to) /\ UNCHANGED <<rows, handle>>
              ELSE Answer(Err)

\* Mutation of seek: a position past the end is accepted, as files do.
seekPastEnd(from, offset) ==
    /\ open
    /\ LET base == [Start |-> 0, Current |-> pos, End |-> size]
           to == AsI64(base[from] + offset)
       IN  IF to >= 0
           THEN pos' = AsI32(to) /\ out' = Num(to) /\ UNCHANGED <<rows, handle>>
           ELSE Answer(Err)
    /\ UNCHANGED <<debug, open>>

\* SeekFrom::Start takes a u64, which is cast.
seek(from, offset) ==
    /\ open
    /\ SeekTo([Start |-> AsI64(offset), Current |-> pos + offset, End |-> size + offset][from])
    /\ UNCHANGED <<debug, open>>

-----------------------------------------------------------------------------
(* Positional I/O.                                                         *)

\* raw_read_at's read_len.
ReadLen(len, start) == IF start >= size THEN 0 ELSE Min({size - start, len})

\* The debug assertions of raw_read_at.
ReadAsserts(len, start) ==
    /\ start <= I32Max
    /\ start + ReadLen(len, start) <= size
    /\ len >= ReadLen(len, start)
    /\ len <= I32Max
    /\ ReadLen(len, start) <= I32Max

\* read_at and raw_read_at; exact is read_at_exact and raw_read_at_exact.
read_at(len, start, exact) ==
    /\ open
    /\ LET n == ReadLen(len, start)
           rc == BlobRc(AsI32(n), AsI32(start))
       IN  \/ n = 0 /\ Answer(IF exact /\ len # 0 THEN Err ELSE Data(<<>>))
           \/ n # 0 /\ debug /\ ~ReadAsserts(len, start) /\ Answer(<<"assert">>)
           \/ /\ n # 0 /\ ~(debug /\ ~ReadAsserts(len, start))
              /\ AfterRc(rc)
              /\ out' = IF rc = "ok" /\ (exact => n = len) THEN Data(Part(start, n)) ELSE Err
              /\ UNCHANGED <<rows, pos>>
    /\ UNCHANGED <<debug, open>>

\* Mutation of Fits: the sum wraps around.
FitsWrapping(len, start) == AsUsize(len + start) <= size

\* saturating_add.
Fits(len, start) == Min({len + start, UsizeMax}) <= size

write_at(len, start, b) ==
    /\ open
    /\ LET n == AsI32(len)
           off == AsI32(start)
           rc == IF BlobRc(n, off) = "ok" /\ handle.ro THEN "readonly" ELSE BlobRc(n, off)
       IN  \/ ~Fits(len, start) /\ Answer(Err)
           \/ /\ Fits(len, start)
              /\ AfterRc(rc)
              /\ out' = IF rc = "ok" THEN Num(len) ELSE Err
              /\ rows' = IF rc = "ok" THEN [rows EXCEPT ![handle.row] = Overwritten(off, n, b)] ELSE rows
              /\ UNCHANGED pos
    /\ UNCHANGED <<debug, open>>

-----------------------------------------------------------------------------
Next ==
    \/ \E r \in Row :
         \/ \E c \in Created \cup {NoRow} : ChangeRow(r, c)
         \/ \E ro \in BOOLEAN : blob_open(r, ro)
         \/ reopen(r)
    \/ close
    \/ \E len \in BufLen : read(len)
    \/ \E len \in BufLen, b \in Byte : write(len, b)
    \/ \E offset \in Start : seek("Start", offset)
    \/ \E from \in {"Current", "End"}, offset \in Offset : seek(from, offset)
    \/ \E len \in BufLen, start \in Start :
         \/ \E exact \in BOOLEAN : read_at(len, start, exact)
         \/ \E b \in Byte : write_at(len, start, b)

Spec == Init /\ [][Next]_vars

-----------------------------------------------------------------------------
(* What the code promises.                                                 *)

\* A handle on which SQLite has not noticed a change of the row.
Alive == open /\ handle.stmt /\ handle.cursor

\* SQLite fills the buffer up to the count it is given, also through a handle that
\* is dead: the counts of read, write, raw_read_at and write_at, cast to i32, are
\* never negative when passed on and never more than the buffer has.
BufferSafe ==
    open => \A len \in BufLen :
        /\ Count(len) <= len
        /\ \A start \in Start : AsI32(ReadLen(len, start)) \in 0..len
        /\ \A start \in Start : Fits(len, start) => AsI32(len) \in 0..len

\* Through a handle that is not aborted no cast loses anything and SQLite never has
\* to refuse a request as out of range, whatever reopen, seek, short transfers and
\* changes of the row came before: read and write move exactly what there is room for.
CastsExact ==
    handle.stmt => \A len \in BufLen :
        /\ Count(len) = Min({len, handle.nByte - pos})
        /\ \A start \in Start :
             /\ ReadLen(len, start) > 0
                  => AsI32(start) = start /\ AsI32(ReadLen(len, start)) = ReadLen(len, start)
             /\ Fits(len, start)
                  => AsI32(start) = start /\ AsI32(len) = len /\ start + len <= handle.nByte

\* A panic is a call without result.
Result == IF out \in {<<"overflow">>, <<"assert">>} THEN Err ELSE out

\* On integers of any width the handle behaves like a file of fixed size in
\* mathematical integers, and a dead handle yields and changes nothing.
File == INSTANCE BlobFile
    WITH content <- IF Blob = NoRow THEN <<>> ELSE Blob, alive <- Alive, out <- Result,
         Target <- (-I64Max - 1)..2 * I64Max + 1
ImplementsFile == File!Spec

=============================================================================
