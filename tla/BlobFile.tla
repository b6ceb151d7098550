------------------------------ MODULE BlobFile ------------------------------
(***************************************************************************)
(* What an open Blob promises: a file of fixed size with a position, in    *)
(* mathematical integers.  std::io reads and writes move the position,     *)
(* positional ones do not; nothing reaches beyond the end.  Once the row   *)
(* is gone from under the handle, calls yield no data and change nothing.  *)
(***************************************************************************)
EXTENDS Integers, Sequences

CONSTANTS
    Byte,
    BufLen,    \* lengths of buffers
    Start,     \* offsets of positional I/O
    Target     \* positions to seek to

VARIABLES
    content,   \* the bytes of the row the handle is on
    alive,     \* the row is still the one the handle was opened on
    pos,       \* the std::io position
    out        \* result of the last call

file == <<content, alive, pos, out>>

Data(bytes) == <<"data", bytes>>
Num(n) == <<"num", n>>
Done == <<"ok">>
Err == <<"err">>
Size == Len(content)
Least(a, b) == IF a < b THEN a ELSE b

\* The bytes from offset at, and content with n bytes b from offset at.
Part(at, n) == SubSeq(content, at + 1, at + n)
Overwritten(at, n, b) ==
    [i \in 1..Size |-> IF i > at /\ i <= at + n THEN b ELSE content[i]]

\* std::io::Read and Write: as much as there is room for.
Read(len) ==
    LET n == Least(len, Size - pos)
    IN  /\ out' = Data(Part(pos, n)) /\ pos' = pos + n
        /\ UNCHANGED <<content, alive>>

Write(len, b) ==
    LET n == Least(len, Size - pos)
    IN  /\ out' = Num(n) /\ pos' = pos + n
        /\ content' = Overwritten(pos, n, b)
        /\ UNCHANGED alive

\* std::io::Seek to a position between 0 and the size.
Seek(to) ==
    /\ IF to \in 0..Size THEN pos' = to /\ out' = Num(to) ELSE pos' = pos /\ out' = Err
    /\ UNCHANGED <<content, alive>>

\* Positional reads of at most, and of exactly, len bytes.
ReadAt(len, at) ==
    /\ out' = Data(IF at > Size THEN <<>> ELSE Part(at, Least(len, Size - at)))
    /\ UNCHANGED <<content, alive, pos>>

ReadAtExact(len, at) ==
    /\ out' = IF len = 0 THEN Data(<<>>) ELSE IF at + len <= Size THEN Data(Part(at, len)) ELSE Err
    /\ UNCHANGED <<content, alive, pos>>

\* A positional write writes all or, with an error, nothing.
WriteAt(len, at, b) ==
    /\ IF at + len <= Size
       THEN out' = Num(len) /\ content' = Overwritten(at, len, b)
       ELSE out' = Err /\ UNCHANGED content
    /\ UNCHANGED <<alive, pos>>

\* Any call may fail without effect: SQLite's errors, a read-only handle.
Fail == out' = Err /\ UNCHANGED <<content, alive, pos>>

\* A call on a handle that is not alive: no data, no effect on a row.
DeadCall ==
    /\ ~alive /\ out' \in {Err, Data(<<>>)} \cup {Num(p) : p \in Target}
    /\ alive' = FALSE /\ UNCHANGED content

\* The row changes under the handle.
Expire == alive' = FALSE /\ UNCHANGED <<pos, out>>

\* The handle is opened, moved or closed; a failure to move it kills it.
Move ==
    \/ out' = Done /\ (alive' => pos' = 0)
    \/ out' = Err /\ alive' = FALSE /\ UNCHANGED content

AliveCall ==
    /\ alive
    /\ \/ Fail
       \/ \E len \in BufLen : Read(len)
       \/ \E len \in BufLen, b \in Byte : Write(len, b)
       \/ \E to \in Target : Seek(to)
       \/ \E len \in BufLen, at \in Start : ReadAt(len, at) \/ ReadAtExact(len, at)
       \/ \E len \in BufLen, at \in Start, b \in Byte : WriteAt(len, at, b)

Next == AliveCall \/ DeadCall \/ Expire \/ Move

Spec == [][Next]_file

=============================================================================
