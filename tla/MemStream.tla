----------------------------- MODULE MemStream ------------------------------
(***************************************************************************)
(* fmemopen of apue exercises/fmemopen.c: a standard I/O stream over a     *)
(* buffer in memory.  The file the caller thinks of is kept beside it as   *)
(* history: ms_file is what a disk file opened in the same mode and driven *)
(* by the same calls would hold, cut at the size of the buffer.            *)
(***************************************************************************)
EXTENDS Integers, Sequences, SequencesExt

CONSTANTS Size, Bytes, MaxOps

VARIABLES ms,        \* flags, vsize, curpos; "closed" before open and after close
          buf,       \* 0..Size-1 -> byte, 0 is the null byte
          mybuf,     \* the buffer was allocated by fmemopen
          ms_file,   \* history
          result,    \* what the last call returned, with the bytes of a read
          ops

msvars == <<ms, buf, mybuf, ms_file, result, ops>>
rsize == Size
Junk == 9     \* what malloc leaves in a buffer nobody has written

Types == {<<"r">>, <<"w">>, <<"a">>, <<"r", "+">>, <<"w", "b", "+">>, <<"a", "+">>,
          <<"b">>, <<"+", "r">>, <<"r", "w">>, <<"x">>, <<>>}

\* One character of the mode: the flags so far, "bad" for an error.
TypeFlag(flags, c) ==
    CASE flags = {"bad"}                           -> {"bad"}
      [] c = "r" /\ flags = {}                     -> {"READ"}
      [] c = "w" /\ flags = {}                     -> {"WRITE", "TRUNCATE"}
      [] c = "a" /\ flags = {}                     -> {"APPEND"}
      [] c = "+" /\ flags # {}                     -> flags \cup {"READ", "WRITE"}
      [] c = "b" /\ flags # {}                     -> flags
      [] OTHER                                     -> {"bad"}

\* {} stands for the 0 that is refused.
type_to_flags(type) ==
    LET f == FoldLeft(TypeFlag, {}, type) IN IF f = {"bad"} THEN {} ELSE f

find_end(content) ==
    LET zeros == {i \in 0..Size - 1 : content[i] = 0}
    IN  IF zeros = {} THEN Size ELSE CHOOSE i \in zeros : \A k \in zeros : i <= k

Contents(content, n) == [i \in 1..n |-> content[i - 1]]

Init ==
    /\ ms = [flags |-> {"closed"}, vsize |-> 0, curpos |-> 0]
    /\ buf \in {[i \in 0..Size - 1 |-> IF i = Size - 1 THEN 0 ELSE 1],
                [i \in 0..Size - 1 |-> IF i = 1 THEN 0 ELSE 2]}
    /\ mybuf = FALSE /\ ms_file = <<>> /\ result = <<"none">> /\ ops = 0

\* The errors leave no stream; without a buffer of the caller's both reading
\* and writing have to be asked for.
fmemopen(type, given) ==
    /\ ms.flags = {"closed"} /\ ops = 0
    /\ LET flags == type_to_flags(type)
           start == IF given THEN buf ELSE [i \in 0..Size - 1 |-> Junk]
           pos   == IF given /\ "APPEND" \in flags THEN find_end(buf) ELSE 0
           v     == IF "APPEND" \in flags THEN pos
                    ELSE IF "TRUNCATE" \in flags THEN 0 ELSE Size
       IN  IF flags = {} \/ (~given /\ ~({"READ", "WRITE"} \subseteq flags))
           THEN result' = <<"EINVAL">> /\ UNCHANGED <<ms, buf, mybuf, ms_file>>
           ELSE /\ ms' = [flags |-> flags, vsize |-> v, curpos |-> pos]
                /\ buf' = start
                /\ mybuf' = ~given
                /\ ms_file' = Contents(start, v)
                /\ result' = <<"open">>
    /\ ops' = ops + 1

Open == ms.flags # {"closed"} /\ ops < MaxOps /\ ops' = ops + 1
Low(a, b) == IF a < b THEN a ELSE b

mstream_read(len) ==
    /\ Open
    /\ LET nr == IF ms.curpos >= ms.vsize THEN 0 ELSE Low(len, ms.vsize - ms.curpos)
       IN  IF "READ" \notin ms.flags THEN result' = <<"EBADF">> /\ UNCHANGED ms
           ELSE /\ result' = <<"read", ms.curpos, [i \in 1..nr |-> buf[ms.curpos + i - 1]]>>
                /\ ms' = [ms EXCEPT !.curpos = @ + nr]
    /\ UNCHANGED <<buf, mybuf, ms_file>>

NullAtEveryWrite(pos, v) ==
    (IF {"READ", "WRITE"} \subseteq ms.flags /\ pos < rsize THEN {pos} ELSE {}) \cup
    (IF "READ" \in ms.flags THEN {} ELSE {IF pos < rsize THEN pos ELSE rsize - 1})
NoNullWhenFull(pos, v) ==
    (IF pos > ms.vsize /\ {"READ", "WRITE"} \subseteq ms.flags /\ v < rsize THEN {v} ELSE {}) \cup
    (IF "READ" \in ms.flags \/ pos >= rsize THEN {} ELSE {pos})

\* Where null bytes are put after a write up to pos: after a stream for
\* reading and writing has grown, and always into one for writing only.
NullBytes(pos, v) ==
    (IF pos > ms.vsize /\ {"READ", "WRITE"} \subseteq ms.flags /\ v < rsize THEN {v} ELSE {}) \cup
    (IF "READ" \in ms.flags THEN {} ELSE {IF pos < rsize THEN pos ELSE rsize - 1})

\* The bytes, the new position and size, and then the null bytes: after a
\* stream for reading and writing grows, and at every write of one that is
\* for writing only, over the last byte of a full buffer.
mstream_write(bytes) ==
    /\ Open
    /\ LET off  == IF "APPEND" \in ms.flags THEN ms.vsize ELSE ms.curpos
           nw   == Low(Len(bytes), rsize - off)
           pos  == off + nw
           v    == IF pos > ms.vsize THEN pos ELSE ms.vsize
           zero == NullBytes(pos, v)
       IN  IF ms.flags \cap {"APPEND", "WRITE"} = {}
           THEN result' = <<"EBADF">> /\ UNCHANGED <<ms, buf, ms_file>>
           ELSE /\ buf' = [i \in 0..Size - 1 |->
                             IF i \in zero THEN 0
                             ELSE IF i \in off..pos - 1 THEN bytes[i - off + 1] ELSE buf[i]]
                /\ ms' = [ms EXCEPT !.curpos = pos, !.vsize = v]
                /\ ms_file' = [i \in 1..v |-> IF i \in off + 1..pos THEN bytes[i - off]
                                              ELSE ms_file[i]]
                /\ result' = <<"wrote", nw>>
    /\ UNCHANGED mybuf

SeekInBuffer(off) == off >= 0 /\ off <= rsize

SeekAllowed(off) == off >= 0 /\ off <= ms.vsize
mstream_seek(pos, whence) ==
    /\ Open
    /\ LET off == CASE whence = "SET" -> pos
                    [] whence = "END" -> ms.vsize + pos
                    [] whence = "CUR" -> ms.curpos + pos
       IN  IF ~SeekAllowed(off) THEN result' = <<"EINVAL">> /\ UNCHANGED ms
           ELSE ms' = [ms EXCEPT !.curpos = off] /\ result' = <<"at", off>>
    /\ UNCHANGED <<buf, mybuf, ms_file>>

mstream_close ==
    /\ Open
    /\ ms' = [flags |-> {"closed"}, vsize |-> 0, curpos |-> 0]
    /\ mybuf' = FALSE
    /\ result' = <<"closed">>
    /\ UNCHANGED <<buf, ms_file>>

Next ==
    \/ \E t \in Types, g \in BOOLEAN : fmemopen(t, g)
    \/ \E n \in 1..2 : mstream_read(n)
    \/ \E n \in 1..2, c \in Bytes : mstream_write([i \in 1..n |-> c])
    \/ \E p \in -1..1, wh \in {"SET", "END", "CUR"} : mstream_seek(p, wh)
    \/ mstream_close

Spec == Init /\ [][Next]_msvars

-----------------------------------------------------------------------------
\* No call leaves the position behind the data or the data beyond the buffer,
\* so that no read, write or terminating null byte falls outside of it.
InsideBuffer ==
    /\ ms.curpos \in 0..ms.vsize /\ ms.vsize \in 0..rsize
    /\ DOMAIN buf = 0..Size - 1
    /\ mybuf => {"READ", "WRITE"} \subseteq ms.flags

\* A stream that can be read gives back what a file would: every byte read is
\* the one last written there, in append mode too, and the null bytes the code
\* adds for the buffer's owner stay outside the data.
ReadsLikeFile ==
    /\ "READ" \in ms.flags => Contents(buf, ms.vsize) = ms_file
    /\ result[1] = "read" =>
          \A i \in 1..Len(result[3]) : result[3][i] = ms_file[result[2] + i]

\* After a write to a stream that is for writing only, the owner of the buffer
\* finds a string in it; only in a full buffer has the null byte replaced data.
Terminated ==
    result[1] = "wrote" /\ "READ" \notin ms.flags =>
        find_end(buf) <= ms.curpos /\ find_end(buf) < Size
=============================================================================
