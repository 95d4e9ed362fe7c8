------------------------------ MODULE Readline ------------------------------
(***************************************************************************)
(* The versions of readline of unpv13e, each with the program that calls   *)
(* it:                                                                     *)
(*   treadline1   test/readline1.c, a read for every byte                  *)
(*   treadline2   test/readline2.c, one static buffer                      *)
(*   treadline3   test/readline3.c, the caller's Rline                     *)
(*   test04       threads/readline.c, a buffer for every thread            *)
(*   web_child    server/readline.c, a read for every byte                 *)
(*   web_child_r  server/readline_r.c, an Rline in every thread            *)
(* A byte is a digit, NL or a letter. read returns any part of what is     *)
(* there, is interrupted, or fails.                                        *)
(***************************************************************************)
EXTENDS Integers, Sequences, SequencesExt

CONSTANTS MAXLINE,    \* the size of the line and of the read buffer
          MAXN,       \* web_child's largest request
          Rounds,     \* how often a thread of test04 reads the file
          Streams,    \* what a descriptor may deliver up to its end
          MaxErrs     \* how many reads may be interrupted or fail

VARIABLES prg, stream,   \* the program, and the bytes of each caller's descriptor
          left,          \* of these the ones not yet read
          buf,           \* read and not yet taken: rl_bufptr and rl_cnt
          n, line,       \* readline's counter, and the bytes stored in the line
          pc, ret,       \* where each caller is, and what readline returned
          out,           \* the lines the caller has accepted, with the count returned
          round,         \* test04: the round each thread is in
          tsd,           \* test04: the threads that have a buffer under rl_key
          wrote,         \* web_child: the sizes of the answers
          errs

vars == <<prg, stream, left, buf, n, line, pc, ret, out, round, tsd, wrote, errs>>

NL == 10
Callers == {1, 2}
Threaded == prg \in {"test04", "web_child_r"}
Serving == prg \in {"web_child", "web_child_r"}

Init ==
    /\ prg \in {"treadline1", "treadline2", "treadline3", "test04", "web_child", "web_child_r"}
    /\ stream \in [Callers -> Streams]
    /\ prg # "web_child_r" => stream[1] = stream[2]
    /\ left = stream
    /\ buf = [c \in Callers |-> <<>>] /\ line = buf /\ out = buf /\ wrote = buf
    /\ n = [c \in Callers |-> 1] /\ round = n
    /\ ret = [c \in Callers |-> 0]
    /\ pc = [c \in Callers |-> IF c = 1 \/ Threaded THEN "call" ELSE "none"]
    /\ tsd = {} /\ errs = 0

-----------------------------------------------------------------------------
(* readline *)

\* The calls of read ask for one byte, or for as much as the buffer takes.
Size == IF prg \in {"treadline1", "web_child"} THEN 1 ELSE MAXLINE
Return(c, r) == ret' = [ret EXCEPT ![c] = r] /\ pc' = [pc EXCEPT ![c] = "back"]
Exit == pc' = [c \in Callers |-> "exit"] /\ UNCHANGED ret

CallShared(c) ==
    /\ pc[c] = "call"
    /\ n' = [n EXCEPT ![c] = 1]
    /\ line' = [line EXCEPT ![c] = <<>>]
    /\ buf' = [buf EXCEPT ![c] = buf[3 - c]]
    /\ tsd' = IF prg = "test04" THEN tsd \cup {c} ELSE tsd
    /\ pc' = [pc EXCEPT ![c] = "loop"]
    /\ UNCHANGED <<prg, stream, left, ret, out, round, wrote, errs>>

CallInitialises(c) ==
    /\ pc[c] = "call"
    /\ n' = [n EXCEPT ![c] = 1]
    /\ line' = [line EXCEPT ![c] = <<>>]
    /\ buf' = [buf EXCEPT ![c] = <<>>]
    /\ tsd' = IF prg = "test04" THEN tsd \cup {c} ELSE tsd
    /\ pc' = [pc EXCEPT ![c] = "loop"]
    /\ UNCHANGED <<prg, stream, left, ret, out, round, wrote, errs>>

\* The call; in test04 it makes the thread's buffer unless it has one.
Call(c) ==
    /\ pc[c] = "call"
    /\ n' = [n EXCEPT ![c] = 1]
    /\ line' = [line EXCEPT ![c] = <<>>]
    /\ tsd' = IF prg = "test04" THEN tsd \cup {c} ELSE tsd
    /\ pc' = [pc EXCEPT ![c] = "loop"]
    /\ UNCHANGED <<prg, stream, left, buf, ret, out, round, wrote, errs>>

\* my_read with rl_cnt <= 0: read brings some bytes.
my_read(c) ==
    /\ pc[c] = "loop" /\ n[c] < MAXLINE /\ buf[c] = <<>>
    /\ \E k \in 1..Size :
          /\ k <= Len(left[c])
          /\ buf' = [buf EXCEPT ![c] = SubSeq(left[c], 1, k)]
          /\ left' = [left EXCEPT ![c] = SubSeq(@, k + 1, Len(@))]
    /\ UNCHANGED <<prg, stream, n, line, pc, ret, out, round, tsd, wrote, errs>>

TakeOneMore(c) ==
    /\ pc[c] = "loop" /\ n[c] <= MAXLINE /\ buf[c] # <<>>
    /\ line' = [line EXCEPT ![c] = Append(@, Head(buf[c]))]
    /\ buf' = [buf EXCEPT ![c] = Tail(@)]
    /\ IF Head(buf[c]) = NL
         THEN Return(c, n[c]) /\ UNCHANGED n
         ELSE n' = [n EXCEPT ![c] = @ + 1] /\ UNCHANGED <<pc, ret>>
    /\ UNCHANGED <<prg, stream, left, out, round, tsd, wrote, errs>>

\* A byte goes into the line; a newline ends it.
TakeByte(c) ==
    /\ pc[c] = "loop" /\ n[c] < MAXLINE /\ buf[c] # <<>>
    /\ line' = [line EXCEPT ![c] = Append(@, Head(buf[c]))]
    /\ buf' = [buf EXCEPT ![c] = Tail(@)]
    /\ IF Head(buf[c]) = NL
         THEN Return(c, n[c]) /\ UNCHANGED n
         ELSE n' = [n EXCEPT ![c] = @ + 1] /\ UNCHANGED <<pc, ret>>
    /\ UNCHANGED <<prg, stream, left, out, round, tsd, wrote, errs>>

\* The loop ends without a newline.
LineFull(c) ==
    /\ pc[c] = "loop" /\ n[c] >= MAXLINE
    /\ Return(c, n[c])
    /\ UNCHANGED <<prg, stream, left, buf, n, line, out, round, tsd, wrote, errs>>

EofCounts(c) == n[c]

\* read returns 0: the number of bytes, or in the servers n.
EofValue(c) == IF Serving /\ n[c] # 1 THEN n[c] ELSE n[c] - 1
EndOfFile(c) ==
    /\ pc[c] = "loop" /\ n[c] < MAXLINE /\ buf[c] = <<>> /\ left[c] = <<>>
    /\ Return(c, EofValue(c))
    /\ UNCHANGED <<prg, stream, left, buf, n, line, out, round, tsd, wrote, errs>>

\* A signal interrupts read: most versions try again, readline2 ends the
\* process (err_sys), server/readline.c returns -1.
Interrupted(c) ==
    /\ pc[c] = "loop" /\ n[c] < MAXLINE /\ buf[c] = <<>> /\ errs < MaxErrs
    /\ errs' = errs + 1
    /\ CASE prg = "treadline2" -> Exit
         [] prg = "web_child" -> Return(c, -1)
         [] OTHER -> UNCHANGED <<pc, ret>>
    /\ UNCHANGED <<prg, stream, left, buf, n, line, out, round, tsd, wrote>>

ReadFails(c) ==
    /\ pc[c] = "loop" /\ n[c] < MAXLINE /\ buf[c] = <<>> /\ errs < MaxErrs
    /\ errs' = errs + 1
    /\ IF prg = "treadline2" THEN Exit ELSE Return(c, -1)
    /\ UNCHANGED <<prg, stream, left, buf, n, line, out, round, tsd, wrote>>

\* The versions: a byte at a time; with static variables; with the caller's
\* Rline; with the thread's own (threads/readline.c); and the servers'.
AnyReadline(c) == \/ Call(c) \/ my_read(c) \/ TakeByte(c) \/ LineFull(c)
                  \/ EndOfFile(c) \/ Interrupted(c) \/ ReadFails(c)
readline1(c)      == prg = "treadline1" /\ AnyReadline(c)
readline2(c)      == prg = "treadline2" /\ AnyReadline(c)
readline3(c)      == prg = "treadline3" /\ AnyReadline(c)
readline_tsd(c)   == prg = "test04" /\ AnyReadline(c)
readline(c)       == prg = "web_child" /\ AnyReadline(c)
readline_r(c)     == prg = "web_child_r" /\ AnyReadline(c)

-----------------------------------------------------------------------------
(* The callers *)

Accept(c) ==
    /\ out' = [out EXCEPT ![c] = Append(@, [text |-> line[c], count |-> ret[c]])]
    /\ line' = [line EXCEPT ![c] = <<>>]

\* treadline1, treadline2, treadline3: lines are counted while there are any.
CountLine(c) ==
    /\ pc[c] = "back"
    /\ IF ret[c] > 0 THEN Accept(c) ELSE UNCHANGED <<out, line>>
    /\ pc' = [pc EXCEPT ![c] = IF ret[c] > 0 THEN "call" ELSE "done"]
    /\ UNCHANGED <<prg, stream, left, buf, n, ret, round, tsd, wrote, errs>>

treadline1(c) == prg = "treadline1" /\ CountLine(c)
treadline2(c) == prg = "treadline2" /\ CountLine(c)
treadline3(c) == prg = "treadline3" /\ CountLine(c)

\* myfunc of test04: the line is copied; at the end of the file the next
\* round opens it again; Readline ends the process when there is an error. The
\* end of the thread runs readline_destructor.
myfunc(c) ==
    /\ pc[c] = "back" /\ prg = "test04"
    /\ \/ ret[c] > 0 /\ Accept(c) /\ pc' = [pc EXCEPT ![c] = "call"]
          /\ UNCHANGED <<left, round, tsd>>
       \/ ret[c] = 0 /\ round[c] < Rounds
          /\ round' = [round EXCEPT ![c] = @ + 1]
          /\ left' = [left EXCEPT ![c] = stream[c]]
          /\ pc' = [pc EXCEPT ![c] = "call"]
          /\ UNCHANGED <<out, line, tsd>>
       \/ ret[c] = 0 /\ round[c] = Rounds
          /\ tsd' = tsd \ {c}
          /\ pc' = [pc EXCEPT ![c] = "done"]
          /\ UNCHANGED <<left, round, out, line>>
       \/ ret[c] < 0 /\ pc' = [x \in Callers |-> "exit"]
          /\ UNCHANGED <<left, round, out, line, tsd>>
    /\ UNCHANGED <<prg, stream, buf, n, ret, wrote, errs>>

\* The number a text starts with (atol).
Digits(s) == SelectInSeq(s \o <<NL>>, LAMBDA b : b > 9) - 1
atol(s) == FoldLeft(LAMBDA acc, b : 10 * acc + b, 0, SubSeq(s, 1, Digits(s)))

\* web_child: a request is answered; one that is no number or too large ends
\* the process (err_quit), as does an error (Readline, Readline_r).
Respond(c) ==
    /\ pc[c] = "back"
    /\ LET ntowrite == atol(line[c])
           good     == ntowrite > 0 /\ ntowrite <= MAXN
       IN  \/ ret[c] = 0 /\ pc' = [pc EXCEPT ![c] = "done"] /\ UNCHANGED <<out, line, wrote>>
           \/ ret[c] > 0 /\ good
              /\ Accept(c)
              /\ wrote' = [wrote EXCEPT ![c] = Append(@, ntowrite)]
              /\ pc' = [pc EXCEPT ![c] = "call"]
           \/ (ret[c] < 0 \/ (ret[c] > 0 /\ ~good))
              /\ pc' = [x \in Callers |-> "exit"] /\ UNCHANGED <<out, line, wrote>>
    /\ UNCHANGED <<prg, stream, left, buf, n, ret, round, tsd, errs>>

web_child(c)   == prg = "web_child" /\ Respond(c)
web_child_r(c) == prg = "web_child_r" /\ Respond(c)

Next ==
    \E c \in Callers :
       \/ readline1(c) \/ readline2(c) \/ readline3(c)
       \/ readline_tsd(c) \/ readline(c) \/ readline_r(c)
       \/ treadline1(c) \/ treadline2(c) \/ treadline3(c)
       \/ myfunc(c) \/ web_child(c) \/ web_child_r(c)

Spec == Init /\ [][Next]_vars

-----------------------------------------------------------------------------
Bytes(c) == FlattenSeq([i \in 1..Len(out[c]) |-> out[c][i].text])
Repeated(s, k) == FlattenSeq([i \in 1..k |-> s])

TypeOK ==
    /\ ret \in [Callers -> -1..MAXLINE] /\ n \in [Callers -> 1..MAXLINE]
    /\ pc \in [Callers -> {"none", "call", "loop", "back", "done", "exit"}]
    /\ tsd \subseteq Callers /\ errs \in 0..MaxErrs /\ round \in [Callers -> 1..Rounds]

\* However the bytes arrive, the lines a caller accepted, the line being made,
\* the buffer and what is unread are together the bytes of its descriptor, in
\* order (of the rounds so far, in test04): no byte is lost, doubled or taken
\* from the other thread, and after an error only the line being made is.
NothingLost ==
    \A c \in Callers :
       Bytes(c) \o line[c] \o buf[c] \o left[c] = Repeated(stream[c], round[c])

\* What readline returns is the number of bytes in the line, except for one
\* more when the line is full and when the stream of a server ends in the
\* middle of a line.
CountIsLength ==
    \A c \in Callers :
       \/ pc[c] # "back" \/ ret[c] = -1
       \/ ret[c] = Len(line[c])
       \/ /\ ret[c] = Len(line[c]) + 1 /\ (line[c] = <<>> \/ Last(line[c]) # NL)
          /\ \/ Len(line[c]) = MAXLINE - 1
             \/ Serving /\ line[c] # <<>> /\ left[c] = <<>> /\ buf[c] = <<>>

\* A line and its null byte fit, only its last byte is a newline, and a line
\* without one is full or is the last of its stream.
LinesAreLines ==
    \A c \in Callers :
       /\ Len(line[c]) < MAXLINE
       /\ \A i \in 1..Len(out[c]) :
             LET t == out[c][i].text
             IN  /\ \A k \in 1..Len(t) - 1 : t[k] # NL
                 /\ \/ Last(t) = NL \/ Len(t) = MAXLINE - 1
                    \/ LET upto == FlattenSeq([j \in 1..i |-> out[c][j].text])
                       IN  stream[c] # <<>> /\ Len(upto) % Len(stream[c]) = 0

\* The numbers on the lines of a stream, taken from its text alone.
Starts(s) == {i \in 1..Len(s) : i = 1 \/ s[i - 1] = NL}
Requests(s) == [j \in 1..Cardinality(Starts(s)) |->
                  LET i == CHOOSE x \in Starts(s) : Cardinality({y \in Starts(s) : y < x}) = j - 1
                  IN  atol(SubSeq(s, i, Len(s)))]
ShortLines(s) == \A i \in 1..Len(s) - MAXLINE + 2 : \E k \in i..i + MAXLINE - 2 : s[k] = NL

\* A server whose client sends lines that fit answers the request on every
\* line, in order, with the number the line holds.
AnswersRequests ==
    \A c \in Callers :
       Serving /\ ShortLines(stream[c]) => IsPrefix(wrote[c], Requests(stream[c]))

\* A thread of test04 has a buffer of its own while it reads and none when it
\* is done; then its file holds every round's lines.
EveryThreadsCopy ==
    prg = "test04" =>
       \A c \in Callers :
          /\ pc[c] = "loop" => c \in tsd
          /\ pc[c] = "done" => c \notin tsd /\ Bytes(c) = Repeated(stream[c], Rounds)
=============================================================================
