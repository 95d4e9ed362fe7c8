------------------------------- MODULE StrCli -------------------------------
(***************************************************************************)
(* The function str_cli in its many versions: it copies standard input to  *)
(* a TCP echo server and what comes back to standard output.  Stop and     *)
(* wait (str_cli08/09/11), select on lines and on buffers, /dev/poll,      *)
(* kqueue, nonblocking I/O with two buffers, two processes, two threads.   *)
(* Lines are counted, not named: both directions are first in, first out.  *)
(***************************************************************************)
EXTENDS Integers, FiniteSets

CONSTANTS Versions, \* the versions to look at
          K,        \* lines of standard input
          MAXLINE   \* size of each buffer of the nonblocking version, in lines

VARIABLES v,      \* the version that runs
          pc,     \* the client: where it is, or how it ended
          left,   \* lines still to be typed
          avail,  \* lines standard input has for read
          sbuf,   \* lines in the stdio buffer of fgets
          rbuf,   \* lines in the buffer of readline
          ready,  \* what select, poll or kevent returned
          eof,    \* stdineof (done in strclithread2)
          toNet, fin,   \* lines under way to the server, and the FIN after them
          frNet, sfin,  \* lines under way to the client, and the server's FIN
          crashed,      \* the server terminated before it had the client's FIN
          printed,
          buf,    \* the four pointers of the nonblocking version
          copier, \* the second process or thread
          stuck   \* history: standard output refused data for a while

vars == <<v, pc, left, avail, sbuf, rbuf, ready, eof, toNet, fin, frNet, sfin, crashed,
          printed, buf, copier, stuck>>

net == <<toNet, fin, frNet, sfin, crashed>>
LineSelect == {"select01", "select02"}
Chunked == {"strcliselect02", "poll03", "kqueue04"}
TwoActors == {"fork", "thread", "thread2"}
Ended == {"returned", "premature", "error", "killed"}

Init ==
    /\ v \in Versions
    /\ pc = "top"
    /\ left = K /\ avail = 0 /\ sbuf = 0 /\ rbuf = 0
    /\ ready = {} /\ eof = FALSE
    /\ toNet = 0 /\ fin = FALSE /\ frNet = 0 /\ sfin = FALSE /\ crashed = FALSE
    /\ printed = 0
    /\ buf = [toi |-> 0, too |-> 0, fri |-> 0, fro |-> 0]
    /\ copier = IF v \in TwoActors THEN "run" ELSE "none"
    /\ stuck = FALSE

AtEof == left = 0 /\ avail = 0
InReady == avail > 0 \/ left = 0
SockReady == frNet > 0 \/ sfin

\* Writen of n lines: a server that is gone answers with a reset.
Send(n) ==
    /\ toNet' = IF crashed THEN toNet ELSE toNet + n
    /\ UNCHANGED <<fin, frNet, sfin, crashed>>

\* Shutdown(sockfd, SHUT_WR).
SendFin == fin' = TRUE /\ UNCHANGED <<toNet, frNet, sfin, crashed>>

\* A write to a connection the server has reset: SIGPIPE, or err_sys.
WriteFails ==
    /\ crashed /\ avail + sbuf + (buf.toi - buf.too) > 0
    /\ pc' = "error"
    /\ UNCHANGED <<v, left, avail, sbuf, rbuf, ready, eof, net, printed, buf, copier, stuck>>

-----------------------------------------------------------------------------
(* The world around the client.                                            *)

Type ==
    /\ left > 0
    /\ left' = left - 1 /\ avail' = avail + 1
    /\ UNCHANGED <<v, pc, sbuf, rbuf, ready, eof, net, printed, buf, copier, stuck>>

\* str_echo: one line is read and sent back.
Echo ==
    /\ toNet > 0 /\ ~sfin
    /\ toNet' = toNet - 1 /\ frNet' = frNet + 1
    /\ UNCHANGED <<v, pc, left, avail, sbuf, rbuf, ready, eof, fin, sfin, crashed, printed, buf,
                   copier, stuck>>

str_echo08 == v # "str_cli09" /\ Echo
str_echo09 == v = "str_cli09" /\ Echo

\* str_echo: Readline returned 0, the connection is closed.
EchoEnds ==
    /\ toNet = 0 /\ fin /\ ~sfin
    /\ sfin' = TRUE
    /\ UNCHANGED <<v, pc, left, avail, sbuf, rbuf, ready, eof, toNet, fin, frNet, crashed,
                   printed, buf, copier, stuck>>

ServerCrash ==
    /\ ~sfin /\ ~fin
    /\ sfin' = TRUE /\ crashed' = TRUE /\ toNet' = 0
    /\ UNCHANGED <<v, pc, left, avail, sbuf, rbuf, ready, eof, fin, frNet, printed, buf,
                   copier, stuck>>

-----------------------------------------------------------------------------
(* str_cli08.c, str_cli11.c, str_cli09.c: one line at a time.              *)

\* Fgets: the next line, and with it whatever else standard input has.
Fgets ==
    \/ sbuf > 0 /\ sbuf' = sbuf - 1 /\ UNCHANGED avail
    \/ sbuf = 0 /\ avail > 0 /\ sbuf' = avail - 1 /\ avail' = 0

StrCli08 ==
    /\ v = "str_cli08" /\ pc = "top"
    /\ \/ Fgets /\ Send(1) /\ pc' = "reply"
       \/ sbuf = 0 /\ AtEof /\ pc' = "returned" /\ UNCHANGED <<avail, sbuf, net>>
    /\ UNCHANGED <<v, left, rbuf, ready, eof, printed, buf, copier, stuck>>

\* The first byte, sleep(1), the rest: the line is complete with the second.
StrCli11 ==
    /\ v = "str_cli11" /\ pc \in {"top", "half"}
    /\ \/ pc = "top" /\ Fgets /\ pc' = "half" /\ UNCHANGED net
       \/ pc = "half" /\ Send(1) /\ pc' = "reply" /\ UNCHANGED <<avail, sbuf>>
       \/ /\ pc = "top" /\ sbuf = 0 /\ AtEof
          /\ pc' = "returned" /\ UNCHANGED <<avail, sbuf, net>>
    /\ UNCHANGED <<v, left, rbuf, ready, eof, printed, buf, copier, stuck>>

\* A line that is not two numbers is reported and not sent.
StrCli09 ==
    /\ v = "str_cli09" /\ pc = "top"
    /\ \/ Fgets /\ Send(1) /\ pc' = "reply" /\ UNCHANGED printed
       \/ Fgets /\ printed' = printed + 1 /\ UNCHANGED <<pc, net>>
       \/ sbuf = 0 /\ AtEof /\ pc' = "returned" /\ UNCHANGED <<avail, sbuf, net, printed>>
    /\ UNCHANGED <<v, left, rbuf, ready, eof, buf, copier, stuck>>

\* Readline of the answer.
AwaitReply ==
    /\ pc = "reply" /\ SockReady
    /\ IF frNet > 0 THEN frNet' = frNet - 1 /\ printed' = printed + 1 /\ pc' = "top"
       ELSE pc' = "premature" /\ UNCHANGED <<frNet, printed>>
    /\ UNCHANGED <<v, left, avail, sbuf, rbuf, ready, eof, toNet, fin, sfin, crashed, buf,
                   copier, stuck>>

-----------------------------------------------------------------------------
(* Select and its relatives: wait, then handle the socket and the input.   *)

\* Standard input is no longer looked at once stdineof is set, except by
\* strcliselect01 (which has returned) and /dev/poll (which never forgets it).
WatchesInput == ~eof \/ v = "poll03"

SelectWait ==
    LET r == (IF SockReady THEN {"sock"} ELSE {})
             \cup (IF WatchesInput /\ InReady THEN {"in"} ELSE {})
    IN /\ v \in LineSelect \cup Chunked /\ pc = "top" /\ r # {}
       /\ ready' = r /\ pc' = "handle"
       /\ UNCHANGED <<v, left, avail, sbuf, rbuf, eof, net, printed, buf, copier, stuck>>

\* What is handled first: the socket, but poll and kevent return the ready
\* descriptors in any order.
MayHandle(d) ==
    /\ pc = "handle" /\ d \in ready
    /\ d = "sock" \/ "sock" \notin ready \/ v \in {"poll03", "kqueue04"}

Back(d) == ready' = ready \ {d} /\ pc' = IF ready = {d} THEN "top" ELSE "handle"

EofIsPremature == pc' = "premature"

\* End of file on the socket: normal only after the end of standard input.
\* strcliselect01 has no such case.
SocketEof == pc' = IF eof /\ v # "select01" THEN "returned" ELSE "premature"

\* Readline: the next line, from its own buffer or with all the socket has.
SelectReadline ==
    /\ v \in LineSelect /\ MayHandle("sock")
    /\ IF rbuf + frNet = 0
       THEN SocketEof /\ UNCHANGED <<rbuf, frNet, printed, ready>>
       ELSE /\ IF rbuf > 0 THEN rbuf' = rbuf - 1 /\ UNCHANGED frNet
               ELSE rbuf' = frNet - 1 /\ frNet' = 0
            /\ printed' = printed + 1
            /\ Back("sock")
    /\ UNCHANGED <<v, left, avail, sbuf, eof, toNet, fin, sfin, crashed, buf, copier, stuck>>

\* Read of a buffer full.
SelectRead ==
    /\ v \in Chunked /\ MayHandle("sock")
    /\ IF frNet = 0 THEN SocketEof /\ UNCHANGED <<frNet, printed, ready>>
       ELSE \E n \in 1..frNet : /\ frNet' = frNet - n /\ printed' = printed + n
                                /\ Back("sock")
    /\ UNCHANGED <<v, left, avail, sbuf, rbuf, eof, toNet, fin, sfin, crashed, buf, copier, stuck>>

SelectFgetsReturns ==
    /\ v \in LineSelect /\ MayHandle("in")
    /\ \/ Fgets /\ Send(1) /\ Back("in") /\ UNCHANGED eof
       \/ sbuf = 0 /\ AtEof /\ pc' = "returned" /\ UNCHANGED <<eof, net, ready, avail, sbuf>>
    /\ UNCHANGED <<v, left, rbuf, printed, buf, copier, stuck>>

\* Fgets: strcliselect01 returns at the end, str_cli_select02 shuts down.
SelectFgets ==
    /\ v \in LineSelect /\ MayHandle("in")
    /\ \/ Fgets /\ Send(1) /\ Back("in") /\ UNCHANGED eof
       \/ /\ sbuf = 0 /\ AtEof
          /\ IF v = "select01" THEN pc' = "returned" /\ UNCHANGED <<eof, net, ready>>
             ELSE eof' = TRUE /\ SendFin /\ Back("in")
          /\ UNCHANGED <<avail, sbuf>>
    /\ UNCHANGED <<v, left, rbuf, printed, buf, copier, stuck>>

\* Read of standard input.  kqueue knows how much a regular file still has,
\* and shuts down together with its last piece.
SelectInput ==
    /\ v \in Chunked /\ MayHandle("in")
    /\ \/ \E n \in 1..avail :
             /\ avail' = avail - n
             /\ \/ Send(n) /\ UNCHANGED eof
                \/ /\ v = "kqueue04" /\ left = 0 /\ n = avail
                   /\ eof' = TRUE /\ fin' = TRUE
                   /\ toNet' = IF crashed THEN toNet ELSE toNet + n
                   /\ UNCHANGED <<frNet, sfin, crashed>>
             /\ Back("in")
       \/ AtEof /\ eof' = TRUE /\ SendFin /\ Back("in") /\ UNCHANGED avail
    /\ UNCHANGED <<v, left, sbuf, rbuf, printed, buf, copier, stuck>>

\* /dev/poll reports the ended input again and Shutdown is called again: it
\* fails on a connection both sides have closed, and err_sys exits.
PollShutdownFails ==
    /\ v = "poll03" /\ MayHandle("in") /\ AtEof /\ eof /\ sfin
    /\ pc' = "error"
    /\ UNCHANGED <<v, left, avail, sbuf, rbuf, ready, eof, net, printed, buf, copier, stuck>>

-----------------------------------------------------------------------------
(* strclinonb.c: toi/too and fri/fro are offsets into to[] and fr[].       *)

NonbSelect ==
    LET r == (IF ~eof /\ buf.toi < MAXLINE /\ InReady THEN {"in"} ELSE {})
             \cup (IF buf.fri < MAXLINE /\ SockReady THEN {"sock"} ELSE {})
             \cup (IF buf.too # buf.toi THEN {"wsock"} ELSE {})
             \cup (IF buf.fro # buf.fri THEN {"wout"} ELSE {})
    IN /\ v = "nonb" /\ pc = "top" /\ r # {}
       /\ ready' = r /\ pc' = "in"
       /\ UNCHANGED <<v, left, avail, sbuf, rbuf, eof, net, printed, buf, copier, stuck>>

NonbInputShutsDown ==
    /\ v = "nonb" /\ pc = "in"
    /\ pc' = "sock"
    /\ CASE "in" \notin ready -> UNCHANGED <<avail, buf, ready, eof, net>>
         [] "in" \in ready /\ avail > 0 ->
              /\ \E n \in 1..(IF avail < MAXLINE - buf.toi THEN avail ELSE MAXLINE - buf.toi) :
                    avail' = avail - n /\ buf' = [buf EXCEPT !.toi = @ + n]
              /\ ready' = ready \cup {"wsock"}
              /\ UNCHANGED <<eof, net>>
         [] OTHER -> eof' = TRUE /\ SendFin /\ UNCHANGED <<avail, buf, ready>>
    /\ UNCHANGED <<v, left, sbuf, rbuf, printed, copier, stuck>>

NonbInput ==
    /\ v = "nonb" /\ pc = "in"
    /\ pc' = "sock"
    /\ CASE "in" \notin ready -> UNCHANGED <<avail, buf, ready, eof, net>>
         [] "in" \in ready /\ avail > 0 ->
              /\ \E n \in 1..(IF avail < MAXLINE - buf.toi THEN avail ELSE MAXLINE - buf.toi) :
                    avail' = avail - n /\ buf' = [buf EXCEPT !.toi = @ + n]
              /\ ready' = ready \cup {"wsock"}
              /\ UNCHANGED <<eof, net>>
         [] OTHER ->
              /\ eof' = TRUE
              /\ IF buf.too = buf.toi THEN SendFin ELSE UNCHANGED net
              /\ UNCHANGED <<avail, buf, ready>>
    /\ UNCHANGED <<v, left, sbuf, rbuf, printed, copier, stuck>>

NonbSocket ==
    /\ v = "nonb" /\ pc = "sock"
    /\ CASE "sock" \notin ready -> pc' = "out" /\ UNCHANGED <<frNet, buf, ready>>
         [] "sock" \in ready /\ frNet > 0 ->
              /\ \E n \in 1..(IF frNet < MAXLINE - buf.fri THEN frNet ELSE MAXLINE - buf.fri) :
                    frNet' = frNet - n /\ buf' = [buf EXCEPT !.fri = @ + n]
              /\ ready' = ready \cup {"wout"}
              /\ pc' = "out"
         [] OTHER -> SocketEof /\ UNCHANGED <<frNet, buf, ready>>
    /\ UNCHANGED <<v, left, avail, sbuf, rbuf, eof, toNet, fin, sfin, crashed, printed, copier, stuck>>

NonbOutputForgets ==
    /\ v = "nonb" /\ pc = "out"
    /\ pc' = "wsock"
    /\ IF "wout" \in ready /\ buf.fri > buf.fro
       THEN \E n \in 0..(buf.fri - buf.fro) :
               /\ printed' = printed + n
               /\ stuck' = (n < buf.fri - buf.fro)
               /\ buf' = [buf EXCEPT !.fro = 0, !.fri = 0]
       ELSE UNCHANGED <<printed, stuck, buf>>
    /\ UNCHANGED <<v, left, avail, sbuf, rbuf, ready, eof, net, copier>>

\* Standard output takes all, a part, or nothing (EWOULDBLOCK).
NonbOutput ==
    /\ v = "nonb" /\ pc = "out"
    /\ pc' = "wsock"
    /\ IF "wout" \in ready /\ buf.fri > buf.fro
       THEN \E n \in 0..(buf.fri - buf.fro) :
               /\ printed' = printed + n
               /\ stuck' = (n < buf.fri - buf.fro)
               /\ buf' = IF buf.fro + n = buf.fri THEN [buf EXCEPT !.fro = 0, !.fri = 0]
                         ELSE [buf EXCEPT !.fro = @ + n]
       ELSE UNCHANGED <<printed, stuck, buf>>
    /\ UNCHANGED <<v, left, avail, sbuf, rbuf, ready, eof, net, copier>>

NonbSend ==
    /\ v = "nonb" /\ pc = "wsock"
    /\ pc' = "top"
    /\ IF "wsock" \in ready /\ buf.toi > buf.too
       THEN \E n \in 0..(buf.toi - buf.too) :
               LET drained == buf.too + n = buf.toi IN
               /\ toNet' = IF crashed THEN toNet ELSE toNet + n
               /\ fin' = (fin \/ (drained /\ eof))
               /\ buf' = IF drained THEN [buf EXCEPT !.too = 0, !.toi = 0]
                         ELSE [buf EXCEPT !.too = @ + n]
       ELSE UNCHANGED <<toNet, fin, buf>>
    /\ UNCHANGED <<v, left, avail, sbuf, rbuf, ready, eof, frNet, sfin, crashed, printed,
                   copier, stuck>>

-----------------------------------------------------------------------------
(* strclifork.c: the parent copies the input, the child the output.        *)
(* strclithread.c, strclithread2.c: copyto copies the input.               *)

CopyLine ==
    /\ copier = "run" /\ pc \notin Ended
    /\ Fgets /\ Send(1)
    /\ UNCHANGED <<v, pc, left, rbuf, ready, eof, printed, buf, copier, stuck>>

CopyEndNoFin ==
    /\ copier = "run" /\ pc \notin Ended /\ sbuf = 0 /\ AtEof
    /\ copier' = IF v = "thread2" THEN "finsent" ELSE "ended"
    /\ UNCHANGED <<v, pc, left, avail, sbuf, rbuf, ready, eof, net, printed, buf, stuck>>

CopyEnd ==
    /\ copier = "run" /\ pc \notin Ended /\ sbuf = 0 /\ AtEof
    /\ SendFin
    /\ copier' = IF v = "thread2" THEN "finsent" ELSE "ended"
    /\ UNCHANGED <<v, pc, left, avail, sbuf, rbuf, ready, eof, printed, buf, stuck>>

\* done = 1, the last thing copyto of strclithread2.c does.
CopyDone ==
    /\ copier = "finsent" /\ pc \notin Ended
    /\ eof' = TRUE /\ copier' = "ended"
    /\ UNCHANGED <<v, pc, left, avail, sbuf, rbuf, ready, net, printed, buf, stuck>>

\* while (Readline(...) > 0) Fputs: the child, or the main thread.  At the end
\* the child kills its parent, strclithread returns, strclithread2 looks at done.
PrintLoop ==
    /\ v \in TwoActors /\ pc = "top" /\ SockReady
    /\ IF frNet > 0
       THEN frNet' = frNet - 1 /\ printed' = printed + 1 /\ UNCHANGED <<pc, copier>>
       ELSE /\ pc' = IF v = "thread2" /\ ~eof THEN "premature" ELSE "returned"
            /\ copier' = IF v = "fork" THEN "killed" ELSE copier
            /\ UNCHANGED <<frNet, printed>>
    /\ UNCHANGED <<v, left, avail, sbuf, rbuf, ready, eof, toNet, fin, sfin, crashed, buf, stuck>>

-----------------------------------------------------------------------------
(* Each version of str_cli, put together.                                  *)

str_cli08 == StrCli08 \/ (v = "str_cli08" /\ AwaitReply)
str_cli09 == StrCli09 \/ (v = "str_cli09" /\ AwaitReply)
str_cli11 == StrCli11 \/ (v = "str_cli11" /\ AwaitReply)
strcliselect01 == v = "select01" /\ (SelectWait \/ SelectReadline \/ SelectFgets)
str_cli_select02 == v = "select02" /\ (SelectWait \/ SelectReadline \/ SelectFgets)
strcliselect02 == v = "strcliselect02" /\ (SelectWait \/ SelectRead \/ SelectInput)
str_cli_poll03 == v = "poll03" /\ (SelectWait \/ SelectRead \/ SelectInput \/ PollShutdownFails)
str_cli_kqueue04 == v = "kqueue04" /\ (SelectWait \/ SelectRead \/ SelectInput)
strclinonb == NonbSelect \/ NonbInput \/ NonbSocket \/ NonbOutput \/ NonbSend
strclifork == v = "fork" /\ PrintLoop
strclithread == v = "thread" /\ PrintLoop
strclithread2 == v = "thread2" /\ PrintLoop

\* The parent of strclifork and the thread copyto of the other two.
fork_parent == v = "fork" /\ (CopyLine \/ CopyEnd)
copyto == v = "thread" /\ (CopyLine \/ CopyEnd)
copyto2 == v = "thread2" /\ (CopyLine \/ CopyEnd \/ CopyDone)

ClientStep ==
    \/ str_cli08 \/ str_cli09 \/ str_cli11
    \/ strcliselect01 \/ str_cli_select02 \/ strcliselect02 \/ str_cli_poll03
    \/ str_cli_kqueue04 \/ strclinonb \/ strclifork \/ strclithread \/ strclithread2

CopierStep == fork_parent \/ copyto \/ copyto2

Running == pc \notin Ended

Next ==
    \/ Running /\ (ClientStep \/ CopierStep \/ WriteFails)
    \/ Type \/ str_echo08 \/ str_echo09 \/ EchoEnds \/ ServerCrash

OutputTaken == NonbOutput /\ printed' > printed
AllSent == NonbSend /\ buf'.too = buf'.toi

\* The client, its second process or thread and the server keep running, the
\* user comes to an end of the input, and standard output does not refuse
\* data for ever.
Fairness ==
    /\ WF_vars(Running /\ ClientStep) /\ WF_vars(Running /\ CopierStep)
    /\ WF_vars(Type) /\ WF_vars(Echo) /\ WF_vars(EchoEnds)
    /\ SF_vars(OutputTaken) /\ SF_vars(AllSent)

Spec == Init /\ [][Next]_vars /\ Fairness

-----------------------------------------------------------------------------
\* A client that returns has printed the answer to every line, unless the
\* server terminated.  Two exceptions are in the code: strcliselect01 returns
\* at the end of its input with answers under way, and the nonblocking
\* version returns at the end of the connection with data left in fr[] when
\* standard output would not take it.
AllEchoed ==
    pc = "returned" /\ ~crashed /\ v # "select01" /\ ~stuck => printed = K

\* "server terminated prematurely" is said of a server that did terminate
\* before it had the whole input; strclithread2 may say it of one that
\* answered the FIN between the copier's Shutdown and its done = 1.
PrematureMeansCrash ==
    pc = "premature" => crashed \/ (v = "thread2" /\ fin)

\* The FIN follows the last line: nothing read from standard input is still
\* in a buffer of the client when the connection is shut down.
FinIsLast ==
    fin => left = 0 /\ avail = 0 /\ sbuf = 0 /\ buf.toi = buf.too

\* Nothing is printed that was not sent and echoed, in whatever buffers the
\* lines are now: the counts add up.
LinesConserved ==
    ~crashed /\ v # "str_cli09" =>
        left + avail + sbuf + (buf.toi - buf.too) + toNet + frNet + rbuf
        + (buf.fri - buf.fro) + printed = IF pc = "half" THEN K - 1 ELSE K

\* Every version comes to an end.
Terminates == <>(pc \in Ended)
=============================================================================
