------------------------------ MODULE UdpTimers -----------------------------
(***************************************************************************)
(* The clients of unpv13e that put a time limit on the wait for datagrams: *)
(* advio/dgclitimeo*.c, bcast/dgclibcast[1-6].c, mcast/dgclibcast1.c,      *)
(* rtt/dg_send_recv.c and udpcksum/udpcksum.c.  Each sends a request and   *)
(* waits; they differ in how the timer gets them out of the wait: select,  *)
(* a socket option, an interrupted recvfrom, pselect, a jump out of the    *)
(* handler, or a pipe the handler writes to.  The network loses, delays    *)
(* and duplicates; the timer may expire between any two steps.             *)
(***************************************************************************)
EXTENDS Integers, Sequences, FiniteSets

CONSTANTS Programs, NLines, MAXNREXMT

VARIABLES prog, pc, line,
          timer,    \* the alarm: "off", "on", or "pending" while it is blocked
          blocked,  \* is SIGALRM blocked?
          intr,     \* has the handler interrupted the call in progress?
          jmpbuf,   \* "none", "set", or "stale" when the function has returned
          pipe,     \* bytes in the pipe of dgclibcast6
          nsent,    \* transmissions of this request
          net,      \* answers on their way or received: <<request, number>>
          inhand,   \* the answer taken from the socket
          answered, \* history: an answer to this request has been taken
          missed, wild, late   \* history: how the timer went wrong

timing == <<timer, blocked, intr, jmpbuf, pipe>>
history == <<missed, wild, late>>
vars == <<prog, pc, line, timing, nsent, net, inhand, answered, history>>

Nothing == <<0, 0>>
Is(p) == prog = p
EINTRs == {"dgclitimeo3", "dgclibcast1", "dgclibcast2", "dgclibcast3", "mcast_dgclibcast1"}

Init ==
    /\ prog \in Programs /\ pc = "fgets" /\ line = 0
    /\ timer = "off" /\ blocked = FALSE /\ intr = FALSE /\ jmpbuf = "none" /\ pipe = 0
    /\ nsent = 0 /\ net = {} /\ inhand = Nothing /\ answered = FALSE
    /\ missed = FALSE /\ wild = FALSE /\ late = FALSE

Goto(l) == pc' = l
Take(r) == r \in net /\ net' = net \ {r} /\ inhand' = r /\ answered' = (answered \/ r[1] = line)
Drop == inhand' = Nothing

\* The next line; the program ends with its input.
Fgets ==
    /\ pc = "fgets"
    /\ IF line < (IF Is("udpcksum") THEN 1 ELSE NLines)
       THEN line' = line + 1 /\ Goto(IF Is("udpcksum") THEN "setjmp" ELSE "send")
       ELSE Goto("end") /\ UNCHANGED line
    /\ nsent' = 0 /\ answered' = FALSE
    /\ UNCHANGED <<prog, timing, net, inhand, history>>

\* The request is answered by nobody, by one, or by two.
Sendto ==
    /\ pc = "send" /\ nsent' = nsent + 1
    /\ \E k \in 0..2 : net' = net \cup {<<line, 2 * nsent + i>> : i \in 1..k}
    /\ blocked' = (blocked \/ Is("dgclibcast4"))
    /\ Goto("alarm")
    /\ UNCHANGED <<prog, line, timer, intr, jmpbuf, pipe, inhand, answered, history>>

SetTimerNever ==
    /\ pc = "alarm" /\ UNCHANGED timing
    /\ Goto(IF prog \in {"dgclibcast5", "dg_send_recv"} THEN "setjmp"
            ELSE IF prog = "dgclibcast3" THEN "unblock"
            ELSE IF prog \in EINTRs THEN "before"
            ELSE "wait")
    /\ UNCHANGED <<prog, line, nsent, net, inhand, answered, history>>

SetTimer ==
    /\ pc = "alarm" /\ timer' = "on"
    /\ Goto(IF prog \in {"dgclibcast5", "dg_send_recv"} THEN "setjmp"
            ELSE IF prog = "dgclibcast3" THEN "unblock"
            ELSE IF prog \in EINTRs THEN "before"
            ELSE "wait")
    /\ UNCHANGED <<prog, line, blocked, intr, jmpbuf, pipe, nsent, net, inhand, answered, history>>

-----------------------------------------------------------------------------
(* Waits that the kernel limits: select, SO_RCVTIMEO.                      *)

KernelWait ==
    /\ pc = "wait"
    /\ \/ timer = "off" /\ Goto("fgets") /\ UNCHANGED <<timing, net, inhand, answered>>
       \/ /\ \E r \in net : Take(r)
          /\ timer' = "off" /\ Goto("got") /\ UNCHANGED <<blocked, intr, jmpbuf, pipe>>
    /\ UNCHANGED <<prog, line, nsent, history>>
PrintLine(next) ==
    /\ pc = "got" /\ Drop /\ Goto(next)
    /\ UNCHANGED <<prog, line, timing, nsent, net, answered, history>>
dgclitimeo == Is("dgclitimeo") /\ (KernelWait \/ PrintLine("fgets"))
dgclitimeo1 == Is("dgclitimeo1") /\ (KernelWait \/ PrintLine("fgets"))
dgclitimeo2 == Is("dgclitimeo2") /\ (KernelWait \/ PrintLine("fgets"))

-----------------------------------------------------------------------------
(* A recvfrom that the handler interrupts.                                 *)

EnterRecv ==
    /\ pc = "before" /\ Goto("recv")
    /\ UNCHANGED <<prog, line, timing, nsent, net, inhand, answered, history>>
Recvfrom(next) ==
    /\ pc = "recv"
    /\ \/ intr /\ intr' = FALSE /\ Goto("fgets") /\ UNCHANGED <<net, inhand, answered>>
       \/ ~intr /\ (\E r \in net : Take(r)) /\ Goto(next) /\ UNCHANGED intr
    /\ UNCHANGED <<prog, line, timer, blocked, jmpbuf, pipe, nsent, history>>
AlarmLeftOn ==
    /\ pc = "got" /\ Drop /\ Goto("fgets")
    /\ UNCHANGED <<prog, line, timing, nsent, net, answered, history>>

AlarmOff ==
    /\ pc = "got" /\ timer' = "off" /\ Drop /\ Goto("fgets")
    /\ UNCHANGED <<prog, line, blocked, intr, jmpbuf, pipe, nsent, net, answered, history>>
dgclitimeo3 == Is("dgclitimeo3") /\ (EnterRecv \/ Recvfrom("got") \/ AlarmOff)
dgclibcast1 == Is("dgclibcast1") /\ (EnterRecv \/ Recvfrom("got") \/ PrintLine("before"))
dgclibcast2 == Is("dgclibcast2") /\ (EnterRecv \/ Recvfrom("got") \/ PrintLine("before"))
mcast_dgclibcast1 == Is("mcast_dgclibcast1") /\ (EnterRecv \/ Recvfrom("got") \/ PrintLine("before"))

\* A signal that came while it was blocked is delivered when it is unblocked.
Unblock ==
    /\ pc = "unblock" /\ blocked' = FALSE /\ Goto("before")
    /\ missed' = (missed \/ timer = "pending") /\ timer' = IF timer = "pending" THEN "off" ELSE timer
    /\ UNCHANGED <<prog, line, intr, jmpbuf, pipe, nsent, net, inhand, answered, wild, late>>
Block(next) ==
    /\ pc = "block" /\ blocked' = TRUE /\ Goto(IF inhand = Nothing THEN "fgets" ELSE next)
    /\ UNCHANGED <<prog, line, timer, intr, jmpbuf, pipe, nsent, net, inhand, answered, history>>
RecvBlock ==
    /\ pc = "recv"
    /\ \/ intr /\ intr' = FALSE /\ UNCHANGED <<net, inhand, answered>>
       \/ ~intr /\ (\E r \in net : Take(r)) /\ UNCHANGED intr
    /\ Goto("block")
    /\ UNCHANGED <<prog, line, timer, blocked, jmpbuf, pipe, nsent, history>>
dgclibcast3 == Is("dgclibcast3") /\ (Unblock \/ EnterRecv \/ RecvBlock \/ Block("got") \/ PrintLine("unblock"))

-----------------------------------------------------------------------------
(* pselect, a jump, a pipe.                                                *)

Pselect ==
    /\ pc = "wait"
    /\ \/ timer = "pending" /\ timer' = "off" /\ Goto("fgets") /\ UNCHANGED <<net, inhand, answered>>
       \/ (\E r \in net : Take(r)) /\ Goto("got") /\ UNCHANGED timer
    /\ UNCHANGED <<prog, line, blocked, intr, jmpbuf, pipe, nsent, history>>
dgclibcast4 == Is("dgclibcast4") /\ (Pselect \/ PrintLine("wait"))

Setjmp(next) ==
    /\ pc = "setjmp" /\ jmpbuf' = "set" /\ Goto(next)
    /\ UNCHANGED <<prog, line, timer, blocked, intr, pipe, nsent, net, inhand, answered, history>>
dgclibcast5 == Is("dgclibcast5") /\ (Setjmp("recv") \/ Recvfrom("got") \/ PrintLine("setjmp"))

SelectPipe ==
    /\ pc = "wait"
    /\ \/ (\E r \in net : Take(r)) /\ Goto("got") /\ UNCHANGED pipe
       \/ pipe > 0 /\ pipe' = pipe - 1 /\ Goto("fgets") /\ UNCHANGED <<net, inhand, answered>>
    /\ UNCHANGED <<prog, line, timer, blocked, intr, jmpbuf, nsent, history>>
dgclibcast6 == Is("dgclibcast6") /\ (SelectPipe \/ PrintLine("wait"))

-----------------------------------------------------------------------------
(* dg_send_recv retransmits and takes only the answer to its request.      *)

RecvAny ==
    /\ pc = "recv" /\ \E r \in net : Take(r) /\ Goto("got")
    /\ UNCHANGED <<prog, line, timing, nsent, history>>

RecvNone ==
    /\ pc = "recv" /\ Drop /\ Goto("recv")
    /\ \E r \in net : net' = net \ {r} /\ answered' = (answered \/ r[1] = line)
    /\ UNCHANGED <<prog, line, timing, nsent, history>>

RecvMatching ==
    /\ pc = "recv" /\ \E r \in net : Take(r) /\ Goto(IF r[1] = line THEN "got" ELSE "recv")
    /\ UNCHANGED <<prog, line, timing, nsent, history>>
Return ==
    /\ pc = "got" /\ timer' = "off" /\ jmpbuf' = "stale" /\ Drop /\ Goto("fgets")
    /\ UNCHANGED <<prog, line, blocked, intr, pipe, nsent, net, answered, history>>
dg_send_recv == Is("dg_send_recv") /\ (Setjmp("recv") \/ RecvMatching \/ Return)

\* udpcksum sets its jump point before it sends, takes any answer the filter
\* lets through, and then clears canjump, which is jmpbuf here.
udp_read ==
    /\ pc = "wait" /\ (\E r \in net : Take(r)) /\ Goto("got")
    /\ UNCHANGED <<prog, line, timing, nsent, history>>
CannotJump ==
    /\ pc = "got" /\ jmpbuf' = "none" /\ Drop /\ Goto("alarmoff")
    /\ UNCHANGED <<prog, line, timer, blocked, intr, pipe, nsent, net, answered, history>>
StopAlarm ==
    /\ pc = "alarmoff" /\ timer' = "off" /\ Goto("fgets")
    /\ UNCHANGED <<prog, line, blocked, intr, jmpbuf, pipe, nsent, net, inhand, answered, history>>
test_udp == Is("udpcksum") /\ (Setjmp("send") \/ udp_read \/ CannotJump \/ StopAlarm)

-----------------------------------------------------------------------------
(* SIGALRM: what the handler of each program does.                         *)

Pending == timer' = "pending" /\ UNCHANGED <<pc, intr, jmpbuf, pipe, inhand, history>>

\* A handler that only returns interrupts recvfrom, or nothing at all.
handler_return ==
    /\ prog \in EINTRs /\ timer' = "off"
    /\ IF pc = "recv" THEN intr' = TRUE /\ UNCHANGED missed
       ELSE missed' = (missed \/ pc \in {"before", "got", "unblock", "block"}) /\ UNCHANGED intr
    /\ UNCHANGED <<pc, jmpbuf, pipe, inhand, wild, late>>
handler_pipe ==
    Is("dgclibcast6") /\ timer' = "off" /\ pipe' = pipe + 1
        /\ UNCHANGED <<pc, intr, jmpbuf, inhand, history>>
\* siglongjmp: out of the wait, or out of whatever else is going on.
handler_jump ==
    /\ prog \in {"dgclibcast5", "dg_send_recv"} /\ timer' = "off"
    /\ IF jmpbuf = "set" THEN pc' = (IF Is("dgclibcast5") THEN "fgets" ELSE "timeout") /\ UNCHANGED wild
       ELSE pc' = "undefined" /\ wild' = TRUE
    /\ late' = (late \/ inhand[1] = line) /\ inhand' = Nothing
    /\ UNCHANGED <<intr, jmpbuf, pipe, missed>>
handler_canjump ==
    /\ Is("udpcksum") /\ timer' = "off"
    /\ IF jmpbuf = "none" THEN UNCHANGED <<pc, late, inhand>>
       ELSE pc' = "timeout" /\ late' = (late \/ pc = "got") /\ inhand' = Nothing
    /\ UNCHANGED <<intr, jmpbuf, pipe, missed, wild>>
handler_none ==
    /\ prog \in {"dgclitimeo", "dgclitimeo1", "dgclitimeo2"} /\ timer' = "off"
    /\ UNCHANGED <<pc, intr, jmpbuf, pipe, inhand, history>>

Expire ==
    /\ timer = "on" /\ pc # "undefined"
    /\ IF blocked THEN Pending
       ELSE handler_return \/ handler_pipe \/ handler_jump \/ handler_canjump \/ handler_none
    /\ UNCHANGED <<prog, line, blocked, nsent, net, answered>>

TimeoutCallsAgain ==
    /\ pc = "timeout" /\ jmpbuf' = "stale"
    /\ Goto(IF nsent > MAXNREXMT THEN "gaveup" ELSE "send")
    /\ UNCHANGED <<prog, line, timer, blocked, intr, pipe, nsent, net, inhand, answered, history>>

\* After the jump: again, or "no response".
Timeout ==
    /\ pc = "timeout"
    /\ Goto(IF nsent > MAXNREXMT THEN "gaveup" ELSE "send")
    /\ UNCHANGED <<prog, line, timing, nsent, net, inhand, answered, history>>

Wait ==
    \/ dgclitimeo \/ dgclitimeo1 \/ dgclitimeo2 \/ dgclitimeo3 \/ dgclibcast1 \/ dgclibcast2 \/ dgclibcast3
    \/ dgclibcast4 \/ dgclibcast5 \/ dgclibcast6 \/ mcast_dgclibcast1 \/ dg_send_recv \/ test_udp
Main == Fgets \/ Sendto \/ SetTimer \/ Wait \/ Timeout

Next == Main \/ Expire
Spec == Init /\ [][Next]_vars /\ WF_vars(Main) /\ WF_vars(Expire)

-----------------------------------------------------------------------------
\* A jump to nowhere happens once at most: on the first request of
\* dgclibcast5, and before the first sigsetjmp of a call of dg_send_recv.
WildOnlyBeforeSetjmp == wild => IF Is("dgclibcast5") THEN line = 1 ELSE nsent = 1

\* No alarm of one request is left to expire in the next one.
NoStaleAlarm == pc \in {"fgets", "end"} => timer = "off" /\ pipe = 0 /\ ~intr

\* dg_send_recv returns the answer to this request, not a late one to an
\* earlier request or a copy of it.
OwnAnswer == Is("dg_send_recv") /\ pc = "got" => inhand[1] = line

\* "no response" is said of a request whose answer has not been read, unless
\* the timer expired between the read of the answer and alarm(0).
GaveUpUnanswered == pc = "gaveup" /\ Is("dg_send_recv") => ~answered \/ late

\* Every wait ends, unless the timer was missed.
WaitOver == pc \in {"end", "gaveup"} \/ missed \/ wild
EveryWaitEnds == <>WaitOver
=============================================================================
