----------------------------- MODULE Traceroute -----------------------------
(***************************************************************************)
(* unpv13e/traceroute: probes of growing ttl, and the ICMP messages that   *)
(* answer them.  The probe of number seq goes to port dport + seq, and an  *)
(* error quotes the ports of the datagram that caused it.  Answers may be  *)
(* lost, or come after the three seconds the program waits, while it waits *)
(* for another probe's; the raw socket also receives every other ICMP      *)
(* message that comes to the host.                                         *)
(***************************************************************************)
EXTENDS Integers, Sequences, FiniteSets

CONSTANTS Families,   \* the protocols traced with: "v4", "v6"
          Distances,  \* how many hops away the destination can be
          max_ttl, nprobes,
          Uninitialised,  \* what the stack may hold where ret is
          MaxStrays,  \* bound: messages that answer no probe, and their types:
          Others      \* ICMP "unreach", "timxceed", or "echo", as are the ones too short

VARIABLES fam, D,     \* the protocol, and the distance of the destination
          pc, ttl, probe, seq, done,
          gotalarm, timer, intr,
          icmp,       \* messages in the network and in the socket's queue
          sarecv, salast, ret,
          line,       \* what the line of this ttl says so far
          reached,    \* history: the line that first showed the destination
          missed,     \* history: the alarm came between the test of gotalarm and recvfrom
          odd,        \* history: recv_v6 returned without having set ret
          strays      \* messages for somebody else so far

history == <<missed, odd, strays>>
vars == <<fam, D, pc, ttl, probe, seq, done, gotalarm, timer, intr, icmp, sarecv, salast, ret, line,
          reached, history>>

None == 0                       \* the zeroed address
Stranger == max_ttl + 1         \* a host that is on no path
Timeout == -3
TimeExceeded == -2
PortUnreach == -1

Msg(type, from, port) == [type |-> type, from |-> from, port |-> port]
Init ==
    /\ fam \in Families /\ D \in Distances
    /\ pc = "hop" /\ ttl = 1 /\ probe = 0 /\ seq = 0 /\ done = 0
    /\ gotalarm = FALSE /\ timer = FALSE /\ intr = FALSE
    /\ icmp = {} /\ sarecv = None /\ salast = None /\ ret = 0
    /\ line = <<>> /\ reached = 0 /\ missed = FALSE /\ odd = FALSE /\ strays = 0

NextTtlAlways ==
    /\ pc = "hop" /\ ttl <= max_ttl
    /\ salast' = None /\ line' = <<>> /\ probe' = 0 /\ pc' = "probe"
    /\ UNCHANGED <<fam, D, ttl, seq, done, gotalarm, timer, intr, icmp, sarecv, ret, reached, history>>

\* One ttl: nprobes probes, unless the destination answered at the last one.
NextTtl ==
    /\ pc = "hop" /\ ttl <= max_ttl /\ done = 0
    /\ salast' = None /\ line' = <<>> /\ probe' = 0 /\ pc' = "probe"
    /\ UNCHANGED <<fam, D, ttl, seq, done, gotalarm, timer, intr, icmp, sarecv, ret, reached, history>>
Finish ==
    /\ pc = "hop" /\ ~(ttl <= max_ttl /\ done = 0) /\ pc' = "end"
    /\ icmp' = {} /\ ret' = 0 /\ line' = <<>>
    /\ UNCHANGED <<fam, D, ttl, probe, seq, done, gotalarm, timer, intr, sarecv, salast, reached, history>>

\* What the network answers to a probe: nothing; the router where the ttl
\* runs out, or the destination; or one of them, that it may not pass.
Answers(t, q) ==
    {{}} \cup
    {{Msg("unreach", IF t < D THEN t ELSE D, q)}} \cup
    {IF t < D THEN {Msg("timxceed", t, q)} ELSE {Msg("port", D, q)}}

Sendto ==
    /\ pc = "probe" /\ probe < nprobes
    /\ seq' = seq + 1
    /\ \E a \in Answers(ttl, seq + 1) : icmp' = icmp \cup a
    /\ gotalarm' = FALSE /\ timer' = TRUE /\ pc' = "test"
    /\ UNCHANGED <<fam, D, ttl, probe, done, intr, sarecv, salast, ret, line, reached, history>>
EndLine ==
    /\ pc = "probe" /\ probe >= nprobes
    /\ line' = <<>> /\ ttl' = ttl + 1 /\ pc' = "hop"
    /\ UNCHANGED <<fam, D, probe, seq, done, gotalarm, timer, intr, icmp, sarecv, salast, ret, reached, history>>

\* A message for somebody else, at any time.
Stray(m) ==
    /\ timer /\ strays < MaxStrays /\ strays' = strays + 1 /\ icmp' = icmp \cup {m}
    /\ UNCHANGED <<fam, D, pc, ttl, probe, seq, done, gotalarm, timer, intr, sarecv, salast, ret, line,
                   reached, missed, odd>>

-----------------------------------------------------------------------------
(* recv_v4 and recv_v6.                                                    *)

TestAlarm ==
    /\ pc = "test" /\ pc' = IF gotalarm THEN "print" ELSE "recv"
    /\ ret' = IF gotalarm THEN Timeout ELSE ret
    /\ UNCHANGED <<fam, D, ttl, probe, seq, done, gotalarm, timer, intr, icmp, sarecv, salast, line, reached,
                   history>>
sig_alrm ==
    /\ timer /\ timer' = FALSE /\ gotalarm' = TRUE
    /\ intr' = (pc = "blocked") /\ missed' = (missed \/ pc = "recv")
    /\ UNCHANGED <<fam, D, pc, ttl, probe, seq, done, icmp, sarecv, salast, ret, line, reached, odd, strays>>
EnterRecv ==
    /\ pc = "recv" /\ pc' = "blocked"
    /\ UNCHANGED <<fam, D, ttl, probe, seq, done, gotalarm, timer, intr, icmp, sarecv, salast, ret, line,
                   reached, history>>
Interrupted ==
    /\ pc = "blocked" /\ intr /\ intr' = FALSE /\ pc' = "test"
    /\ UNCHANGED <<fam, D, ttl, probe, seq, done, gotalarm, timer, icmp, sarecv, salast, ret, line, reached,
                   history>>

Received(m) == pc = "blocked" /\ ~intr /\ m \in icmp /\ icmp' = icmp \ {m} /\ sarecv' = m.from
Break(r) == ret' = r /\ pc' = "alarmoff"
Again == UNCHANGED ret /\ pc' = "test"
RecvAnyExceeded(m) ==
    /\ fam = "v4" /\ Received(m)
    /\ IF m.type = "timxceed" THEN Break(TimeExceeded)
       ELSE IF m.type = "port" /\ m.port = seq THEN Break(PortUnreach)
       ELSE IF m.type = "unreach" /\ m.port = seq THEN Break(0)
       ELSE Again
    /\ UNCHANGED <<fam, D, ttl, probe, seq, done, gotalarm, timer, intr, salast, line, reached, history>>

recv_v4(m) ==
    /\ fam = "v4" /\ Received(m)
    /\ IF m.type = "timxceed" /\ m.port = seq THEN Break(TimeExceeded)
       ELSE IF m.type = "port" /\ m.port = seq THEN Break(PortUnreach)
       ELSE IF m.type = "unreach" /\ m.port = seq THEN Break(0)
       ELSE Again
    /\ UNCHANGED <<fam, D, ttl, probe, seq, done, gotalarm, timer, intr, salast, line, reached, history>>
\* The break of line 53 is not part of the if above it: ret is what it was.
recv_v6(m) ==
    /\ fam = "v6" /\ Received(m)
    /\ IF m.type = "timxceed" THEN
           IF m.port = seq THEN Break(TimeExceeded) /\ UNCHANGED odd
           ELSE odd' = TRUE /\ \E r \in Uninitialised : Break(r)
       ELSE /\ IF m.type = "port" /\ m.port = seq THEN Break(PortUnreach)
               ELSE IF m.type = "unreach" /\ m.port = seq THEN Break(0)
               ELSE Again
            /\ UNCHANGED odd
    /\ UNCHANGED <<fam, D, ttl, probe, seq, done, gotalarm, timer, intr, salast, line, reached, missed, strays>>
AlarmOff ==
    /\ pc = "alarmoff" /\ timer' = FALSE /\ pc' = "print"
    /\ UNCHANGED <<fam, D, ttl, probe, seq, done, gotalarm, intr, icmp, sarecv, salast, ret, line, reached,
                   history>>

\* The address is printed when it is not the one printed last on this line.
PrintLine ==
    /\ pc = "print"
    /\ IF ret = Timeout THEN line' = Append(line, <<"*">>) /\ UNCHANGED <<salast, done>>
       ELSE /\ line' = Append(line, IF sarecv # salast THEN <<"addr", sarecv, ret>> ELSE <<"same", ret>>)
            /\ salast' = sarecv
            /\ done' = IF ret = PortUnreach THEN done + 1 ELSE done
    /\ reached' = IF ret = PortUnreach /\ reached = 0 THEN ttl ELSE reached
    /\ probe' = probe + 1 /\ pc' = "probe"
    /\ UNCHANGED <<fam, D, ttl, seq, gotalarm, timer, intr, icmp, sarecv, ret, history>>

Program == NextTtl \/ Finish \/ Sendto \/ EndLine \/ TestAlarm \/ EnterRecv \/ Interrupted \/ AlarmOff \/ PrintLine
Receive == \E m \in icmp : recv_v4(m) \/ recv_v6(m)
Next ==
    \/ Program \/ Receive \/ sig_alrm
    \/ \E t \in Others : Stray(Msg(t, Stranger, 0))

Spec == Init /\ [][Next]_vars /\ WF_vars(Program) /\ WF_vars(Receive) /\ WF_vars(sig_alrm)

-----------------------------------------------------------------------------
\* Who a reader takes the k-th entry of a line to be from, and its code.
RECURSIVE Who(_, _)
Who(l, k) == IF l[k][1] = "addr" THEN l[k][2] ELSE Who(l, k - 1)
Answered == {k \in 1..Len(line) : line[k] # <<"*">>}
Code(k) == line[k][Len(line[k])]

\* The line of a ttl names the router that many hops away, whatever answers
\* were delayed, and the destination where it was reached.
RightHop(k) ==
    CASE Code(k) = TimeExceeded -> Who(line, k) = ttl /\ ttl < D
      [] Code(k) = PortUnreach -> Who(line, k) = D /\ ttl >= D
      [] OTHER -> Who(line, k) \in 1..ttl
HopsAreRight == ~odd => \A k \in Answered : RightHop(k)

\* What the comment of recv_v6 says of every other ICMP error: it is skipped.
OthersSkipped == \A k \in Answered : Who(line, k) # Stranger

\* Nothing is probed beyond the line that shows the destination, and all the
\* probes of that line are sent.
StopsThere ==
    /\ reached # 0 => IF pc \in {"hop", "end"} THEN ttl = reached + 1 ELSE ttl = reached
    /\ pc = "end" => seq = (ttl - 1) * nprobes

\* The program ends, unless the alarm came just before recvfrom.
TraceOver == pc = "end" \/ missed
TraceEnds == <>TraceOver
=============================================================================
