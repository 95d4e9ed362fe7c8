------------------------------- MODULE UdpPing ------------------------------
(***************************************************************************)
(* src/python/udpping: main sends a datagram, waits for any datagram until *)
(* a timeout, and counts.  All probes carry the same payload, and the      *)
(* network loses, delays, duplicates and reorders, so that an answer may   *)
(* be taken for that of a later probe.                                     *)
(***************************************************************************)
EXTENDS Integers, Sequences, FiniteSets

CONSTANT Configs  \* [count, timeout, named]: -c, -t, and whether the host is a name

VARIABLES config, pc, ping_cnt, loss_cnt,
          rtt_vals,  \* for each time: the probe it is counted for and the one answered
          net,       \* datagrams on their way: <<probe, copy>>, or Foreign
          taken      \* history: the datagrams received

vars == <<config, pc, ping_cnt, loss_cnt, rtt_vals, net, taken>>

Foreign == <<-1, 0>>

\* get_config fills in the options; the socket is made.
Init ==
    /\ config \in Configs /\ pc = "while" /\ ping_cnt = 0 /\ loss_cnt = 0
    /\ rtt_vals = <<>> /\ net = {} /\ taken = {}

\* The datagram and what the network makes of it: no answer, one, or two.
sendto ==
    /\ pc = "while" /\ ping_cnt < config.count /\ pc' = "recvfrom"
    /\ \E k \in 0..2 : net' = net \cup {<<ping_cnt, i>> : i \in 1..k}
    /\ UNCHANGED <<config, ping_cnt, loss_cnt, rtt_vals, taken>>

RecvPeeks(r) ==
    /\ pc = "recvfrom" /\ r \in net /\ taken' = taken \cup {r}
    /\ rtt_vals' = IF r = Foreign \/ config.named THEN rtt_vals
                   ELSE Append(rtt_vals, <<ping_cnt, r[1]>>)
    /\ ping_cnt' = ping_cnt + 1 /\ pc' = "while"
    /\ UNCHANGED <<config, loss_cnt, net>>

\* Any datagram ends the wait; only one from the address the user typed gives
\* a time, and a host name is never the address.
recvfrom(r) ==
    /\ pc = "recvfrom" /\ r \in net /\ net' = net \ {r} /\ taken' = taken \cup {r}
    /\ rtt_vals' = IF r = Foreign \/ config.named THEN rtt_vals
                   ELSE Append(rtt_vals, <<ping_cnt, r[1]>>)
    /\ ping_cnt' = ping_cnt + 1 /\ pc' = "while"
    /\ UNCHANGED <<config, loss_cnt>>

TimeoutUncounted ==
    /\ pc = "recvfrom"
    /\ IF config.timeout = 0 THEN pc' = "exit" /\ UNCHANGED ping_cnt
       ELSE ping_cnt' = ping_cnt + 1 /\ pc' = "while"
    /\ UNCHANGED <<config, rtt_vals, net, taken, loss_cnt>>

\* Nothing came in time; a timeout of 0 makes the socket non-blocking, and
\* the exception is not socket.timeout.
timeout ==
    /\ pc = "recvfrom"
    /\ IF config.timeout = 0 THEN pc' = "exit" /\ UNCHANGED <<ping_cnt, loss_cnt>>
       ELSE loss_cnt' = loss_cnt + 1 /\ ping_cnt' = ping_cnt + 1 /\ pc' = "while"
    /\ UNCHANGED <<config, rtt_vals, net, taken>>

\* The statistics; none of no probes, for loss_cnt / max_cnt divides by zero.
Statistics ==
    /\ pc = "while" /\ ping_cnt >= config.count
    /\ pc' = IF config.count = 0 THEN "exit" ELSE "end"
    /\ UNCHANGED <<config, ping_cnt, loss_cnt, rtt_vals, net, taken>>

\* Somebody else sends to the port.
Stranger ==
    /\ pc = "recvfrom" /\ Foreign \notin net \cup taken /\ net' = net \cup {Foreign}
    /\ UNCHANGED <<config, pc, ping_cnt, loss_cnt, rtt_vals, taken>>

Main == sendto \/ (\E r \in net : recvfrom(r)) \/ timeout \/ Statistics
Next == Main \/ Stranger
Spec == Init /\ [][Next]_vars /\ WF_vars(Main)

-----------------------------------------------------------------------------
\* "packets received" counts every datagram that was received once, and there
\* is a time for each of them that came from the address the user typed.
StatisticsRight ==
    LET received == config.count - loss_cnt
    IN  pc = "end" => /\ received = Cardinality(taken)
                      /\ Len(rtt_vals) = IF config.named THEN 0 ELSE Cardinality(taken \ {Foreign})

\* An answer is counted for another probe than its own only after a timeout,
\* a duplicate or a stranger's datagram.
Extra == \E r \in taken \cup net : r = Foreign \/ r[2] = 2
OwnProbe ==
    \A i \in DOMAIN rtt_vals : rtt_vals[i][1] = rtt_vals[i][2] \/ loss_cnt > 0 \/ Extra

\* main returns or exits, whatever is lost.
Ended == pc \in {"end", "exit"}
Ends == <>Ended
=============================================================================
