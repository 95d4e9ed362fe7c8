------------------------------- MODULE Ping ---------------------------------
(***************************************************************************)
(* The two ping programs of unpv13e/ping: bsdping.c, whose signal handlers *)
(* send the requests and print the statistics while the main loop takes    *)
(* the replies apart, and the simpler program of main.c, readloop.c,       *)
(* send_v4.c, proc_v4.c and their IPv6 twins.  The network loses, delays,  *)
(* duplicates and reorders the answers.  A handler runs between any two    *)
(* steps of the main loop.                                                 *)
(*                                                                         *)
(* Sequence numbers have SEQ values (16 bits in the code, and as many bits *)
(* in rcvd_tbl, taken as one byte of it here); a second has USEC parts.    *)
(***************************************************************************)
EXTENDS Integers, Sequences, FiniteSets, SequencesExt

CONSTANTS Runs,      \* [prog, c, f, l, R, q, v, send, time]: the program, bsdping's
                     \* options, and the bounds on the requests and on the clock
          Headers,   \* the IP options replies come with under -R, as bytes
          SEQ, USEC

VARIABLES opt, now,
          ntransmitted, nreceived, nrepeats,
          nrtt,      \* round trip times in tsum
          rcvd_tbl,  \* the bits that are set
          net,       \* replies on their way: <<request, copy>>
          sentAt,    \* when each request was sent
          alarm,     \* what SIGALRM does: "none", "onalrm", "onint"
          pc, pkt, tv, byte,
          hdr, cp, hlen, old_rr, said,
          route,     \* history: the last route printed in full
          handled    \* history: the replies pr_pack has counted

counters == <<ntransmitted, nreceived, nrepeats, nrtt, rcvd_tbl>>
walk == <<hdr, cp, hlen, old_rr, said, route>>
vars == <<opt, now, counters, net, sentAt, alarm, pc, pkt, tv, byte, walk, handled>>

None == <<0, 0>>
Foreign == <<-1, 0>>
IPOPT_EOL == 0
IPOPT_NOP == 1
IPOPT_RR == 7
IPOPT_LSRR == 131
IPOPT_MINOFF == 4

Bsd == opt.prog = "bsdping"
Distinct == {r[1] : r \in handled}
Wrapped == ntransmitted > SEQ

-----------------------------------------------------------------------------
(* Times are <<seconds, parts>>.                                           *)

Tv(t) == <<t \div USEC, t % USEC>>
TvsubWithoutBorrow(out, in) == <<out[1] - in[1], out[2] - in[2]>>

tvsub(out, in) ==
    LET u == out[2] - in[2]
    IN  IF u < 0 THEN <<out[1] - 1 - in[1], u + USEC>> ELSE <<out[1] - in[1], u>>
tv_sub(out, in) == tvsub(out, in)

-----------------------------------------------------------------------------
Init ==
    /\ opt \in Runs
    /\ now = 0 /\ ntransmitted = 0 /\ nreceived = 0 /\ nrepeats = 0 /\ nrtt = 0
    /\ rcvd_tbl = {} /\ net = {Foreign} /\ sentAt = <<>> /\ alarm = "none"
    /\ pc = "preload" /\ pkt = None /\ tv = <<0, 0>> /\ byte = {}
    /\ hdr = <<>> /\ cp = 1 /\ hlen = 0 /\ old_rr = <<>> /\ said = <<>> /\ route = <<>>
    /\ handled = {}

Tick ==
    /\ now < opt.time /\ pc \notin {"exited", "ended"} /\ now' = now + 1
    /\ UNCHANGED <<opt, counters, net, sentAt, alarm, pc, pkt, tv, byte, walk, handled>>

\* One request: its answers will be none, one, or one and a duplicate of it.
Sendto ==
    /\ ntransmitted < opt.send
    /\ ntransmitted' = ntransmitted + 1
    /\ sentAt' = Append(sentAt, now)
    /\ \E k \in 0..2 : net' = net \cup {<<ntransmitted, i>> : i \in 1..k}

pinger ==
    /\ Sendto
    /\ rcvd_tbl' = rcvd_tbl \ {ntransmitted % SEQ}
    /\ UNCHANGED <<nreceived, nrepeats, nrtt>>

Preload ==
    /\ Bsd /\ pc = "preload"
    /\ IF ntransmitted < opt.l THEN pinger /\ UNCHANGED <<pc, alarm>>
       ELSE /\ alarm' = IF opt.f THEN "none" ELSE "onalrm"
            /\ pc' = "loop" /\ UNCHANGED <<counters, net, sentAt>>
    /\ UNCHANGED <<opt, now, pkt, tv, byte, walk, handled>>

Running == pc \notin {"preload", "exited", "ended"}

SummaryUnguarded ==
    [sent |-> ntransmitted, received |-> nreceived,
     loss |-> IF ntransmitted = 0 THEN 0
              ELSE ((ntransmitted - nreceived) * 100) \div ntransmitted]

\* summary: what oninfo, onint and the end of main print; oninfo goes on.
summary ==
    [sent |-> ntransmitted, received |-> nreceived,
     loss |-> IF ntransmitted = 0 \/ nreceived > ntransmitted THEN 0
              ELSE ((ntransmitted - nreceived) * 100) \div ntransmitted]

onalrm ==
    /\ Bsd /\ Running /\ alarm = "onalrm"
    /\ IF opt.c = 0 \/ ntransmitted < opt.c THEN pinger /\ UNCHANGED alarm
       ELSE alarm' = "onint" /\ UNCHANGED <<counters, net, sentAt>>
    /\ UNCHANGED <<opt, now, pc, pkt, tv, byte, walk, handled>>

onint ==
    /\ Bsd /\ Running /\ pc' = "exited"
    /\ UNCHANGED <<opt, now, counters, net, sentAt, alarm, pkt, tv, byte, walk, handled>>
AlarmLast == alarm = "onint" /\ onint

\* The main loop; under -f it sends before it looks.
FloodSend ==
    /\ Bsd /\ opt.f /\ pc = "loop" /\ pinger /\ pc' = "select"
    /\ UNCHANGED <<opt, now, alarm, pkt, tv, byte, walk, handled>>
SelectTimeout ==
    /\ Bsd /\ pc = "select" /\ pc' = "loop"
    /\ UNCHANGED <<opt, now, counters, net, sentAt, alarm, pkt, tv, byte, walk, handled>>

\* recvfrom and the first part of pr_pack: what is not an answer to us is left
\* at that, or printed if it is no answer at all and -v is on.
Recvfrom(r) ==
    /\ Bsd /\ pc = (IF opt.f THEN "select" ELSE "loop") /\ r \in net
    /\ net' = net \ {r} /\ tv' = Tv(now)
    /\ IF r = Foreign
       THEN /\ (pc' = "loop" /\ UNCHANGED pkt) \/ (opt.v /\ pc' = "print" /\ pkt' = r)
            /\ UNCHANGED <<nreceived, handled>>
       ELSE /\ nreceived' = nreceived + 1 /\ handled' = handled \cup {r}
            /\ pkt' = r /\ pc' = "counted"
    /\ UNCHANGED <<opt, now, ntransmitted, nrepeats, nrtt, rcvd_tbl, sentAt, alarm, byte, walk>>

RepeatNotTimed ==
    /\ Bsd /\ pc = "counted" /\ tv' = tvsub(tv, Tv(sentAt[pkt[1] + 1]))
    /\ IF pkt[1] % SEQ \in rcvd_tbl
       THEN nrepeats' = nrepeats + 1 /\ nreceived' = nreceived - 1 /\ pc' = "print" /\ UNCHANGED <<byte, nrtt>>
       ELSE nrtt' = nrtt + 1 /\ byte' = rcvd_tbl /\ pc' = "set" /\ UNCHANGED <<nrepeats, nreceived>>
    /\ UNCHANGED <<opt, now, ntransmitted, rcvd_tbl, net, sentAt, alarm, pkt, walk, handled>>

\* The time, and the duplicate test: for a duplicate the count is taken back.
PackTimeAndTest ==
    /\ Bsd /\ pc = "counted" /\ nrtt' = nrtt + 1 /\ tv' = tvsub(tv, Tv(sentAt[pkt[1] + 1]))
    /\ IF pkt[1] % SEQ \in rcvd_tbl
       THEN nrepeats' = nrepeats + 1 /\ nreceived' = nreceived - 1 /\ pc' = "print" /\ UNCHANGED byte
       ELSE byte' = rcvd_tbl /\ pc' = "set" /\ UNCHANGED <<nrepeats, nreceived>>
    /\ UNCHANGED <<opt, now, ntransmitted, rcvd_tbl, net, sentAt, alarm, pkt, walk, handled>>

\* SET: the byte is read, changed and stored, and a handler may come between.
PackSet ==
    /\ Bsd /\ pc = "set" /\ rcvd_tbl' = byte \cup {pkt[1] % SEQ} /\ byte' = {} /\ pc' = "print"
    /\ UNCHANGED <<opt, now, ntransmitted, nreceived, nrepeats, nrtt, net, sentAt, alarm, pkt, tv,
                   walk, handled>>

\* -q prints nothing; else the line of the packet, and its IP options.
PackPrint ==
    /\ Bsd /\ pc = "print" /\ said' = <<>>
    /\ IF opt.R /\ (~opt.q \/ pkt = Foreign) THEN \E h \in Headers : hdr' = h /\ cp' = 1 /\ hlen' = Len(h) /\ pc' = "options"
       ELSE pc' = "packed" /\ UNCHANGED <<hdr, cp, hlen>>
    /\ UNCHANGED <<opt, now, counters, net, sentAt, alarm, pkt, tv, byte, old_rr, route, handled>>

-----------------------------------------------------------------------------
(* The IP options; hlen counts what is left after the fixed header, cp is  *)
(* the byte looked at.                                                     *)

Address(c) == SubSeq(hdr, c + 1, c + 4)
Addresses(c, n) == [k \in 1..n |-> Address(c + 4 * (k - 1))]
Ceil4(i) == (i + 3) \div 4

Walk(c, h, s) == cp' = c + 1 /\ hlen' = h - 1 /\ said' = said \o s

OptionEOL == hdr[cp] = IPOPT_EOL /\ Walk(cp, 1, <<>>) /\ UNCHANGED <<old_rr, route>>
LsrrUncounted ==
    /\ hdr[cp] = IPOPT_LSRR
    /\ LET j == hdr[cp + 1]
           n == IF j > IPOPT_MINOFF THEN (j - IPOPT_MINOFF + 3) \div 4 ELSE 0
       IN  Walk(cp + 2 + 4 * n, hlen - 2, <<[lsrr |-> Addresses(cp + 2, n)]>>)
    /\ UNCHANGED <<old_rr, route>>

OptionLSRR ==
    /\ hdr[cp] = IPOPT_LSRR
    /\ LET j == hdr[cp + 1]
           n == IF j > IPOPT_MINOFF THEN (j - IPOPT_MINOFF + 3) \div 4 ELSE 0
       IN  Walk(cp + 2 + 4 * n, hlen - 2 - 4 * n, <<[lsrr |-> Addresses(cp + 2, n)]>>)
    /\ UNCHANGED <<old_rr, route>>
RouteByLength ==
    /\ hdr[cp] = IPOPT_RR
    /\ LET j == hdr[cp + 1]
           ptr == hdr[cp + 2]
           i == (IF ptr > j THEN j ELSE ptr) - IPOPT_MINOFF
           c == cp + 2
           n == Ceil4(i)
           same == i = Len(old_rr) /\ ~opt.f
       IN  IF i <= 0 THEN Walk(c, hlen - 2, <<>>) /\ UNCHANGED <<old_rr, route>>
           ELSE /\ Walk(c + 4 * n, hlen - 2 - 4 * n,
                        IF same THEN <<[same |-> Addresses(c, n)]>> ELSE <<[rr |-> Addresses(c, n)]>>)
                /\ old_rr' = IF same THEN old_rr ELSE SubSeq(hdr, c, c + i - 1)
                /\ route' = IF same THEN route ELSE Addresses(c, n)

OptionRR ==
    /\ hdr[cp] = IPOPT_RR
    /\ LET j == hdr[cp + 1]
           ptr == hdr[cp + 2]
           i == (IF ptr > j THEN j ELSE ptr) - IPOPT_MINOFF
           c == cp + 2
           n == Ceil4(i)
           same == i = Len(old_rr) /\ c = 3 /\ SubSeq(hdr, c, c + i - 1) = old_rr /\ ~opt.f
       IN  IF i <= 0 THEN Walk(c, hlen - 2, <<>>) /\ UNCHANGED <<old_rr, route>>
           ELSE /\ Walk(c + 4 * n, hlen - 2 - 4 * n,
                        IF same THEN <<[same |-> Addresses(c, n)]>> ELSE <<[rr |-> Addresses(c, n)]>>)
                /\ old_rr' = IF same THEN old_rr ELSE SubSeq(hdr, c, c + i - 1)
                /\ route' = IF same THEN route ELSE Addresses(c, n)
OptionOther ==
    hdr[cp] \notin {IPOPT_EOL, IPOPT_RR, IPOPT_LSRR} /\ Walk(cp, hlen, <<>>) /\ UNCHANGED <<old_rr, route>>

Option ==
    /\ Bsd /\ pc = "options"
    /\ IF hlen > 0 THEN (OptionEOL \/ OptionLSRR \/ OptionRR \/ OptionOther) /\ UNCHANGED pc
       ELSE pc' = "packed" /\ UNCHANGED <<cp, hlen, said, old_rr, route>>
    /\ UNCHANGED <<opt, now, counters, net, sentAt, alarm, pkt, tv, byte, hdr, handled>>

PackedWithRepeats ==
    /\ Bsd /\ pc = "packed"
    /\ IF opt.c > 0 /\ nreceived + nrepeats >= opt.c THEN pc' = "ended"
       ELSE pc' = "loop"
    /\ pkt' = None /\ tv' = <<0, 0>> /\ hdr' = <<>> /\ cp' = 1 /\ hlen' = 0 /\ said' = <<>>
    /\ UNCHANGED <<opt, now, counters, net, sentAt, alarm, byte, old_rr, route, handled>>

Packed ==
    /\ Bsd /\ pc = "packed"
    /\ IF opt.c > 0 /\ nreceived >= opt.c THEN pc' = "ended"
       ELSE pc' = "loop"
    /\ pkt' = None /\ tv' = <<0, 0>> /\ hdr' = <<>> /\ cp' = 1 /\ hlen' = 0 /\ said' = <<>>
    /\ UNCHANGED <<opt, now, counters, net, sentAt, alarm, byte, old_rr, route, handled>>

-----------------------------------------------------------------------------
(* The other program: sig_alrm sends and sets the next alarm.              *)

send_v4 == opt.prog = "ping_v4" /\ Sendto
send_v6 == opt.prog = "ping_v6" /\ Sendto
sig_alrm ==
    /\ ~Bsd /\ pc # "preload"
    /\ (send_v4 \/ send_v6)
    /\ UNCHANGED <<opt, now, nreceived, nrepeats, nrtt, rcvd_tbl, alarm, pc, pkt, tv, byte, walk,
                   handled>>
readloop ==
    /\ ~Bsd /\ pc = "preload" /\ (send_v4 \/ send_v6)
    /\ pc' = "loop"
    /\ UNCHANGED <<opt, now, nreceived, nrepeats, nrtt, rcvd_tbl, alarm, pkt, tv, byte, walk,
                   handled>>
Recvmsg(r) ==
    /\ ~Bsd /\ pc = "loop" /\ r \in net /\ net' = net \ {r} /\ pkt' = r /\ pc' = "time"
    /\ UNCHANGED <<opt, now, counters, sentAt, alarm, tv, byte, walk, handled>>
Gettimeofday ==
    /\ ~Bsd /\ pc = "time" /\ tv' = Tv(now) /\ pc' = "proc"
    /\ UNCHANGED <<opt, now, counters, net, sentAt, alarm, pkt, byte, walk, handled>>
Process ==
    /\ IF pkt = Foreign THEN tv' = <<0, 0>> /\ pc' = "loop" /\ UNCHANGED handled
       ELSE tv' = tv_sub(tv, Tv(sentAt[pkt[1] + 1])) /\ handled' = handled \cup {pkt} /\ pc' = "packed"
    /\ UNCHANGED <<opt, now, counters, net, sentAt, alarm, pkt, byte, walk>>
proc_v4 == opt.prog = "ping_v4" /\ pc = "proc" /\ Process
proc_v6 == opt.prog = "ping_v6" /\ pc = "proc" /\ Process
ReadAgain ==
    /\ ~Bsd /\ pc = "packed" /\ pkt' = None /\ tv' = <<0, 0>> /\ pc' = "loop"
    /\ UNCHANGED <<opt, now, counters, net, sentAt, alarm, byte, walk, handled>>

-----------------------------------------------------------------------------
BsdMain ==
    \/ Preload \/ FloodSend \/ SelectTimeout \/ (\E r \in net : Recvfrom(r)) \/ PackTimeAndTest \/ PackSet
    \/ PackPrint \/ Option \/ Packed
PingMain == readloop \/ (\E r \in net : Recvmsg(r)) \/ Gettimeofday \/ proc_v4 \/ proc_v6 \/ ReadAgain

Next == Tick \/ BsdMain \/ onalrm \/ onint \/ AlarmLast \/ PingMain \/ sig_alrm

Spec == Init /\ [][Next]_vars /\ WF_vars(BsdMain) /\ WF_vars(onalrm) /\ WF_vars(AlarmLast)
        /\ WF_vars(PingMain) /\ WF_vars(sig_alrm)

-----------------------------------------------------------------------------
\* Between two replies every reply has been counted once, as received or as
\* a repeat, and has put its time into the sum; until the sequence numbers
\* wrap, received are the different requests answered.  (After the wrap a
\* handler that clears a bit while the main loop stores the byte is undone,
\* and the next answer counts as a repeat.)
RepliesCounted ==
    Bsd /\ pc = "loop" =>
        /\ nreceived + nrepeats = Cardinality(handled) /\ nrtt = nreceived + nrepeats
        /\ ~Wrapped => nreceived = Cardinality(Distinct)

\* The statistics, whenever a handler prints them, never show more answers
\* than there were, but for a handler that comes while a repeat is counted
\* and not yet taken back: one more.
SummaryRight ==
    Bsd /\ Running /\ ~Wrapped =>
        /\ summary.received - Cardinality(Distinct) =
              IF pc = "counted" /\ pkt[1] % SEQ \in rcvd_tbl THEN 1 ELSE 0
        /\ summary.loss \in 0..100

\* ping -c ends by itself only when that many requests have been answered.
EndsAnswered ==
    Bsd /\ pc = "ended" /\ ~Wrapped => Cardinality(Distinct) >= opt.c

\* The round trip time printed is the time from this request to its answer,
\* the borrow of the microseconds included.
RttRight ==
    pc \in {"set", "print", "options", "packed"} /\ pkt # Foreign =>
        /\ tv[1] >= 0 /\ tv[2] \in 0..USEC - 1
        /\ tv[1] * USEC + tv[2] <= now - sentAt[pkt[1] + 1]

\* The walk over the options never leaves the header: the bytes counted down
\* are the bytes passed, whichever way an option is printed.
WalkInStep ==
    pc = "options" => hlen = 0 \/ cp + hlen = Len(hdr) + 1

\* "(same route)" is said of the route printed before.  The comparison starts
\* at the pointer byte, so that the last byte of the last address, two for a
\* full option, is not in it.
SameRouteIsSame ==
    \A k \in DOMAIN said : "same" \in DOMAIN said[k] =>
        LET bytes == FlattenSeq(said[k].same)
            before == FlattenSeq(route)
        IN  /\ Len(bytes) = Len(before)
            /\ SubSeq(bytes, 1, Len(bytes) - 2) = SubSeq(before, 1, Len(bytes) - 2)

\* ping -c without -f ends, even if every answer is lost; the other program
\* keeps sending, whatever it receives in between.
Limited == Bsd /\ opt.c > 0 /\ ~opt.f
Over == pc \in {"exited", "ended"}
CountEnds == Limited ~> Over
AllSent == ntransmitted = opt.send
KeepsSending == ~Bsd ~> AllSent
=============================================================================
