----------------------------- MODULE MCNetwork -----------------------------
(***************************************************************************)
(* Programs that wait for the network with a timer, a signal or select:    *)
(* sock, three pings, icmpd, the UDP clients with timeouts, traceroute     *)
(* and udpping.  One of them runs in a behaviour; their variables share    *)
(* the v's.                                                                *)
(***************************************************************************)
EXTENDS Integers, Sequences

VARIABLE prog  \* the program that runs
VARIABLES v1, v2, v3, v4, v5, v6, v7, v8, v9, v10, v11, v12, v13, v14, v15,
          v16, v17, v18, v19, v20, v21

pool == <<v1, v2, v3, v4, v5, v6, v7, v8, v9, v10, v11, v12, v13, v14, v15,
          v16, v17, v18, v19, v20, v21>>
vars == <<prog, pool>>

\* Sock: command lines, as sets of option letters.
OptionSets ==
    {{}, {"h"}, {"Z"}, {"s"}, {"s", "h", "K"}, {"u"}, {"u", "o"}, {"u", "s"}, {"u", "h"}, {"f"}, {"I"},
     {"u", "s", "f", "H", "g"}, {"i"}, {"i", "W"}, {"i", "s"}, {"i", "s", "Z"}, {"u", "i"}, {"u", "Z"},
     {"u", "i", "s"}, {"j"}, {"s", "F"}, {"D", "N", "K", "H", "g", "x"}, {"z"}, {"s", "g", "x", "R"}}

\* Ping: the options -c, -f, -l and -R, how much is sent and how late it gets;
\* -f comes with -q, and -R with -v.
PingRun(p, c, f, l, r, send, time) ==
    [prog |-> p, c |-> c, f |-> f, l |-> l, R |-> r, q |-> f, v |-> r, send |-> send, time |-> time]
Pings == {PingRun("bsdping", 3, FALSE, 0, FALSE, 3, 0), PingRun("bsdping", 1, FALSE, 2, FALSE, 2, 0),
          PingRun("bsdping", 2, TRUE, 0, FALSE, 2, 0), PingRun("bsdping", 2, FALSE, 0, TRUE, 2, 0),
          PingRun("bsdping", 1, FALSE, 0, FALSE, 1, 3), PingRun("ping_v4", 0, FALSE, 0, FALSE, 2, 2),
          PingRun("ping_v6", 0, FALSE, 0, FALSE, 2, 2)}
\* IP options of replies: a record route and a loose source route after a
\* no-operation, a route alone, another one, a source route, an empty route.
Headers == {<<1, 7, 7, 8, 9, 9, 9, 1, 0>>, <<7, 7, 8, 9, 9, 9, 2, 0>>, <<7, 7, 8, 5, 5, 5, 1, 0>>,
            <<131, 7, 4, 9, 9, 9, 9, 1>>, <<7, 7, 4, 0, 0, 0, 0, 0>>}

\* Icmpd: the UDP sockets of the clients.
Family == <<"v4", "v6", "v4">>
Port == <<1, 1, 2>>

\* UdpTimers: the clients.
Programs == {"dgclitimeo", "dgclitimeo1", "dgclitimeo2", "dgclitimeo3", "dgclibcast1", "dgclibcast2",
             "dgclibcast3", "dgclibcast4", "dgclibcast5", "dgclibcast6", "mcast_dgclibcast1",
             "dg_send_recv", "udpcksum"}

\* UdpPing: the options -c and -t, and a host that is a name.
UdpRun(c, t, n) == [count |-> c, timeout |-> t, named |-> n]
Configs == {UdpRun(0, 1, FALSE), UdpRun(1, 1, FALSE), UdpRun(1, 0, FALSE),
            UdpRun(3, 1, FALSE), UdpRun(2, 1, TRUE)}

So == INSTANCE Sock
    WITH opts <- v1, pc <- v2, conn <- v3, so <- v4, inleft <- v5,
         isset <- v6, stdineof <- v7, flags <- v8, sent <- v9,
         servaddr <- v10, peerq <- v11, peerleft <- v12, peerfin <- v13,
         out <- v14, sigflag <- v15, blocked <- v16, pending <- v17,
         kids <- v18, lostsig <- v19, OptionSets <- OptionSets, NIn <- 2,
         NPeer <- 3, nbuf <- 2, readlen <- 2, writelen <- 4, UIO_MAXIOV <- 3,
         MaxConns <- 3
Pi == INSTANCE Ping
    WITH opt <- v1, now <- v2, ntransmitted <- v3, nreceived <- v4,
         nrepeats <- v5, nrtt <- v6, rcvd_tbl <- v7, net <- v8, sentAt <- v9,
         alarm <- v10, pc <- v11, pkt <- v12, tv <- v13, byte <- v14,
         hdr <- v15, cp <- v16, hlen <- v17, old_rr <- v18, said <- v19,
         route <- v20, handled <- v21, Runs <- Pings, Headers <- Headers,
         SEQ <- 2, USEC <- 2
Ic == INSTANCE Icmpd
    WITH client <- v1, maxi <- v2, allset <- v3, rset <- v4, nready <- v5,
         dpc <- v6, di <- v7, backlog <- v8, cst <- v9, toD <- v10,
         toC <- v11, icmp <- v12, asked <- v13, got <- v14,
         Clients <- {1, 2, 3}, Bad <- {3}, Family <- Family, Port <- Port,
         SETSIZE <- 2
Ut == INSTANCE UdpTimers
    WITH prog <- v1, pc <- v2, line <- v3, timer <- v4, blocked <- v5,
         intr <- v6, jmpbuf <- v7, pipe <- v8, nsent <- v9, net <- v10,
         inhand <- v11, answered <- v12, missed <- v13, wild <- v14,
         late <- v15, Programs <- Programs, NLines <- 2, MAXNREXMT <- 1
Tr == INSTANCE Traceroute
    WITH fam <- v1, D <- v2, pc <- v3, ttl <- v4, probe <- v5, seq <- v6,
         done <- v7, gotalarm <- v8, timer <- v9, intr <- v10, icmp <- v11,
         sarecv <- v12, salast <- v13, ret <- v14, line <- v15,
         reached <- v16, missed <- v17, odd <- v18, strays <- v19,
         Families <- {"v4", "v6"}, Distances <- {2}, max_ttl <- 2,
         nprobes <- 2, Uninitialised <- {-1, 7}, MaxStrays <- 1,
         Others <- {"timxceed"}
Up == INSTANCE UdpPing
    WITH config <- v1, pc <- v2, ping_cnt <- v3, loss_cnt <- v4,
         rtt_vals <- v5, net <- v6, taken <- v7, Configs <- Configs

-----------------------------------------------------------------------------
\* The variables a program does not have keep one value.
Init ==
    \/ prog = "Sock" /\ So!Init /\ v20 = 0 /\ v21 = 0
    \/ prog = "Ping" /\ Pi!Init
    \/ prog = "Icmpd" /\ Ic!Init /\ v15 = 0 /\ v16 = 0 /\ v17 = 0 /\ v18 = 0
       /\ v19 = 0 /\ v20 = 0 /\ v21 = 0
    \/ prog = "UdpTimers" /\ Ut!Init /\ v16 = 0 /\ v17 = 0 /\ v18 = 0 /\ v19
       = 0 /\ v20 = 0 /\ v21 = 0
    \/ prog = "Traceroute" /\ Tr!Init /\ v20 = 0 /\ v21 = 0
    \/ prog = "UdpPing" /\ Up!Init /\ v8 = 0 /\ v9 = 0 /\ v10 = 0 /\ v11 = 0
       /\ v12 = 0 /\ v13 = 0 /\ v14 = 0 /\ v15 = 0 /\ v16 = 0 /\ v17 = 0 /\
       v18 = 0 /\ v19 = 0 /\ v20 = 0 /\ v21 = 0
Next ==
    \/ prog = "Sock" /\ So!Next /\ UNCHANGED <<prog, v20, v21>>
    \/ prog = "Ping" /\ Pi!Next /\ UNCHANGED <<prog>>
    \/ prog = "Icmpd" /\ Ic!Next /\ UNCHANGED <<prog, v15, v16, v17, v18, v19,
       v20, v21>>
    \/ prog = "UdpTimers" /\ Ut!Next /\ UNCHANGED <<prog, v16, v17, v18, v19,
       v20, v21>>
    \/ prog = "Traceroute" /\ Tr!Next /\ UNCHANGED <<prog, v20, v21>>
    \/ prog = "UdpPing" /\ Up!Next /\ UNCHANGED <<prog, v8, v9, v10, v11, v12,
       v13, v14, v15, v16, v17, v18, v19, v20, v21>>

\* The variables the program does not have.
Rest(name) == CASE name \in {"Sock", "Traceroute"} -> UNCHANGED <<prog, v20, v21>>
                [] name = "Ping" -> UNCHANGED <<prog>>
                [] name = "Icmpd" -> UNCHANGED <<prog, v15, v16, v17, v18, v19, v20, v21>>
                [] name = "UdpTimers" -> UNCHANGED <<prog, v16, v17, v18, v19, v20, v21>>
                [] name = "UdpPing" -> UNCHANGED <<prog, v8, v9, v10, v11, v12, v13, v14, v15, v16, v17, v18, v19, v20, v21>>
Runs(name, step) == prog = name /\ step /\ Rest(name)

\* One program runs in a behaviour, so that the processes and threads of all
\* of them are stated together; each line of a conjunct is one of them.
Fairness ==
    /\ WF_vars(\/ Runs("Sock", So!Program) \/ Runs("Ping", Pi!BsdMain) \/ Runs("Icmpd", Ic!Daemon)
               \/ Runs("UdpTimers", Ut!Main) \/ Runs("Traceroute", Tr!Program)
               \/ Runs("UdpPing", Up!Main))
    /\ WF_vars(\/ Runs("Sock", So!Child) \/ Runs("Ping", Pi!onalrm) \/ Runs("Icmpd", Ic!Client(1))
               \/ Runs("UdpTimers", Ut!Expire) \/ Runs("Traceroute", Tr!Receive))
    /\ WF_vars(\/ Runs("Sock", So!Peer) \/ Runs("Ping", Pi!AlarmLast) \/ Runs("Icmpd", Ic!Client(2))
               \/ Runs("Traceroute", Tr!sig_alrm))
    /\ WF_vars(Runs("Ping", Pi!PingMain) \/ Runs("Icmpd", Ic!Client(3)))
    /\ WF_vars(Runs("Ping", Pi!sig_alrm))
Spec == Init /\ [][Next]_vars /\ Fairness

-----------------------------------------------------------------------------
\* The sock program sends and prints what it should.  Sock: every piece goes
\* to the peer, but for those an unconnected UDP socket sends before the first
\* datagram comes, which go to an address nobody has set (loopudp.c:22);
\* what is printed is what the peer sent, in order; a program that ends has
\* read all the peer sent and its end; the data travels on a socket with the
\* options asked for; crlf_strip undoes crlf_add; the iovecs of writev cover
\* the buffer.
SockSafe ==
    prog = "Sock" => /\ So!ToThePeer /\ So!OutIsInput /\ So!NothingMissed
                     /\ So!OptionsAreSet /\ So!CrlfRoundTrip
                     /\ So!ChunksCover

\* The pings count, time and report what came.  Ping: nreceived, nrepeats and
\* the bit table agree with the replies handled; the summary printed at the
\* end is about what was received, but for a reply in progress; ping -c ends
\* by itself when the requests are answered; a round trip time is never
\* negative; the walk over the IP options stays in step with its counter;
\* "same route" is said of the route that was printed.  UdpPing: the packets
\* received and the times agree with the datagrams that came; an answer is
\* counted for its own probe until there is a timeout, a duplicate or a
\* stranger's datagram.
PingSafe ==
    /\ prog = "Ping" => /\ Pi!RepliesCounted /\ Pi!SummaryRight
                        /\ Pi!EndsAnswered /\ Pi!RttRight /\ Pi!WalkInStep
                        /\ Pi!SameRouteIsSame
    /\ prog = "UdpPing" => /\ Up!StatisticsRight /\ Up!OwnProbe

\* ICMP messages reach the program and the probe they are about.  Icmpd: a
\* client reads only errors about its own socket; the daemon selects again
\* when it has handled every descriptor that was ready; every connection that
\* is open has its slot in client[].  Traceroute: a line names the router
\* that many hops away; nothing is probed beyond the line that shows the
\* destination.
IcmpSafe ==
    /\ prog = "Icmpd" => /\ Ic!OwnErrors /\ Ic!RoundComplete
                         /\ Ic!ConnectionsHeld
    /\ prog = "Traceroute" => /\ Tr!HopsAreRight /\ Tr!StopsThere

\* The timer of a wait does no harm outside it.  UdpTimers: no alarm is left
\* for the next line where the code turns it off; an answer that is taken
\* belongs to the request; dg_send_recv gives up only when no answer came in
\* time; a jump to nowhere needs an alarm before the first sigsetjmp.
TimersSafe ==
    prog = "UdpTimers" => /\ Ut!NoStaleAlarm /\ Ut!OwnAnswer
                          /\ Ut!GaveUpUnanswered
                          /\ Ut!WildOnlyBeforeSetjmp


\* What program or client k has begun, and when it is finished.
Begun(k) ==
    CASE prog = "Sock" -> k = 1 /\ So!InWaitChild
      [] prog = "Ping" -> (k = 1 /\ Pi!Limited) \/ (k = 2 /\ ~Pi!Bsd)
      [] prog = "Icmpd" -> Ic!Unanswered(k)
      [] prog = "UdpTimers" -> k = 1 /\ ~Ut!WaitOver
      [] prog = "Traceroute" -> k = 1 /\ ~Tr!TraceOver
      [] prog = "UdpPing" -> k = 1 /\ ~Up!Ended
Finished(k) ==
    CASE prog = "Sock" -> So!BackInAccept
      [] prog = "Ping" -> IF Pi!Bsd THEN Pi!Over ELSE Pi!AllSent
      [] prog = "Icmpd" -> ~Ic!Unanswered(k) \/ ~Ic!Alive
      [] prog = "UdpTimers" -> Ut!WaitOver
      [] prog = "Traceroute" -> Tr!TraceOver
      [] prog = "UdpPing" -> Up!Ended
\* Icmpd: a datagram of client c caused an error.
Asked(c) == prog = "Icmpd" /\ Ic!HasAsked(c)

\* Everything that was begun is finished: the parent of sock -F gets back to
\* accept; ping -c ends and the other ping sends all; the daemon answers
\* client k; a client with a timer prints its lines or gives up; traceroute
\* and udpping end.  The exceptions are the races the modules name.  The error
\* a client's datagram has caused reaches it, unless the client or the daemon
\* ends first.
EverythingEnds == /\ \A k \in 1..3 : Begun(k) ~> Finished(k)
                  /\ \A c \in 1..2 : Asked(c) ~> (prog = "Icmpd" /\ Ic!HasError(c))

\* What the comment of recv_v6 says of every ICMP error that is not about the
\* probe: recvfrom is called again.
OthersSkipped == prog = "Traceroute" => Tr!OthersSkipped
=============================================================================
