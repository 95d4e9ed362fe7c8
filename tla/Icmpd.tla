------------------------------- MODULE Icmpd --------------------------------
(***************************************************************************)
(* unpv13e/icmpd: a daemon that reads ICMP errors from raw sockets and     *)
(* passes each one to the clients that have registered the UDP socket it   *)
(* is about, and its clients (dgcli01.c).  A client connects to a Unix     *)
(* domain socket, passes the descriptor of its UDP socket and waits for an *)
(* answer; it may end at any time.  The daemon works through one select    *)
(* after the other; its descriptors are the listening socket, fd4, fd6 and *)
(* the clients' connections, each named here for what is behind it.        *)
(***************************************************************************)
EXTENDS Integers, Sequences, FiniteSets, SequencesExt

CONSTANTS Clients,    \* natural numbers from 1
          Bad,        \* clients that send a byte without a descriptor
          Family, Port,  \* of each client's UDP socket
          SETSIZE     \* FD_SETSIZE, entries of client[]

VARIABLES client,     \* slot -> [connfd, family, lport]
          maxi, allset, rset, nready, dpc, di,
          backlog,    \* connections not yet accepted
          cst,        \* client -> "new", "wait", "ok", "gone"
          toD,        \* client -> what it has written: <<>>, <<"fd">>, <<"nofd">>
          toC,        \* client -> what the daemon has written to it, and "EOF"
          icmp,       \* family -> ICMP errors received: ports
          asked,      \* client -> has it sent its datagram?
          got         \* client -> what it has read

daemon == <<client, maxi, allset, rset, nready, dpc, di>>
vars == <<daemon, backlog, cst, toD, toC, icmp, asked, got>>

Families == {"v4", "v6"}
Slots == 0..SETSIZE - 1
Listen == 0
Fd4 == -4
Fd6 == -6
FdOf(f) == IF f = "v4" THEN Fd4 ELSE Fd6
Ok == <<"1">>
Refused == <<"0">>
EOF == <<"EOF">>
Alive == dpc # "dead"

Init ==
    /\ client = [i \in Slots |-> [connfd |-> -1, family |-> "", lport |-> 0]] /\ maxi = -1
    /\ allset = {Fd4, Fd6, Listen} /\ rset = {} /\ nready = 0 /\ dpc = "select" /\ di = 0
    /\ backlog = <<>> /\ cst = [c \in Clients |-> "new"]
    /\ toD = [c \in Clients |-> <<>>] /\ toC = [c \in Clients |-> <<>>]
    /\ icmp = [f \in Families |-> <<>>] /\ asked = [c \in Clients |-> FALSE]
    /\ got = [c \in Clients |-> <<>>]

-----------------------------------------------------------------------------
(* The daemon.                                                             *)

Readable ==
    {d \in allset :
        \/ d = Listen /\ backlog # <<>>
        \/ \E f \in Families : d = FdOf(f) /\ icmp[f] # <<>>
        \/ d \in Clients /\ (toD[d] # <<>> \/ cst[d] = "gone")}

Select ==
    /\ dpc = "select" /\ Readable # {}
    /\ rset' = Readable /\ nready' = Cardinality(Readable) /\ dpc' = "listen" /\ di' = 0
    /\ UNCHANGED <<client, maxi, allset, backlog, cst, toD, toC, icmp, asked, got>>

HandledEarly(d, next) ==
    /\ nready' = nready - 1
    /\ dpc' = IF nready' <= 1 THEN "select" ELSE next
    /\ rset' = rset \ {d}

\* Where main goes on with nready decremented: the next test, or select.
Handled(d, next) ==
    /\ nready' = nready - 1
    /\ dpc' = IF nready' <= 0 THEN "select" ELSE next
    /\ rset' = rset \ {d}

MaxIndexKept(i) == maxi

MaxIndex(i) == IF i > maxi THEN i ELSE maxi

readable_listen ==
    /\ dpc = "listen" /\ Listen \in rset
    /\ LET c == Head(backlog)
           free == {i \in Slots : client[i].connfd < 0}
           i == CHOOSE k \in free : \A j \in free : k <= j
       IN  IF free = {}
           THEN toC' = [toC EXCEPT ![c] = Append(@, EOF)] /\ UNCHANGED <<client, maxi, allset>>
           ELSE /\ client' = [client EXCEPT ![i].connfd = c]
                /\ allset' = allset \cup {c} /\ maxi' = MaxIndex(i)
                /\ UNCHANGED toC
    /\ backlog' = Tail(backlog) /\ Handled(Listen, "fd4")
    /\ UNCHANGED <<di, cst, toD, icmp, asked, got>>

ConcernedByPort(f) ==
    {client[i].connfd : i \in {k \in 0..maxi : client[k].connfd >= 0 /\ client[k].lport = Head(icmp[f])}}

ConcernedButLast(f) ==
    {client[i].connfd : i \in {k \in 0..(maxi - 1) : /\ client[k].connfd >= 0 /\ client[k].family = f
                                                    /\ client[k].lport = Head(icmp[f])}}

\* The connections of the clients whose UDP socket the first error is about.
Concerned(f) ==
    {client[i].connfd : i \in {k \in 0..maxi : /\ client[k].connfd >= 0 /\ client[k].family = f
                                              /\ client[k].lport = Head(icmp[f])}}

\* Pass the error on; a write to a client that has ended raises SIGPIPE.
PassOn(f) ==
    LET who == Concerned(f)
    IN  /\ IF \E c \in who : cst[c] = "gone"
           THEN dpc' = "dead" /\ UNCHANGED <<nready, rset, toC>>
           ELSE /\ toC' = [c \in Clients |-> IF c \in who THEN Append(toC[c], <<f, Head(icmp[f])>>) ELSE toC[c]]
                /\ Handled(FdOf(f), IF f = "v4" THEN "fd6" ELSE "conn")
        /\ icmp' = [icmp EXCEPT ![f] = Tail(@)]
        /\ UNCHANGED <<client, maxi, allset, di, backlog, cst, toD, asked, got>>
readable_v4 == dpc = "fd4" /\ Fd4 \in rset /\ PassOn("v4")
readable_v6 == dpc = "fd6" /\ Fd6 \in rset /\ PassOn("v6")

Skip ==
    /\ \/ dpc = "listen" /\ Listen \notin rset /\ dpc' = "fd4" /\ UNCHANGED di
       \/ dpc = "fd4" /\ Fd4 \notin rset /\ dpc' = "fd6" /\ UNCHANGED di
       \/ dpc = "fd6" /\ Fd6 \notin rset /\ dpc' = "conn" /\ UNCHANGED di
       \/ /\ dpc = "conn" /\ di <= maxi /\ client[di].connfd \notin rset
          /\ di' = di + 1 /\ UNCHANGED dpc
       \/ dpc = "conn" /\ di > maxi /\ dpc' = "select" /\ UNCHANGED di
    /\ UNCHANGED <<client, maxi, allset, rset, nready, backlog, cst, toD, toC, icmp, asked, got>>

\* The descriptor, an error, or the end of a client.
readable_conn ==
    /\ dpc = "conn" /\ di <= maxi /\ client[di].connfd \in rset
    /\ LET c == client[di].connfd
           close == /\ client' = [client EXCEPT ![di].connfd = -1] /\ allset' = allset \ {c}
       IN  \/ /\ toD[c] = <<>> /\ cst[c] = "gone" /\ close
              /\ toC' = [toC EXCEPT ![c] = Append(@, EOF)] /\ Handled(c, "conn") /\ UNCHANGED toD
           \/ /\ toD[c] = <<"nofd">> /\ cst[c] # "gone" /\ close
              /\ toC' = [toC EXCEPT ![c] = @ \o <<Refused, EOF>>]
              /\ toD' = [toD EXCEPT ![c] = <<>>] /\ Handled(c, "conn")
           \/ /\ toD[c] = <<"fd">> /\ cst[c] # "gone"
              /\ client' = [client EXCEPT ![di].family = Family[c], ![di].lport = Port[c]]
              /\ toC' = [toC EXCEPT ![c] = Append(@, Ok)]
              /\ toD' = [toD EXCEPT ![c] = <<>>] /\ Handled(c, "conn") /\ UNCHANGED allset
           \/ /\ toD[c] # <<>> /\ cst[c] = "gone" /\ dpc' = "dead" \* SIGPIPE
              /\ UNCHANGED <<client, allset, toC, toD, nready, rset>>
    /\ di' = di + 1
    /\ UNCHANGED <<maxi, backlog, cst, icmp, asked, got>>

-----------------------------------------------------------------------------
(* dgcli01.c.                                                              *)

Connect(c) ==
    /\ cst[c] = "new" /\ Alive /\ cst' = [cst EXCEPT ![c] = "wait"]
    /\ backlog' = Append(backlog, c)
    /\ toD' = [toD EXCEPT ![c] = IF c \in Bad THEN <<"nofd">> ELSE <<"fd">>]
    /\ UNCHANGED <<daemon, toC, icmp, asked, got>>

\* The answer to the registration; anything but "1" and the client quits.
ReadAnswer(c) ==
    /\ cst[c] = "wait" /\ toC[c] # <<>>
    /\ got' = [got EXCEPT ![c] = Append(@, Head(toC[c]))] /\ toC' = [toC EXCEPT ![c] = Tail(@)]
    /\ cst' = [cst EXCEPT ![c] = IF Head(toC[c]) = Ok THEN "ok" ELSE "gone"]
    /\ UNCHANGED <<daemon, backlog, toD, icmp, asked>>

\* A datagram that comes back as an ICMP error.
SendDatagram(c) ==
    /\ cst[c] = "ok" /\ ~asked[c] /\ asked' = [asked EXCEPT ![c] = TRUE]
    /\ icmp' = [icmp EXCEPT ![Family[c]] = Append(@, Port[c])]
    /\ UNCHANGED <<daemon, backlog, cst, toD, toC, got>>
ReadError(c) ==
    /\ cst[c] = "ok" /\ asked[c] /\ toC[c] # <<>>
    /\ got' = [got EXCEPT ![c] = Append(@, Head(toC[c]))] /\ toC' = [toC EXCEPT ![c] = Tail(@)]
    /\ cst' = [cst EXCEPT ![c] = IF Head(toC[c]) = EOF THEN "gone" ELSE @]
    /\ UNCHANGED <<daemon, backlog, toD, icmp, asked>>
ClientEnds(c) ==
    /\ cst[c] = "ok" /\ cst' = [cst EXCEPT ![c] = "gone"]
    /\ UNCHANGED <<daemon, backlog, toD, toC, icmp, asked, got>>

Daemon == Select \/ readable_listen \/ readable_v4 \/ readable_v6 \/ Skip \/ readable_conn
Client(c) == ReadAnswer(c) \/ SendDatagram(c) \/ ReadError(c)

Next == Daemon \/ \E c \in Clients : Connect(c) \/ Client(c) \/ ClientEnds(c)
Spec == Init /\ [][Next]_vars /\ WF_vars(Daemon) /\ \A c \in Clients : WF_vars(Client(c))

-----------------------------------------------------------------------------
\* After the "1" that tells a client it is registered, the daemon sends it
\* the errors of its own UDP socket and no other's.  (Before it, a client in
\* a slot another one has left is sent the errors of that one's port, for
\* accept keeps the slot's family and port; such a client quits.)
OwnErrors ==
    \A c \in Clients :
        LET s == got[c] \o toC[c]
        IN  \A i, j \in DOMAIN s : i < j /\ s[i] = Ok => s[j] \in {<<Family[c], Port[c]>>, EOF}

\* nready counts what is left of the select's descriptors, and a round ends
\* when all of them have been looked at: none is lost to an early continue.
RoundComplete ==
    /\ Alive => nready = Cardinality(rset)
    /\ dpc = "select" => rset = {}
    /\ dpc = "conn" => \A c \in rset : \E i \in di..maxi : client[i].connfd = c

\* A connection is in allset exactly when one slot below maxi holds it.
ConnectionsHeld ==
    /\ \A i, j \in Slots : client[i].connfd = client[j].connfd /\ i # j => client[i].connfd = -1
    /\ {client[i].connfd : i \in 0..maxi} \ {-1} = allset \cap Clients
    /\ \A i \in Slots : i > maxi => client[i].connfd = -1

\* Every client that connects is answered or turned away, while the daemon
\* runs.
Unanswered(c) == cst[c] = "wait"
EveryoneAnswered == \A c \in Clients : Unanswered(c) ~> (~Unanswered(c) \/ ~Alive)

\* The error a client's datagram has caused reaches it, unless it ends first.
HasAsked(c) == asked[c]
HasError(c) == <<Family[c], Port[c]>> \in ToSet(got[c]) \/ cst[c] = "gone" \/ ~Alive
ErrorDelivered == \A c \in Clients : HasAsked(c) ~> HasError(c)
=============================================================================
