---------------------------- MODULE EchoServers ----------------------------
(***************************************************************************)
(* The echo servers that handle several clients: one process with select   *)
(* (tcpservselect01.c), one process with poll (tcpservpoll01.c), one child *)
(* per client (tcpserv01.c to tcpserv04.c, tcpserv08.c, tcpserv09.c), and  *)
(* TCP and UDP together (udpservselect01.c).                               *)
(***************************************************************************)
EXTENDS Integers, Sequences, FiniteSets, Functions

CONSTANTS Servers,   \* the programs to look at
          Clients,   \* numbers, in the order in which the clients connect
          Forked,    \* those that connect to a forking server
          SETSIZE,   \* entries of client[]: FD_SETSIZE, OPEN_MAX - 1
          MaxLines   \* lines each client sends

VARIABLES srv,      \* the program that runs
          pc,       \* where the server is, or why it stopped
          conn,     \* client -> none, queued, open, fin, rst, closed
          unread,   \* client -> lines the server has not read
          sent,     \* client -> lines it sent
          echoed,   \* client -> lines it got back
          backlog,  \* connections waiting for accept
          slot,     \* client[]: a client, or free
          maxi,     \* highest index in use
          revents,  \* rset, or the revents fields: indexes taken for ready
          nready,   \* what select or poll returned, counted down
          i,        \* loop index
          lis,      \* the listening socket was ready
          kids,     \* children: client -> none, running, zombie, reaped
          chld,     \* a SIGCHLD is pending
          udp       \* datagrams waiting, and how many were echoed

vars == <<srv, pc, conn, unread, sent, echoed, backlog, slot, maxi, revents, nready, i, lis,
          kids, chld, udp>>

Free == 0
Slots == 1..SETSIZE
Waitpid == {"serv04", "serv08", "serv09", "udpselect"}
Forking == {"serv01", "serv02", "serv03"} \cup Waitpid
clientvars == <<conn, unread, sent, echoed, backlog>>
loopvars == <<slot, maxi, revents, nready, i, lis>>
forkvars == <<kids, chld, udp>>

Init ==
    /\ srv \in Servers
    /\ pc = "wait"
    /\ conn = [c \in Clients |-> "none"]
    /\ unread = [c \in Clients |-> 0] /\ sent = unread /\ echoed = unread
    /\ backlog = <<>>
    /\ slot = [s \in Slots |-> Free]
    /\ maxi = 0
    /\ revents \in (IF srv = "poll01" THEN SUBSET Slots ELSE {{}})  \* poll: never initialised
    /\ nready = 0 /\ i = 1 /\ lis = FALSE
    /\ kids = [c \in Clients |-> "none"] /\ chld = FALSE
    /\ udp = [waiting |-> 0, echoed |-> 0]

Up == pc \notin {"too many", "read error", "accept error"}

-----------------------------------------------------------------------------
(* The clients.                                                            *)

Connect(c) ==
    /\ Up /\ conn[c] = "none" /\ (srv \in Forking => c \in Forked)
    /\ \A d \in Clients : d < c => conn[d] # "none"
    /\ conn' = [conn EXCEPT ![c] = "queued"] /\ backlog' = Append(backlog, c)
    /\ UNCHANGED <<srv, pc, unread, sent, echoed, loopvars, forkvars>>

SendLine(c) ==
    /\ Up /\ conn[c] \in {"queued", "open"} /\ sent[c] < MaxLines
    /\ sent' = [sent EXCEPT ![c] = @ + 1] /\ unread' = [unread EXCEPT ![c] = @ + 1]
    /\ UNCHANGED <<srv, pc, conn, echoed, backlog, loopvars, forkvars>>

CloseClient(c) ==
    /\ Up /\ conn[c] = "open"
    /\ conn' = [conn EXCEPT ![c] = "fin"]
    /\ UNCHANGED <<srv, pc, unread, sent, echoed, backlog, loopvars, forkvars>>

\* A reset (SO_LINGER 0): what was not read is lost, and a connection that
\* was still queued may be taken off the queue.
ResetClient(c) ==
    /\ Up /\ conn[c] \in {"queued", "open"}
    /\ unread' = [unread EXCEPT ![c] = 0]
    /\ \/ conn' = [conn EXCEPT ![c] = "rst"] /\ UNCHANGED backlog
       \/ /\ conn[c] = "queued"
          /\ conn' = [conn EXCEPT ![c] = "closed"]
          /\ backlog' = SelectSeq(backlog, LAMBDA d : d # c)
    /\ UNCHANGED <<srv, pc, sent, echoed, loopvars, forkvars>>

SendUdp ==
    /\ srv = "udpselect" /\ udp.waiting + udp.echoed < MaxLines
    /\ udp' = [udp EXCEPT !.waiting = @ + 1]
    /\ UNCHANGED <<srv, pc, clientvars, loopvars, kids, chld>>

-----------------------------------------------------------------------------
(* tcpservselect01.c, tcpservpoll01.c                                      *)

Readable(s) == slot[s] # Free /\ (unread[slot[s]] > 0 \/ conn[slot[s]] \in {"fin", "rst"})

\* Select: rset is computed anew.  Poll: only the entries up to maxi are.
Wait ==
    LET ready == {s \in Slots : Readable(s)}
        l == backlog # <<>>
    IN /\ srv \notin Forking /\ pc = "wait" /\ (l \/ ready # {})
       /\ lis' = l
       /\ nready' = Cardinality(ready) + (IF l THEN 1 ELSE 0)
       /\ revents' = IF srv = "poll01" THEN ready \cup {s \in revents : s > maxi} ELSE ready
       /\ pc' = IF l THEN "accept" ELSE "loop"
       /\ i' = 1
       /\ UNCHANGED <<srv, clientvars, slot, maxi, forkvars>>

\* The next turn of for ( ; ; ).  Only the revents poll will not set still matter.
BackToWait ==
    /\ pc' = "wait" /\ i' = 1 /\ nready' = 0
    /\ revents' = IF srv = "poll01" THEN {s \in revents : s > maxi'} ELSE {}

MaxIndexKept(s) == maxi

\* if (i > maxi) maxi = i.
MaxIndex(s) == IF s > maxi THEN s ELSE maxi

\* Accept waits for a connection if the one select saw is gone.  The first
\* free entry takes it.  select looks at the new descriptor only next time;
\* poll looks at the revents the entry happens to have.
AcceptSlot ==
    LET free == {s \in Slots : slot[s] = Free}
        s == CHOOSE x \in free : \A y \in free : x <= y
        c == Head(backlog)
    IN /\ srv \notin Forking /\ pc = "accept" /\ backlog # <<>>
       /\ backlog' = Tail(backlog)
       /\ conn' = [conn EXCEPT ![c] = IF @ = "queued" THEN "open" ELSE @]
       /\ lis' = FALSE
       /\ IF free = {} THEN pc' = "too many" /\ UNCHANGED <<slot, maxi, nready, i, revents>>
          ELSE /\ slot' = [slot EXCEPT ![s] = c]
               /\ maxi' = MaxIndex(s)
               /\ IF nready - 1 <= 0 THEN BackToWait
                  ELSE pc' = "loop" /\ nready' = nready - 1 /\ UNCHANGED <<i, revents>>
       /\ UNCHANGED <<srv, unread, sent, echoed, forkvars>>

NextSlotEarly(n) ==
    IF n <= 1 \/ i + 1 > maxi THEN BackToWait
    ELSE pc' = "loop" /\ i' = i + 1 /\ nready' = n /\ UNCHANGED revents

NextSlot(n) ==
    IF n <= 0 \/ i + 1 > maxi THEN BackToWait
    ELSE pc' = "loop" /\ i' = i + 1 /\ nready' = n /\ UNCHANGED revents

\* for (i = 0; i <= maxi; i++): an entry that is free or not ready.
SkipSlot ==
    /\ pc = "loop" /\ (slot[i] = Free \/ i \notin revents)
    /\ UNCHANGED maxi
    /\ NextSlot(nready)
    /\ UNCHANGED <<srv, clientvars, slot, lis, forkvars>>

\* Read and Writen; read of an entry that is not readable blocks (poll01 with
\* a leftover revents).
ServeSlot ==
    LET c == slot[i]
    IN /\ pc = "loop" /\ c # Free /\ i \in revents /\ Readable(i)
       /\ UNCHANGED maxi
       /\ CASE conn[c] = "rst" /\ srv = "select01" ->
                 pc' = "read error" /\ UNCHANGED <<conn, unread, echoed, slot, nready, i, revents>>
            [] conn[c] = "rst" /\ srv = "poll01" ->
                 /\ conn' = [conn EXCEPT ![c] = "closed"] /\ slot' = [slot EXCEPT ![i] = Free]
                 /\ NextSlot(nready - 1) /\ UNCHANGED <<unread, echoed>>
            [] unread[c] > 0 ->
                 /\ unread' = [unread EXCEPT ![c] = 0]
                 /\ echoed' = [echoed EXCEPT ![c] = @ + unread[c]]
                 /\ NextSlot(nready - 1) /\ UNCHANGED <<conn, slot>>
            [] OTHER ->
                 /\ conn' = [conn EXCEPT ![c] = "closed"] /\ slot' = [slot EXCEPT ![i] = Free]
                 /\ NextSlot(nready - 1) /\ UNCHANGED <<unread, echoed>>
       /\ UNCHANGED <<srv, sent, backlog, lis, forkvars>>

-----------------------------------------------------------------------------
(* tcpserv01.c to tcpserv04.c, udpservselect01.c                           *)

AcceptFork ==
    LET c == Head(backlog)
    IN /\ srv \in Forking /\ pc = "wait" /\ backlog # <<>>
       /\ backlog' = Tail(backlog)
       /\ conn' = [conn EXCEPT ![c] = IF @ = "queued" THEN "open" ELSE @]
       /\ kids' = [kids EXCEPT ![c] = "running"]
       /\ UNCHANGED <<srv, pc, unread, sent, echoed, loopvars, chld, udp>>

\* str_echo in the child, then exit(0); a reset makes Readline exit too.
ChildEcho(c) ==
    /\ kids[c] = "running" /\ (unread[c] > 0 \/ conn[c] \in {"fin", "rst"})
    /\ IF unread[c] > 0
       THEN /\ unread' = [unread EXCEPT ![c] = @ - 1] /\ echoed' = [echoed EXCEPT ![c] = @ + 1]
            /\ UNCHANGED <<conn, kids, chld>>
       ELSE /\ conn' = [conn EXCEPT ![c] = "closed"]
            /\ kids' = [kids EXCEPT ![c] = "zombie"] /\ chld' = TRUE
            /\ UNCHANGED <<unread, echoed>>
    /\ UNCHANGED <<srv, pc, sent, backlog, loopvars, udp>>

SigChldAgain ==
    /\ Up /\ srv \in {"serv02", "serv03"} /\ chld
    /\ \E c \in Clients : kids[c] = "zombie" /\ kids' = [kids EXCEPT ![c] = "reaped"]
    /\ pc' \in (IF srv = "serv02" THEN {pc, "accept error"} ELSE {pc})
    /\ UNCHANGED <<srv, clientvars, loopvars, chld, udp>>

\* sig_chld of sigchldwait.c: one wait.
SigChldWait ==
    /\ Up /\ srv \in {"serv02", "serv03"} /\ chld
    /\ chld' = FALSE
    /\ \E c \in Clients : kids[c] = "zombie" /\ kids' = [kids EXCEPT ![c] = "reaped"]
    /\ pc' \in (IF srv = "serv02" THEN {pc, "accept error"} ELSE {pc})
    /\ UNCHANGED <<srv, clientvars, loopvars, udp>>

WaitpidOnce ==
    /\ Up /\ srv \in Waitpid /\ chld
    /\ chld' = FALSE
    /\ \E c \in Clients : kids[c] = "zombie" /\ kids' = [kids EXCEPT ![c] = "reaped"]
    /\ UNCHANGED <<srv, pc, clientvars, loopvars, udp>>

\* sig_chld of sigchldwaitpid.c: waitpid until there is none left.
SigChldWaitpid ==
    /\ Up /\ srv \in Waitpid /\ chld
    /\ chld' = FALSE
    /\ kids' = [c \in Clients |-> IF kids[c] = "zombie" THEN "reaped" ELSE kids[c]]
    /\ UNCHANGED <<srv, pc, clientvars, loopvars, udp>>

\* The UDP half of udpservselect01.c: Recvfrom, Sendto.
EchoUdp ==
    /\ srv = "udpselect" /\ pc = "wait" /\ udp.waiting > 0
    /\ udp' = [waiting |-> udp.waiting - 1, echoed |-> udp.echoed + 1]
    /\ UNCHANGED <<srv, pc, clientvars, loopvars, kids, chld>>

-----------------------------------------------------------------------------
Loop == Wait \/ AcceptSlot \/ SkipSlot \/ ServeSlot

tcpservselect01 == srv = "select01" /\ Loop
tcpservpoll01 == srv = "poll01" /\ Loop
tcpserv01 == srv = "serv01" /\ AcceptFork
tcpserv02 == srv = "serv02" /\ AcceptFork
tcpserv03 == srv = "serv03" /\ AcceptFork
tcpserv04 == srv = "serv04" /\ AcceptFork
tcpserv08 == srv = "serv08" /\ AcceptFork
tcpserv09 == srv = "serv09" /\ AcceptFork
udpservselect01 == srv = "udpselect" /\ (AcceptFork \/ EchoUdp)

ServerStep == Loop \/ AcceptFork \/ SigChldWait \/ SigChldWaitpid

Next ==
    \/ tcpservselect01 \/ tcpservpoll01
    \/ tcpserv01 \/ tcpserv02 \/ tcpserv03 \/ tcpserv04 \/ tcpserv08 \/ tcpserv09
    \/ udpservselect01
    \/ SigChldWait \/ SigChldWaitpid
    \/ \E c \in Clients : \/ Connect(c) \/ SendLine(c) \/ CloseClient(c) \/ ResetClient(c)
                          \/ ChildEcho(c)
    \/ SendUdp

Fairness ==
    /\ WF_vars(ServerStep) /\ WF_vars(EchoUdp) /\ WF_vars(SigChldWaitpid)
    /\ \A c \in Clients : WF_vars(ChildEcho(c))

Spec == Init /\ [][Next]_vars /\ Fairness

-----------------------------------------------------------------------------
\* client[] holds every accepted connection once, at an index the loop looks at.
SlotsAgree ==
    srv \notin Forking =>
        /\ \A s \in Slots : slot[s] # Free => s <= maxi /\ slot[s] \notin Range(backlog)
        /\ \A c \in Clients :
              (conn[c] \in {"open", "fin"} /\ pc # "too many") =>
                  Cardinality({s \in Slots : slot[s] = c}) = 1

\* Counting nready down never ends the loop before every descriptor select
\* reported has been served; in poll01 that needs revents that were set by poll.
ServesAll == pc = "loop" /\ pc' = "wait" /\ srv = "select01" => \A s \in revents : s <= i
NoneOverlooked == [][ServesAll]_vars

\* A line that was sent comes back, unless its client reset the connection,
\* the server stopped, or it waits for somebody else: in Accept for a
\* connection that was reset after select saw it, or in a read of an entry
\* whose revents were never set (poll01).
Blocked == \/ pc = "accept" /\ backlog = <<>>
           \/ pc = "loop" /\ slot[i] # Free /\ ~Readable(i)
Unechoed(c) == unread[c] > 0 /\ conn[c] \in {"open", "fin"}
EchoedBack == \A c \in Clients : Unechoed(c) ~> unread[c] = 0 \/ ~Up \/ Blocked

\* The servers that call waitpid in a loop leave no zombie behind.
Zombie(c) == kids[c] = "zombie" /\ srv \in Waitpid
NoZombieStays == \A c \in Clients : Zombie(c) ~> ~Zombie(c)

\* The pending SIGCHLD of a handler that calls wait never outlives the
\* zombies, so the handler does not block the server.
WaitNeverBlocks == chld => \E c \in Clients : kids[c] = "zombie"
=============================================================================
