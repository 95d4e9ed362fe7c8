-------------------------------- MODULE Sock --------------------------------
(***************************************************************************)
(* The sock program of unpv13e: a client or a server, over TCP or UDP,     *)
(* that copies between standard input and output and a socket, or sources  *)
(* and sinks data.  An option is its letter; the peer is on the other end  *)
(* of the connection.  Bytes of TCP and datagrams of UDP are numbers, 0 is *)
(* a datagram without data.                                                *)
(***************************************************************************)
EXTENDS Integers, Sequences, FiniteSets, SequencesExt

CONSTANTS OptionSets,    \* sets of option letters to run with
          NIn, NPeer,    \* pieces on standard input, pieces the peer sends
          nbuf, readlen, writelen, UIO_MAXIOV, MaxConns

VARIABLES opts, pc,
          conn,          \* "none", "inprogress", "up"
          so,            \* options set on the socket that carries the data
          inleft,        \* pieces left on standard input
          isset,         \* what select said
          stdineof, flags,
          sent,          \* pieces sent, with the address they went to
          servaddr,      \* loop_udp's own servaddr
          peerq, peerleft, peerfin,
          out,           \* pieces written to standard output
          sigflag, blocked, pending, kids, lostsig   \* -F: parent and children

net   == <<peerq, peerleft, peerfin>>
forkv == <<sigflag, blocked, pending, kids, lostsig>>
vars  == <<opts, pc, conn, so, inleft, isset, stdineof, flags, sent, servaddr, out, net, forkv>>

udp == "u" \in opts
server == "s" \in opts
connectudp == "o" \notin opts

\* The letters getopt knows; the options that do not go together.
LowerOptions == {"2", "b", "c", "f", "g", "h", "i", "j", "k", "l", "n", "o", "p", "q", "r", "s",
                 "t", "u", "v", "w", "x", "y"}
UpperOptions == {"A", "B", "C", "D", "E", "F", "G", "H", "I", "J", "K", "L", "N", "O", "P", "Q",
                 "R", "S", "T", "U", "V", "W", "X", "Y", "Z"}
Refused(o) ==
    \/ "u" \in o /\ o \cap {"h", "D", "L", "N"} # {}
    \/ "u" \notin o /\ "f" \in o

\* The options sockopts sets, in its order: always, or in the call before or
\* after the connection is there (doall), or for one protocol; the source
\* route (-g, -G) is set by the first call and forgotten.
FirstOptions(doall) == {"D", "Y"} \cup (IF doall THEN {} ELSE {"H", "J"})
AddressOptions(again) ==
    (IF udp THEN {} ELSE {"X"}) \cup (IF again THEN {} ELSE {"g", "G"}) \cup {"B", "j", "t"}
    \cup (IF "B" \in opts THEN {"2"} ELSE {})
TcpOptionsBefore(doall) == IF ~doall /\ ~udp THEN {"K", "N", "L"} ELSE {}

TcpOptions(doall) == IF doall /\ ~udp THEN {"K", "N", "L"} ELSE {}
TimeOptions(doall) == IF doall THEN {"x", "y"} ELSE {}
LastOptions == {"I"} \cup (IF udp THEN {"E"} ELSE {})
sockopts(doall, again) ==
    opts \cap (FirstOptions(doall) \cup AddressOptions(again) \cup TcpOptions(doall)
               \cup TimeOptions(doall) \cup LastOptions)
buffers == opts \cap {"R", "S"}

Init ==
    /\ opts \in OptionSets
    /\ pc = "main" /\ conn = "none" /\ so = {}
    /\ inleft = NIn /\ isset = {} /\ stdineof = FALSE /\ flags = FALSE
    /\ sent = <<>> /\ servaddr = "uninitialised" /\ out = <<>>
    /\ peerq = <<>> /\ peerleft = NPeer /\ peerfin = FALSE
    /\ sigflag = FALSE /\ blocked = FALSE /\ pending = FALSE /\ kids = 0 /\ lostsig = FALSE

At(l) == pc = l
Goto(l) == pc' = l
loops == <<inleft, isset, stdineof, flags, sent, servaddr, out>>

\* main: the checks, then cliopen up to connect, or servopen.
main ==
    /\ At("main")
    /\ Goto(IF Refused(opts) \/ ~(opts \subseteq LowerOptions \cup UpperOptions) THEN "usage" ELSE IF server THEN "servopen" ELSE "cliopen")
    /\ UNCHANGED <<opts, conn, so, loops, net, forkv>>

Begin == IF "i" \in opts THEN IF server THEN "sink" ELSE "source" ELSE "loop"

-----------------------------------------------------------------------------
\* cliopen: options, connect (not for an unconnected UDP client), options.
cliopen ==
    /\ At("cliopen")
    /\ so' = buffers \cup sockopts(FALSE, FALSE)
    /\ Goto(IF ~udp \/ connectudp THEN "connect" ELSE "options")
    /\ UNCHANGED <<opts, conn, loops, net, forkv>>

\* connect returns 0, or SIGIO interrupts it; after that it is not started
\* again: it says EISCONN once the connection is up and EALREADY before.
Connect ==
    /\ At("connect") /\ conn # "inprogress"
    /\ \/ conn' = "up" /\ Goto("options")
       \/ "I" \in opts /\ conn = "none" /\ conn' = "inprogress" /\ UNCHANGED pc
    /\ UNCHANGED <<opts, so, loops, net, forkv>>

ConnectAgain ==
    /\ At("connect") /\ conn = "inprogress" /\ Goto("died")
    /\ UNCHANGED <<opts, conn, so, loops, net, forkv>>

Established ==
    /\ conn = "inprogress" /\ conn' = "up"
    /\ UNCHANGED <<opts, pc, so, loops, net, forkv>>

CliOptions ==
    /\ At("options")
    /\ IF "j" \in opts THEN Goto("died") /\ UNCHANGED so
       ELSE Goto(Begin) /\ so' = so \cup sockopts(TRUE, TRUE)
    /\ UNCHANGED <<opts, conn, loops, net, forkv>>

\* servopen: a UDP server is ready, connected if -f names the peer; a TCP
\* server listens and accepts.
servopen ==
    /\ At("servopen")
    /\ IF udp THEN /\ so' = buffers \cup sockopts(TRUE, FALSE) /\ Goto(Begin)
                   /\ conn' = IF "f" \in opts THEN "up" ELSE conn
                   /\ UNCHANGED blocked
       ELSE Goto("accept") /\ blocked' = ("F" \in opts) /\ UNCHANGED <<so, conn>>
    /\ UNCHANGED <<opts, loops, net, sigflag, pending, kids, lostsig>>

\* Without -F the accepted connection is the one the loop works on.
Accept ==
    /\ At("accept") /\ "F" \notin opts
    /\ conn' = "up" /\ so' = buffers \cup sockopts(TRUE, TRUE) /\ Goto(Begin)
    /\ UNCHANGED <<opts, loops, net, forkv>>

\* With -F a child has it: parent and child use the signals of tellwait.c to
\* take turns on the terminal.  The parent blocked SIGUSR2 once, and
\* WAIT_CHILD unblocks it for good.
AcceptFork ==
    /\ At("accept") /\ "F" \in opts /\ kids < MaxConns
    /\ kids' = kids + 1 /\ Goto("wait_child")
    /\ UNCHANGED <<opts, conn, so, loops, net, sigflag, blocked, pending, lostsig>>

\* The child: its options, and TELL_PARENT.  A signal that is not blocked is
\* delivered at once, between the parent's test and sigsuspend too.
TELL_PARENT ==
    /\ pc \in {"wait_child", "sigsuspend"} /\ ~pending /\ ~sigflag /\ ~lostsig
    /\ IF blocked /\ pc # "sigsuspend" THEN pending' = TRUE /\ UNCHANGED <<sigflag, pc, lostsig>>
       ELSE /\ sigflag' = TRUE
            /\ IF pc = "sigsuspend" THEN Goto("wait_child") ELSE UNCHANGED pc
            /\ UNCHANGED <<pending, lostsig>>
    /\ UNCHANGED <<opts, conn, so, loops, net, blocked, kids>>

\* The same signal, in the gap: the test has been made, sigsuspend has not.
TellInGap ==
    /\ At("wait_child") /\ ~blocked /\ ~pending /\ ~sigflag /\ ~lostsig
    /\ sigflag' = TRUE /\ lostsig' = TRUE /\ Goto("sigsuspend")
    /\ UNCHANGED <<opts, conn, so, loops, net, blocked, pending, kids>>

WAIT_CHILD ==
    /\ At("wait_child")
    /\ IF sigflag THEN sigflag' = FALSE /\ blocked' = FALSE /\ Goto("accept") /\ UNCHANGED pending
       ELSE IF pending THEN sigflag' = TRUE /\ pending' = FALSE /\ UNCHANGED <<blocked, pc>>
       ELSE Goto("sigsuspend") /\ UNCHANGED <<sigflag, blocked, pending>>
    /\ UNCHANGED <<opts, conn, so, loops, net, kids, lostsig>>

-----------------------------------------------------------------------------
\* select of loop_tcp and loop_udp: standard input until its end, the socket.
Select ==
    /\ At("loop")
    /\ isset' \in SUBSET {"stdin", "sock"} \ {{}}
    /\ "stdin" \in isset' => ~stdineof
    /\ "sock" \in isset' => peerq # <<>> \/ peerfin
    /\ Goto("stdin")
    /\ UNCHANGED <<opts, conn, so, inleft, stdineof, flags, sent, servaddr, out, net, forkv>>

AlwaysServaddr == IF udp THEN servaddr ELSE "peer"

\* Where a piece goes: to the connected peer, or to servaddr.
Destination == IF udp /\ ~connectudp THEN servaddr ELSE "peer"

\* End of standard input: with -h half a close and on to the next select,
\* else the end.  Data goes to the connected peer or to servaddr; write on a
\* UDP socket that is not connected fails.
ReadStdin ==
    /\ At("stdin")
    /\ IF "stdin" \notin isset THEN Goto("sock") /\ UNCHANGED <<inleft, stdineof, sent>>
       ELSE IF inleft = 0
       THEN IF "h" \in opts THEN stdineof' = TRUE /\ Goto("loop") /\ UNCHANGED <<inleft, sent>>
            ELSE Goto("close") /\ UNCHANGED <<inleft, stdineof, sent>>
       ELSE IF udp /\ connectudp /\ conn # "up"
       THEN Goto("died") /\ UNCHANGED <<inleft, stdineof, sent>>
       ELSE /\ inleft' = inleft - 1
            /\ sent' = Append(sent, Destination)
            /\ Goto("sock") /\ UNCHANGED stdineof
    /\ flags' = ("Z" \in opts /\ ~(udp /\ (server \/ ~connectudp)))
    /\ UNCHANGED <<opts, conn, so, isset, servaddr, out, net, forkv>>

\* One read of the socket: a stream gives what there is up to readlen, a
\* datagram socket one datagram.  With MSG_PEEK the data stays.
Readable == peerq # <<>> \/ peerfin
Piece ==
    IF udp THEN SubSeq(peerq, 1, 1)
    ELSE SubSeq(peerq, 1, IF Len(peerq) < readlen THEN Len(peerq) ELSE readlen)
IsEof == IF udp THEN Head(peerq) = 0 /\ ~server /\ connectudp ELSE peerq = <<>>
TakenOne(peek) == IF peek THEN peerq ELSE SubSeq(peerq, 2, Len(peerq))

Taken(peek) == IF peek THEN peerq ELSE SubSeq(peerq, Len(Piece) + 1, Len(peerq))

ReadSock ==
    /\ At("sock")
    /\ IF "sock" \notin isset THEN Goto("loop") /\ UNCHANGED <<flags, servaddr, out, peerq>>
       ELSE /\ Readable
            /\ peerq' = Taken(flags)
            /\ servaddr' = IF udp /\ ~server /\ ~connectudp THEN "peer" ELSE servaddr
            /\ IF IsEof THEN Goto("close") /\ UNCHANGED <<flags, out>>
               ELSE /\ out' = out \o Piece
                    /\ flags' = FALSE /\ IF flags THEN UNCHANGED pc ELSE Goto("loop")
    /\ UNCHANGED <<opts, conn, so, inleft, isset, stdineof, sent, peerleft, peerfin, forkv>>

SinkOnce ==
    /\ At("sink") /\ Readable
    /\ peerq' = Taken(FALSE) /\ out' = out \o Piece /\ Goto("close")
    /\ UNCHANGED <<opts, conn, so, inleft, isset, stdineof, flags, sent, servaddr, peerleft, peerfin, forkv>>

\* sink_tcp and sink_udp read until the end of file.
Sink ==
    /\ At("sink") /\ Readable
    /\ LET peek == "Z" \in opts /\ ~flags
       IN  /\ peerq' = Taken(peek)
           /\ IF IF udp THEN Head(peerq) = 0 ELSE peerq = <<>> THEN Goto("close") /\ UNCHANGED <<flags, out>>
              ELSE flags' = peek /\ out' = (IF peek THEN out ELSE out \o Piece) /\ UNCHANGED pc
    /\ UNCHANGED <<opts, conn, so, inleft, isset, stdineof, sent, servaddr, peerleft, peerfin, forkv>>

\* source_tcp and source_udp write nbuf buffers; -W goes on after an error.
Source(fails) ==
    /\ At("source")
    /\ IF Len(sent) = nbuf THEN Goto("close") /\ UNCHANGED sent
       ELSE IF fails /\ "W" \notin opts THEN Goto("died") /\ UNCHANGED sent
       ELSE sent' = Append(sent, IF fails THEN "error" ELSE "peer") /\ UNCHANGED pc
    /\ UNCHANGED <<opts, conn, so, inleft, isset, stdineof, flags, servaddr, out, net, forkv>>

Close ==
    /\ At("close") /\ Goto("done")
    /\ UNCHANGED <<opts, conn, so, loops, net, forkv>>

-----------------------------------------------------------------------------
\* The peer sends its pieces and closes; over UDP it may send one without data.
PeerSends ==
    /\ IF server /\ ~udp THEN conn = "up" ELSE pc \in {"loop", "stdin", "sock", "sink"}
    /\ peerleft > 0 /\ peerleft' = peerleft - 1
    /\ \/ peerq' = Append(peerq, NPeer - peerleft + 1)
       \/ udp /\ peerq' = Append(peerq, 0)
    /\ UNCHANGED <<opts, pc, conn, so, loops, peerfin, forkv>>

PeerCloses ==
    /\ ~udp /\ conn = "up" /\ peerleft = 0 /\ ~peerfin /\ peerfin' = TRUE
    /\ UNCHANGED <<opts, pc, conn, so, loops, peerq, peerleft, forkv>>

client == cliopen \/ Connect \/ ConnectAgain \/ CliOptions
serve == servopen \/ Accept \/ AcceptFork
copy == Select \/ ReadStdin \/ ReadSock
loop_tcp == ~udp /\ copy
loop_udp == udp /\ copy
source_tcp == ~udp /\ \E f \in BOOLEAN : Source(f)
source_udp == udp /\ \E f \in BOOLEAN : Source(f)
sink_tcp == ~udp /\ Sink
sink_udp == udp /\ Sink

Program ==
    \/ main \/ client \/ serve \/ WAIT_CHILD \/ Close
    \/ loop_tcp \/ loop_udp \/ source_tcp \/ source_udp \/ sink_tcp \/ sink_udp
Child == TELL_PARENT \/ TellInGap
Peer == PeerSends \/ PeerCloses \/ Established
Next == Program \/ Child \/ Peer

Spec == Init /\ [][Next]_vars /\ WF_vars(Program) /\ WF_vars(Child) /\ WF_vars(Peer)

-----------------------------------------------------------------------------
(* crlf.c and write.c                                                      *)

\* Adding a return before each newline; <<"quit">> is the error exit.
crlf_add(src, dstsize) ==
    LET res == FlattenSeq([i \in 1..Len(src) |-> IF src[i] = "n" THEN <<"r", "n">> ELSE <<src[i]>>])
        newlines == \E i \in 1..Len(src) : src[i] = "n"
    IN  IF Len(src) > dstsize \/ (newlines /\ Len(res) >= dstsize) THEN <<"quit">> ELSE res

StripDropsNext(src, dstsize) ==
    LET kept == {i \in 1..Len(src) : src[i] # "r" /\ (i = 1 \/ src[i - 1] # "r")}
    IN  [k \in 1..Cardinality(kept) |->
            src[CHOOSE i \in kept : Cardinality({j \in kept : j <= i}) = k]]

crlf_strip(src, dstsize) ==
    LET res == SelectSeq(src, LAMBDA c : c # "r")
    IN  IF Len(res) >= dstsize /\ res # <<>> THEN <<"quit">> ELSE res

ChunksRoundedDown(n) ==
    LET size == IF n \div UIO_MAXIOV = 0 THEN 1 ELSE n \div UIO_MAXIOV
    IN  IF size * UIO_MAXIOV < n THEN <<>> ELSE [k \in 1..n \div size |-> size]

\* dowrite: the lengths of the chunks a buffer of n bytes is written in.
Chunks(n) ==
    LET size == IF n \div UIO_MAXIOV = 0 THEN 1
                ELSE n \div UIO_MAXIOV + (IF n % UIO_MAXIOV # 0 THEN 1 ELSE 0)
        rest[k \in 0..UIO_MAXIOV] == IF k = 0 THEN n ELSE
            IF rest[k - 1] >= size THEN rest[k - 1] - size ELSE 0
        count == CHOOSE k \in 1..UIO_MAXIOV + 1 :
                    /\ k = UIO_MAXIOV + 1 \/ rest[k] = 0
                    /\ \A m \in 1..k - 1 : rest[m] # 0
    IN  IF count > UIO_MAXIOV THEN <<>> ELSE [k \in 1..count |-> rest[k - 1] - rest[k]]

-----------------------------------------------------------------------------
\* What is read goes to the peer, with the exception of what an endpoint of
\* UDP that does not connect (-u -o) sends before a datagram has come: the
\* servaddr of loop_udp hides the one cliopen filled in, and is uninitialised.
\* Once a datagram has come the rest goes to its sender.
ToThePeer ==
    /\ ~({"u", "o"} \subseteq opts) => \A i \in 1..Len(sent) : sent[i] \in {"peer", "error"}
    /\ \A i \in 1..Len(sent) : \A j \in i..Len(sent) : sent[i] = "peer" => sent[j] \in {"peer", "error"}

\* Standard output is the peer's data in order, and with MSG_PEEK each peeked
\* piece comes before the same bytes again.
OutIsInput ==
    /\ "Z" \notin opts /\ ~udp => out \o peerq = [i \in 1..Len(out) + Len(peerq) |-> i]
    /\ \A i \in 1..Len(out) : out[i] \in 0..NPeer - peerleft

\* With a half close (and in a sink) everything the peer sends before its
\* FIN is read before sock closes.
NothingMissed ==
    pc = "done" /\ ~udp /\ (stdineof \/ ("i" \in opts /\ server)) => peerq = <<>> /\ peerfin

\* The options asked for are on the socket when data flows, but -H and -J in
\* a server, whose connection sees only the call for everything, the source
\* route in a TCP server, whose listening socket has it, and -K with UDP.
OptionsAreSet ==
    pc \in {"loop", "source", "sink"} =>
        opts \cap {"D", "K", "N", "H", "j", "g", "x", "R"} \subseteq
            so \cup (IF server THEN {"H"} ELSE {}) \cup (IF udp THEN {"K"} ELSE {})
               \cup (IF server /\ ~udp THEN {"g"} ELSE {})

\* The parent of -F gets back to accept, unless the signal came in the gap
\* that is open from the second child on.
InWaitChild == pc = "wait_child"
BackInAccept == pc = "accept" \/ lostsig
ParentReturns == InWaitChild ~> BackInAccept

\* Converting and converting back gives the text, when no call gave up; and
\* none gives up a text with room to spare.
Texts == UNION {[1..n -> {"x", "n"}] : n \in 0..writelen}
CrlfRoundTrip ==
    \A s \in Texts :
        LET a == crlf_add(s, writelen)
        IN  /\ a # <<"quit">> => crlf_strip(a, 2 * writelen + 1) = s
            /\ 2 * Len(s) < writelen => a # <<"quit">>

\* The chunks are never too many, and together they are the buffer.
ChunksCover ==
    \A n \in 0..3 * UIO_MAXIOV + 1 :
        Chunks(n) # <<>> /\ FoldLeft(LAMBDA x, y : x + y, 0, Chunks(n)) = n
=============================================================================
