----------------------------- MODULE OpenServer -----------------------------
(***************************************************************************)
(* The open server of apue.3e/ipc2 and its clients.  A client asks for a   *)
(* file by name (csopen) and is sent an open descriptor or an error text.  *)
(* The server is one of three programs, chosen by the variable loop:       *)
(*   "poll"    opend/loop.poll.c:  client[] beside a packed pollfd[];      *)
(*   "select"  opend/loop.select.c: client[] alone;                        *)
(*   "fe"      opend.fe: every client forks a server of its own.           *)
(* A descriptor is named by the client at its other end, and a client's    *)
(* uid is the client.  A request is one of Kinds: "ok" opens, "nofile" and *)
(* "usage" are refused, and the line of a "long" one (more than MAXLINE    *)
(* bytes with its flag) reaches the server in two reads.                   *)
(***************************************************************************)
EXTENDS Integers, Sequences, FiniteSets, Functions

CONSTANTS Clients, \* the client processes
          Nalloc,  \* NALLOC: entries by which client[] and pollfd[] grow
          MaxReq,  \* bound: requests made by all the clients
          Kinds    \* the requests made

VARIABLES loop,    \* which server is running
          cli,     \* state of each client: its step, requests made, answers
          sock,    \* the server's end of each connection
          backlog, \* connections waiting for serv_accept
          in,      \* pieces of requests not read yet, per client
          out,     \* segments of answers not received yet, per client
          client,  \* the array client[]
          poll,    \* pollfd[], numfd and, in the select loop, rset and maxi
          at,      \* the step of the server and its index i
          served   \* fd and uid handle_request was last called with

vars == <<loop, cli, sock, backlog, in, out, client, poll, at, served>>

Listen == "listenfd"
None == "-1"

Init ==
  /\ loop \in {"poll", "select", "fe"}
  /\ cli = [c \in Clients |-> [st |-> "new", n |-> 0, got |-> <<>>, long |-> FALSE]]
  /\ sock = [c \in Clients |-> "none"]
  /\ backlog = <<>>
  /\ in = [c \in Clients |-> <<>>]
  /\ out = [c \in Clients |-> <<>>]
  /\ client = [k \in 0 .. Nalloc - 1 |->
                 [fd |-> IF loop = "poll" /\ k = 0 THEN Listen ELSE None, uid |-> None]]
  /\ poll = [fds |-> <<>>, rev |-> <<>>, rset |-> {}, maxi |-> -1]
  /\ at = [pc |-> "wait", i |-> 0]
  /\ served = [fd |-> None, uid |-> None]

Alive == at.pc # "dead"

-----------------------------------------------------------------------------
(* client.c *)

FreeSlot(cl) == {k \in DOMAIN cl : cl[k].fd = None}

(* client_alloc: Nalloc further entries, all available. *)
client_alloc(cl) ==
  [k \in 0 .. Cardinality(DOMAIN cl) + Nalloc - 1 |->
     IF k \in DOMAIN cl THEN cl[k] ELSE [fd |-> None, uid |-> None]]

First(S) == CHOOSE k \in S : \A m \in S : k <= m

AddWithoutUid(cl, c) ==
  LET room == IF FreeSlot(cl) # {} THEN cl ELSE client_alloc(cl)
      k == IF FreeSlot(cl) # {} THEN First(FreeSlot(cl)) ELSE Cardinality(DOMAIN cl)
  IN  [room EXCEPT ![k].fd = c]

(* client_add takes the first available entry. *)
client_add_at(cl) == IF FreeSlot(cl) # {} THEN First(FreeSlot(cl)) ELSE Cardinality(DOMAIN cl)
client_add(cl, c) ==
  LET room == IF FreeSlot(cl) # {} THEN cl ELSE client_alloc(cl)
  IN  [room EXCEPT ![client_add_at(cl)] = [fd |-> c, uid |-> c]]

(* client_del frees the entry of a descriptor and keeps its uid.           *)
client_del(cl, c) ==
  LET k == First({m \in DOMAIN cl : cl[m].fd = c})
  IN  [cl EXCEPT ![k].fd = None]

Known(c) == \E k \in DOMAIN client : client[k].fd = c

-----------------------------------------------------------------------------
(* request.c: what is sent for one piece of a request.  An error is a text *)
(* followed by the two bytes of send_fd; the answer names its request.     *)

End(n, status) == [what |-> "end", n |-> n, status |-> status]
send_err(n) == <<[what |-> "text", n |-> n, status |-> 0], End(n, 1)>>
send_fd(n) == <<End(n, 0)>>

(* The arguments of a request are a name and a flag. *)
cli_args(piece) == piece.kind # "usage"

RequestFallsThrough(piece) ==
  IF piece.kind = "cut" \/ ~cli_args(piece) \/ piece.kind = "nofile"
  THEN send_err(piece.n) \o send_fd(piece.n) ELSE send_fd(piece.n)

(* Not null terminated, bad arguments, a file that does not open: an error. *)
handle_request(piece) ==
  IF piece.kind = "cut" \/ ~cli_args(piece) \/ piece.kind = "nofile"
  THEN send_err(piece.n) ELSE send_fd(piece.n)

(* Reading one piece from c and answering it; a peer that has gone raises   *)
(* SIGPIPE, which ends the server.                                          *)
ServePiece(c, uid) ==
  /\ in[c] # <<>>
  /\ in' = [in EXCEPT ![c] = Tail(@)]
  /\ served' = [fd |-> c, uid |-> uid]
  /\ IF cli[c].st = "gone"
     THEN at' = [at EXCEPT !.pc = "dead"] /\ UNCHANGED out
     ELSE /\ out' = [out EXCEPT ![c] = @ \o handle_request(Head(in[c]))]
          /\ at' = [at EXCEPT !.i = @ + 1]

(* close and client_del. *)
DropClient(c) ==
  /\ sock' = [sock EXCEPT ![c] = "closed"]
  /\ client' = IF Known(c) THEN client_del(client, c) ELSE client

-----------------------------------------------------------------------------
(* loop.poll.c *)

Fds == poll.fds                     \* pollfd[1 .. numfd-1].fd

(* poll returns when a descriptor is ready.  A hung-up descriptor reports   *)
(* POLLHUP where the system has it for this socket, else POLLIN alone.      *)
PollWait ==
  /\ loop = "poll" /\ at.pc = "wait"
  /\ LET ready(c) == in[c] # <<>> \/ cli[c].st = "gone"
     IN  \E hup \in SUBSET {c \in Clients : cli[c].st = "gone"} :
           LET rev == [k \in 1 .. Len(Fds) |->
                         IF Fds[k] \in hup THEN "hup"
                         ELSE IF ready(Fds[k]) THEN "in" ELSE "0"]
           IN  /\ backlog # <<>> \/ \E k \in DOMAIN rev : rev[k] # "0"
               /\ poll' = [poll EXCEPT !.rev = rev]
               /\ at' = [pc |-> IF backlog # <<>> THEN "accept" ELSE "scan", i |-> 1]
  /\ UNCHANGED <<loop, cli, sock, backlog, in, out, client, served>>

PollAccept ==
  /\ loop = "poll" /\ at.pc = "accept"
  /\ LET c == Head(backlog)
     IN  /\ client' = client_add(client, c)
         /\ poll' = [poll EXCEPT !.fds = Append(@, c), !.rev = Append(@, "0")]
         /\ sock' = [sock EXCEPT ![c] = "open"]
  /\ backlog' = Tail(backlog)
  /\ at' = [at EXCEPT !.pc = "scan"]
  /\ UNCHANGED <<loop, cli, in, out, served>>

PackWithoutShrinking ==
  LET n == Len(Fds)
      packed(s) == [s EXCEPT ![at.i] = s[n]]
  IN  poll' = [poll EXCEPT !.fds = packed(@), !.rev = packed(@)]

(* Entry i is hung up or at end of file: the last entry is moved into its   *)
(* place and looked at next.                                                *)
PackPollfd ==
  LET n == Len(Fds)
      packed(s) == [k \in 1 .. n - 1 |-> IF k = at.i THEN s[n] ELSE s[k]]
  IN  poll' = [poll EXCEPT !.fds = packed(@), !.rev = packed(@)]

PollHungup ==
  /\ loop = "poll" /\ at.pc = "scan" /\ at.i <= Len(Fds)
  /\ \/ poll.rev[at.i] = "hup"
     \/ poll.rev[at.i] = "in" /\ in[Fds[at.i]] = <<>>
  /\ DropClient(Fds[at.i])
  /\ PackPollfd
  /\ at' = IF Known(Fds[at.i]) THEN at ELSE [at EXCEPT !.pc = "dead"]
  /\ UNCHANGED <<loop, cli, backlog, in, out, served>>

PollRequest ==
  /\ loop = "poll" /\ at.pc = "scan" /\ at.i <= Len(Fds)
  /\ poll.rev[at.i] = "in"
  /\ ServePiece(Fds[at.i], client[at.i].uid)
  /\ UNCHANGED <<loop, cli, sock, backlog, client, poll>>

PollNext ==
  /\ loop = "poll" /\ at.pc = "scan"
  /\ IF at.i > Len(Fds)
     THEN at' = [pc |-> "wait", i |-> 0] /\ poll' = [poll EXCEPT !.rev = <<>>]
     ELSE poll.rev[at.i] = "0" /\ at' = [at EXCEPT !.i = @ + 1] /\ UNCHANGED poll
  /\ UNCHANGED <<loop, cli, sock, backlog, in, out, client, served>>

-----------------------------------------------------------------------------
(* loop.select.c *)

(* select, and the accept with its continue when listenfd is ready. *)
SelectWait ==
  /\ loop = "select" /\ at.pc = "wait"
  /\ LET ready == {c \in Clients : sock[c] = "open" /\ (in[c] # <<>> \/ cli[c].st = "gone")}
     IN  IF backlog # <<>>
         THEN /\ client' = client_add(client, Head(backlog))
              /\ poll' = [poll EXCEPT !.maxi = IF @ < client_add_at(client)
                                               THEN client_add_at(client) ELSE @]
              /\ sock' = [sock EXCEPT ![Head(backlog)] = "open"]
              /\ backlog' = Tail(backlog)
              /\ UNCHANGED at
         ELSE /\ ready # {}
              /\ poll' = [poll EXCEPT !.rset = ready]
              /\ at' = [pc |-> "scan", i |-> 0]
              /\ UNCHANGED <<client, sock, backlog>>
  /\ UNCHANGED <<loop, cli, in, out, served>>

SelectClosed ==
  /\ loop = "select" /\ at.pc = "scan" /\ at.i <= poll.maxi
  /\ LET c == client[at.i].fd
     IN  c \in poll.rset /\ in[c] = <<>> /\ DropClient(c)
  /\ at' = [at EXCEPT !.i = @ + 1]
  /\ UNCHANGED <<loop, cli, backlog, in, out, poll, served>>

SelectRequest ==
  /\ loop = "select" /\ at.pc = "scan" /\ at.i <= poll.maxi
  /\ client[at.i].fd \in poll.rset
  /\ ServePiece(client[at.i].fd, client[at.i].uid)
  /\ UNCHANGED <<loop, cli, sock, backlog, client, poll>>

SelectMissesLast ==
  /\ loop = "select" /\ at.pc = "scan"
  /\ IF at.i >= poll.maxi
     THEN at' = [pc |-> "wait", i |-> 0] /\ poll' = [poll EXCEPT !.rset = {}]
     ELSE client[at.i].fd \notin poll.rset /\ at' = [at EXCEPT !.i = @ + 1] /\ UNCHANGED poll
  /\ UNCHANGED <<loop, cli, sock, backlog, in, out, client, served>>

SelectNext ==
  /\ loop = "select" /\ at.pc = "scan"
  /\ IF at.i > poll.maxi
     THEN at' = [pc |-> "wait", i |-> 0] /\ poll' = [poll EXCEPT !.rset = {}]
     ELSE client[at.i].fd \notin poll.rset /\ at' = [at EXCEPT !.i = @ + 1] /\ UNCHANGED poll
  /\ UNCHANGED <<loop, cli, sock, backlog, in, out, client, served>>

-----------------------------------------------------------------------------
(* opend.fe: main reads until end of file; each server has one client. *)

fe_cli_args(piece) == piece.kind # "usage"

fe_handle_request(piece) ==
  IF piece.kind \in {"cut", "nofile"} \/ ~fe_cli_args(piece)
  THEN send_err(piece.n) ELSE send_fd(piece.n)

FeRequest(c) ==
  /\ loop = "fe" /\ sock[c] = "open" /\ in[c] # <<>>
  /\ in' = [in EXCEPT ![c] = Tail(@)]
  /\ IF cli[c].st = "gone"
     THEN sock' = [sock EXCEPT ![c] = "closed"] /\ UNCHANGED out
     ELSE out' = [out EXCEPT ![c] = @ \o fe_handle_request(Head(in[c]))] /\ UNCHANGED sock
  /\ UNCHANGED <<loop, cli, backlog, client, poll, at, served>>

FeEofIgnored(c) == FALSE

FeEof(c) ==
  /\ loop = "fe" /\ sock[c] = "open" /\ in[c] = <<>> /\ cli[c].st = "gone"
  /\ sock' = [sock EXCEPT ![c] = "closed"]
  /\ UNCHANGED <<loop, cli, backlog, in, out, client, poll, at, served>>

-----------------------------------------------------------------------------
(* The client: main and csopen. *)

(* The first csopen connects, or forks a server over an fd-pipe. *)
cli_conn(c) ==
  /\ loop # "fe" /\ cli[c].st = "new" /\ Alive
  /\ cli' = [cli EXCEPT ![c].st = "idle"]
  /\ backlog' = Append(backlog, c)
  /\ UNCHANGED <<loop, sock, in, out, client, poll, at, served>>

fe_fork(c) ==
  /\ loop = "fe" /\ cli[c].st = "new"
  /\ cli' = [cli EXCEPT ![c].st = "idle"]
  /\ sock' = [sock EXCEPT ![c] = "open"]
  /\ UNCHANGED <<loop, backlog, in, out, client, poll, at, served>>

Pieces(kind, n) ==
  IF kind = "long" THEN <<[kind |-> "cut", n |-> n], [kind |-> "usage", n |-> n]>>
                   ELSE <<[kind |-> kind, n |-> n]>>

(* writev of the request; recv_fd then waits. *)
Writev(c, kind) ==
  /\ cli[c].st = "idle" /\ Alive
  /\ FoldFunction(+, 0, [d \in Clients |-> cli[d].n]) < MaxReq
  /\ cli' = [cli EXCEPT ![c].st = "waiting", ![c].n = @ + 1,
                        ![c].long = @ \/ kind = "long"]
  /\ in' = [in EXCEPT ![c] = @ \o Pieces(kind, cli[c].n + 1)]
  /\ UNCHANGED <<loop, sock, backlog, out, client, poll, at, served>>

csopen(c, kind) == loop # "fe" /\ Writev(c, kind)

fe_csopen(c, kind) == loop = "fe" /\ Writev(c, kind)

(* recvmsg returns some of what is there.  The two bytes of an "end" must   *)
(* be the last ones received, else the client dumps core; text alone makes  *)
(* it wait for more.                                                        *)
recv_fd(c) ==
  /\ cli[c].st = "waiting" /\ out[c] # <<>>
  /\ \E k \in 1 .. Len(out[c]) :
       LET got == SubSeq(out[c], 1, k)
           ends == {m \in 1 .. k : got[m].what = "end"}
       IN  /\ out' = [out EXCEPT ![c] = SubSeq(@, k + 1, Len(@))]
           /\ cli' = CASE \E m \in ends : m < k -> [cli EXCEPT ![c].st = "gone"]
                       [] ends = {k} -> [cli EXCEPT ![c].st = "idle",
                                                    ![c].got = <<got[k].n, got[k].status>>]
                       [] ends = {} -> cli
  /\ UNCHANGED <<loop, sock, backlog, in, client, poll, at, served>>

(* End of input, or the client is killed while it waits. *)
Leave(c) ==
  /\ cli[c].st \in {"idle", "waiting"} /\ Alive
  /\ cli' = [cli EXCEPT ![c].st = "gone"]
  /\ UNCHANGED <<loop, sock, backlog, in, out, client, poll, at, served>>

main(c) == loop # "fe" /\ Leave(c)

fe_main(c) == loop = "fe" /\ Leave(c)

Server == \/ PollWait \/ PollAccept \/ PollHungup \/ PollRequest \/ PollNext
          \/ SelectWait \/ SelectClosed \/ SelectRequest \/ SelectNext
          \/ \E c \in Clients : FeRequest(c) \/ FeEof(c)

Client == \E c \in Clients :
            \/ cli_conn(c) \/ fe_fork(c) \/ recv_fd(c) \/ main(c) \/ fe_main(c)
            \/ \E kind \in Kinds : csopen(c, kind) \/ fe_csopen(c, kind)

Next == Server \/ Client

Fairness == WF_vars(Server) /\ \A c \in Clients : WF_vars(recv_fd(c))

Spec == Init /\ [][Next]_vars /\ Fairness

-----------------------------------------------------------------------------

(* While the server waits, the clients it polls are exactly those client[]  *)
(* holds and those it has open: packing pollfd[] and reusing entries of     *)
(* client[] never loses or doubles one.                                     *)
TablesAgree ==
  at.pc = "wait" =>
    LET open == {c \in Clients : loop # "fe" /\ sock[c] = "open"}
        held(c) == {k \in DOMAIN client : client[k].fd = c}
    IN  /\ \A c \in Clients : Cardinality(held(c)) = IF c \in open THEN 1 ELSE 0
        /\ loop = "poll" => /\ {Fds[k] : k \in 1 .. Len(Fds)} = open
                            /\ Len(Fds) = Cardinality(open)
        /\ loop = "select" => \A c \in open : \A k \in held(c) : k <= poll.maxi

(* handle_request is told the uid of the client it answers.  The select     *)
(* loop keeps this always; the poll loop indexes client[] with the index    *)
(* of pollfd[] and keeps it only until a client has left.                   *)
RightUid ==
  served.fd # None =>
    \/ served.uid = served.fd
    \/ loop = "poll" /\ \E c \in Clients : sock[c] = "closed"

(* A client that has its answer has the answer to the request it made last; *)
(* a line too long for one read is answered twice and breaks the pairing.   *)
AnswersMatch ==
  \A c \in Clients :
    cli[c].st = "idle" /\ cli[c].n > 0 /\ ~cli[c].long => cli[c].got[1] = cli[c].n

(* A client that waits is answered, gives up, or finds the server ended by  *)
(* the death of another client.                                             *)
Waiting(c) == cli[c].st = "waiting"
Answered == \A c \in Clients : Waiting(c) ~> (~Waiting(c) \/ ~Alive)

(* A connection whose client has gone is closed by the server.              *)
Left(c) == cli[c].st = "gone" /\ sock[c] = "open"
Reaped == \A c \in Clients : Left(c) ~> (sock[c] = "closed" \/ ~Alive)
=============================================================================
