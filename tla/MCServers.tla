----------------------------- MODULE MCServers -----------------------------
(***************************************************************************)
(* The open server of apue.3e and the web servers of unpv13e, one of       *)
(* which runs in a behaviour.  Their variables share v1 to v10.            *)
(***************************************************************************)
EXTENDS Integers, Sequences

VARIABLE prog  \* the program that runs
VARIABLES v1, v2, v3, v4, v5, v6, v7, v8, v9, v10

pool == <<v1, v2, v3, v4, v5, v6, v7, v8, v9, v10>>
vars == <<prog, pool>>

Designs == {"serv00", "serv01", "serv02", "serv02l", "serv02m", "serv03", "serv03m", "serv04",
            "serv05", "serv06", "serv07", "serv08", "serv09"}

Os == INSTANCE OpenServer
    WITH loop <- v1, cli <- v2, sock <- v3, backlog <- v4, in <- v5,
         out <- v6, client <- v7, poll <- v8, at <- v9, served <- v10,
         Clients <- {"c1", "c2"}, Nalloc <- 2, MaxReq <- 2,
         Kinds <- {"ok", "nofile"}
Ol == INSTANCE OpenServer
    WITH loop <- v1, cli <- v2, sock <- v3, backlog <- v4, in <- v5,
         out <- v6, client <- v7, poll <- v8, at <- v9, served <- v10,
         Clients <- {"c1"}, Nalloc <- 1, MaxReq <- 3, Kinds <- {"ok", "long"}
Ws == INSTANCE WebServers
    WITH serv <- v1, cl <- v2, backlog <- v3, wk <- v4, lock <- v5,
         par <- v6, got <- v7, Designs <- Designs, N <- 2, Clients <- 1..2,
         MAXNCLI <- 2
W1 == INSTANCE WebServers
    WITH serv <- v1, cl <- v2, backlog <- v3, wk <- v4, lock <- v5,
         par <- v6, got <- v7, Designs <- {"serv05", "serv08"}, N <- 1,
         Clients <- 1..3, MAXNCLI <- 2

-----------------------------------------------------------------------------
\* The variables a program does not have keep one value.
Init ==
    \/ prog = "OpenServer" /\ Os!Init
    \/ prog = "LongLines" /\ Ol!Init
    \/ prog = "WebServers" /\ Ws!Init /\ v8 = 0 /\ v9 = 0 /\ v10 = 0
    \/ prog = "OneWorker" /\ W1!Init /\ v8 = 0 /\ v9 = 0 /\ v10 = 0
Next ==
    \/ prog = "OpenServer" /\ Os!Next /\ UNCHANGED <<prog>>
    \/ prog = "LongLines" /\ Ol!Next /\ UNCHANGED <<prog>>
    \/ prog = "WebServers" /\ Ws!Next /\ UNCHANGED <<prog, v8, v9, v10>>
    \/ prog = "OneWorker" /\ W1!Next /\ UNCHANGED <<prog, v8, v9, v10>>

\* The variables the program does not have.
Rest(name) == CASE name \in {"OpenServer", "LongLines"} -> UNCHANGED <<prog>>
                [] name \in {"WebServers", "OneWorker"} -> UNCHANGED <<prog, v8, v9, v10>>
Runs(name, step) == prog = name /\ step /\ Rest(name)

\* One program runs in a behaviour, so that the fairness of both is stated
\* together: the server or parent, the clients' reads and the workers, the
\* accept locks, and the clients' close.
In(name) == prog = name
C == <<"c1", "c2">>
Fairness ==
    /\ WF_pool(\/ Runs("OpenServer", Os!Server) \/ Runs("WebServers", Ws!MainStep)
               \/ Runs("OneWorker", W1!MainStep) \/ Runs("LongLines", Ol!Server))
    /\ \A w \in 1..2 :
          /\ WF_pool(\/ Runs("OpenServer", Os!recv_fd(C[w])) \/ Runs("WebServers", Ws!WorkerStep(w))
                     \/ w = 1 /\ Runs("OneWorker", W1!WorkerStep(w))
                     \/ w = 1 /\ Runs("LongLines", Ol!recv_fd(C[w])))
          /\ SF_pool(Runs("WebServers", Ws!fcntl_lock_wait(w) \/ Ws!pthread_lock_wait(w)))
    /\ \A c \in 1..3 : WF_pool(\/ c <= 2 /\ Runs("WebServers", Ws!ClientClose(c))
                               \/ Runs("OneWorker", W1!ClientClose(c)))
Spec == Init /\ [][Next]_vars /\ Fairness

-----------------------------------------------------------------------------
\* The open server keeps its two tables in step and its clients apart (opend,
\* opend.fe).  OpenServer: client[], pollfd[] and the open connections agree
\* when the server waits; a request is served with the uid of its client, but
\* for the poll loop after a client left; an answer is that of the last
\* request, but after a line that is too long.
OpenServerSafe ==
    /\ prog = "OpenServer" => /\ Os!TablesAgree /\ Os!RightUid
                              /\ Os!AnswersMatch
    /\ prog = "LongLines" => /\ Ol!AnswersMatch

\* The pools of the web servers lose no connection, worker or lock.
\* WebServers: a child the parent of serv05 takes for free is free, also when
\* three clients want the only one; a connection is given to one worker; the
\* ring of serv08 holds each accepted connection once; the accept lock is
\* held by a worker that accepts; an interrupted parent has waited for every
\* child when it exits; the counters that sig_int prints are right.
WebServersSafe ==
    /\ prog = "WebServers" => /\ Ws!FreeChildrenAreFree
                              /\ Ws!OneWorkerPerConnection /\ Ws!RingIsWhole
                              /\ Ws!LockHolderAccepts /\ Ws!NoOrphans
                              /\ Ws!MeterIsRight
    /\ prog = "OneWorker" => /\ W1!FreeChildrenAreFree /\ W1!RingIsWhole


\* A client that has asked, and somebody left to answer it.
Asking(c) == \/ In("OpenServer") /\ c <= 2 /\ Os!Waiting(C[c])
             \/ In("LongLines") /\ c = 1 /\ Ol!Waiting(C[c])
             \/ In("WebServers") /\ c <= 2 /\ Ws!Asked(c)
             \/ In("OneWorker") /\ W1!Asked(c)
Deserted == \/ In("OpenServer") /\ ~Os!Alive
            \/ In("LongLines") /\ ~Ol!Alive
            \/ In("WebServers") /\ Ws!NobodyLeft
            \/ In("OneWorker") /\ W1!NobodyLeft
\* What a client leaves behind: its connection in the open server, a zombie
\* of serv01.
Remains(w) == \/ In("OpenServer") /\ Os!Left(C[w])
              \/ In("WebServers") /\ Ws!Zombie(w)
Stopped == \/ In("OpenServer") /\ ~Os!Alive
           \/ In("WebServers") /\ ~Ws!Alive
\* A client that waits is answered, gives up, or the server is dead or nobody
\* is left to answer: no wakeup, lock or child is lost on the way.  The
\* connection of a client that has gone is closed, and serv01 leaves no zombie.
EveryoneServed == /\ \A c \in 1..3 : Asking(c) ~> (~Asking(c) \/ Deserted)
                  /\ \A w \in 1..2 : Remains(w) ~> (~Remains(w) \/ Stopped)
=============================================================================
