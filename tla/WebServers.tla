----------------------------- MODULE WebServers -----------------------------
(***************************************************************************)
(* The alternative server designs of unpv13e/server: iterative (serv00),   *)
(* one process or thread per client (serv01, serv06), preforked without    *)
(* and with an accept lock (serv02/02m, serv03/03m/04), preforked with     *)
(* descriptor passing (serv05), and prethreaded (serv07, serv08, serv09).  *)
(* All of them run the same web_child on a connection; they differ in who  *)
(* accepts, how the connection reaches the worker, and what a failure of   *)
(* one worker does to the rest.  A worker is a process in serv01-serv05    *)
(* and a thread of the server in the others.                               *)
(***************************************************************************)
EXTENDS Integers, Sequences, FiniteSets, Functions

CONSTANTS Designs,    \* the programs to look at
          N,          \* nchildren / nthreads: workers are 1..N
          Clients,    \* numbers, in the order in which they open their one connection
          MAXNCLI     \* slots of the ring of serv08

VARIABLES serv,     \* the design that runs
          cl,       \* client -> idle, asked, answered, closed, reset
          backlog,  \* completed connections nobody has accepted
          wk,       \* worker -> what it is doing, and its connection
          lock,     \* holder of the accept lock, 0 when free
          par,      \* the parent or main thread
          got       \* history: client -> the workers that were given its connection

vars == <<serv, cl, backlog, wk, lock, par, got>>

(* What the main and sig_int of a program set up: who runs web_child, when  *)
(* the workers are made, how a worker comes by a connection, the accept     *)
(* lock, whether connections are counted per worker, and what SIGINT does.  *)
Design(worker, prefork, take, alock, meter, sigint) ==
    [worker |-> worker, prefork |-> prefork, take |-> take, lock |-> alock, meter |-> meter,
     sigint |-> sigint]

serv00 == Design("main", FALSE, "given", "none", FALSE, "exit")
serv01 == Design("child", FALSE, "given", "none", FALSE, "exit")
serv02 == Design("child", TRUE, "accept", "none", FALSE, "kill")
serv02m == Design("child", TRUE, "accept", "none", TRUE, "kill")
serv03 == Design("child", TRUE, "accept", "fcntl", FALSE, "kill")
serv03m == Design("child", TRUE, "accept", "fcntl", TRUE, "kill")
serv04 == Design("child", TRUE, "accept", "mutex", FALSE, "kill")
serv05 == Design("child", TRUE, "passed", "none", TRUE, "kill")
serv06 == Design("thread", FALSE, "given", "none", FALSE, "exit")
serv07 == Design("thread", TRUE, "accept", "mutex", TRUE, "exit")
serv08 == Design("thread", TRUE, "ring", "none", TRUE, "exit")
serv09 == Design("thread", TRUE, "accept", "none", TRUE, "exit")

\* serv02l is serv02 linked with the children of child02l.c.
D == CASE serv = "serv00" -> serv00
       [] serv = "serv01" -> serv01 [] serv = "serv02" -> serv02 [] serv = "serv02l" -> serv02
       [] serv = "serv02m" -> serv02m [] serv = "serv03" -> serv03 [] serv = "serv03m" -> serv03m
       [] serv = "serv04" -> serv04 [] serv = "serv05" -> serv05 [] serv = "serv06" -> serv06
       [] serv = "serv07" -> serv07 [] serv = "serv08" -> serv08 [] serv = "serv09" -> serv09

Workers == 1..N
NoConn == 0

Idle == [st |-> "idle", conn |-> NoConn]
Unborn == [st |-> "unborn", conn |-> NoConn]
Gone == [st |-> "gone", conn |-> NoConn]
Busy(c) == [st |-> "busy", conn |-> c]
Alive == par.up = "up"

Init ==
    /\ serv \in Designs
    /\ cl = [c \in Clients |-> "idle"]
    /\ backlog = <<>>
    /\ wk = [w \in Workers |-> IF D.prefork THEN Idle ELSE Unborn]
    /\ lock = 0
    /\ par = [up |-> "up", pc |-> "wait", rset |-> {},
              navail |-> N, status |-> [w \in Workers |-> 0], byte |-> [w \in Workers |-> 0],
              ring |-> [i \in 0..MAXNCLI - 1 |-> NoConn], iget |-> 0, iput |-> 0,
              asleep |-> {}, chld |-> FALSE, waitfor |-> 0, count |-> [w \in Workers |-> 0]]
    /\ got = [c \in Clients |-> {}]

Give(c, w) == got' = [got EXCEPT ![c] = @ \cup {w}]

CountFirst(p, w) == IF D.meter THEN [p EXCEPT !.count[1] = @ + 1] ELSE p

\* cptr[i]++, tptr[i].thread_count++: connections served, where they are counted.
Count(p, w) == IF D.meter THEN [p EXCEPT !.count[w] = @ + 1] ELSE p

-----------------------------------------------------------------------------
(* The clients (client.c, clientrst.c).                                    *)

\* Tcp_connect and the write of the request line.
Connect(c) ==
    /\ Alive /\ cl[c] = "idle" /\ \A d \in Clients : d < c => cl[d] # "idle"
    /\ cl' = [cl EXCEPT ![c] = "asked"]
    /\ backlog' = Append(backlog, c)
    /\ UNCHANGED <<serv, wk, lock, par, got>>

\* All the bytes arrived: Close.
ClientClose(c) ==
    /\ cl[c] = "answered"
    /\ cl' = [cl EXCEPT ![c] = "closed"]
    /\ UNCHANGED <<serv, backlog, wk, lock, par, got>>

\* SO_LINGER with a zero interval and Close: a reset.  A connection that is
\* still queued is taken off the queue by some kernels and left there by others.
ClientReset(c) ==
    /\ cl[c] = "asked"
    /\ cl' = [cl EXCEPT ![c] = "reset"]
    /\ backlog' \in {backlog, SelectSeq(backlog, LAMBDA d : d # c)}
    /\ UNCHANGED <<serv, wk, lock, par, got>>

-----------------------------------------------------------------------------
(* The workers.                                                            *)

LockWait(w) ==
    /\ Alive /\ wk[w].st = "idle" /\ lock = 0
    /\ lock' = w
    /\ wk' = [wk EXCEPT ![w].st = "accepting"]
    /\ UNCHANGED <<serv, cl, backlog, par, got>>

AcceptShared(w, from, to, counted) ==
    /\ Alive /\ wk[w].st = from /\ backlog # <<>>
    /\ wk' = [wk EXCEPT ![w] = [st |-> to, conn |-> Head(backlog)]]
    /\ par' = IF counted THEN Count(par, w) ELSE par
    /\ Give(Head(backlog), w)
    /\ UNCHANGED <<serv, cl, backlog, lock>>

\* Accept, where the worker is known to hold the lock or there is none.
AcceptThen(w, from, to, counted) ==
    /\ Alive /\ wk[w].st = from /\ backlog # <<>>
    /\ backlog' = Tail(backlog)
    /\ wk' = [wk EXCEPT ![w] = [st |-> to, conn |-> Head(backlog)]]
    /\ par' = IF counted THEN Count(par, w) ELSE par
    /\ Give(Head(backlog), w)
    /\ UNCHANGED <<serv, cl, lock>>

Accept(w) == AcceptThen(w, "idle", "busy", TRUE)
AcceptLocked(w) == AcceptThen(w, "accepting", "accepted", FALSE)

LockKept(w) ==
    /\ Alive /\ wk[w].st = "accepted"
    /\ wk' = [wk EXCEPT ![w].st = "busy"]
    /\ par' = Count(par, w)
    /\ UNCHANGED <<serv, cl, backlog, lock, got>>

LockRelease(w) ==
    /\ Alive /\ wk[w].st = "accepted"
    /\ lock' = 0
    /\ wk' = [wk EXCEPT ![w].st = "busy"]
    /\ par' = Count(par, w)
    /\ UNCHANGED <<serv, cl, backlog, got>>

fcntl_lock_wait(w) == D.lock = "fcntl" /\ LockWait(w)
fcntl_lock_release(w) == D.lock = "fcntl" /\ LockRelease(w)
pthread_lock_wait(w) == D.lock = "mutex" /\ LockWait(w)
pthread_lock_release(w) == D.lock = "mutex" /\ LockRelease(w)

child02(w) == serv = "serv02" /\ Accept(w)

\* Select first: another child may take the connection in between, and Accept
\* then waits for the next one.
child02l(w) ==
    /\ serv = "serv02l"
    /\ \/ /\ Alive /\ wk[w].st = "idle" /\ backlog # <<>>
          /\ wk' = [wk EXCEPT ![w].st = "selected"]
          /\ UNCHANGED <<serv, cl, backlog, lock, par, got>>
       \/ AcceptThen(w, "selected", "busy", FALSE)

child02m(w) == serv = "serv02m" /\ Accept(w)

child03(w) == serv = "serv03" /\ (fcntl_lock_wait(w) \/ AcceptLocked(w) \/ fcntl_lock_release(w))

child03m(w) == serv = "serv03m" /\ (fcntl_lock_wait(w) \/ AcceptLocked(w) \/ fcntl_lock_release(w))

child04(w) ==
    serv = "serv04" /\ (pthread_lock_wait(w) \/ AcceptLocked(w) \/ pthread_lock_release(w))

pthread07(w) ==
    serv = "serv07" /\ (pthread_lock_wait(w) \/ AcceptLocked(w) \/ pthread_lock_release(w))

pthread09(w) == serv = "serv09" /\ Accept(w)

\* web_child: a line is there, the bytes it asks for are written.
WebReply(w) ==
    /\ Alive /\ wk[w].st = "busy" /\ cl[wk[w].conn] = "asked"
    /\ cl' = [cl EXCEPT ![wk[w].conn] = "answered"]
    /\ UNCHANGED <<serv, backlog, wk, lock, par, got>>

NeverBack(w) ==
    /\ wk' = [wk EXCEPT ![w] = CASE serv = "serv01" -> [st |-> "zombie", conn |-> NoConn]
                                 [] serv = "serv06" -> Unborn [] OTHER -> Idle]
    /\ par' = CASE serv = "serv01" -> [par EXCEPT !.chld = TRUE]
                [] serv = "serv05" -> [par EXCEPT !.byte[w] = @ + 1] [] OTHER -> par

\* What a worker does after web_child returned and it closed the connection:
\* exit (child of serv01), return (thread of serv06), tell the parent
\* (serv05), or go back for the next connection.
AfterClient(w) ==
    CASE serv = "serv01" -> /\ wk' = [wk EXCEPT ![w] = [st |-> "zombie", conn |-> NoConn]]
                            /\ par' = [par EXCEPT !.chld = TRUE]
      [] serv = "serv06" -> wk' = [wk EXCEPT ![w] = Unborn] /\ UNCHANGED par
      [] serv = "serv05" -> /\ wk' = [wk EXCEPT ![w] = Idle]
                            /\ par' = [par EXCEPT !.byte[w] = @ + 1]
      [] OTHER -> /\ wk' = [wk EXCEPT ![w] = Idle]
                  /\ par' = IF serv = "serv00" THEN [par EXCEPT !.pc = "wait"] ELSE par

\* web_child: Readline returned 0.
WebEof(w) ==
    /\ Alive /\ wk[w].st = "busy" /\ cl[wk[w].conn] = "closed"
    /\ AfterClient(w)
    /\ UNCHANGED <<serv, cl, backlog, lock, got>>

\* web_child: Readline fails on a reset connection and err_sys exits the
\* process, which is the whole server where the worker is a thread of it.
WebFails(w) ==
    /\ Alive /\ wk[w].st = "busy" /\ cl[wk[w].conn] = "reset"
    /\ IF D.worker = "child"
       THEN /\ wk' = [wk EXCEPT ![w] = IF serv = "serv01" THEN [st |-> "zombie", conn |-> NoConn]
                                       ELSE Gone]
            /\ par' = [par EXCEPT !.chld = TRUE]
       ELSE /\ wk' = [x \in Workers |-> Gone]
            /\ par' = [par EXCEPT !.up = "failed"]
    /\ UNCHANGED <<serv, cl, backlog, lock, got>>

-----------------------------------------------------------------------------
(* serv00, serv01, serv06: the main loop accepts and hands over.           *)

AcceptMain ==
    /\ Alive /\ D.take = "given" /\ par.pc = "wait" /\ backlog # <<>>
    /\ \E w \in Workers :
          /\ wk[w].st \in {"unborn", "idle"}
          /\ wk' = [wk EXCEPT ![w] = Busy(Head(backlog))]
          /\ Give(Head(backlog), w)
    /\ backlog' = Tail(backlog)
    /\ par' = [par EXCEPT !.pc = IF serv = "serv00" THEN "serving" ELSE "wait"]
    /\ UNCHANGED <<serv, cl, lock>>

WaitOnce ==
    /\ Alive /\ serv = "serv01" /\ par.chld
    /\ par' = [par EXCEPT !.chld = FALSE]
    /\ \E w \in Workers : wk[w].st = "zombie" /\ wk' = [wk EXCEPT ![w] = Unborn]
    /\ UNCHANGED <<serv, cl, backlog, lock, got>>

\* sig_chld: one pending signal stands for any number of dead children, and
\* waitpid is called until it finds no more.
SigChld ==
    /\ Alive /\ serv = "serv01" /\ par.chld
    /\ par' = [par EXCEPT !.chld = FALSE]
    /\ wk' = [w \in Workers |-> IF wk[w].st = "zombie" THEN Unborn ELSE wk[w]]
    /\ UNCHANGED <<serv, cl, backlog, lock, got>>

-----------------------------------------------------------------------------
(* serv05: the parent selects, accepts and passes the descriptor.          *)

\* A stream pipe is readable when the child wrote its byte, or is gone.
Readable(w) == par.byte[w] > 0 \/ wk[w].st = "gone"

\* if (navail <= 0) FD_CLR(listenfd, &rset); nsel = Select(...).
Serv5Select ==
    LET pipes == {w \in Workers : Readable(w)}
        lis == par.navail > 0 /\ backlog # <<>>
    IN /\ Alive /\ serv = "serv05" /\ par.pc = "wait"
       /\ pipes # {} \/ lis
       /\ par' = [par EXCEPT !.pc = IF lis THEN "accept" ELSE "scan",
                             !.rset = pipes]
       /\ UNCHANGED <<serv, cl, backlog, wk, lock, got>>

\* Accept, then the first child whose child_status is 0 gets the descriptor.
Serv5Accept ==
    LET free == {w \in Workers : par.status[w] = 0}
        i == CHOOSE w \in free : \A x \in free : w <= x
    IN /\ Alive /\ serv = "serv05" /\ par.pc = "accept" /\ backlog # <<>>
       /\ backlog' = Tail(backlog)
       /\ IF free = {}
          THEN par' = [par EXCEPT !.up = "no available children"] /\ UNCHANGED <<wk, got>>
          ELSE /\ par' = [Count(par, i) EXCEPT !.status[i] = 1, !.navail = @ - 1,
                                     !.pc = IF par.rset = {} THEN "wait" ELSE "scan"]
               /\ wk' = [wk EXCEPT ![i] = Busy(Head(backlog))]
               /\ Give(Head(backlog), i)
       /\ UNCHANGED <<serv, cl, lock>>

ScanKeepsStatus ==
    LET i == CHOOSE w \in par.rset : \A x \in par.rset : w <= x
    IN /\ Alive /\ serv = "serv05" /\ par.pc = "scan" /\ par.byte[i] > 0
       /\ par' = [par EXCEPT !.navail = @ + 1, !.byte[i] = @ - 1, !.rset = @ \ {i},
                             !.pc = IF par.rset = {i} THEN "wait" ELSE "scan"]
       /\ UNCHANGED <<serv, cl, backlog, wk, lock, got>>

\* One newly-available child of the loop over cptr: read its byte.
Serv5Scan ==
    LET i == CHOOSE w \in par.rset : \A x \in par.rset : w <= x
    IN /\ Alive /\ serv = "serv05" /\ par.pc = "scan"
       /\ IF par.byte[i] = 0
          THEN par' = [par EXCEPT !.up = "child terminated"]
          ELSE par' = [par EXCEPT !.status[i] = 0, !.navail = @ + 1, !.byte[i] = @ - 1,
                                  !.rset = @ \ {i},
                                  !.pc = IF par.rset = {i} THEN "wait" ELSE "scan"]
       /\ UNCHANGED <<serv, cl, backlog, wk, lock, got>>

\* child_main of child05.c: the pipe of a parent that is no more reads as
\* end of file, err_quit("read_fd returned 0").
Serv5Orphan(w) ==
    /\ serv = "serv05" /\ par.up \in {"no available children", "child terminated"}
    /\ wk[w].st = "idle"
    /\ wk' = [wk EXCEPT ![w] = Gone]
    /\ UNCHANGED <<serv, cl, backlog, lock, par, got>>

-----------------------------------------------------------------------------
(* serv08: the main thread accepts, the threads take from the ring.        *)

\* Accept, and the store into clifd under the mutex.
Serv8Accept ==
    LET put == (par.iput + 1) % MAXNCLI
    IN /\ Alive /\ serv = "serv08" /\ par.pc = "wait" /\ backlog # <<>>
       /\ backlog' = Tail(backlog)
       /\ IF put = par.iget
          THEN /\ par' = [par EXCEPT !.ring[par.iput] = Head(backlog), !.iput = put,
                                     !.up = "ring full"]
               /\ wk' = [w \in Workers |-> Gone]
          ELSE /\ par' = [par EXCEPT !.ring[par.iput] = Head(backlog), !.iput = put,
                                     !.pc = "signal"]
               /\ UNCHANGED wk
       /\ UNCHANGED <<serv, cl, lock, got>>

NoSignal ==
    /\ Alive /\ serv = "serv08" /\ par.pc = "signal"
    /\ par' = [par EXCEPT !.pc = "wait"]
    /\ UNCHANGED <<serv, cl, backlog, wk, lock, got>>

\* Pthread_cond_signal wakes one sleeper, if there is one, and unlock.
Serv8Signal ==
    /\ Alive /\ serv = "serv08" /\ par.pc = "signal"
    /\ \/ par.asleep = {} /\ par' = [par EXCEPT !.pc = "wait"] /\ UNCHANGED wk
       \/ \E w \in par.asleep : /\ par' = [par EXCEPT !.pc = "wait", !.asleep = @ \ {w}]
                                /\ wk' = [wk EXCEPT ![w].st = "idle"]
    /\ UNCHANGED <<serv, cl, backlog, lock, got>>

TakeTwice(w) ==
    /\ Alive /\ serv = "serv08" /\ wk[w].st = "idle" /\ par.pc = "wait"
    /\ par.iget # par.iput
    /\ wk' = [wk EXCEPT ![w] = Busy(par.ring[par.iget])]
    /\ Give(par.ring[par.iget], w)
    /\ par' = Count(par, w)
    /\ UNCHANGED <<serv, cl, backlog, lock>>

\* thread_main of pthread08.c: while (iget == iput) wait; else take the next.
\* The mutex is the main thread's between its store and its signal.
Serv8Take(w) ==
    /\ Alive /\ serv = "serv08" /\ wk[w].st = "idle" /\ par.pc = "wait"
    /\ IF par.iget = par.iput
       THEN /\ par' = [par EXCEPT !.asleep = @ \cup {w}]
            /\ wk' = [wk EXCEPT ![w].st = "asleep"]
            /\ UNCHANGED got
       ELSE /\ par' = [Count(par, w) EXCEPT !.iget = (@ + 1) % MAXNCLI]
            /\ wk' = [wk EXCEPT ![w] = Busy(par.ring[par.iget])]
            /\ Give(par.ring[par.iget], w)
    /\ UNCHANGED <<serv, cl, backlog, lock>>

-----------------------------------------------------------------------------
(* sig_int: the preforked parents kill every child, wait for all of them   *)
(* and exit; the others just exit.                                         *)

SigInt ==
    /\ Alive
    /\ IF D.sigint = "kill"
       THEN par' = [par EXCEPT !.up = "killing", !.waitfor = N]
       ELSE par' = [par EXCEPT !.up = "exited"]
    /\ wk' = IF D.worker = "child" THEN wk ELSE [w \in Workers |-> Gone]
    /\ UNCHANGED <<serv, cl, backlog, lock, got>>

\* A SIGTERM is delivered to a child; the kernel drops its fcntl lock.
KillChild(w) ==
    /\ par.up = "killing" /\ wk[w].st \notin {"gone", "reaped"}
    /\ wk' = [wk EXCEPT ![w] = Gone]
    /\ lock' = IF D.lock = "fcntl" /\ lock = w THEN 0 ELSE lock
    /\ UNCHANGED <<serv, cl, backlog, par, got>>

ReapOne ==
    /\ par.up = "killing"
    /\ \E w \in Workers : wk[w].st = "gone" /\ wk' = [wk EXCEPT ![w].st = "reaped"]
    /\ par' = [par EXCEPT !.up = "exited"]
    /\ UNCHANGED <<serv, cl, backlog, lock, got>>

\* while (wait(NULL) > 0): one more dead child; ECHILD ends the loop.
ReapChild ==
    /\ par.up = "killing"
    /\ \/ \E w \in Workers : /\ wk[w].st = "gone"
                             /\ wk' = [wk EXCEPT ![w].st = "reaped"]
                             /\ par' = [par EXCEPT !.waitfor = @ - 1]
       \/ /\ \A w \in Workers : wk[w].st = "reaped"
          /\ par' = [par EXCEPT !.up = "exited"] /\ UNCHANGED wk
    /\ UNCHANGED <<serv, cl, backlog, lock, got>>

WorkerStep(w) ==
    \/ child02(w) \/ child02l(w) \/ child02m(w) \/ child03(w) \/ child03m(w) \/ child04(w)
    \/ pthread07(w) \/ pthread09(w) \/ WebReply(w) \/ WebEof(w) \/ WebFails(w)
    \/ Serv5Orphan(w) \/ Serv8Take(w) \/ KillChild(w)

MainStep ==
    \/ AcceptMain \/ SigChld \/ Serv5Select \/ Serv5Accept \/ Serv5Scan
    \/ Serv8Accept \/ Serv8Signal \/ ReapChild

Next ==
    \/ \E c \in Clients : Connect(c) \/ ClientClose(c) \/ ClientReset(c)
    \/ \E w \in Workers : WorkerStep(w)
    \/ MainStep
    \/ SigInt

\* Every process and thread keeps running; a client closes once it has its
\* answer.  Nobody has to reset a connection or to interrupt the server.
Fairness ==
    /\ WF_vars(MainStep)
    /\ \A w \in Workers : WF_vars(WorkerStep(w)) /\ SF_vars(fcntl_lock_wait(w) \/ pthread_lock_wait(w))
    /\ \A c \in Clients : WF_vars(ClientClose(c))

Spec == Init /\ [][Next]_vars /\ Fairness

-----------------------------------------------------------------------------
\* serv05 counts right: the number of children the parent takes for free is
\* the number whose child_status is 0, and a child it takes for free has
\* neither a connection nor an unread byte, so its err_quit("no available
\* children") is never reached.
FreeChildrenAreFree ==
    serv = "serv05" =>
        /\ par.up # "no available children"
        /\ par.navail = Cardinality({w \in Workers : par.status[w] = 0})
        /\ (Alive => \A w \in Workers : par.status[w] = 0 => wk[w].st = "idle" /\ par.byte[w] = 0)

\* Every accepted connection is given to one worker only, and no two workers
\* are busy with the same connection: the ring of serv08, the descriptors of
\* serv05 and the accept locks hand each one over exactly once.
OneWorkerPerConnection ==
    /\ \A c \in Clients : Cardinality(got[c]) <= 1
    /\ \A v, w \in Workers : v # w /\ wk[v].conn = wk[w].conn => wk[v].conn = NoConn

\* The connections serv08 has accepted and not handed out are the slots from
\* iget up to iput, each once; the server stops instead of losing one.
RingIsWhole ==
    LET inUse == {i \in 0..MAXNCLI - 1 :
                     (i - par.iget) % MAXNCLI < (par.iput - par.iget) % MAXNCLI}
    IN serv = "serv08" /\ Alive =>
          \A i \in inUse : /\ par.ring[i] # NoConn
                           /\ got[par.ring[i]] = {} /\ par.ring[i] \notin Range(backlog)
                           /\ \A j \in inUse : par.ring[i] = par.ring[j] => i = j

\* The accept lock of serv03, serv04 and serv07 is never left with a worker
\* that has gone back to its client, or died under it.
LockHolderAccepts ==
    D.lock # "none" /\ Alive /\ lock # 0 => wk[lock].st \in {"accepting", "accepted"}

\* The interrupted parent of serv02-serv05 does not exit before every child
\* has been waited for.
NoOrphans ==
    D.sigint = "kill" /\ par.up = "exited" => \A w \in Workers : wk[w].st = "reaped"

\* The counters that sig_int prints are right: those kept in shared memory by
\* the children, by the parent of serv05 and by the threads all count each
\* connection of a worker once.  Only the one it has just accepted may still
\* be missing when the server is interrupted.
MeterIsRight ==
    LET given(w) == Cardinality({c \in Clients : w \in got[c]})
    IN  D.meter => \A w \in Workers :
            IF Alive THEN given(w) = par.count[w] + (IF wk[w].st = "accepted" THEN 1 ELSE 0)
            ELSE given(w) - par.count[w] \in {0, 1}

\* A client that asked is answered, unless it gives up or the server has
\* stopped or has lost all its workers.
Asked(c) == cl[c] = "asked"
NobodyLeft == ~Alive \/ \A w \in Workers : wk[w].st = "gone"
Served == \A c \in Clients : Asked(c) ~> (~Asked(c) \/ NobodyLeft)

\* serv01 leaves no zombie behind however many children end at once.
Zombie(w) == wk[w].st = "zombie"
ZombiesReaped == \A w \in Workers : Zombie(w) ~> (~Zombie(w) \/ ~Alive)

\* serv08 has no lost wakeup: a connection in the ring is taken.
RingFilled == serv = "serv08" /\ par.iget # par.iput
RingDrains == RingFilled ~> (~RingFilled \/ ~Alive)
=============================================================================
