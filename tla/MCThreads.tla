----------------------------- MODULE MCThreads -----------------------------
(***************************************************************************)
(* Programs whose threads, processes and signal handlers share something:  *)
(* clients and servers of unpv13e, thread examples of apue.3e and          *)
(* unpv13e, processes that open a database, and printd reading the         *)
(* printer's answer.  One of them runs in a behaviour; their variables     *)
(* share the v's, but for FooTable, JobQueue, SigioQueue and DbOpen, which *)
(* keep their own.                                                         *)
(***************************************************************************)
EXTENDS FooTable, JobQueue, SigioQueue, DbOpen

VARIABLE prog  \* the program that runs
VARIABLES v1, v2, v3, v4, v5, v6, v7, v8, v9, v10, v11, v12, v13, v14, v15,
          v16, v17

pool == <<v1, v2, v3, v4, v5, v6, v7, v8, v9, v10, v11, v12, v13, v14, v15,
          v16, v17>>
vars == <<prog, pool, fvars, qvars, svars, ovars>>

\* StrCli and EchoServers: the programs; ThreadQueues: the examples.
Versions == {"str_cli08", "str_cli09", "str_cli11", "select01", "select02", "strcliselect02",
             "poll03", "kqueue04", "nonb", "fork", "thread", "thread2"}
Servers == {"select01", "poll01", "serv01", "serv02", "serv03", "serv04", "serv08", "serv09",
            "udpselect"}
Programs == {"counter1", "counter2", "buffer", "condvar", "suspend", "pollmsg", "pollmsg2"}

\* Signals: the programs that take signals.
SignalUses == {"sleep1", "tsleep2", "read1", "read2", "critical", "suspend1", "suspend2", "mask",
               "abort", "systest1", "systest2", "sigtstp", "child", "reread", "reread2"}

\* JobQueue: the thread of each job.
Handler == [j \in Jobs |-> IF j = "j2" THEN "t2" ELSE "t1"]

Sc == INSTANCE StrCli
    WITH v <- v1, pc <- v2, left <- v3, avail <- v4, sbuf <- v5, rbuf <- v6,
         ready <- v7, eof <- v8, toNet <- v9, fin <- v10, frNet <- v11,
         sfin <- v12, crashed <- v13, printed <- v14, buf <- v15,
         copier <- v16, stuck <- v17, Versions <- Versions, K <- 3,
         MAXLINE <- 2
Es == INSTANCE EchoServers
    WITH srv <- v1, pc <- v2, conn <- v3, unread <- v4, sent <- v5,
         echoed <- v6, backlog <- v7, slot <- v8, maxi <- v9, revents <- v10,
         nready <- v11, i <- v12, lis <- v13, kids <- v14, chld <- v15,
         udp <- v16, Servers <- Servers, Clients <- {1, 2, 3},
         Forked <- {1, 2}, SETSIZE <- 2, MaxLines <- 1
Tq == INSTANCE ThreadQueues
    WITH prog <- v1, pc <- v2, lock <- v3, asleep <- v4, q <- v5, b <- v6,
         val <- v7, made <- v8, got <- v9, wire <- v10, spurious <- v11,
         Programs <- Programs, NLOOP <- 3, BUFFSIZE <- 2
Tt == INSTANCE ThreadTools
    WITH use <- v1, pc <- v2, nums <- v3, snums <- v4, idx <- v5,
         minidx <- v6, waiters <- v7, when <- v8, to <- v9, called <- v10,
         env <- v11, vals <- v12, NTHR <- 2, TNUM <- 2, MaxNum <- 3,
         LONG_MAX <- 3, SECTONSEC <- 3
Wc == INSTANCE WebClient
    WITH prog <- v1, pc <- v2, flags <- v3, th <- v4, nconn <- v5,
         nlefttoconn <- v6, nlefttoread <- v7, ndone <- v8, mutex <- v9,
         rs <- v10, i <- v11, fetched <- v12, early <- v13, NFiles <- 3,
         maxnconn <- 2
Ps == INSTANCE PrinterStatus
    WITH stream <- v1, len <- v2, pos <- v3, cut <- v4, buf <- v5, i <- v6,
         datsz <- v7, st <- v8, success <- v9
Sg == INSTANCE Signals
    WITH use <- v1, stack <- v2, mask <- v3, pend <- v4, disp <- v5,
         timer <- v6, state <- v7, v <- v8, jmp <- v9, child <- v10,
         g <- v11, sent <- v12, bsd <- v13, Uses <- SignalUses, MaxSent <- 3
Pr == INSTANCE Processes
    WITH use <- v1, pc <- v2, st <- v3, i <- v4, pipe <- v5, mem <- v6,
         lock <- v7, out <- v8, buf <- v9, fd <- v10, childpid <- v11,
         err <- v12, NLOOPS <- 4, Lines <- <<"12", "bad">>, MaxFd <- 5,
         MaxOpens <- 2

-----------------------------------------------------------------------------
\* The variables a program does not have keep one value.
Unused == v1 = 0 /\ v2 = 0 /\ v3 = 0 /\ v4 = 0 /\ v5 = 0 /\ v6 = 0 /\ v7 = 0 /\ v8 = 0 /\ v9 = 0 /\ v10 = 0 /\ v11 = 0 /\ v12 = 0 /\ v13 = 0 /\ v14 = 0 /\ v15 = 0 /\ v16 = 0 /\ v17 = 0
Init ==
    /\ FInit
    /\ QInit /\ j_id = Handler
    /\ SInit
    /\ OInit
    /\ \/ prog = "StrCli" /\ Sc!Init
       \/ prog = "EchoServers" /\ Es!Init /\ v17 = 0
       \/ prog = "ThreadQueues" /\ Tq!Init /\ v12 = 0 /\ v13 = 0 /\ v14 = 0 /\
          v15 = 0 /\ v16 = 0 /\ v17 = 0
       \/ prog = "ThreadTools" /\ Tt!Init /\ v13 = 0 /\ v14 = 0 /\ v15 = 0 /\
          v16 = 0 /\ v17 = 0
       \/ prog = "WebClient" /\ Wc!Init /\ v14 = 0 /\ v15 = 0 /\ v16 = 0 /\ v17
          = 0
       \/ prog = "PrinterStatus" /\ Ps!Init /\ v10 = 0 /\ v11 = 0 /\ v12 = 0 /\
          v13 = 0 /\ v14 = 0 /\ v15 = 0 /\ v16 = 0 /\ v17 = 0
       \/ prog = "Signals" /\ Sg!Init /\ v14 = 0 /\ v15 = 0 /\ v16 = 0 /\ v17 =
          0
       \/ prog = "Processes" /\ Pr!Init /\ v13 = 0 /\ v14 = 0 /\ v15 = 0 /\ v16
          = 0 /\ v17 = 0
       \/ prog = "FooTable" /\ Unused
       \/ prog = "JobQueue" /\ Unused
       \/ prog = "SigioQueue" /\ Unused
       \/ prog = "DbOpen" /\ Unused
    /\ prog # "FooTable" => version = 1
Next ==
    \/ prog = "StrCli" /\ Sc!Next /\ UNCHANGED <<prog, fvars, qvars, svars, ovars>>
    \/ prog = "EchoServers" /\ Es!Next /\ UNCHANGED <<prog, v17, fvars, qvars,
       svars, ovars>>
    \/ prog = "ThreadQueues" /\ Tq!Next /\ UNCHANGED <<prog, v12, v13, v14,
       v15, v16, v17, fvars, qvars, svars, ovars>>
    \/ prog = "ThreadTools" /\ Tt!Next /\ UNCHANGED <<prog, v13, v14, v15, v16,
       v17, fvars, qvars, svars, ovars>>
    \/ prog = "WebClient" /\ Wc!Next /\ UNCHANGED <<prog, v14, v15, v16, v17,
       fvars, qvars, svars, ovars>>
    \/ prog = "PrinterStatus" /\ Ps!Next /\ UNCHANGED <<prog, v10, v11, v12,
       v13, v14, v15, v16, v17, fvars, qvars, svars, ovars>>
    \/ prog = "Signals" /\ Sg!Next /\ UNCHANGED <<prog, v14, v15, v16, v17,
       fvars, qvars, svars, ovars>>
    \/ prog = "Processes" /\ Pr!Next /\ UNCHANGED <<prog, v13, v14, v15, v16,
       v17, fvars, qvars, svars, ovars>>
    \/ prog = "FooTable" /\ FNext /\ UNCHANGED <<prog, pool, qvars, svars, ovars>>
    \/ prog = "JobQueue" /\ QNext /\ UNCHANGED <<prog, pool, fvars, svars, ovars>>
    \/ prog = "SigioQueue" /\ SNext /\ UNCHANGED <<prog, pool, fvars, qvars, ovars>>
    \/ prog = "DbOpen" /\ ONext /\ UNCHANGED <<prog, pool, fvars, qvars, svars>>

\* The variables the program does not have.
Rest(name) == CASE name = "StrCli" -> UNCHANGED <<prog, fvars, qvars, svars, ovars>>
                [] name = "EchoServers" -> UNCHANGED <<prog, v17, fvars, qvars, svars, ovars>>
                [] name = "ThreadQueues" -> UNCHANGED <<prog, v12, v13, v14, v15, v16, v17, fvars, qvars, svars, ovars>>
                [] name \in {"ThreadTools", "Processes"} -> UNCHANGED <<prog, v13, v14, v15, v16, v17, fvars, qvars, svars, ovars>>
                [] name \in {"WebClient", "Signals"} -> UNCHANGED <<prog, v14, v15, v16, v17, fvars, qvars, svars, ovars>>
                [] name = "PrinterStatus" -> UNCHANGED <<prog, v10, v11, v12, v13, v14, v15, v16, v17, fvars, qvars, svars, ovars>>
                [] name = "FooTable" -> UNCHANGED <<prog, pool, qvars, svars, ovars>>
                [] name = "JobQueue" -> UNCHANGED <<prog, pool, fvars, svars, ovars>>
                [] name = "SigioQueue" -> UNCHANGED <<prog, pool, fvars, qvars, ovars>>
Runs(name, step) == prog = name /\ step /\ Rest(name)

\* One program runs in a behaviour, so that the processes and threads of all
\* of them are stated together; each line of a conjunct is one of them.
Fairness ==
    /\ WF_vars(\/ Runs("StrCli", Sc!Running /\ Sc!ClientStep) \/ Runs("EchoServers", Es!ServerStep)
               \/ Runs("ThreadQueues", Tq!Main) \/ Runs("ThreadTools", Tt!BarrierMain \/ Tt!merge)
               \/ Runs("WebClient", Wc!Main) \/ Runs("PrinterStatus", Ps!Next)
               \/ Runs("JobQueue", job_find("t1")) \/ Runs("SigioQueue", dg_echo)
               \/ Runs("Signals", Sg!Program \/ Sg!Kernel) \/ Runs("Processes", Pr!Runs(1) \/ Pr!PcloseReturns))
    /\ WF_vars(\/ Runs("StrCli", Sc!Running /\ Sc!CopierStep) \/ Runs("EchoServers", Es!ChildEcho(1))
               \/ Runs("ThreadQueues", Tq!Helper) \/ Runs("ThreadTools", Tt!Unlock)
               \/ Runs("WebClient", Wc!Thread(1))
               \/ Runs("JobQueue", job_find("t2")) \/ Runs("SigioQueue", sig_io)
               \/ Runs("Processes", Pr!Runs(2) \/ Pr!CommandEnds(1)))
    /\ WF_vars(\/ Runs("StrCli", Sc!Type) \/ Runs("EchoServers", Es!ChildEcho(2))
               \/ Runs("ThreadQueues", Tq!Step(1)) \/ Runs("ThreadTools", Tt!timeout_helper)
               \/ Runs("WebClient", Wc!Thread(2))
               \/ Runs("Processes", Pr!Runs(3) \/ Pr!CommandEnds(2)))
    /\ WF_vars(\/ Runs("StrCli", Sc!Echo) \/ Runs("EchoServers", Es!SigChldWaitpid)
               \/ Runs("ThreadQueues", Tq!Step(2)) \/ Runs("WebClient", Wc!Thread(3))
               \/ Runs("ThreadTools", \E t \in 0..1 : Tt!thr_fn(t))
               \/ Runs("Processes", Pr!Runs(4)))
    /\ WF_vars(Runs("StrCli", Sc!EchoEnds))
    /\ SF_vars(\/ Runs("StrCli", Sc!OutputTaken) \/ Runs("FooTable", Inside("t1"))
               \/ Runs("WebClient", Wc!ThreadCount(1)))
    /\ SF_vars(\/ Runs("StrCli", Sc!AllSent) \/ Runs("FooTable", Inside("t2"))
               \/ Runs("WebClient", Wc!ThreadCount(2)))
    /\ SF_vars(Runs("WebClient", Wc!ThreadCount(3)))
Spec == Init /\ [][Next]_vars /\ Fairness

-----------------------------------------------------------------------------
\* The echo clients and servers lose and invent nothing.  StrCli: a client
\* that returns has printed every answer, but for strcliselect01 and a
\* standard output that refused data; "server terminated prematurely" is
\* true, but for strclithread2; the FIN follows the last line; no line is
\* lost or doubled in any buffer.  EchoServers: client[] holds every
\* connection once, below maxi; the handler that calls wait finds a zombie.
EchoSafe ==
    /\ prog = "StrCli" => /\ Sc!AllEchoed /\ Sc!PrematureMeansCrash
                          /\ Sc!FinIsLast /\ Sc!LinesConserved
    /\ prog = "EchoServers" => /\ Es!SlotsAgree /\ Es!WaitNeverBlocks

\* What one thread hands to another arrives once and in order.  ThreadQueues:
\* the counter of example02.c never repeats a value; the bounded buffer is
\* first in, first out; the messages of a queue are printed once and in
\* order.  ThreadTools: main merges sorted parts into a sorted whole; the
\* function is called once and not before its time; a caller of getenv keeps
\* its own value.  WebClient: nconn, nlefttoconn and nlefttoread agree with
\* the files; each file is fetched once.
HandOversSafe ==
    /\ prog = "ThreadQueues" => /\ Tq!CounterMonotone /\ Tq!BufferIsFifo
                                /\ Tq!MessagesInOrder
    /\ prog = "ThreadTools" => /\ Tt!MergeSorts /\ Tt!CalledOnTime
                               /\ Tt!OwnValue
    /\ prog = "WebClient" => /\ Wc!CountersAgree /\ Wc!EachFileOnce

\* Signal handlers and processes disturb nobody outside the moments they are
\* let in.  Signals: no handler of a blocked signal starts inside its region,
\* and the signal that came there is not lost; a jump goes to a frame that is
\* there, and leaves no handler unfinished but in sleep2; abort ends the
\* process by SIGABRT with its streams flushed, whatever the handler does; no
\* signal meant for the command of system reaches its caller, which gets its
\* mask and handlers back; sigtstp stops only with the terminal reset; a
\* daemon leads no session and has no terminal, SIGHUP does not end it, and
\* SIGTERM does not cut a reread short.  Processes: TELL and WAIT put parent
\* and child in turn; of two processes that would wait for each other's lock
\* one gets the error, and of two daemons one runs; the coprocess answers
\* each line once and in order; a command of popen has its end of its pipe,
\* and no other command holds it too.
SignalsSafe ==
    /\ prog = "Signals" => /\ Sg!RegionsHold /\ Sg!JumpsLand
                           /\ Sg!AbortAborts /\ Sg!SystemKeeps
                           /\ Sg!StopsClean /\ Sg!DaemonsLast
    /\ prog = "Processes" => /\ Pr!TakesTurns /\ Pr!LocksDecide
                             /\ Pr!AnswersInOrder /\ Pr!EndsInPlace

\* printer_status returns 1 exactly when the printer has said of this job
\* that it succeeded, if the response comes in one read, or header and body in
\* one read each, and is not mixed with a 100 before it (PrinterStatus).
StatusJudged == prog = "PrinterStatus" => Ps!JudgedRight

\* EchoServers: counting nready down overlooks no descriptor.  JobQueue: a
\* search finds the first job of its thread, as the queue is then.
NothingOverlooked == [][/\ prog = "EchoServers" => Es!ServesAll
                        /\ prog = "JobQueue" => FoundIsFirst]_vars

\* What process or thread k has begun, and when it is finished.
Thr(k) == IF k = 1 THEN "t1" ELSE "t2"
Begun(k) ==
    CASE prog = "StrCli" -> k = 1 /\ Sc!Running
      [] prog = "EchoServers" -> Es!Unechoed(k) \/ Es!Zombie(k)
      [] prog = "FooTable" -> k < 3 /\ Busy(Thr(k))
      [] prog = "ThreadQueues" -> k = 1 /\ Tq!Unhandled
      [] prog = "ThreadTools" -> k = 1 /\ Tt!Asked
      [] prog = "WebClient" -> k = 1
      [] prog = "PrinterStatus" -> k = 1 /\ Ps!InGoodCut
      [] prog = "JobQueue" -> k < 3 /\ at[Thr(k)] # "out"
      [] prog = "SigioQueue" -> k = 1 /\ echoed < arrived
      [] prog = "Signals" -> k = 1 /\ ~(Sg!Ended \/ Sg!Excused)
      [] prog = "Processes" -> (k = 1 /\ Pr!Closing) \/ (k = 2 /\ ~Pr!Settled)
      [] OTHER -> FALSE
Finished(k) ==
    CASE prog = "StrCli" -> ~Sc!Running
      [] prog = "EchoServers" -> (~Es!Unechoed(k) \/ ~Es!Up \/ Es!Blocked) /\ ~Es!Zombie(k)
      [] prog = "FooTable" -> ~Busy(Thr(k))
      [] prog = "ThreadQueues" -> Tq!Handled
      [] prog = "ThreadTools" -> Tt!HasBeenCalled
      [] prog = "WebClient" -> Wc!Ended \/ Wc!TooEarly
      [] prog = "PrinterStatus" -> Ps!HasReturned
      [] prog = "JobQueue" -> at[Thr(k)] = "out"
      [] prog = "SigioQueue" -> echoed = arrived \/ pc = "quit"
      [] prog = "Signals" -> Sg!Ended \/ Sg!Excused
      [] prog = "Processes" -> IF k = 1 THEN ~Pr!Closing ELSE Pr!Settled
      [] OTHER -> TRUE

\* Everything that was begun is finished: str_cli returns; the lines of
\* client k are echoed; calls of foo_alloc, foo_find and foo_rele return;
\* what was queued is handled; timeout calls the function; the web client
\* exits; printer_status returns if the answer is cut well; a search of the job queue
\* ends; a datagram is echoed; pclose returns.  A server that calls waitpid in
\* a loop leaves no zombie.  A program that waits with an alarm, for a signal,
\* a child or a lock ends, but for the waits that Signals and Processes name.
EverythingFinishes == \A k \in 1..3 : Begun(k) ~> Finished(k)
=============================================================================
