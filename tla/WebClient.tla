----------------------------- MODULE WebClient -----------------------------
(***************************************************************************)
(* The web client that fetches a home page and then a list of files over   *)
(* at most maxnconn connections at a time: nonblock/web.c with select and  *)
(* nonblocking connects (prog 0), and threads/web01.c, web02.c and web03.c *)
(* with one thread per file, joined by thr_join, by polling ndone under a  *)
(* mutex, and by waiting on a condition variable.                          *)
(***************************************************************************)
EXTENDS Integers, FiniteSets

CONSTANTS NFiles, maxnconn

VARIABLES prog,         \* 0 for nonblock/web.c, 1..3 for threads/web0<prog>.c
          pc,           \* what main is doing
          flags,        \* file -> f_flags: 0 or the F_xxx bit that is set
          th,           \* file -> its thread (prog 1..3) or socket (prog 0)
          nconn, nlefttoconn, nlefttoread,
          ndone, mutex, \* of web02 and web03; the mutex is held by 0 (main), a thread, or -1
          rs,           \* files whose descriptor select returned (prog 0)
          i,            \* main's loop index
          fetched,      \* history: file -> how many times it was fetched
          early         \* history: web02 stored F_CONNECTING over a later flag

vars == <<prog, pc, flags, th, nconn, nlefttoconn, nlefttoread, ndone, mutex, rs, i,
          fetched, early>>

Files == 1..NFiles
counters == <<nconn, nlefttoconn, nlefttoread>>
free == -1

Init ==
    /\ prog \in 0..3
    /\ pc = "home"
    /\ flags = [f \in Files |-> "0"]
    /\ th = [f \in Files |-> "none"]
    /\ nconn = 0 /\ nlefttoconn = NFiles /\ nlefttoread = NFiles
    /\ ndone = 0 /\ mutex = free
    /\ rs = {} /\ i = 1
    /\ fetched = [f \in Files |-> 0]
    /\ early = FALSE

\* home_page(): the blocking fetch that comes first.
HomePage ==
    /\ pc = "home"
    /\ pc' = "start"
    /\ UNCHANGED <<prog, flags, th, counters, ndone, mutex, rs, i, fetched, early>>

home_page == prog = 0 /\ HomePage
home_page01 == prog = 1 /\ HomePage
home_page02 == prog = 2 /\ HomePage
home_page03 == prog = 3 /\ HomePage

Unstarted == {f \in Files : flags[f] = "0"}
First(S) == CHOOSE f \in S : \A g \in S : f <= g
MayStart == nconn < maxnconn /\ nlefttoconn > 0

\* nconn++; nlefttoconn--.
CountStart ==
    /\ nconn' = nconn + 1 /\ nlefttoconn' = nlefttoconn - 1
    /\ UNCHANGED nlefttoread

CountEndOfConnection == nconn' = nconn - 1 /\ UNCHANGED <<nlefttoread, nlefttoconn>>

\* nconn--; nlefttoread--.
CountEnd ==
    /\ nconn' = nconn - 1 /\ nlefttoread' = nlefttoread - 1
    /\ UNCHANGED nlefttoconn

ExitWhenStarted == pc' = IF nlefttoconn' > 0 THEN "start" ELSE "exited"

\* The while condition at the end of an iteration.
LoopOrExit == pc' = IF nlefttoread' > 0 THEN "start" ELSE "exited"

-----------------------------------------------------------------------------
(* web01.c, web02.c, web03.c: starting the threads.                        *)

\* web01 and web03 set F_CONNECTING and create the thread.
CreateThread ==
    /\ pc = "start" /\ MayStart /\ Unstarted # {}
    /\ flags' = [flags EXCEPT ![First(Unstarted)] = "connecting"]
    /\ th' = [th EXCEPT ![First(Unstarted)] = "connecting"]
    /\ CountStart
    /\ UNCHANGED <<prog, pc, ndone, mutex, rs, i, fetched, early>>

\* web02 creates the thread first ...
CreateThread02 ==
    /\ pc = "start" /\ prog = 2 /\ MayStart /\ Unstarted # {}
    /\ i' = First(Unstarted)
    /\ th' = [th EXCEPT ![First(Unstarted)] = "connecting"]
    /\ pc' = "mark"
    /\ UNCHANGED <<prog, flags, counters, ndone, mutex, rs, fetched, early>>

\* ... and then sets F_CONNECTING, whatever the thread has set meanwhile.
MarkConnecting02 ==
    /\ pc = "mark"
    /\ flags' = [flags EXCEPT ![i] = "connecting"]
    /\ early' = (early \/ flags[i] # "0")
    /\ CountStart
    /\ pc' = "start"
    /\ UNCHANGED <<prog, th, ndone, mutex, rs, i, fetched>>

-----------------------------------------------------------------------------
(* do_get_read() with write_get_cmd(), one thread per file.                *)

\* Tcp_connect and write_get_cmd: F_READING.
ThreadWrite(f) ==
    /\ th[f] = "connecting"
    /\ th' = [th EXCEPT ![f] = "reading"]
    /\ flags' = [flags EXCEPT ![f] = "reading"]
    /\ UNCHANGED <<prog, pc, counters, ndone, mutex, rs, i, fetched, early>>

\* The reply is read to its end: Close and F_DONE.  web01 returns at once.
ThreadEof(f) ==
    /\ th[f] = "reading"
    /\ th' = [th EXCEPT ![f] = IF prog = 1 THEN "exited" ELSE "flagged"]
    /\ flags' = [flags EXCEPT ![f] = "done"]
    /\ fetched' = [fetched EXCEPT ![f] = @ + 1]
    /\ UNCHANGED <<prog, pc, counters, ndone, mutex, rs, i, early>>

\* ndone++ under ndone_mutex, in web03 also Pthread_cond_signal.
ThreadCount(f) ==
    /\ th[f] = "flagged" /\ mutex = free
    /\ ndone' = ndone + 1
    /\ th' = [th EXCEPT ![f] = "exited"]
    /\ pc' = IF prog = 3 /\ pc = "asleep" THEN "woken" ELSE pc
    /\ UNCHANGED <<prog, flags, counters, mutex, rs, i, fetched, early>>

do_get_read01(f) == prog = 1 /\ (ThreadWrite(f) \/ ThreadEof(f))
do_get_read02(f) == prog = 2 /\ (ThreadWrite(f) \/ ThreadEof(f) \/ ThreadCount(f))
do_get_read03(f) == prog = 3 /\ (ThreadWrite(f) \/ ThreadEof(f) \/ ThreadCount(f))

-----------------------------------------------------------------------------
(* Collecting the threads.                                                 *)

\* web01: thr_join(0, ...) waits for any thread.
JoinAny ==
    /\ pc = "start" /\ prog = 1 /\ ~MayStart
    /\ \E f \in Files : th[f] = "exited" /\ th' = [th EXCEPT ![f] = "joined"]
    /\ CountEnd
    /\ LoopOrExit
    /\ UNCHANGED <<prog, flags, ndone, mutex, rs, i, fetched, early>>

\* web02, web03: Pthread_mutex_lock(&ndone_mutex).
LockMain ==
    /\ pc = "start" /\ ~MayStart
    /\ mutex = free
    /\ mutex' = 0 /\ pc' = "test"
    /\ UNCHANGED <<prog, flags, th, counters, ndone, rs, i, fetched, early>>

\* web02: if (ndone > 0) scan the files.
TestDone02 ==
    /\ pc = "test" /\ prog = 2
    /\ i' = 1
    /\ pc' = IF ndone > 0 THEN "scan" ELSE "unlock"
    /\ UNCHANGED <<prog, flags, th, counters, ndone, mutex, rs, fetched, early>>

\* web03: while (ndone == 0) Pthread_cond_wait.
TestDone03 ==
    /\ pc = "test" /\ prog = 3
    /\ i' = 1
    /\ IF ndone = 0 THEN pc' = "asleep" /\ mutex' = free
                    ELSE pc' = "scan" /\ UNCHANGED mutex
    /\ UNCHANGED <<prog, flags, th, counters, ndone, rs, fetched, early>>

\* Pthread_cond_wait returns with the mutex, and ndone is tested again.
Reacquire ==
    /\ pc = "woken" /\ mutex = free
    /\ mutex' = 0 /\ pc' = "test"
    /\ UNCHANGED <<prog, flags, th, counters, ndone, rs, i, fetched, early>>

\* One turn of the for loop: pthread_join blocks until the thread is gone.
ScanFile ==
    /\ pc = "scan" /\ i <= NFiles
    /\ IF flags[i] = "done"
       THEN /\ th[i] = "exited"
            /\ th' = [th EXCEPT ![i] = "joined"]
            /\ flags' = [flags EXCEPT ![i] = "joined"]
            /\ ndone' = ndone - 1
            /\ CountEnd
       ELSE UNCHANGED <<th, flags, ndone, counters>>
    /\ i' = i + 1
    /\ UNCHANGED <<prog, pc, mutex, rs, fetched, early>>

UnlockMain ==
    /\ pc = "unlock" \/ (pc = "scan" /\ i > NFiles)
    /\ mutex' = free
    /\ pc' = IF nlefttoread > 0 THEN "start" ELSE "exited"
    /\ UNCHANGED <<prog, flags, th, counters, ndone, rs, i, fetched, early>>

main01 == prog = 1 /\ (CreateThread \/ JoinAny)
main02 == prog = 2 /\ (\/ CreateThread02 \/ MarkConnecting02 \/ LockMain \/ TestDone02
                      \/ ScanFile \/ UnlockMain)
main03 == prog = 3 /\ (\/ CreateThread \/ LockMain \/ TestDone03 \/ Reacquire
                      \/ ScanFile \/ UnlockMain)

-----------------------------------------------------------------------------
(* nonblock/web.c: th is the state of the socket.                          *)

\* start_connect: the connect is in progress, already done, or has failed.
start_connect ==
    LET f == First(Unstarted)
    IN /\ pc = "start" /\ prog = 0 /\ MayStart /\ Unstarted # {}
       /\ \/ /\ flags' = [flags EXCEPT ![f] = "connecting"] /\ th' = [th EXCEPT ![f] = "pending"]
             /\ CountStart /\ UNCHANGED pc
          \/ /\ flags' = [flags EXCEPT ![f] = "reading"] /\ th' = [th EXCEPT ![f] = "up"]
             /\ CountStart /\ UNCHANGED pc
          \/ pc' = "connect error" /\ UNCHANGED <<flags, th, counters>>
       /\ UNCHANGED <<prog, ndone, mutex, rs, i, fetched, early>>

\* The network: a pending connect succeeds or fails, data or the end arrives.
Peer(f) ==
    /\ prog = 0
    /\ \/ th[f] = "pending" /\ \E s \in {"up", "refused"} : th' = [th EXCEPT ![f] = s]
       \/ th[f] = "up" /\ flags[f] = "reading" /\ th' = [th EXCEPT ![f] = "eof"]
    /\ UNCHANGED <<prog, pc, flags, counters, ndone, mutex, rs, i, fetched, early>>

\* A connected or failed socket is writable, one at end of file is readable.
Ready(f) ==
    \/ flags[f] = "connecting" /\ th[f] \in {"up", "refused"}
    \/ flags[f] = "reading" /\ th[f] = "eof"

SelectFiles ==
    /\ pc = "start" /\ prog = 0 /\ ~MayStart
    /\ \E f \in Files : Ready(f)
    /\ rs' = {f \in Files : Ready(f)}
    /\ pc' = "ready" /\ i' = 1
    /\ UNCHANGED <<prog, flags, th, counters, ndone, mutex, fetched, early>>

\* The GET is written; on a socket whose connect failed this ends the program.
write_get_cmd(f) ==
    /\ flags' = [flags EXCEPT ![f] = "reading"]
    /\ pc' = IF th[f] = "refused" THEN "write error" ELSE pc
    /\ UNCHANGED <<th, counters, fetched>>

\* One turn of the loop over the files.  A failed connect is only reported
\* (err_ret) before write_get_cmd is called.
ServiceFile ==
    /\ pc = "ready" /\ i <= NFiles
    /\ CASE i \in rs /\ flags[i] = "connecting" -> write_get_cmd(i)
         [] i \in rs /\ flags[i] = "reading" ->
              /\ flags' = [flags EXCEPT ![i] = "done"]
              /\ th' = [th EXCEPT ![i] = "joined"]
              /\ fetched' = [fetched EXCEPT ![i] = @ + 1]
              /\ CountEnd
              /\ UNCHANGED pc
         [] OTHER -> UNCHANGED <<flags, th, counters, fetched, pc>>
    /\ i' = i + 1
    /\ UNCHANGED <<prog, ndone, mutex, rs, early>>

ServiceEnd ==
    /\ pc = "ready" /\ i > NFiles
    /\ pc' = IF nlefttoread > 0 THEN "start" ELSE "exited"
    /\ UNCHANGED <<prog, flags, th, counters, ndone, mutex, rs, i, fetched, early>>

main == start_connect \/ SelectFiles \/ ServiceFile \/ ServiceEnd

-----------------------------------------------------------------------------
Main == home_page \/ home_page01 \/ home_page02 \/ home_page03 \/ main \/ main01 \/ main02 \/ main03

Thread(f) == do_get_read01(f) \/ do_get_read02(f) \/ do_get_read03(f) \/ Peer(f)

Next == Main \/ \E f \in Files : Thread(f)

\* main and the threads run, the servers answer, and a thread that keeps
\* finding the mutex free now and then gets it in the end.
Fairness ==
    /\ WF_vars(Main)
    /\ \A f \in Files : WF_vars(Thread(f)) /\ SF_vars(ThreadCount(f))

Spec == Init /\ [][Next]_vars /\ Fairness

-----------------------------------------------------------------------------
\* The counters agree with the files: nlefttoconn files are not started, so
\* err_quit("... nothing found") is dead code, nconn connections are open and
\* never more than maxnconn, and nlefttoread files are not finished.
CountersAgree ==
    LET started == {f \in Files : th[f] # "none"} \ (IF pc = "mark" THEN {i} ELSE {})
        open == {f \in started : th[f] # "joined"}
    IN /\ nlefttoconn = NFiles - Cardinality(started)
       /\ nconn = Cardinality(open) /\ nconn <= maxnconn
       /\ nlefttoread = NFiles - Cardinality(started \ open)
       /\ pc = "start" /\ MayStart => Unstarted # {}

\* Nothing is fetched twice, and a client that exits normally has fetched all.
EachFileOnce ==
    \A f \in Files : fetched[f] <= 1 /\ (pc = "exited" => fetched[f] = 1)

TooEarly == early \/ (pc = "scan" /\ i <= NFiles /\ flags[i] = "done" /\ th[i] = "flagged")
Ended == pc \in {"exited", "write error", "connect error"}

\* Every client gets to its exit(0), as long as main never acts on the flag
\* of a file at the wrong moment: web02 storing F_CONNECTING over what the
\* new thread has set already, and web02 and web03 joining, with the mutex
\* held, a thread that has set F_DONE and waits for that mutex to count
\* itself.  (A nonblocking connect that fails ends nonblock/web.c.)
Finishes == TRUE ~> (Ended \/ TooEarly)
=============================================================================
