---------------------------- MODULE ThreadQueues ----------------------------
(***************************************************************************)
(* Threads that hand something over under a mutex and a condition          *)
(* variable:                                                               *)
(*   counter1, counter2  unpv13e threads/example01.c, example02.c          *)
(*   buffer              unpv13e threads/example03.c, a bounded buffer     *)
(*   condvar             apue threads/condvar.c, a work list               *)
(*   suspend             apue threadctl/suspend.c, a thread in sigwait     *)
(*   pollmsg, pollmsg2   apue ipc2/pollmsg.c, exercises/pollmsg2.c, helper *)
(*                       threads that turn message queues into descriptors *)
(* Thread 1 is the producer, helper or signal thread, 2 the consumer or    *)
(* main thread; the counters and enqueue_msg are run by both.              *)
(***************************************************************************)
EXTENDS Integers, Sequences, FiniteSets, Functions

CONSTANTS Programs,
          NLOOP,     \* items produced by each producer
          BUFFSIZE

VARIABLES prog,
          pc,        \* thread -> where it is
          lock,      \* holder of the mutex, 0 when free
          asleep,    \* threads in pthread_cond_wait
          q,         \* what is in the list, buffer, queue or shared variable
          b,         \* b_nitems, b_nextget, b_nextput, b_buf of the buffer
          val,       \* thread -> the item or value it carries
          made,      \* thread -> items it has produced
          got,       \* items consumed, in order
          wire,      \* bytes or messages in the socket pair
          spurious   \* history: a wait returned without a signal

vars == <<prog, pc, lock, asleep, q, b, val, made, got, wire, spurious>>

T == 1..2
Free == 0
rest == <<prog, q, b, val, made, got, wire, spurious>>

Init ==
    /\ prog \in Programs
    /\ pc = [t \in T |-> IF prog = "condvar" /\ t = 2 THEN "get" ELSE "top"]
    /\ lock = Free /\ asleep = {}
    /\ q = <<>>
    /\ b = [nitems |-> 0, get |-> 0, put |-> 0, buf |-> [i \in 0..BUFFSIZE - 1 |-> 0]]
    /\ val = [t \in T |-> 0] /\ made = [t \in T |-> 0]
    /\ got = <<>> /\ wire = <<>> /\ spurious = FALSE

Goto(t, l) == pc' = [pc EXCEPT ![t] = l]
\* pthread_cond_signal wakes one waiter, if there is one.
Signal == \/ asleep = {} /\ UNCHANGED asleep
          \/ \E t \in asleep : asleep' = asleep \ {t}
\* A thread that was woken has to get the mutex again before it goes on.
Waiting(t) == t \in asleep

-----------------------------------------------------------------------------
(* example01.c and example02.c: q holds nothing, b.nitems is the counter.  *)

FetchUnlocked(t) ==
    /\ prog \in {"counter1", "counter2"} /\ pc[t] = "top" /\ made[t] < NLOOP
    /\ val' = [val EXCEPT ![t] = b.nitems]
    /\ Goto(t, "store")
    /\ UNCHANGED <<prog, lock, asleep, q, b, made, got, wire, spurious>>

\* val = counter, in example02.c with counter_mutex locked.
Fetch(t) ==
    /\ prog \in {"counter1", "counter2"} /\ pc[t] = "top" /\ made[t] < NLOOP
    /\ prog = "counter2" => lock = Free
    /\ lock' = IF prog = "counter2" THEN t ELSE lock
    /\ val' = [val EXCEPT ![t] = b.nitems]
    /\ Goto(t, "store")
    /\ UNCHANGED <<prog, asleep, q, b, made, got, wire, spurious>>

\* printf, counter = val + 1, and the unlock.
Store(t) ==
    /\ pc[t] = "store"
    /\ b' = [b EXCEPT !.nitems = val[t] + 1]
    /\ got' = Append(got, val[t] + 1)
    /\ made' = [made EXCEPT ![t] = @ + 1]
    /\ lock' = IF prog = "counter2" THEN Free ELSE lock
    /\ Goto(t, "top")
    /\ UNCHANGED <<prog, asleep, q, val, wire, spurious>>

-----------------------------------------------------------------------------
(* example03.c                                                             *)

ProduceIntoFull ==
    /\ lock = Free /\ ~Waiting(1)
    /\ IF b.nitems > BUFFSIZE THEN asleep' = asleep \cup {1} /\ UNCHANGED <<b, made>>
       ELSE /\ b' = [b EXCEPT !.buf[b.put] = made[1], !.nitems = @ + 1,
                              !.put = IF @ + 1 >= BUFFSIZE THEN 0 ELSE @ + 1]
            /\ made' = [made EXCEPT ![1] = @ + 1]
            /\ asleep' = asleep \ {2}
    /\ UNCHANGED <<prog, pc, lock, q, val, got, wire, spurious>>

\* Wait while the buffer is full, else store and signal.
produce ==
    /\ lock = Free /\ ~Waiting(1)
    /\ IF b.nitems >= BUFFSIZE THEN asleep' = asleep \cup {1} /\ UNCHANGED <<b, made>>
       ELSE /\ b' = [b EXCEPT !.buf[b.put] = made[1], !.nitems = @ + 1,
                              !.put = IF @ + 1 >= BUFFSIZE THEN 0 ELSE @ + 1]
            /\ made' = [made EXCEPT ![1] = @ + 1]
            /\ asleep' = asleep \ {2}
    /\ UNCHANGED <<prog, pc, lock, q, val, got, wire, spurious>>

produce_loop == prog = "buffer" /\ made[1] < NLOOP /\ produce

\* Wait while it is empty, else fetch and signal.
consume ==
    /\ lock = Free /\ ~Waiting(2)
    /\ IF b.nitems <= 0 THEN asleep' = asleep \cup {2} /\ UNCHANGED <<b, got>>
       ELSE /\ got' = Append(got, b.buf[b.get])
            /\ b' = [b EXCEPT !.nitems = @ - 1,
                              !.get = IF @ + 1 >= BUFFSIZE THEN 0 ELSE @ + 1]
            /\ asleep' = asleep \ {1}
    /\ UNCHANGED <<prog, pc, lock, q, val, made, wire, spurious>>

consume_loop == prog = "buffer" /\ Len(got) < NLOOP /\ consume

-----------------------------------------------------------------------------
(* condvar.c: here both threads also work as consumers once they have      *)
(* produced; the signal comes after the unlock.                            *)

Enqueue(t) ==
    /\ prog = "condvar" /\ pc[t] = "top" /\ made[t] < NLOOP /\ lock = Free
    /\ q' = <<made[t]>> \o q
    /\ made' = [made EXCEPT ![t] = @ + 1]
    /\ Goto(t, "signal")
    /\ UNCHANGED <<prog, lock, asleep, b, val, got, wire, spurious>>

EnqueueSignal(t) ==
    /\ prog = "condvar" /\ pc[t] = "signal"
    /\ Signal
    /\ Goto(t, "top")
    /\ UNCHANGED <<lock, rest>>

\* process_msg: while (workq == NULL) wait; take the head.
ProcessMsg(t) ==
    /\ prog = "condvar" /\ lock = Free /\ ~Waiting(t)
    /\ pc[t] = "get" \/ (pc[t] = "top" /\ made[t] = NLOOP)
    /\ IF q = <<>> THEN asleep' = asleep \cup {t} /\ UNCHANGED <<q, got>>
       ELSE q' = Tail(q) /\ got' = Append(got, Head(q)) /\ UNCHANGED asleep
    /\ UNCHANGED <<prog, pc, lock, b, val, made, wire, spurious>>

-----------------------------------------------------------------------------
(* suspend.c: q is the pending signals, b.nitems the quitflag.             *)

Kill ==
    /\ prog = "suspend" /\ made[1] < NLOOP
    /\ \E s \in {"INT", "QUIT"} : ~(\E i \in 1..Len(q) : q[i] = s) /\ q' = Append(q, s)
    /\ made' = [made EXCEPT ![1] = @ + 1]
    /\ UNCHANGED <<prog, pc, lock, asleep, b, val, got, wire, spurious>>

\* thr_fn: sigwait, and for SIGQUIT set quitflag under the lock.
SigWait ==
    /\ prog = "suspend" /\ pc[1] = "top" /\ q # <<>>
    /\ IF Head(q) = "QUIT"
       THEN lock = Free /\ b' = [b EXCEPT !.nitems = 1] /\ Goto(1, "signal")
       ELSE UNCHANGED <<b, pc>>
    /\ q' = Tail(q)
    /\ got' = Append(got, Head(q))
    /\ UNCHANGED <<prog, lock, asleep, val, made, wire, spurious>>

\* pthread_cond_signal(&waitloc), and the thread returns.
SigSignal ==
    /\ prog = "suspend" /\ pc[1] = "signal"
    /\ Signal
    /\ Goto(1, "done")
    /\ UNCHANGED <<lock, rest>>

\* main: while (quitflag == 0) wait; then quitflag = 0 and exit.
MainQuit ==
    /\ prog = "suspend" /\ pc[2] = "top" /\ lock = Free /\ ~Waiting(2)
    /\ IF b.nitems = 0 THEN asleep' = asleep \cup {2} /\ UNCHANGED <<b, pc>>
       ELSE b' = [b EXCEPT !.nitems = 0] /\ Goto(2, "done") /\ UNCHANGED asleep
    /\ UNCHANGED <<prog, lock, q, val, made, got, wire, spurious>>

-----------------------------------------------------------------------------
(* pollmsg.c, pollmsg2.c: q is the message queue, val[1] the message       *)
(* buffer of the helper (shared with main in pollmsg2.c).                  *)

MsgSend ==
    /\ prog \in {"pollmsg", "pollmsg2"} /\ made[1] < NLOOP
    /\ q' = Append(q, made[1] + 1) /\ made' = [made EXCEPT ![1] = @ + 1]
    /\ UNCHANGED <<prog, pc, lock, asleep, b, val, got, wire, spurious>>

\* helper: msgrcv into the buffer.
MsgRcv ==
    /\ prog \in {"pollmsg", "pollmsg2"} /\ pc[1] = "top" /\ q # <<>>
    /\ val' = [val EXCEPT ![1] = Head(q)] /\ q' = Tail(q)
    /\ Goto(1, "write")
    /\ UNCHANGED <<prog, lock, asleep, b, made, got, wire, spurious>>

\* pollmsg.c writes the message itself.
HelperWrite ==
    /\ prog = "pollmsg" /\ pc[1] = "write"
    /\ wire' = Append(wire, val[1])
    /\ Goto(1, "top")
    /\ UNCHANGED <<prog, lock, asleep, q, b, val, made, got, spurious>>

HelperGoesOn ==
    /\ prog = "pollmsg2" /\ pc[1] = "write" /\ lock = Free
    /\ wire' = Append(wire, "a")
    /\ Goto(1, "top")
    /\ UNCHANGED <<prog, lock, asleep, q, b, val, made, got, spurious>>

\* pollmsg2.c: lock, write one byte, and wait for main to be done with it.
HelperWait ==
    /\ prog = "pollmsg2" /\ pc[1] = "write" /\ lock = Free
    /\ wire' = Append(wire, "a")
    /\ asleep' = asleep \cup {1}
    /\ Goto(1, "waiting")
    /\ UNCHANGED <<prog, lock, q, b, val, made, got, spurious>>

\* The wait has no loop around it: any return of it ends the turn.
HelperWoken ==
    /\ prog = "pollmsg2" /\ pc[1] = "waiting" /\ lock = Free /\ ~Waiting(1)
    /\ Goto(1, "top")
    /\ UNCHANGED <<lock, asleep, rest>>

\* pthread_cond_wait may return by itself; once is enough to look at.
SpuriousWakeup ==
    /\ ~spurious
    /\ \E t \in asleep : asleep' = asleep \ {t}
    /\ spurious' = TRUE
    /\ UNCHANGED <<prog, pc, lock, q, b, val, made, got, wire>>

\* main: poll says readable, read, and print the message.
MainPrint ==
    /\ prog \in {"pollmsg", "pollmsg2"} /\ pc[2] = "top" /\ wire # <<>>
    /\ wire' = Tail(wire)
    /\ got' = Append(got, IF prog = "pollmsg" THEN Head(wire) ELSE val[1])
    /\ Goto(2, IF prog = "pollmsg" THEN "top" ELSE "signal")
    /\ UNCHANGED <<prog, lock, asleep, q, b, val, made, spurious>>

\* pollmsg2.c: lock, pthread_cond_signal(&ti[i].ready), unlock.
MainSignal ==
    /\ prog = "pollmsg2" /\ pc[2] = "signal" /\ lock = Free
    /\ Signal
    /\ Goto(2, "top")
    /\ UNCHANGED <<lock, rest>>

-----------------------------------------------------------------------------
doit1(t) == prog = "counter1" /\ (Fetch(t) \/ Store(t))
doit2(t) == prog = "counter2" /\ (Fetch(t) \/ Store(t))
condvar(t) == Enqueue(t) \/ EnqueueSignal(t) \/ ProcessMsg(t)
suspend_thr_fn == SigWait \/ SigSignal
helper == prog = "pollmsg" /\ (MsgRcv \/ HelperWrite)
helper2 == prog = "pollmsg2" /\ (MsgRcv \/ HelperWait \/ HelperWoken)
pollmsg_main == prog = "pollmsg" /\ MainPrint
pollmsg2_main == prog = "pollmsg2" /\ (MainPrint \/ MainSignal)

Step(t) == doit1(t) \/ doit2(t) \/ condvar(t)
Helper == produce_loop \/ suspend_thr_fn \/ helper \/ helper2
Main == consume_loop \/ MainQuit \/ pollmsg_main \/ pollmsg2_main

Next == Helper \/ Main \/ Kill \/ MsgSend \/ SpuriousWakeup \/ \E t \in T : Step(t)

Fairness == WF_vars(Helper) /\ WF_vars(Main) /\ \A t \in T : WF_vars(Step(t))

Spec == Init /\ [][Next]_vars /\ Fairness

-----------------------------------------------------------------------------
\* "The value of the counter should increase monotonically" (the comment in
\* doit): it does with the mutex of example02.c, and not in example01.c.
CounterMonotone ==
    prog = "counter2" => \A i \in 1..Len(got) : got[i] = i

\* The buffer is first in first out at every size: the consumer gets the
\* producer's items in order, and b_nitems is what is between the indexes.
BufferIsFifo ==
    prog = "buffer" =>
        /\ \A i \in 1..Len(got) : got[i] = i - 1
        /\ b.nitems = made[1] - Len(got) /\ b.nitems \in 0..BUFFSIZE
        /\ (b.put - b.get) % BUFFSIZE = b.nitems % BUFFSIZE

\* Each message of a System V queue is printed once and in order.  pollmsg2.c
\* shares the message buffer between helper and main and relies on a wait
\* that does not return by itself.
MessagesInOrder ==
    prog = "pollmsg" \/ (prog = "pollmsg2" /\ ~spurious) =>
        /\ \A i \in 1..Len(got) : got[i] = i
        /\ Len(got) + Len(q) <= made[1]

\* Nothing is left behind: no wakeup is lost, whatever the order of signal,
\* unlock and wait, and also when a wait returns by itself.  The buffer and
\* the counters come to their end, the work list is emptied, SIGQUIT ends
\* main, every message is printed.
Unhandled ==
    \/ prog \in {"buffer", "counter1", "counter2"}
    \/ prog = "condvar" /\ q # <<>>
    \/ prog = "suspend" /\ pc[1] = "signal"
    \/ prog \in {"pollmsg", "pollmsg2"} /\ made[1] = NLOOP
Handled ==
    CASE prog \in {"counter1", "counter2"} -> \A t \in T : made[t] = NLOOP
      [] prog = "condvar" -> q = <<>>
      [] prog = "suspend" -> pc[2] = "done"
      [] prog = "pollmsg2" /\ spurious -> TRUE
      [] OTHER -> Len(got) = NLOOP
AllHandled == Unhandled ~> Handled
=============================================================================
