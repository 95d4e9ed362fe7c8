----------------------------- MODULE SigioQueue -----------------------------
(***************************************************************************)
(* unpv13e/sigio/dgecho01.c: the signal handler reads datagrams into a     *)
(* ring of QSIZE buffers, and the main loop echoes them.  The main loop    *)
(* blocks SIGIO to test and to decrement nqueue, and leaves it unblocked   *)
(* while it sends, so that the handler may run between any two of its      *)
(* steps there.  The datagrams are numbered in the order they arrive.      *)
(***************************************************************************)
EXTENDS Integers

CONSTANTS QSIZE,    \* buffers in the ring
          MaxDg     \* bound: datagrams that arrive

ASSUME QueueAssumption == QSIZE \in Nat \ {0} /\ MaxDg \in Nat

VARIABLES pc,       \* of dg_echo: "test", "suspend", "send", "advance", "block", "quit"
          handling, \* is sig_io running?
          pending,  \* SIGIO raised and not yet delivered
          iget, iput, nqueue,
          dg,       \* what each buffer holds
          nread,    \* datagrams read by this call of sig_io
          arrived, taken, echoed   \* datagrams so far: received by the host, read, sent back

svars == <<pc, handling, pending, iget, iput, nqueue, dg, nread, arrived, taken, echoed>>

SInit ==
    /\ pc = "test" /\ handling = FALSE /\ pending = FALSE
    /\ iget = 0 /\ iput = 0 /\ nqueue = 0
    /\ dg = [i \in 0..QSIZE - 1 |-> 0] /\ nread = 0
    /\ arrived = 0 /\ taken = 0 /\ echoed = 0

Unblocked == {"suspend", "send", "advance", "block"}
AfterLate(i) == IF i + 1 > QSIZE THEN 0 ELSE i + 1

After(i) == IF i + 1 >= QSIZE THEN 0 ELSE i + 1

\* A datagram reaches the socket's queue and raises SIGIO.
Arrive ==
    /\ arrived < MaxDg /\ arrived' = arrived + 1 /\ pending' = TRUE
    /\ UNCHANGED <<pc, handling, iget, iput, nqueue, dg, nread, taken, echoed>>

-----------------------------------------------------------------------------
(* dg_echo                                                                 *)

Test ==
    /\ pc = "test" /\ pc' = IF nqueue = 0 THEN "suspend" ELSE "send"
    /\ UNCHANGED <<handling, pending, iget, iput, nqueue, dg, nread, arrived, taken, echoed>>
SendNewest ==
    /\ pc = "send" /\ ~handling /\ echoed' = dg[iput] /\ pc' = "advance"
    /\ UNCHANGED <<handling, pending, iget, iput, nqueue, dg, nread, arrived, taken>>

Sendto ==
    /\ pc = "send" /\ ~handling /\ echoed' = dg[iget] /\ pc' = "advance"
    /\ UNCHANGED <<handling, pending, iget, iput, nqueue, dg, nread, arrived, taken>>
Advance ==
    /\ pc = "advance" /\ ~handling /\ iget' = After(iget) /\ pc' = "block"
    /\ UNCHANGED <<handling, pending, iput, nqueue, dg, nread, arrived, taken, echoed>>
Decrement ==
    /\ pc = "block" /\ ~handling /\ nqueue' = nqueue - 1 /\ pc' = "test"
    /\ UNCHANGED <<handling, pending, iget, iput, dg, nread, arrived, taken, echoed>>

-----------------------------------------------------------------------------
(* sig_io, which reads until the socket has no more                        *)

DeliverUncounted ==
    /\ pending /\ ~handling /\ pc \in Unblocked
    /\ pending' = FALSE /\ handling' = TRUE
    /\ UNCHANGED <<pc, iget, iput, nqueue, dg, nread, arrived, taken, echoed>>

Deliver ==
    /\ pending /\ ~handling /\ pc \in Unblocked
    /\ pending' = FALSE /\ handling' = TRUE /\ nread' = 0
    /\ UNCHANGED <<pc, iget, iput, nqueue, dg, arrived, taken, echoed>>
Overflow ==
    /\ handling /\ nqueue >= QSIZE /\ pc' = "quit" /\ handling' = FALSE
    /\ UNCHANGED <<pending, iget, iput, nqueue, dg, nread, arrived, taken, echoed>>
RecvfromOnce ==
    /\ handling /\ nqueue < QSIZE /\ taken < arrived
    /\ dg' = [dg EXCEPT ![iput] = taken + 1] /\ taken' = taken + 1
    /\ nread' = nread + 1 /\ nqueue' = nqueue + 1 /\ iput' = After(iput)
    /\ handling' = FALSE /\ pc' = IF pc = "suspend" THEN "test" ELSE pc
    /\ UNCHANGED <<pending, iget, arrived, echoed>>

Recvfrom ==
    /\ handling /\ nqueue < QSIZE /\ taken < arrived
    /\ dg' = [dg EXCEPT ![iput] = taken + 1] /\ taken' = taken + 1
    /\ nread' = nread + 1 /\ nqueue' = nqueue + 1 /\ iput' = After(iput)
    /\ UNCHANGED <<pc, handling, pending, iget, arrived, echoed>>
Wouldblock ==
    /\ handling /\ nqueue < QSIZE /\ taken = arrived
    /\ handling' = FALSE /\ pc' = IF pc = "suspend" THEN "test" ELSE pc
    /\ UNCHANGED <<pending, iget, iput, nqueue, dg, nread, arrived, taken, echoed>>

dg_echo == Test \/ Sendto \/ Advance \/ Decrement
sig_io == Deliver \/ Overflow \/ Recvfrom \/ Wouldblock
SNext == Arrive \/ dg_echo \/ sig_io
SSpec == SInit /\ [][SNext]_svars
SFairSpec == SSpec /\ WF_svars(dg_echo) /\ WF_svars(sig_io)

-----------------------------------------------------------------------------
\* The buffer k places after iget, and how many of the nqueue buffers are
\* still to be sent: iget moves before nqueue does.
Slot(k) == IF iget + k >= QSIZE THEN iget + k - QSIZE ELSE iget + k
Unsent == IF pc = "block" THEN nqueue - 1 ELSE nqueue

QTypeOK ==
    /\ pc \in Unblocked \cup {"test", "quit"} /\ handling \in BOOLEAN /\ pending \in BOOLEAN
    /\ iget \in 0..QSIZE - 1 /\ iput \in 0..QSIZE - 1 /\ nqueue \in Nat
    /\ dg \in [0..QSIZE - 1 -> Nat] /\ nread \in Nat
    /\ arrived \in Nat /\ taken \in Nat /\ echoed \in Nat

\* The handler never writes into a buffer that is still to be sent, even
\* while the main loop is sending it: the ring holds, in order and from iget
\* on, exactly the datagrams read and not yet echoed.
RingHoldsUnsent ==
    pc # "quit" =>
      /\ nqueue <= QSIZE
      /\ iput = Slot(Unsent)
      /\ \A k \in 0..QSIZE - 1 :
             k < Unsent => dg[Slot(k)] = taken - Unsent + k + 1

\* Datagrams are echoed in the order they came, none twice and none left out.
EchoedInOrder == pc # "quit" => echoed = taken - Unsent + (IF pc = "advance" THEN 1 ELSE 0)

\* cntread[nread] is inside the array of QSIZE + 1 counters.
CounterInArray == nread <= QSIZE

\* The loop does not sleep on a datagram whose signal has been used up.
NoLostSignal == pc = "suspend" /\ ~handling => taken = arrived \/ pending

\* The main loop and the SIGIO handler share the ring without losing, doubling,
\* reordering or forgetting a datagram, and the histogram stays in its array.
SigioSafe == RingHoldsUnsent /\ EchoedInOrder /\ CounterInArray /\ NoLostSignal

\* Every datagram is echoed, unless QSIZE of them were waiting at once.
EveryoneEchoed == (echoed < arrived) ~> (echoed = arrived \/ pc = "quit")
=============================================================================
