----------------------------- MODULE PrintQueue -----------------------------
(***************************************************************************)
(* What printd's list of jobs promises: a first-come, first-served queue.  *)
(* A job leaves it only from the front, when it is printed or canceled;    *)
(* all is gone when the daemon dies.                                       *)
(***************************************************************************)
EXTENDS Sequences

CONSTANT Items
VARIABLE pending

Init == pending = <<>>

Add(j) == pending' = Append(pending, j)

Leave == pending # <<>> /\ pending' = Tail(pending)

Die == pending' = <<>>

Next == (\E j \in Items : Add(j)) \/ Leave \/ Die

Spec == Init /\ [][Next]_pending
=============================================================================
