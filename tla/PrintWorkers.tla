---------------------------- MODULE PrintWorkers ----------------------------
(***************************************************************************)
(* The list of worker threads of printd: add_worker, kill_workers and      *)
(* client_cleanup, each under workerlock.  A worker's entry is named by    *)
(* the worker.  Following a pointer to an entry that has been freed is     *)
(* undefined behaviour: the model stops there (bad) and promises nothing   *)
(* further.                                                                *)
(***************************************************************************)
EXTENDS Integers, FiniteSets

CONSTANTS Workers, Null

VARIABLES thread,    \* "new", "running", "done" for each client_thread
          workers,   \* head of the list
          node,      \* prev and next of each entry
          live,      \* entries allocated and not freed
          closed,    \* workers whose socket has been closed
          cancelled, \* workers kill_workers has cancelled
          sigterm,   \* kill_workers has run
          bad        \* a freed entry was followed

vars == <<thread, workers, node, live, closed, cancelled, sigterm, bad>>

Init ==
  /\ thread = [w \in Workers |-> "new"]
  /\ workers = Null
  /\ node = [w \in Workers |-> [prev |-> Null, next |-> Null]]
  /\ live = {} /\ closed = {} /\ cancelled = {}
  /\ sigterm = FALSE /\ bad = FALSE

(* The k-th entry met when the list is followed from its head. *)
Entry[k \in Nat] ==
  IF k = 0 THEN workers
  ELSE IF Entry[k - 1] \in live THEN node[Entry[k - 1]].next ELSE Null

Walk == {Entry[k] : k \in 0 .. Cardinality(Workers)} \ {Null}
WalkIsSafe == Walk \subseteq live

(* malloc succeeds: the new entry points at the old head, and becomes the  *)
(* head only when the list was empty.                                      *)
AddWorker(w) ==
  /\ ~bad /\ ~sigterm /\ thread[w] = "new"
  /\ thread' = [thread EXCEPT ![w] = "running"]
  /\ IF workers = Null
     THEN /\ workers' = w
          /\ node' = [node EXCEPT ![w] = [prev |-> Null, next |-> Null]]
          /\ UNCHANGED bad
     ELSE /\ node' = [node EXCEPT ![w] = [prev |-> Null, next |-> workers],
                                  ![workers].prev = w]
          /\ bad' = (workers \notin live)
          /\ UNCHANGED workers
  /\ live' = live \cup {w}
  /\ UNCHANGED <<closed, cancelled, sigterm>>

(* malloc fails: pthread_exit runs client_cleanup, which finds no entry.   *)
AddWorkerFails(w) ==
  /\ ~bad /\ ~sigterm /\ thread[w] = "new"
  /\ thread' = [thread EXCEPT ![w] = "failed"]
  /\ bad' = ~WalkIsSafe
  /\ UNCHANGED <<workers, node, live, closed, cancelled, sigterm>>

(* The entry found for w is unlinked, its socket closed and its memory     *)
(* freed; nothing happens to an entry the walk does not meet.              *)
Unlink(w) ==
  LET p == node[w].prev
      n == node[w].next
  IN  /\ node' = [x \in Workers |->
                    [prev |-> IF x = n THEN p ELSE node[x].prev,
                     next |-> IF x = p THEN n ELSE node[x].next]]
      /\ workers' = IF p = Null THEN n ELSE workers

ClientCleanup(w) ==
  /\ ~bad /\ thread[w] = "running"
  /\ thread' = [thread EXCEPT ![w] = "done"]
  /\ IF ~WalkIsSafe
     THEN bad' = TRUE /\ UNCHANGED <<workers, node, live, closed>>
     ELSE /\ UNCHANGED bad
          /\ IF w \in Walk
             THEN Unlink(w) /\ live' = live \ {w} /\ closed' = closed \cup {w}
             ELSE UNCHANGED <<workers, node, live, closed>>
  /\ UNCHANGED <<cancelled, sigterm>>

(* SIGTERM, or a signal that is not expected: every entry met is cancelled. *)
KillWorkers ==
  /\ ~bad /\ ~sigterm
  /\ sigterm' = TRUE
  /\ bad' = ~WalkIsSafe
  /\ cancelled' = Walk
  /\ UNCHANGED <<thread, workers, node, live, closed>>

Next == KillWorkers \/ \E w \in Workers : AddWorker(w) \/ AddWorkerFails(w) \/ ClientCleanup(w)

Spec == Init /\ [][Next]_vars

-----------------------------------------------------------------------------
Running == {w \in Workers : thread[w] = "running"}

(* kill_workers: "Cancel (kill) all outstanding workers."  Whenever it has *)
(* followed the list to its end, every worker still running is cancelled.  *)
KillsAll == sigterm /\ ~bad => (Running \subseteq cancelled)
=============================================================================
