------------------------------ MODULE JobQueue ------------------------------
(***************************************************************************)
(* The job queue of apue threads/rwlock.c: a doubly linked list with a     *)
(* head and a tail, changed under the write lock and searched under the    *)
(* read lock.  The lock makes each change one step; the search holds the   *)
(* read lock over several, so that other searches run at the same time.    *)
(***************************************************************************)
EXTENDS Integers, Sequences, FiniteSets

CONSTANTS Jobs, Finders, NULL
ASSUME NULLAssumption == NULL \notin Jobs
ASSUME OutAssumption == "out" \notin Jobs \cup {NULL}

VARIABLES q_head, q_tail,
          j_next, j_prev,
          j_id,           \* job -> the thread that handles it
          at,             \* thread -> the job its job_find looks at, "out" outside
          found,          \* thread -> what its last job_find returned
          order           \* history: the queue as a sequence of jobs

qvars == <<q_head, q_tail, j_next, j_prev, j_id, at, found, order>>

queued == {order[i] : i \in 1..Len(order)}
Unlocked == \A t \in Finders : at[t] = "out"

\* queue_init
QInit ==
    /\ q_head = NULL /\ q_tail = NULL
    /\ j_next = [j \in Jobs |-> NULL] /\ j_prev = [j \in Jobs |-> NULL]
    /\ j_id \in [Jobs -> Finders]
    /\ at = [t \in Finders |-> "out"] /\ found = [t \in Finders |-> NULL]
    /\ order = <<>>

job_insert(jp) ==
    /\ Unlocked /\ jp \notin queued
    /\ j_next' = [j_next EXCEPT ![jp] = q_head]
    /\ IF q_head # NULL
       THEN j_prev' = [j_prev EXCEPT ![jp] = NULL, ![q_head] = jp] /\ UNCHANGED q_tail
       ELSE j_prev' = [j_prev EXCEPT ![jp] = NULL] /\ q_tail' = jp
    /\ q_head' = jp
    /\ order' = <<jp>> \o order
    /\ UNCHANGED <<j_id, at, found>>

AppendKeepsPrev(jp) ==
    /\ Unlocked /\ jp \notin queued
    /\ IF q_tail # NULL
       THEN j_next' = [j_next EXCEPT ![jp] = NULL, ![q_tail] = jp] /\ UNCHANGED q_head
       ELSE j_next' = [j_next EXCEPT ![jp] = NULL] /\ q_head' = jp
    /\ q_tail' = jp
    /\ order' = Append(order, jp)
    /\ UNCHANGED <<j_prev, j_id, at, found>>

job_append(jp) ==
    /\ Unlocked /\ jp \notin queued
    /\ j_prev' = [j_prev EXCEPT ![jp] = q_tail]
    /\ IF q_tail # NULL
       THEN j_next' = [j_next EXCEPT ![jp] = NULL, ![q_tail] = jp] /\ UNCHANGED q_head
       ELSE j_next' = [j_next EXCEPT ![jp] = NULL] /\ q_head' = jp
    /\ q_tail' = jp
    /\ order' = Append(order, jp)
    /\ UNCHANGED <<j_id, at, found>>

Without(s, jp) ==
    LET k == CHOOSE i \in 1..Len(s) : s[i] = jp
    IN  [i \in 1..Len(s) - 1 |-> IF i < k THEN s[i] ELSE s[i + 1]]

\* The caller has the job from job_find or from job_insert: it is queued.
job_remove(jp) ==
    /\ Unlocked /\ jp \in queued
    /\ IF jp = q_head
       THEN /\ q_head' = j_next[jp]
            /\ IF q_tail = jp THEN q_tail' = NULL /\ UNCHANGED j_prev
               ELSE j_prev' = [j_prev EXCEPT ![j_next[jp]] = j_prev[jp]] /\ UNCHANGED q_tail
            /\ UNCHANGED j_next
       ELSE IF jp = q_tail
       THEN /\ q_tail' = j_prev[jp]
            /\ j_next' = [j_next EXCEPT ![j_prev[jp]] = j_next[jp]]
            /\ UNCHANGED <<q_head, j_prev>>
       ELSE /\ j_next' = [j_next EXCEPT ![j_prev[jp]] = j_next[jp]]
            /\ j_prev' = [j_prev EXCEPT ![j_next[jp]] = j_prev[jp]]
            /\ UNCHANGED <<q_head, q_tail>>
    /\ order' = Without(order, jp)
    /\ UNCHANGED <<j_id, at, found>>

\* job_find takes the read lock and starts at the head ...
FindStart(t) ==
    /\ at[t] = "out"
    /\ at' = [at EXCEPT ![t] = q_head]
    /\ UNCHANGED <<q_head, q_tail, j_next, j_prev, j_id, found, order>>

FindLooksOnce(t) ==
    /\ at[t] # "out"
    /\ at' = [at EXCEPT ![t] = "out"] /\ found' = [found EXCEPT ![t] = at[t]]
    /\ UNCHANGED <<q_head, q_tail, j_next, j_prev, j_id, order>>

\* ... goes on until the job is this thread's or there is none left, and
\* gives up the lock.
job_find(t) ==
    /\ at[t] # "out"
    /\ IF at[t] # NULL /\ j_id[at[t]] # t
       THEN at' = [at EXCEPT ![t] = j_next[at[t]]] /\ UNCHANGED found
       ELSE at' = [at EXCEPT ![t] = "out"] /\ found' = [found EXCEPT ![t] = at[t]]
    /\ UNCHANGED <<q_head, q_tail, j_next, j_prev, j_id, order>>

QNext ==
    \/ \E jp \in Jobs : job_insert(jp) \/ job_append(jp) \/ job_remove(jp)
    \/ \E t \in Finders : FindStart(t) \/ job_find(t)

QSpec == QInit /\ [][QNext]_qvars /\ \A t \in Finders : WF_qvars(job_find(t))

-----------------------------------------------------------------------------
QueueTypeOK ==
    /\ order \in Seq(Jobs)
    /\ q_head \in Jobs \cup {NULL} /\ q_tail \in Jobs \cup {NULL}
    /\ j_next \in [Jobs -> Jobs \cup {NULL}]
    /\ j_prev \in [Jobs -> Jobs \cup {NULL}]

\* Both directions of the list are the queue the three operations promise:
\* insert puts in front, append at the end, remove takes out that one job, and
\* the pointers at both ends are NULL whatever the order of the calls.
ListIsQueue ==
    /\ \A i, k \in 1..Len(order) : order[i] = order[k] => i = k
    /\ q_head = (IF order = <<>> THEN NULL ELSE order[1])
    /\ q_tail = (IF order = <<>> THEN NULL ELSE order[Len(order)])
    /\ \A i \in 1..Len(order) :
          /\ j_next[order[i]] = (IF i = Len(order) THEN NULL ELSE order[i + 1])
          /\ j_prev[order[i]] = (IF i = 1 THEN NULL ELSE order[i - 1])

\* What a job_find that is ending returns: the first job of its thread, or
\* NULL when no job in the queue is.
FoundIsFirst ==
    \A t \in Finders : at[t] # "out" /\ at'[t] = "out" =>
        LET mine == {i \in 1..Len(order) : j_id[order[i]] = t}
        IN  IF mine = {} THEN found'[t] = NULL
            ELSE \E i \in mine : found'[t] = order[i] /\ \A k \in mine : i <= k

\* A search ends: readers exclude the writers for a bounded time only.
FindEnds == \A t \in Finders : at[t] # "out" ~> at[t] = "out"
=============================================================================
