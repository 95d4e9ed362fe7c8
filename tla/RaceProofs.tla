------------------------------ MODULE RaceProofs ------------------------------
(***************************************************************************)
(* Three small structures that several users share, for every size.  For   *)
(* every set of jobs and of threads, the doubly linked list of             *)
(* threads/rwlock.c is the queue its three operations promise, and         *)
(* job_find returns the first job of its thread.  For every QSIZE the ring *)
(* of dgecho01.c is safe: the handler and the main loop never use the same *)
(* buffer, and no signal is lost.  For any number of processes, db_open    *)
(* writes the table of chain heads over no record.                         *)
(***************************************************************************)
EXTENDS JobQueue, SigioQueue, DbOpen, TLAPS

-----------------------------------------------------------------------------
(* The job queue (JobQueue). *)

Inv == QueueTypeOK /\ ListIsQueue

\* Taking one job out of a sequence that holds it once closes the gap.
LEMMA DeleteFacts ==
    ASSUME NEW s \in Seq(Jobs), NEW jp \in {s[i] : i \in 1..Len(s)}
    PROVE  \E k \in 1..Len(s) :
             /\ s[k] = jp
             /\ Without(s, jp) \in Seq(Jobs)
             /\ Len(Without(s, jp)) = Len(s) - 1
             /\ \A i \in 1..Len(s) - 1 :
                   Without(s, jp)[i] = IF i < k THEN s[i] ELSE s[i + 1]
<1> DEFINE k == CHOOSE i \in 1..Len(s) : s[i] = jp
           w == [i \in 1..Len(s) - 1 |-> IF i < k THEN s[i] ELSE s[i + 1]]
<1>1. k \in 1..Len(s) /\ s[k] = jp
  <2>1. \E i \in 1..Len(s) : s[i] = jp
    OBVIOUS
  <2> QED BY <2>1
<1>2. Without(s, jp) = w
  BY DEF Without
<1>3. Len(s) \in Nat /\ Len(s) - 1 \in Nat
  BY <1>1
<1> HIDE DEF k
<1>4. \A i \in 1..Len(s) - 1 : s[i] \in Jobs /\ s[i + 1] \in Jobs
  BY <1>3
<1>5. w \in [1..Len(s) - 1 -> Jobs]
  BY <1>4
<1>6. w \in Seq(Jobs) /\ Len(w) = Len(s) - 1
  BY <1>3, <1>5
<1> QED BY <1>1, <1>2, <1>6

\* An empty queue is a list with no pointer at either end.
LEMMA InitInv == QInit => Inv
BY DEF QInit, Inv, QueueTypeOK, ListIsQueue

\* job_insert: the new job gets the first place and the others move up.
LEMMA InsertInv == ASSUME Inv, NEW jp \in Jobs, job_insert(jp) PROVE Inv'
<1> USE NULLAssumption
<1>1. QueueTypeOK /\ ListIsQueue /\ jp \notin queued
  BY DEF Inv, job_insert
<1>2. /\ order' \in Seq(Jobs) /\ Len(order') = Len(order) + 1 /\ order' # <<>>
      /\ order'[1] = jp
      /\ \A i \in 2..Len(order') : i - 1 \in 1..Len(order) /\ order'[i] = order[i - 1]
  BY <1>1 DEF QueueTypeOK, job_insert
<1>3. QueueTypeOK'
  BY <1>1, <1>2, Zenon DEF QueueTypeOK, job_insert
<1>4. \A i \in 1..Len(order) : order[i] \in Jobs /\ order[i] # jp
  BY <1>1 DEF QueueTypeOK, queued
<1>5. (\A i, k \in 1..Len(order) : order[i] = order[k] => i = k)'
  <2> SUFFICES ASSUME NEW i \in 1..Len(order'), NEW k \in 1..Len(order'),
                      order'[i] = order'[k]
               PROVE  i = k
    OBVIOUS
  <2>1. CASE i = 1 /\ k # 1
    BY <2>1, <1>1, <1>2, <1>4 DEF QueueTypeOK
  <2>2. CASE i # 1 /\ k = 1
    BY <2>2, <1>1, <1>2, <1>4 DEF QueueTypeOK
  <2>3. CASE i # 1 /\ k # 1
    BY <2>3, <1>1, <1>2 DEF QueueTypeOK, ListIsQueue
  <2> QED BY <2>1, <2>2, <2>3
<1>6. (q_head = IF order = <<>> THEN NULL ELSE order[1])'
  BY <1>2 DEF job_insert
<1>7. (q_tail = IF order = <<>> THEN NULL ELSE order[Len(order)])'
  <2>1. CASE order = <<>>
    BY <2>1, <1>1, <1>2 DEF job_insert, ListIsQueue
  <2>2. CASE order # <<>>
    BY <2>2, <1>1, <1>2, <1>4 DEF job_insert, ListIsQueue, QueueTypeOK
  <2> QED BY <2>1, <2>2
<1>8. ASSUME NEW i \in 1..Len(order')
      PROVE  /\ j_next'[order'[i]] = IF i = Len(order') THEN NULL ELSE order'[i + 1]
             /\ j_prev'[order'[i]] = IF i = 1 THEN NULL ELSE order'[i - 1]
  <2>1. CASE i = 1
    BY <2>1, <1>1, <1>2, <1>4 DEF job_insert, ListIsQueue, QueueTypeOK
  <2>2. CASE i # 1
    <3>1. i - 1 \in 1..Len(order) /\ order'[i] = order[i - 1] /\ order # <<>>
      BY <2>2, <1>1, <1>2 DEF QueueTypeOK
    <3>2. j_next'[order'[i]] = j_next[order[i - 1]]
      BY <3>1, <1>1, <1>4 DEF job_insert, QueueTypeOK
    <3>3. j_next'[order'[i]] = IF i = Len(order') THEN NULL ELSE order'[i + 1]
      <4>1. CASE i = Len(order')
        BY <4>1, <3>1, <3>2, <1>1, <1>2 DEF ListIsQueue, QueueTypeOK
      <4>2. CASE i # Len(order')
        <5>1. i + 1 \in 2..Len(order') /\ (i + 1) - 1 = i /\ (i - 1) + 1 = i /\ i - 1 # Len(order)
          BY <4>2, <3>1, <1>2
        <5>2. order'[i + 1] = order[i]
          BY <5>1, <1>2
        <5>3. j_next[order[i - 1]] = order[i]
          BY <5>1, <3>1, <1>1 DEF ListIsQueue
        <5> QED BY <5>2, <5>3, <4>2, <3>2
      <4> QED BY <4>1, <4>2
    <3>4. CASE i = 2
      BY <3>4, <3>1, <3>3, <1>1, <1>2, <1>4 DEF job_insert, ListIsQueue, QueueTypeOK
    <3>5. CASE i # 2
      <4>1. order[i - 1] # q_head /\ i - 2 \in 1..Len(order)
        BY <3>1, <3>5, <2>2, <1>1 DEF ListIsQueue, QueueTypeOK
      <4>2. j_prev'[order'[i]] = j_prev[order[i - 1]]
        BY <4>1, <3>1, <1>1, <1>4 DEF job_insert, QueueTypeOK
      <4> QED BY <4>1, <4>2, <3>1, <3>3, <3>5, <2>2, <1>1, <1>2
              DEF ListIsQueue, QueueTypeOK
    <3> QED BY <3>4, <3>5
  <2> QED BY <2>1, <2>2
<1> QED BY <1>3, <1>5, <1>6, <1>7, <1>8 DEF Inv, ListIsQueue

\* job_append: the new job gets the last place and the others keep theirs.
LEMMA AppendInv == ASSUME Inv, NEW jp \in Jobs, job_append(jp) PROVE Inv'
<1> USE NULLAssumption
<1>1. QueueTypeOK /\ ListIsQueue /\ jp \notin queued
  BY DEF Inv, job_append
<1>2. /\ order' \in Seq(Jobs) /\ Len(order') = Len(order) + 1 /\ order' # <<>>
      /\ order'[Len(order) + 1] = jp
      /\ \A i \in 1..Len(order) : order'[i] = order[i]
      /\ Len(order) \in Nat
  BY <1>1 DEF QueueTypeOK, job_append
<1>3. QueueTypeOK'
  BY <1>1, <1>2 DEF QueueTypeOK, job_append
<1>4. \A i \in 1..Len(order) : order[i] \in Jobs /\ order[i] # jp
  BY <1>1 DEF QueueTypeOK, queued
<1>5. (\A i, k \in 1..Len(order) : order[i] = order[k] => i = k)'
  <2> SUFFICES ASSUME NEW i \in 1..Len(order'), NEW k \in 1..Len(order'),
                      order'[i] = order'[k]
               PROVE  i = k
    OBVIOUS
  <2>1. CASE i \in 1..Len(order) /\ k \in 1..Len(order)
    BY <2>1, <1>1, <1>2 DEF ListIsQueue
  <2>2. CASE i = Len(order) + 1 \/ k = Len(order) + 1
    BY <2>2, <1>2, <1>4
  <2> QED BY <2>1, <2>2, <1>2
<1>6. (q_tail = IF order = <<>> THEN NULL ELSE order[Len(order)])'
  BY <1>2 DEF job_append
<1>7. (q_head = IF order = <<>> THEN NULL ELSE order[1])'
  <2>1. CASE order = <<>>
    BY <2>1, <1>1, <1>2 DEF job_append, ListIsQueue
  <2>2. CASE order # <<>>
    BY <2>2, <1>1, <1>2, <1>4 DEF job_append, ListIsQueue, QueueTypeOK
  <2> QED BY <2>1, <2>2
<1>8. ASSUME NEW i \in 1..Len(order')
      PROVE  /\ j_next'[order'[i]] = IF i = Len(order') THEN NULL ELSE order'[i + 1]
             /\ j_prev'[order'[i]] = IF i = 1 THEN NULL ELSE order'[i - 1]
  <2>1. CASE i = Len(order) + 1
    BY <2>1, <1>1, <1>2, <1>4 DEF job_append, ListIsQueue, QueueTypeOK
  <2>2. CASE i \in 1..Len(order)
    <3>1. j_prev'[order'[i]] = j_prev[order[i]]
      BY <2>2, <1>1, <1>2, <1>4 DEF job_append, QueueTypeOK
    <3>2. j_prev'[order'[i]] = IF i = 1 THEN NULL ELSE order'[i - 1]
      BY <3>1, <2>2, <1>1, <1>2 DEF ListIsQueue
    <3>3. CASE i = Len(order)
      BY <3>3, <3>2, <2>2, <1>1, <1>2, <1>4 DEF job_append, ListIsQueue, QueueTypeOK
    <3>4. CASE i # Len(order)
      <4>1. order[i] # q_tail
        BY <3>4, <2>2, <1>1, <1>2 DEF ListIsQueue
      <4>2. j_next'[order'[i]] = j_next[order[i]]
        BY <4>1, <2>2, <1>1, <1>2, <1>4 DEF job_append, QueueTypeOK
      <4>3. i # Len(order') /\ i + 1 \in 1..Len(order) /\ order'[i + 1] = order[i + 1]
        BY <3>4, <2>2, <1>2
      <4>4. j_next[order[i]] = order[i + 1]
        BY <3>4, <2>2, <1>1 DEF ListIsQueue
      <4> QED BY <4>2, <4>3, <4>4, <3>2
    <3> QED BY <3>3, <3>4
  <2> QED BY <2>1, <2>2, <1>2
<1> QED BY <1>3, <1>5, <1>6, <1>7, <1>8 DEF Inv, ListIsQueue

\* job_remove: the neighbours of the job become each other's, at the head, at
\* the tail, in the middle and when it is the only one.
LEMMA RemoveInv == ASSUME Inv, NEW jp \in Jobs, job_remove(jp) PROVE Inv'
<1> USE NULLAssumption
<1>1. QueueTypeOK /\ ListIsQueue /\ jp \in queued /\ order' = Without(order, jp)
  BY DEF Inv, job_remove
<1> DEFINE n == Len(order)
<1>2. PICK k \in 1..n :
         /\ order[k] = jp
         /\ order' \in Seq(Jobs) /\ Len(order') = n - 1
         /\ \A i \in 1..n - 1 : order'[i] = IF i < k THEN order[i] ELSE order[i + 1]
  BY <1>1, DeleteFacts DEF QueueTypeOK, queued
<1>3. /\ n \in Nat /\ n >= 1 /\ order # <<>>
      /\ \A i \in 1..n : order[i] \in Jobs
      /\ \A i, m \in 1..n : order[i] = order[m] => i = m
  BY <1>1, <1>2 DEF QueueTypeOK, ListIsQueue
<1>4. /\ j_next[jp] = IF k = n THEN NULL ELSE order[k + 1]
      /\ j_prev[jp] = IF k = 1 THEN NULL ELSE order[k - 1]
      /\ q_head = order[1] /\ q_tail = order[n]
      /\ jp = q_head <=> k = 1
      /\ jp = q_tail <=> k = n
  BY <1>1, <1>2, <1>3 DEF ListIsQueue
<1>5. /\ j_next' \in [Jobs -> Jobs \cup {NULL}]
      /\ \A m \in 1..n : m # k =>
            j_next'[order[m]] = IF m = k - 1 THEN j_next[jp] ELSE j_next[order[m]]
  <2>1. CASE k = 1
    BY <2>1, <1>1, <1>3, <1>4 DEF job_remove, QueueTypeOK
  <2>2. CASE k # 1
    <3>1. k - 1 \in 1..n /\ j_prev[jp] = order[k - 1] /\ j_next[jp] \in Jobs \cup {NULL}
      BY <2>2, <1>1, <1>3, <1>4 DEF QueueTypeOK
    <3>2. j_next' = [j_next EXCEPT ![order[k - 1]] = j_next[jp]]
      BY <2>2, <3>1, <1>4 DEF job_remove
    <3> QED BY <3>1, <3>2, <1>1, <1>3 DEF QueueTypeOK
  <2> QED BY <2>1, <2>2
<1>6. /\ j_prev' \in [Jobs -> Jobs \cup {NULL}]
      /\ \A m \in 1..n : m # k =>
            j_prev'[order[m]] = IF m = k + 1 THEN j_prev[jp] ELSE j_prev[order[m]]
  <2>1. CASE k = n
    BY <2>1, <1>1, <1>3, <1>4 DEF job_remove, QueueTypeOK
  <2>2. CASE k # n
    <3>1. k + 1 \in 1..n /\ j_next[jp] = order[k + 1] /\ j_prev[jp] \in Jobs \cup {NULL}
      BY <2>2, <1>1, <1>3, <1>4 DEF QueueTypeOK
    <3>2. j_prev' = [j_prev EXCEPT ![order[k + 1]] = j_prev[jp]]
      BY <2>2, <3>1, <1>4 DEF job_remove
    <3> QED BY <3>1, <3>2, <1>1, <1>3 DEF QueueTypeOK
  <2> QED BY <2>1, <2>2
<1>7. /\ q_head' = IF k = 1 THEN j_next[jp] ELSE q_head
      /\ q_tail' = IF k # n THEN q_tail ELSE IF k = 1 THEN NULL ELSE j_prev[jp]
  BY <1>4 DEF job_remove
<1>8. order' = <<>> <=> n = 1
  BY <1>2, <1>3
<1>9. (q_head = IF order = <<>> THEN NULL ELSE order[1])'
  <2>1. CASE n = 1
    BY <2>1, <1>2, <1>3, <1>4, <1>7, <1>8
  <2>2. CASE n # 1 /\ k = 1
    <3>1. order'[1] = order[1 + 1] /\ k # n
      BY <2>2, <1>2, <1>3
    <3> QED BY <3>1, <2>2, <1>4, <1>7, <1>8
  <2>3. CASE n # 1 /\ k # 1
    <3>1. order'[1] = order[1]
      BY <2>3, <1>2, <1>3
    <3> QED BY <3>1, <2>3, <1>4, <1>7, <1>8
  <2> QED BY <2>1, <2>2, <2>3
<1>10. (q_tail = IF order = <<>> THEN NULL ELSE order[Len(order)])'
  <2>1. CASE n = 1
    BY <2>1, <1>2, <1>3, <1>7, <1>8
  <2>2. CASE n # 1
    <3>1. n - 1 \in 1..n - 1 /\ order'[Len(order')] = IF n - 1 < k THEN order[n - 1] ELSE order[(n - 1) + 1]
      BY <2>2, <1>2, <1>3
    <3>2. (n - 1) + 1 = n /\ (n - 1 < k <=> k = n)
      BY <1>2, <1>3
    <3> QED BY Zenon, <3>1, <3>2, <2>2, <1>2, <1>4, <1>7, <1>8
  <2> QED BY <2>1, <2>2
<1>11. QueueTypeOK'
  BY <1>1, <1>2, <1>3, <1>4, <1>5, <1>6, <1>7 DEF QueueTypeOK
<1>12. (\A i, m \in 1..Len(order) : order[i] = order[m] => i = m)'
  <2> SUFFICES ASSUME NEW i \in 1..n - 1, NEW m \in 1..n - 1, order'[i] = order'[m]
               PROVE  i = m
    BY <1>2
  <2>1. /\ i \in 1..n /\ i + 1 \in 1..n /\ m \in 1..n /\ m + 1 \in 1..n
    BY <1>3
  <2>2. CASE i < k /\ m < k
    BY <2>1, <2>2, <1>2, <1>3
  <2>3. CASE ~(i < k) /\ ~(m < k)
    <3>1. order[i + 1] = order[m + 1]
      BY <2>3, <1>2
    <3>2. i + 1 = m + 1
      BY <3>1, <2>1, <1>3
    <3> QED BY <3>2
  <2>4. CASE i < k /\ ~(m < k)
    <3>1. order[i] = order[m + 1]
      BY <2>4, <1>2
    <3>2. i = m + 1
      BY <3>1, <2>1, <1>3
    <3> QED BY <3>2, <2>4, <1>2
  <2>5. CASE ~(i < k) /\ m < k
    <3>1. order[i + 1] = order[m]
      BY <2>5, <1>2
    <3>2. i + 1 = m
      BY <3>1, <2>1, <1>3
    <3> QED BY <3>2, <2>5, <1>2
  <2> QED BY <2>2, <2>3, <2>4, <2>5
<1>13. ASSUME NEW i \in 1..n - 1
       PROVE  j_next'[order'[i]] = IF i = n - 1 THEN NULL ELSE order'[i + 1]
  <2>1. CASE i < k - 1
    <3>1. i \in 1..n /\ i # n /\ i # k /\ i # k - 1 /\ i < k /\ i + 1 < k /\ i # n - 1 /\ i + 1 \in 1..n - 1
      BY <2>1, <1>2, <1>3
    <3>2. order'[i] = order[i] /\ order'[i + 1] = order[i + 1]
      BY <3>1, <1>2
    <3>3. j_next'[order[i]] = j_next[order[i]] /\ j_next[order[i]] = order[i + 1]
      BY <3>1, <1>1, <1>5 DEF ListIsQueue
    <3> QED BY <3>1, <3>2, <3>3
  <2>2. CASE i = k - 1
    <3>1. i \in 1..n /\ i # k /\ i < k /\ k = i + 1
      BY <2>2, <1>2, <1>3
    <3>2. order'[i] = order[i] /\ j_next'[order[i]] = j_next[jp]
      BY <3>1, <2>2, <1>2, <1>5
    <3>3. CASE i = n - 1
      BY <3>1, <3>2, <3>3, <1>2, <1>3, <1>4
    <3>4. CASE i # n - 1
      <4>1. i + 1 \in 1..n - 1 /\ ~(i + 1 < k) /\ k # n /\ (i + 1) + 1 = k + 1
        BY <3>1, <3>4, <1>2, <1>3
      <4>2. order'[i + 1] = order[k + 1]
        BY <4>1, <1>2
      <4> QED BY <4>1, <4>2, <3>2, <3>4, <1>4
    <3> QED BY <3>3, <3>4
  <2>3. CASE i >= k
    <3>1. i + 1 \in 1..n /\ i + 1 # k /\ i + 1 # k - 1 /\ ~(i < k) /\ (i + 1 = n <=> i = n - 1)
      BY <2>3, <1>2, <1>3
    <3>2. order'[i] = order[i + 1] /\ j_next'[order[i + 1]] = j_next[order[i + 1]]
      BY <3>1, <1>2, <1>5
    <3>3. j_next[order[i + 1]] = IF i + 1 = n THEN NULL ELSE order[(i + 1) + 1]
      BY <3>1, <1>1 DEF ListIsQueue
    <3>4. CASE i # n - 1
      <4>1. i + 1 \in 1..n - 1 /\ ~(i + 1 < k)
        BY <3>4, <2>3, <1>2, <1>3
      <4>2. order'[i + 1] = order[(i + 1) + 1]
        BY <4>1, <1>2
      <4> QED BY <4>2, <3>1, <3>2, <3>3, <3>4
    <3> QED BY <3>1, <3>2, <3>3, <3>4
  <2> QED BY <2>1, <2>2, <2>3, <1>2
<1>14. ASSUME NEW i \in 1..n - 1
       PROVE  j_prev'[order'[i]] = IF i = 1 THEN NULL ELSE order'[i - 1]
  <2>1. CASE i < k
    <3>1. i \in 1..n /\ i # k /\ i # k + 1
      BY <2>1, <1>2, <1>3
    <3>2. order'[i] = order[i] /\ j_prev'[order[i]] = j_prev[order[i]]
      BY <3>1, <2>1, <1>2, <1>6
    <3>3. j_prev[order[i]] = IF i = 1 THEN NULL ELSE order[i - 1]
      BY <3>1, <1>1 DEF ListIsQueue
    <3>4. CASE i # 1
      <4>1. i - 1 \in 1..n - 1 /\ i - 1 < k
        BY <3>4, <2>1, <1>2, <1>3
      <4> QED BY <4>1, <3>2, <3>3, <3>4, <1>2
    <3> QED BY <3>2, <3>3, <3>4
  <2>2. CASE i = k
    <3>1. k + 1 \in 1..n /\ order'[i] = order[k + 1] /\ j_prev'[order[k + 1]] = j_prev[jp]
      BY <2>2, <1>2, <1>3, <1>6
    <3>2. CASE i # 1
      <4>1. i - 1 \in 1..n - 1 /\ i - 1 < k
        BY <3>2, <2>2, <1>2, <1>3
      <4>2. order'[i - 1] = order[k - 1]
        BY <4>1, <2>2, <1>2
      <4> QED BY <4>2, <3>1, <3>2, <2>2, <1>4
    <3> QED BY <3>1, <3>2, <2>2, <1>4
  <2>3. CASE i > k
    <3>1. i + 1 \in 1..n /\ i + 1 # k /\ i + 1 # k + 1 /\ ~(i < k) /\ (i + 1) - 1 = i /\ i # 1 /\ i + 1 # 1
      BY <2>3, <1>2, <1>3
    <3>2. order'[i] = order[i + 1] /\ j_prev'[order[i + 1]] = j_prev[order[i + 1]]
      BY <3>1, <1>2, <1>6
    <3>3. j_prev[order[i + 1]] = order[i]
      BY <3>1, <1>1 DEF ListIsQueue
    <3>4. i - 1 \in 1..n - 1 /\ ~(i - 1 < k) /\ (i - 1) + 1 = i
      BY <2>3, <1>2, <1>3
    <3>5. order'[i - 1] = order[i]
      BY <3>4, <1>2
    <3> QED BY <3>1, <3>2, <3>3, <3>5
  <2> QED BY <2>1, <2>2, <2>3, <1>2
<1> QED BY <1>2, <1>9, <1>10, <1>11, <1>12, <1>13, <1>14 DEF Inv, ListIsQueue

\* job_find changes neither the list nor what it stands for.
LEMMA StepInv == ASSUME Inv, [QNext]_qvars PROVE Inv'
<1>1. CASE \E jp \in Jobs : job_insert(jp) \/ job_append(jp) \/ job_remove(jp)
  BY <1>1, InsertInv, AppendInv, RemoveInv
<1>2. CASE \E t \in Finders : FindStart(t) \/ job_find(t)
  BY <1>2 DEF FindStart, job_find, Inv, QueueTypeOK, ListIsQueue
<1>3. CASE UNCHANGED qvars
  BY <1>3 DEF qvars, Inv, QueueTypeOK, ListIsQueue
<1> QED BY <1>1, <1>2, <1>3 DEF QNext

\* For every set of jobs and threads, and any sequence of job_insert,
\* job_append, job_remove and job_find, the list is that queue.
THEOREM QueueIsList == QSpec => [](QueueTypeOK /\ ListIsQueue)
<1>1. QInit => Inv
  BY InitInv
<1>2. Inv /\ [QNext]_qvars => Inv'
  BY StepInv
<1>3. Inv => QueueTypeOK /\ ListIsQueue
  BY DEF Inv
<1> QED BY <1>1, <1>2, <1>3, PTL DEF QSpec

-----------------------------------------------------------------------------
\* A search is at a place p of the queue, one past the end when it has seen
\* every job, and none of the jobs before p is its thread's.
Searching ==
    /\ at \in [Finders -> Jobs \cup {NULL, "out"}]
    /\ found \in [Finders -> Jobs \cup {NULL}]
    /\ \A t \in Finders : at[t] # "out" =>
          \E p \in 1..Len(order) + 1 :
             /\ at[t] = IF p = Len(order) + 1 THEN NULL ELSE order[p]
             /\ \A i \in 1..p - 1 : j_id[order[i]] # t

\* The writers wait until nobody searches, so that they move no place; a
\* search starts at the head and goes to the place after its own.
LEMMA StepSearching == ASSUME Inv, Searching, [QNext]_qvars PROVE Searching'
<1> USE NULLAssumption, OutAssumption
<1>1. QueueTypeOK /\ ListIsQueue /\ Len(order) \in Nat
  BY DEF Inv, QueueTypeOK
<1>2. ASSUME NEW jp \in Jobs, job_insert(jp) \/ job_append(jp) \/ job_remove(jp)
      PROVE  Searching'
  <2>1. Unlocked /\ UNCHANGED <<at, found>>
    BY <1>2 DEF job_insert, job_append, job_remove
  <2> QED BY <2>1 DEF Searching, Unlocked
<1>3. ASSUME NEW t \in Finders, FindStart(t)
      PROVE  Searching'
  <2>1. /\ at' = [at EXCEPT ![t] = q_head] /\ q_head \in Jobs \cup {NULL}
        /\ UNCHANGED <<order, j_id, found>>
    BY <1>3, <1>1 DEF FindStart, QueueTypeOK
  <2>2. at'[t] = IF 1 = Len(order) + 1 THEN NULL ELSE order[1]
    BY <2>1, <1>1 DEF Searching, ListIsQueue, QueueTypeOK
  <2>3. 1 \in 1..Len(order) + 1 /\ \A i \in 1..1 - 1 : j_id[order[i]] # t
    BY <1>1
  <2> QED BY <2>1, <2>2, <2>3 DEF Searching
<1>4. ASSUME NEW t \in Finders, job_find(t)
      PROVE  Searching'
  <2>1. UNCHANGED <<order, j_id>> /\ at[t] # "out" /\ at[t] \in Jobs \cup {NULL}
    BY <1>4 DEF job_find, Searching
  <2>2. CASE at[t] # NULL /\ j_id[at[t]] # t
    <3>1. /\ at' = [at EXCEPT ![t] = j_next[at[t]]] /\ UNCHANGED found
          /\ j_next[at[t]] \in Jobs \cup {NULL}
      BY <1>4, <2>1, <2>2, <1>1 DEF job_find, QueueTypeOK
    <3>2. PICK p \in 1..Len(order) + 1 :
             /\ at[t] = IF p = Len(order) + 1 THEN NULL ELSE order[p]
             /\ \A i \in 1..p - 1 : j_id[order[i]] # t
      BY <2>1 DEF Searching
    <3>3. p \in 1..Len(order) /\ at[t] = order[p]
      BY <3>2, <2>2, <1>1
    <3>4. p + 1 \in 1..Len(order) + 1 /\ (p + 1 = Len(order) + 1 <=> p = Len(order))
      BY <3>3, <1>1
    <3>5. at'[t] = IF p + 1 = Len(order) + 1 THEN NULL ELSE order[p + 1]
      BY <3>1, <3>3, <3>4, <1>1 DEF Searching, ListIsQueue
    <3>6. \A i \in 1..(p + 1) - 1 : j_id[order[i]] # t
      BY <3>2, <3>3, <2>2, <1>1
    <3> QED BY <3>1, <3>4, <3>5, <3>6, <2>1 DEF Searching
  <2>3. CASE ~(at[t] # NULL /\ j_id[at[t]] # t)
    <3>1. at' = [at EXCEPT ![t] = "out"] /\ found' = [found EXCEPT ![t] = at[t]]
      BY <1>4, <2>3 DEF job_find
    <3> QED BY <3>1, <2>1 DEF Searching
  <2> QED BY <2>2, <2>3
<1>5. CASE UNCHANGED qvars
  BY <1>5 DEF qvars, Searching
<1> QED BY <1>2, <1>3, <1>4, <1>5 DEF QNext

\* A search that ends has stopped at the first job of its thread, or past the
\* end when there is none.
LEMMA FoundStep == ASSUME Inv, Searching, [QNext]_qvars PROVE FoundIsFirst
<1> USE NULLAssumption, OutAssumption
<1> SUFFICES ASSUME NEW t \in Finders, at[t] # "out", at'[t] = "out"
             PROVE  LET mine == {i \in 1..Len(order) : j_id[order[i]] = t}
                    IN  IF mine = {} THEN found'[t] = NULL
                        ELSE \E i \in mine : found'[t] = order[i] /\ \A k \in mine : i <= k
  BY DEF FoundIsFirst
<1> DEFINE mine == {i \in 1..Len(order) : j_id[order[i]] = t}
<1>1. Len(order) \in Nat /\ \A i \in 1..Len(order) : order[i] \in Jobs
  BY DEF Inv, QueueTypeOK
<1>2. job_find(t)
  <2>1. ~ UNCHANGED at
    OBVIOUS
  <2>2. \A jp \in Jobs : ~job_insert(jp) /\ ~job_append(jp) /\ ~job_remove(jp)
    BY <2>1 DEF job_insert, job_append, job_remove
  <2>3. PICK u \in Finders : FindStart(u) \/ job_find(u)
    BY <2>1, <2>2 DEF QNext, qvars
  <2>4. u = t
    BY <2>3 DEF FindStart, job_find, Searching
  <2> QED BY <2>3, <2>4 DEF FindStart
<1>3. found'[t] = at[t] /\ (at[t] = NULL \/ j_id[at[t]] = t)
  <2>1. CASE at[t] # NULL /\ j_id[at[t]] # t
    <3>1. at'[t] = j_next[at[t]] /\ at[t] \in Jobs
      BY <2>1, <1>2 DEF job_find, Searching
    <3> QED BY <3>1 DEF Inv, QueueTypeOK
  <2>2. CASE ~(at[t] # NULL /\ j_id[at[t]] # t)
    BY <2>2, <1>2 DEF job_find, Searching
  <2> QED BY <2>1, <2>2
<1>4. PICK p \in 1..Len(order) + 1 :
         /\ at[t] = IF p = Len(order) + 1 THEN NULL ELSE order[p]
         /\ \A i \in 1..p - 1 : j_id[order[i]] # t
  BY DEF Searching
<1>5. CASE p = Len(order) + 1
  <2>1. mine = {} /\ found'[t] = NULL
    BY <1>1, <1>3, <1>4, <1>5
  <2> QED BY <2>1
<1>6. CASE p # Len(order) + 1
  <2>1. p \in mine /\ found'[t] = order[p]
    BY <1>1, <1>3, <1>4, <1>6
  <2>2. \A k \in mine : p <= k
    BY <1>1, <1>4
  <2> QED BY <2>1, <2>2
<1> QED BY <1>5, <1>6

\* For every set of jobs and threads, whatever other searches run and whatever
\* was queued and removed before, job_find returns the first job of its
\* thread, or NULL when no job in the queue is.
THEOREM FindsFirst == QSpec => [][FoundIsFirst]_qvars
<1>1. QInit => Inv /\ Searching
  <2>1. QInit => Searching
    BY DEF QInit, Searching
  <2> QED BY <2>1, InitInv
<1>2. Inv /\ Searching /\ [QNext]_qvars => (Inv /\ Searching)'
  BY StepInv, StepSearching
<1>3. Inv /\ Searching /\ [QNext]_qvars => [FoundIsFirst]_qvars
  BY FoundStep
<1> QED BY <1>1, <1>2, <1>3, PTL DEF QSpec

-----------------------------------------------------------------------------
(* The ring of datagrams that dg_echo and the SIGIO handler share.          *)

\* What the main loop and the handler rely on between their steps.
Phases ==
    /\ pc \in {"send", "advance", "block"} => nqueue >= 1
    /\ handling => pc \in Unblocked /\ nread <= nqueue
    /\ taken <= arrived
    /\ pc # "quit" /\ ~handling => taken = arrived \/ pending
    /\ pc # "quit" => nqueue <= taken
    /\ pc = "suspend" /\ ~handling => nqueue = 0

\* The inductive invariant: the properties the runs check, and Phases.
IInv == QTypeOK /\ RingHoldsUnsent /\ EchoedInOrder /\ CounterInArray /\ Phases

\* dg_echo starts with an empty ring.
LEMMA InitHolds == SInit => IInv
<1> SUFFICES ASSUME SInit PROVE IInv
  OBVIOUS
<1>1. Unsent = 0 /\ Slot(0) = 0
  BY QueueAssumption DEF SInit, Unsent, Slot
<1>2. QTypeOK
  <2>1. pc \in Unblocked \cup {"test", "quit"} /\ handling \in BOOLEAN /\ pending \in BOOLEAN
    BY Zenon DEF SInit, Unblocked
  <2> QED
    BY <2>1, QueueAssumption DEF SInit, QTypeOK
<1>3. RingHoldsUnsent /\ EchoedInOrder
  BY <1>1, QueueAssumption DEF SInit, RingHoldsUnsent, EchoedInOrder
<1>4. CounterInArray /\ Phases
  BY QueueAssumption DEF SInit, CounterInArray, Phases
<1> QED
  BY <1>2, <1>3, <1>4 DEF IInv

\* An arriving datagram only raises the signal.
LEMMA ArriveKeeps == IInv /\ Arrive => IInv'
  BY QueueAssumption, SMTT(30), SMTT(30)
     DEF Arrive, IInv, QTypeOK, RingHoldsUnsent, EchoedInOrder, CounterInArray,
         Phases, Slot, Unsent, Unblocked

\* The test of nqueue, made while SIGIO is blocked.
LEMMA TestKeeps == IInv /\ Test => IInv'
  BY QueueAssumption, SMTT(30), SMTT(30)
     DEF Test, IInv, QTypeOK, RingHoldsUnsent, EchoedInOrder, CounterInArray,
         Phases, Slot, Unsent, Unblocked

\* Sendto sends the oldest datagram of the ring.
LEMMA SendtoKeeps == IInv /\ Sendto => IInv'
<1> SUFFICES ASSUME IInv, Sendto PROVE IInv'
  OBVIOUS
<1>1. dg[Slot(0)] = taken - Unsent + 0 + 1 /\ Slot(0) = iget /\ Unsent = nqueue
  BY QueueAssumption, SMTT(30)
  DEF Sendto, IInv, QTypeOK, RingHoldsUnsent, Phases, Slot, Unsent
<1>2. echoed' = taken - nqueue + 1
  BY <1>1 DEF Sendto, IInv, QTypeOK
<1>3. RingHoldsUnsent'
  BY QueueAssumption, SMTT(30)
     DEF Sendto, IInv, QTypeOK, RingHoldsUnsent, Phases, Slot, Unsent
<1>4. QTypeOK' /\ EchoedInOrder' /\ CounterInArray' /\ Phases'
  BY <1>1, <1>2, QueueAssumption, SMTT(30)
     DEF Sendto, IInv, QTypeOK, EchoedInOrder, CounterInArray, Phases, Unsent,
         Unblocked
<1> QED
  BY <1>3, <1>4 DEF IInv

\* Advancing iget shortens the part of the ring that is to be sent.
LEMMA AdvanceKeeps == IInv /\ Advance => IInv'
<1> SUFFICES ASSUME IInv, Advance PROVE IInv'
  OBVIOUS
<1>1. /\ Unsent = nqueue /\ Unsent' = nqueue - 1 /\ nqueue >= 1 /\ nqueue <= QSIZE /\ nqueue \in Nat
      /\ iget \in 0..QSIZE - 1 /\ iget' = After(iget) /\ iget' \in 0..QSIZE - 1
      /\ iput' = iput /\ dg' = dg /\ taken' = taken /\ nqueue' = nqueue /\ taken \in Nat
  BY QueueAssumption, SMTT(30)
     DEF Advance, IInv, QTypeOK, RingHoldsUnsent, Phases, Unsent, After
<1>2. iput' = Slot(Unsent)'
  BY <1>1, QueueAssumption, SMTT(30)
     DEF Advance, IInv, QTypeOK, RingHoldsUnsent, Slot, After
<1>3. ASSUME NEW k \in 0..QSIZE - 1, k < Unsent' PROVE dg'[Slot(k)'] = taken' - Unsent' + k + 1
  <2>1. k + 1 \in 0..QSIZE - 1 /\ k + 1 < Unsent
    BY <1>1, <1>3, QueueAssumption
  <2>2. dg[Slot(k + 1)] = taken - Unsent + (k + 1) + 1
    BY <2>1 DEF Advance, IInv, RingHoldsUnsent
  <2>3. Slot(k)' = Slot(k + 1)
    BY <2>1, <1>1, QueueAssumption, SMTT(30) DEF Slot, After
  <2> QED
    BY <1>1, <2>2, <2>3
<1>4. RingHoldsUnsent'
  <2>1. \A k \in 0..QSIZE - 1 : k < Unsent' => dg'[Slot(k)'] = taken' - Unsent' + k + 1
    BY <1>3
  <2> QED
    BY <1>1, <1>2, <2>1 DEF RingHoldsUnsent, Slot
<1>5. QTypeOK' /\ EchoedInOrder' /\ CounterInArray' /\ Phases'
  BY <1>1, QueueAssumption, SMTT(30)
     DEF Advance, IInv, QTypeOK, EchoedInOrder, CounterInArray, Phases, Unsent,
         Unblocked
<1> QED
  BY <1>4, <1>5 DEF IInv

\* nqueue follows iget, with SIGIO blocked again.
LEMMA DecrementKeeps == IInv /\ Decrement => IInv'
<1> SUFFICES ASSUME IInv, Decrement PROVE IInv'
  OBVIOUS
<1>1. Unsent' = Unsent
  BY DEF Decrement, Unsent
<1>2. RingHoldsUnsent'
  BY <1>1, QueueAssumption, SMTT(30)
     DEF Decrement, IInv, QTypeOK, RingHoldsUnsent, Phases, Slot
<1>3. QTypeOK' /\ EchoedInOrder' /\ CounterInArray' /\ Phases'
  BY <1>1, QueueAssumption, SMTT(30)
     DEF Decrement, IInv, QTypeOK, EchoedInOrder, CounterInArray, Phases,
         Unblocked
<1> QED
  BY <1>2, <1>3 DEF IInv

\* The start and the end of the handler move nothing in the ring.
LEMMA DeliverKeeps == IInv /\ Deliver => IInv'
<1> SUFFICES ASSUME IInv, Deliver PROVE IInv'
  OBVIOUS
<1>1. handling' /\ Unsent' = Unsent /\ pc' = pc /\ pc \in Unblocked
  BY DEF Deliver, Unsent
<1>2. QTypeOK' /\ CounterInArray'
  <2>1. handling' \in BOOLEAN /\ pending' \in BOOLEAN
    BY Zenon DEF Deliver
  <2> QED
    BY <1>1, <2>1, QueueAssumption DEF Deliver, IInv, QTypeOK, CounterInArray
<1>3. RingHoldsUnsent'
  BY <1>1 DEF Deliver, IInv, RingHoldsUnsent, Slot
<1>4. EchoedInOrder'
  BY <1>1 DEF Deliver, IInv, EchoedInOrder
<1>5. Phases'
  BY <1>1 DEF Deliver, IInv, QTypeOK, Phases
<1> QED
  BY <1>2, <1>3, <1>4, <1>5 DEF IInv

\* The program ends when the ring is full at the start of an iteration.
LEMMA OverflowKeeps == IInv /\ Overflow => IInv'
<1> SUFFICES ASSUME IInv, Overflow PROVE IInv'
  OBVIOUS
<1>1. pc' = "quit" /\ ~handling'
  BY DEF Overflow
<1>2. QTypeOK'
  BY <1>1, Zenon DEF Overflow, IInv, QTypeOK
<1>3. CounterInArray' /\ Phases'
  BY <1>1 DEF Overflow, IInv, CounterInArray, Phases
<1> QED
  BY <1>1, <1>2, <1>3 DEF IInv, RingHoldsUnsent, EchoedInOrder

\* The handler returns, and sigsuspend with it.
LEMMA WouldblockKeeps == IInv /\ Wouldblock => IInv'
<1> SUFFICES ASSUME IInv, Wouldblock PROVE IInv'
  OBVIOUS
<1>1. /\ ~handling' /\ Unsent' = Unsent /\ pc # "quit" /\ taken' = arrived'
      /\ (pc' = "block" <=> pc = "block") /\ (pc' = "advance" <=> pc = "advance")
      /\ (pc' \in {"send", "advance", "block"} => pc' = pc) /\ pc' \in Unblocked \cup {"test"} /\ pc' # "suspend"
  BY DEF Wouldblock, IInv, QTypeOK, Phases, Unsent, Unblocked
<1>2. QTypeOK' /\ CounterInArray'
  BY <1>1, Zenon DEF Wouldblock, IInv, QTypeOK, CounterInArray, Unblocked
<1>3. RingHoldsUnsent'
  BY <1>1 DEF Wouldblock, IInv, RingHoldsUnsent, Slot
<1>4. EchoedInOrder'
  BY <1>1 DEF Wouldblock, IInv, EchoedInOrder
<1>5. Phases'
  BY <1>1 DEF Wouldblock, IInv, Phases, Unblocked
<1> QED
  BY <1>2, <1>3, <1>4, <1>5 DEF IInv

\* The handler writes one place past the datagrams still to be sent.
LEMMA RecvfromKeeps == IInv /\ Recvfrom => IInv'
<1> SUFFICES ASSUME IInv, Recvfrom PROVE IInv'
  OBVIOUS
<1>1. /\ Unsent' = Unsent + 1 /\ Unsent >= 0 /\ Unsent < QSIZE /\ Unsent \in Int /\ pc' = pc /\ pc # "quit"
      /\ iget' = iget /\ iget \in 0..QSIZE - 1 /\ iput = Slot(Unsent) /\ iput \in 0..QSIZE - 1
      /\ taken' = taken + 1 /\ taken \in Nat
  BY SMTT(30), QueueAssumption, SMTT(30)
  DEF Recvfrom, IInv, QTypeOK, RingHoldsUnsent, Phases, Unsent, Unblocked
<1>2. \A k \in 0..QSIZE - 1 : Slot(k)' = Slot(k) /\ Slot(k) \in 0..QSIZE - 1
  BY <1>1, QueueAssumption, SMTT(30) DEF Slot
<1>3. iput' = Slot(Unsent)'
  BY <1>1, QueueAssumption, SMTT(30) DEF Recvfrom, Slot, After
<1>4. ASSUME NEW k \in 0..QSIZE - 1, k < Unsent' PROVE dg'[Slot(k)'] = taken' - Unsent' + k + 1
  <2>1. CASE k = Unsent
    BY <2>1, <1>1, <1>2, SMTT(30) DEF Recvfrom, IInv, QTypeOK
  <2>2. CASE k < Unsent
    <3>1. Slot(k) # iput
      BY <2>2, <1>1, QueueAssumption, SMTT(30) DEF Slot
    <3>2. dg'[Slot(k)] = dg[Slot(k)]
      BY <3>1, <1>1, <1>2 DEF Recvfrom, IInv, QTypeOK
    <3> QED
      BY <2>2, <3>2, <1>1, <1>2 DEF IInv, RingHoldsUnsent
  <2> QED
    BY <2>1, <2>2, <1>1, <1>4
<1>5. RingHoldsUnsent'
  <2>1. \A k \in 0..QSIZE - 1 : k < Unsent' => dg'[Slot(k)'] = taken' - Unsent' + k + 1
    BY <1>4
  <2>2. nqueue' <= QSIZE
    BY QueueAssumption, SMTT(30) DEF Recvfrom, IInv, QTypeOK
  <2> QED
    BY <2>2, <1>3, <2>1 DEF RingHoldsUnsent, Slot
<1>6. QTypeOK' /\ CounterInArray'
  BY QueueAssumption, SMTT(30)
     DEF Recvfrom, IInv, QTypeOK, CounterInArray, Phases, After, Unblocked
<1>7. EchoedInOrder' /\ Phases'
  BY <1>1, SMTT(30)
     DEF Recvfrom, IInv, QTypeOK, EchoedInOrder, Phases, Unblocked
<1> QED
  BY <1>5, <1>6, <1>7 DEF IInv

\* Every step of the server and of the network keeps the invariant.
LEMMA NextKeeps == IInv /\ [SNext]_svars => IInv'
<1>1. CASE UNCHANGED svars
  BY <1>1, Zenon
     DEF svars, IInv, QTypeOK, RingHoldsUnsent, EchoedInOrder, CounterInArray,
         Phases, Slot, Unsent
<1> QED
  BY <1>1, ArriveKeeps, TestKeeps, SendtoKeeps, AdvanceKeeps, DecrementKeeps, DeliverKeeps, OverflowKeeps,
     WouldblockKeeps, RecvfromKeeps
  DEF SNext, dg_echo, sig_io

\* For every QSIZE: the ring holds exactly the datagrams read and not sent, so
\* that the handler never overwrites one that the main loop is sending; they go
\* back in the order they came; the histogram of datagrams per signal stays in
\* its array; the loop never sleeps on a datagram whose signal was delivered
\* before.
THEOREM EchoIsSafe == SSpec => []SigioSafe
<1>1. IInv => SigioSafe
  BY DEF IInv, Phases, NoLostSignal, SigioSafe
<1> QED
  BY <1>1, InitHolds, NextKeeps, PTL DEF SSpec

-----------------------------------------------------------------------------
(* The table of chain heads that db_open writes (DbOpen). *)

\* The whole-file lock: a process between LockIdx and UnlockIdx holds it.
LockHeld ==
  \A p \in Procs : place[p] \in {"stat", "write", "unlock"} => lock = p

\* The lock on the whole file and the locks on its chains exclude each other.
NoStoreUnderLock ==
  lock # None => \A p \in Procs : place[p] \notin InStore

\* A process in db_store has a record in hand.
RecInHand ==
  \A p \in Procs : place[p] \in InStore => rec[p] \in Recs

\* A process that found the file empty finds no record when it writes the
\* table: nobody can store one, for want of the lock.
WritesOverNothing ==
  \A p \in Procs : place[p] = "write" => recs = {}

\* The inductive invariant.
OpenInv == OpenTypeOK /\ LockHeld /\ NoStoreUnderLock /\ RecInHand /\ WritesOverNothing

\* The inductive invariant holds before the database exists.
LEMMA InitOpenInv == OInit => OpenInv
  BY DEF OInit, OpenInv, OpenTypeOK, LockHeld, NoStoreUnderLock, RecInHand,
         WritesOverNothing, InStore

\* Every step of every process preserves the types: db_open and db_store go
\* through their places, and records are only where a table is.
LEMMA TypeStep == OpenTypeOK /\ RecInHand /\ [ONext]_ovars => OpenTypeOK'
<1> SUFFICES ASSUME OpenTypeOK, RecInHand, [ONext]_ovars PROVE OpenTypeOK'
  OBVIOUS
<1> USE DEF OpenTypeOK, InStore
<1>1. CASE UNCHANGED ovars
  BY <1>1 DEF ovars
<1>2. ASSUME NEW p \in Procs, OpenIdx(p) PROVE OpenTypeOK'
  <2> PICK f \in Oflags, ok \in BOOLEAN :
        /\ oflag' = [oflag EXCEPT ![p] = f]
        /\ idxfd' = [idxfd EXCEPT ![p] = ok]
        /\ LET empties == ok /\ (idx = "absent" \/ "trunc" \in f)
           IN  /\ idx' = IF empties THEN "empty" ELSE idx
               /\ recs' = IF empties THEN {} ELSE recs
    BY <1>2 DEF OpenIdx
  <2>1. idx' \in {"absent", "empty", "table", "stray"} /\ recs' \subseteq Recs
          /\ (recs' # {} => idx' = "table")
    OBVIOUS
  <2>2. oflag' \in [Procs -> Oflags \cup {{}}] /\ idxfd' \in [Procs -> BOOLEAN]
    OBVIOUS
  <2> QED
    BY <1>2, <2>1, <2>2 DEF OpenIdx, Goes
<1>3. ASSUME NEW p \in Procs, OpenDat(p) PROVE OpenTypeOK'
  BY <1>3 DEF OpenDat
<1>4. ASSUME NEW p \in Procs, LockIdx(p) PROVE OpenTypeOK'
  BY <1>4 DEF LockIdx, Goes
<1>5. ASSUME NEW p \in Procs, StatIdx(p) PROVE OpenTypeOK'
  BY <1>5 DEF StatIdx, Goes
<1>6. ASSUME NEW p \in Procs, WriteTable(p) PROVE OpenTypeOK'
  BY <1>6 DEF WriteTable, Goes
<1>7. ASSUME NEW p \in Procs, UnlockIdx(p) PROVE OpenTypeOK'
  BY <1>7 DEF UnlockIdx, Goes
<1>8. ASSUME NEW p \in Procs, StoreLock(p) PROVE OpenTypeOK'
  BY <1>8 DEF StoreLock, Goes
<1>9. ASSUME NEW p \in Procs, Gone(p), UNCHANGED <<idx, dat, recs>> PROVE OpenTypeOK'
  BY <1>9 DEF Gone
<1>10. ASSUME NEW p \in Procs, StoreFind(p) PROVE OpenTypeOK'
  BY <1>9, <1>10 DEF StoreFind, Goes
<1>11. ASSUME NEW p \in Procs, StoreWriteIdx(p) PROVE OpenTypeOK'
  BY <1>11 DEF StoreWriteIdx, Goes, Grown
<1>12. ASSUME NEW p \in Procs, StoreWritePtr(p) PROVE OpenTypeOK'
  BY <1>12 DEF StoreWritePtr, Goes, Grown, RecInHand
<1>13. ASSUME NEW p \in Procs, StoreUnlock(p) PROVE OpenTypeOK'
  BY <1>13 DEF StoreUnlock, Goes
<1>14. ASSUME NEW p \in Procs, Close(p) PROVE OpenTypeOK'
  BY <1>9, <1>14 DEF Close
<1> QED
  BY <1>1, <1>2, <1>3, <1>4, <1>5, <1>6, <1>7, <1>8, <1>10, <1>11, <1>12,
     <1>13, <1>14, Zenon DEF ONext, db_store

\* Every step of every process preserves the facts on the two kinds of locks,
\* on the records in hand and on the table.
LEMMA LockStep ==
  OpenInv /\ [ONext]_ovars => LockHeld' /\ NoStoreUnderLock' /\ RecInHand' /\ WritesOverNothing'
<1> DEFINE Goal == LockHeld' /\ NoStoreUnderLock' /\ RecInHand' /\ WritesOverNothing'
<1> SUFFICES ASSUME OpenInv, [ONext]_ovars PROVE Goal
  OBVIOUS
<1> USE NoneAssumption DEF OpenInv, OpenTypeOK, LockHeld, NoStoreUnderLock,
                           RecInHand, WritesOverNothing, InStore
<1>1. CASE UNCHANGED ovars
  BY <1>1 DEF ovars
<1>2. ASSUME NEW p \in Procs, OpenIdx(p) PROVE Goal
  BY <1>2 DEF OpenIdx, Goes
<1>3. ASSUME NEW p \in Procs, OpenDat(p) PROVE Goal
  BY <1>3 DEF OpenDat
<1>4. ASSUME NEW p \in Procs, LockIdx(p) PROVE Goal
  BY <1>4 DEF LockIdx, Goes
<1>5. ASSUME NEW p \in Procs, StatIdx(p) PROVE Goal
  BY <1>5 DEF StatIdx, Goes
<1>6. ASSUME NEW p \in Procs, WriteTable(p) PROVE Goal
  BY <1>6 DEF WriteTable, Goes
<1>7. ASSUME NEW p \in Procs, UnlockIdx(p) PROVE Goal
  BY <1>7 DEF UnlockIdx, Goes
<1>8. ASSUME NEW p \in Procs, StoreLock(p) PROVE Goal
  BY <1>8 DEF StoreLock, Goes
<1>9. ASSUME NEW p \in Procs, Gone(p), UNCHANGED <<idx, dat, recs>> PROVE Goal
  BY <1>9 DEF Gone
<1>10. ASSUME NEW p \in Procs, StoreFind(p) PROVE Goal
  BY <1>9, <1>10 DEF StoreFind, Goes
<1>11. ASSUME NEW p \in Procs, StoreWriteIdx(p) PROVE Goal
  BY <1>11 DEF StoreWriteIdx, Goes
<1>12. ASSUME NEW p \in Procs, StoreWritePtr(p) PROVE Goal
  BY <1>12 DEF StoreWritePtr, Goes
<1>13. ASSUME NEW p \in Procs, StoreUnlock(p) PROVE Goal
  BY <1>13 DEF StoreUnlock, Goes
<1>14. ASSUME NEW p \in Procs, Close(p) PROVE Goal
  BY <1>9, <1>14 DEF Close
<1> HIDE DEF Goal
<1> QED
  BY <1>1, <1>2, <1>3, <1>4, <1>5, <1>6, <1>7, <1>8, <1>10, <1>11, <1>12,
     <1>13, <1>14, Zenon DEF ONext, db_store

\* The inductive invariant holds in every state of db_open and db_close.
THEOREM OpenInvariance == OSpec => []OpenInv
<1>1. OpenInv /\ [ONext]_ovars => OpenInv'
  BY TypeStep, LockStep DEF OpenInv
<1> QED
  BY InitOpenInv, <1>1, PTL DEF OSpec

\* No step takes a stored record away but the open(2) that empties the file.
LEMMA KeepsRecords ==
  OpenInv /\ [ONext]_ovars => \A r \in recs : r \in recs' \/ idx' = "empty"
<1> SUFFICES ASSUME OpenInv, [ONext]_ovars, NEW r \in recs
             PROVE  r \in recs' \/ idx' = "empty"
  OBVIOUS
<1>1. ASSUME NEW p \in Procs, WriteTable(p) PROVE FALSE
  BY <1>1 DEF WriteTable, Goes, OpenInv, WritesOverNothing
<1>2. ASSUME NEW p \in Procs, OpenIdx(p) PROVE r \in recs' \/ idx' = "empty"
  BY <1>2 DEF OpenIdx
<1>3. ASSUME NEW p \in Procs, \/ OpenDat(p) \/ LockIdx(p) \/ StatIdx(p) \/ UnlockIdx(p) \/ Close(p)
      PROVE  r \in recs'
  BY <1>3 DEF OpenDat, LockIdx, StatIdx, UnlockIdx, Close
<1>4. ASSUME NEW p \in Procs, db_store(p) PROVE r \in recs'
  BY <1>4 DEF db_store, StoreLock, StoreFind, StoreWriteIdx, StoreWritePtr, StoreUnlock
<1> QED
  BY <1>1, <1>2, <1>3, <1>4 DEF ONext, ovars

\* A process that initialises the database in db_open never wipes out records
\* another process has stored meanwhile.
THEOREM OneInitialisation == OSpec => InitialisesOnce
<1>1. OpenInv /\ [ONext]_ovars => [\A r \in recs : r \in recs' \/ idx' = "empty"]_ovars
  BY KeepsRecords
<1> QED
  BY OpenInvariance, <1>1, PTL DEF OSpec, InitialisesOnce
=============================================================================
