------------------------------ MODULE DbFacts ------------------------------
(***************************************************************************)
(* The database library (module Db) for any number of processes, keys,     *)
(* chains and records: what its lists are, the invariant of its files and  *)
(* calls, and what each step does to a state in which the invariant holds. *)
(***************************************************************************)
EXTENDS Db, FiniteSetTheorems, TLAPS


\* The chain pointers in the index records.
Ptr == [r \in 1..Len(idx) |-> idx[r].ptr]

\* The records S, in the order a, form a list that starts at h and follows
\* the pointers f to a null pointer.
IsWalk(a, n, h, f, S) ==
  /\ a \in [0..n -> S \cup {0}]
  /\ a[0] = h /\ a[n] = 0
  /\ \A i \in 0..(n - 1) : a[i] \in S /\ a[i + 1] = f[a[i]]
  /\ \A x \in S : \E i \in 0..(n - 1) : a[i] = x
  /\ \A i, j \in 0..(n - 1) : a[i] = a[j] => i = j

ListOf(h, f, S) == \E n \in Nat : \E a \in [0..n -> S \cup {0}] : IsWalk(a, n, h, f, S)

-----------------------------------------------------------------------------
(* Induction over the naturals, by the least counterexample. *)

\* A set of naturals that is not empty has a least element.
LEMMA LeastNat ==
  ASSUME NEW S, S \subseteq Nat, S # {}
  PROVE  \E m \in S : \A k \in S : m <= k
<1>1. PICK x \in S : \A y \in S : ~(<<y, x>> \in OpToRel(<, Nat))
  BY NatLessThanWellFounded, WFMin, Zenon
<1>2. \A y \in S : ~(y < x)
  BY <1>1, Zenon DEF OpToRel
<1> QED
  BY <1>2

\* A set of naturals that holds 0 and the successor of each of its members up
\* to n holds all naturals up to n.
LEMMA UpTo ==
  ASSUME NEW n \in Nat, NEW T, 0 \in T,
         \A k \in 0..(n - 1) : k \in T => k + 1 \in T
  PROVE  0..n \subseteq T
<1> DEFINE B == {k \in 0..n : k \notin T}
<1> SUFFICES ASSUME B # {} PROVE FALSE
  OBVIOUS
<1>1. B \subseteq Nat
  OBVIOUS
<1> HIDE DEF B
<1>2. PICK k \in B : \A j \in B : k <= j
  BY <1>1, LeastNat, Zenon
<1>3. k \in 0..n /\ k \notin T /\ k # 0
  BY DEF B
<1>4. k - 1 \in 0..(n - 1) /\ k - 1 \in 0..n /\ (k - 1) + 1 = k /\ ~(k <= k - 1)
  BY <1>3
<1>5. k - 1 \notin B
  BY <1>2, <1>4
<1>6. k - 1 \in T
  BY <1>4, <1>5 DEF B
<1> QED
  BY <1>3, <1>4, <1>6

-----------------------------------------------------------------------------
(* Walk. *)

\* The record a walk comes to after record r.
After(r) == IF r = 0 THEN 0 ELSE idx[r].ptr

\* The recursion of Walk has a solution.
LEMMA WalkExists ==
  ASSUME NEW r, NEW n \in Nat
  PROVE  \E g : g = [m \in 0..n |-> IF m = 0 THEN r ELSE After(g[m - 1])]
<1> DEFINE Body(g, m) == IF m = 0 THEN r ELSE After(g[m - 1])
<1> DEFINE T == {k \in Nat : \E g : g = [m \in 0..k |-> Body(g, m)]}
<1> SUFFICES n \in T
  OBVIOUS
<1>1. 0 \in T
  <2> DEFINE g == [m \in 0..0 |-> r]
  <2>1. g = [m \in 0..0 |-> Body(g, m)]
    OBVIOUS
  <2> QED
    BY <2>1, Zenon
<1>2. ASSUME NEW k \in 0..(n - 1), k \in T PROVE k + 1 \in T
  <2>1. PICK g : g = [m \in 0..k |-> Body(g, m)]
    BY <1>2
  <2>2. \A m \in 0..k : g[m] = Body(g, m)
    BY <2>1
  <2> DEFINE h == [m \in 0..(k + 1) |->
                     IF m = k + 1 THEN After(g[k]) ELSE g[m]]
  <2>3. ASSUME NEW m \in 0..(k + 1) PROVE h[m] = Body(h, m)
    <3>1. CASE m = k + 1
      BY <3>1
    <3>2. CASE m # k + 1
      <4>1. m \in 0..k /\ (m # 0 => m - 1 \in 0..k /\ m - 1 # k + 1)
        BY <3>2
      <4>2. h[m] = g[m] /\ (m # 0 => h[m - 1] = g[m - 1])
        BY <4>1
      <4> QED
        BY <2>2, <4>1, <4>2
    <3> QED
      BY <3>1, <3>2
  <2>4. h = [m \in 0..(k + 1) |-> Body(h, m)]
    BY <2>3
  <2> HIDE DEF h
  <2>5. k + 1 \in Nat
    OBVIOUS
  <2> QED
    BY <2>4, <2>5
<1> HIDE DEF T
<1>3. n \in 0..n
  OBVIOUS
<1> QED
  BY <1>1, <1>2, <1>3, UpTo

\* What Walk computes, one record after the other.
LEMMA WalkSteps ==
  ASSUME NEW r
  PROVE  /\ Walk(r)[0] = r
         /\ \A n \in 1..MaxRecs : Walk(r)[n] = After(Walk(r)[n - 1])
<1>1. MaxRecs \in Nat
  BY DbAssumption
<1>2. \E g : g = [m \in 0..MaxRecs |-> IF m = 0 THEN r ELSE After(g[m - 1])]
  BY <1>1, WalkExists, Zenon
<1>3. Walk(r) = [n \in 0..MaxRecs |->
                    IF n = 0 THEN r ELSE After(Walk(r)[n - 1])]
  BY <1>2, Zenon DEF Walk, After
<1>4. \A n \in 0..MaxRecs :
        Walk(r)[n] = IF n = 0 THEN r ELSE After(Walk(r)[n - 1])
  BY <1>3, Zenon
<1>5. \A n \in 1..MaxRecs : n \in 0..MaxRecs /\ n # 0
  BY <1>1
<1>6. 0 \in 0..MaxRecs
  BY <1>1
<1> QED
  BY <1>4, <1>5, <1>6, Zenon

-----------------------------------------------------------------------------
(* Lists and writes of chain pointers. *)

\* A write of pointers outside a list leaves it as it was.
LEMMA ListFrame ==
  ASSUME NEW h, NEW f, NEW g, NEW S, ListOf(h, f, S),
         \A x \in S : g[x] = f[x]
  PROVE  ListOf(h, g, S)
<1>1. PICK n \in Nat : \E a \in [0..n -> S \cup {0}] : IsWalk(a, n, h, f, S)
  BY DEF ListOf
<1>2. PICK a \in [0..n -> S \cup {0}] : IsWalk(a, n, h, f, S)
  BY <1>1
<1>3. IsWalk(a, n, h, g, S)
  BY <1>2 DEF IsWalk
<1> QED
  BY <1>3 DEF ListOf

\* An empty list.
LEMMA ListEmpty == ASSUME NEW f PROVE ListOf(0, f, {})
<1> DEFINE a == [i \in 0..0 |-> 0]
<1>1. a \in [0..0 -> {} \cup {0}]
  OBVIOUS
<1>2. IsWalk(a, 0, 0, f, {})
  BY DEF IsWalk
<1> HIDE DEF a
<1> QED
  BY <1>1, <1>2 DEF ListOf

\* A record that points to the head becomes the head.
LEMMA ListPush ==
  ASSUME NEW h, NEW f, NEW g, NEW S, ListOf(h, f, S), 0 \notin S,
         NEW x, x # 0, x \notin S, g[x] = h, \A y \in S : g[y] = f[y]
  PROVE  ListOf(x, g, S \cup {x})
<1>1. PICK n \in Nat : \E a \in [0..n -> S \cup {0}] : IsWalk(a, n, h, f, S)
  BY DEF ListOf
<1>2. PICK a \in [0..n -> S \cup {0}] : IsWalk(a, n, h, f, S)
  BY <1>1
<1> DEFINE b == [i \in 0..(n + 1) |-> IF i = 0 THEN x ELSE a[i - 1]]
<1>b. /\ b[0] = x /\ n + 1 \in Nat /\ (n + 1) - 1 = n
      /\ \A i \in 0..n : i + 1 \in 0..(n + 1) /\ b[i + 1] = a[i]
      /\ \A i \in 0..(n + 1) : i = 0 \/ (i - 1 \in 0..n /\ b[i] = a[i - 1])
  OBVIOUS
<1>3. b \in [0..(n + 1) -> S \cup {x} \cup {0}]
  OBVIOUS
<1> HIDE DEF b
<1>4. b[n + 1] = 0
  BY <1>2, <1>b DEF IsWalk
<1>5. ASSUME NEW i \in 0..n
      PROVE  b[i] \in S \cup {x} /\ b[i + 1] = g[b[i]]
  <2>1. CASE i = 0
    BY <1>2, <1>b, <2>1 DEF IsWalk
  <2>2. CASE i # 0
    <3>1. i - 1 \in 0..(n - 1) /\ (i - 1) + 1 = i /\ i \in 0..(n + 1)
      BY <2>2
    <3>2. b[i] = a[i - 1] /\ b[i + 1] = a[i]
      BY <1>b, <2>2, <3>1
    <3> QED
      BY <1>2, <3>1, <3>2 DEF IsWalk
  <2> QED
    BY <2>1, <2>2
<1>6. ASSUME NEW y \in S \cup {x} PROVE \E i \in 0..n : b[i] = y
  <2>1. CASE y = x
    BY <1>b, <2>1
  <2>2. CASE y \in S
    <3>1. PICK i \in 0..(n - 1) : a[i] = y
      BY <1>2, <2>2 DEF IsWalk
    <3>2. i + 1 \in 0..n /\ i \in 0..n
      OBVIOUS
    <3> QED
      BY <1>b, <3>1, <3>2, Zenon
  <2> QED
    BY <2>1, <2>2
<1>7. ASSUME NEW i \in 0..n, NEW j \in 0..n, b[i] = b[j] PROVE i = j
  <2>1. \A k \in 0..n : k # 0 => k - 1 \in 0..(n - 1) /\ b[k] = a[k - 1]
    BY <1>b
  <2>2. \A k \in 0..n : k # 0 => b[k] \in S
    BY <1>2, <2>1 DEF IsWalk
  <2>3. CASE i = 0 \/ j = 0
    BY <1>b, <1>7, <2>2, <2>3
  <2>4. CASE i # 0 /\ j # 0
    <3>1. i - 1 = j - 1
      BY <1>2, <1>7, <2>1, <2>4 DEF IsWalk
    <3> QED
      BY <3>1
  <2> QED
    BY <2>3, <2>4
<1>8. IsWalk(b, n + 1, x, g, S \cup {x})
  BY <1>3, <1>4, <1>5, <1>6, <1>7, <1>b DEF IsWalk
<1> QED
  BY <1>3, <1>8, <1>b DEF ListOf

\* A record leaves a list when its predecessor, or the head, points to its
\* successor.
LEMMA ListRemove ==
  ASSUME NEW h, NEW f, NEW g, NEW S, ListOf(h, f, S), 0 \notin S,
         NEW x \in S, NEW y \in S \cup {0},
         IF y = 0 THEN h = x ELSE f[y] = x /\ g[y] = f[x],
         \A z \in S \ {x, y} : g[z] = f[z]
  PROVE  ListOf(IF y = 0 THEN f[x] ELSE h, g, S \ {x})
<1>1. PICK n \in Nat : \E a \in [0..n -> S \cup {0}] : IsWalk(a, n, h, f, S)
  BY DEF ListOf
<1>2. PICK a \in [0..n -> S \cup {0}] : IsWalk(a, n, h, f, S)
  BY <1>1
<1>3. PICK j \in 0..(n - 1) : a[j] = x
  BY <1>2 DEF IsWalk
<1>w. /\ a[0] = h /\ a[n] = 0
      /\ \A i \in 0..(n - 1) : a[i] \in S /\ a[i + 1] = f[a[i]]
      /\ \A z \in S : \E i \in 0..(n - 1) : a[i] = z
      /\ \A i, k \in 0..(n - 1) : a[i] = a[k] => i = k
  BY <1>2 DEF IsWalk
<1>n. n - 1 \in Nat /\ 0 \in 0..(n - 1)
  OBVIOUS
<1>4. IF y = 0 THEN j = 0 ELSE j - 1 \in 0..(n - 1) /\ a[j - 1] = y
  <2>1. CASE y = 0
    BY <1>w, <1>3, <1>n, <2>1
  <2>2. CASE y # 0
    <3>1. PICK k \in 0..(n - 1) : a[k] = y
      BY <1>w, <2>2
    <3>2. a[k + 1] = x
      BY <1>w, <2>2, <3>1
    <3>3. k + 1 # n
      BY <1>w, <3>2, Zenon
    <3>4. k + 1 \in 0..(n - 1)
      BY <3>3
    <3>5. k + 1 = j
      BY <1>w, <1>3, <3>2, <3>4
    <3> QED
      BY <2>2, <3>1, <3>5
  <2> QED
    BY <2>1, <2>2
<1> DEFINE b == [i \in 0..(n - 1) |-> IF i < j THEN a[i] ELSE a[i + 1]]
<1>b. \A i \in 0..(n - 1) : b[i] = IF i < j THEN a[i] ELSE a[i + 1]
  OBVIOUS
<1>5. ASSUME NEW i \in 0..(n - 1), i # n - 1 PROVE b[i] \in S \ {x}
  <2>1. CASE i < j
    BY <1>b, <1>w, <1>3, <2>1
  <2>2. CASE ~(i < j)
    <3>1. i + 1 \in 0..(n - 1) /\ i + 1 # j
      BY <1>5, <2>2
    <3> QED
      BY <1>b, <1>w, <1>3, <2>2, <3>1
  <2> QED
    BY <2>1, <2>2
<1>6. b[n - 1] = 0
  BY <1>b, <1>w, <1>n
<1>7. b \in [0..(n - 1) -> (S \ {x}) \cup {0}]
  BY <1>5, <1>6
<1> HIDE DEF b
<1>8. b[0] = IF y = 0 THEN f[x] ELSE h
  <2>1. CASE y = 0
    BY <1>b, <1>w, <1>n, <1>3, <1>4, <2>1
  <2>2. CASE y # 0
    BY <1>b, <1>w, <1>n, <1>4, <2>2
  <2> QED
    BY <2>1, <2>2
<1>9. ASSUME NEW i \in 0..((n - 1) - 1) PROVE b[i + 1] = g[b[i]]
  <2>i. /\ i \in 0..(n - 1) /\ i + 1 \in 0..(n - 1) /\ i # n - 1
        /\ (i + 1) + 1 \in 0..n
    OBVIOUS
  <2>1. CASE i + 1 < j
    <3>1. b[i] = a[i] /\ b[i + 1] = a[i + 1] /\ i # j
      BY <1>b, <2>i, <2>1
    <3>2. a[i] # x /\ a[i] # y
      BY <1>w, <1>3, <1>4, <2>i, <2>1
    <3> QED
      BY <1>w, <2>i, <3>1, <3>2
  <2>2. CASE i + 1 = j
    <3>1. b[i] = a[i] /\ b[i + 1] = a[j + 1] /\ y # 0 /\ a[i] = y
      BY <1>b, <1>4, <2>i, <2>2
    <3> QED
      BY <1>w, <1>3, <3>1
  <2>3. CASE ~(i + 1 < j) /\ i + 1 # j
    <3>1. ~(i < j) /\ i + 1 # j - 1
      BY <2>3
    <3>2. b[i] = a[i + 1] /\ b[i + 1] = a[(i + 1) + 1]
      BY <1>b, <2>i, <2>3, <3>1
    <3>3. a[i + 1] # x /\ a[i + 1] # y
      BY <1>w, <1>3, <1>4, <2>i, <2>3, <3>1
    <3> QED
      BY <1>w, <2>i, <3>2, <3>3
  <2> QED
    BY <2>1, <2>2, <2>3
<1>10. ASSUME NEW z \in S \ {x} PROVE \E i \in 0..((n - 1) - 1) : b[i] = z
  <2>1. PICK k \in 0..(n - 1) : a[k] = z
    BY <1>w
  <2>2. k # j
    BY <1>3, <2>1
  <2>3. CASE k < j
    <3>1. k \in 0..((n - 1) - 1) /\ k \in 0..(n - 1)
      BY <2>3
    <3> QED
      BY <1>b, <2>1, <2>3, <3>1
  <2>4. CASE j < k
    <3>1. /\ k - 1 \in 0..((n - 1) - 1) /\ k - 1 \in 0..(n - 1)
          /\ ~(k - 1 < j) /\ (k - 1) + 1 = k
      BY <2>4
    <3> QED
      BY <1>b, <2>1, <3>1, Zenon
  <2> QED
    BY <2>2, <2>3, <2>4
<1>11. ASSUME NEW i \in 0..((n - 1) - 1), NEW k \in 0..((n - 1) - 1), b[i] = b[k]
       PROVE  i = k
  <2>1. \A m \in 0..((n - 1) - 1) :
          /\ m \in 0..(n - 1) /\ m + 1 \in 0..(n - 1)
          /\ m < j => b[m] = a[m]
          /\ ~(m < j) => b[m] = a[m + 1]
    BY <1>b
  <2>2. CASE i < j /\ k < j
    BY <1>w, <1>11, <2>1, <2>2
  <2>3. CASE ~(i < j) /\ ~(k < j)
    <3>1. i + 1 = k + 1
      BY <1>w, <1>11, <2>1, <2>3
    <3> QED
      BY <3>1
  <2>4. CASE i < j /\ ~(k < j)
    <3>1. i = k + 1
      BY <1>w, <1>11, <2>1, <2>4
    <3> QED
      BY <2>4, <3>1
  <2>5. CASE ~(i < j) /\ k < j
    <3>1. i + 1 = k
      BY <1>w, <1>11, <2>1, <2>5
    <3> QED
      BY <2>5, <3>1
  <2> QED
    BY <2>2, <2>3, <2>4, <2>5
<1>12. IsWalk(b, n - 1, IF y = 0 THEN f[x] ELSE h, g, S \ {x})
  <2>1. \A i \in 0..((n - 1) - 1) : b[i] \in S \ {x}
    BY <1>5
  <2> QED
    BY <1>6, <1>7, <1>8, <1>9, <1>10, <1>11, <2>1 DEF IsWalk
<1> QED
  BY <1>n, <1>7, <1>12 DEF ListOf

-----------------------------------------------------------------------------
(* What the loops over a list find. *)

\* A list of distinct records of the index file is not longer than the file.
LEMMA ListShort ==
  ASSUME NEW n \in Nat, NEW h, NEW f, NEW S, NEW m \in Nat, S \subseteq 1..m,
         NEW a \in [0..n -> S \cup {0}], IsWalk(a, n, h, f, S)
  PROVE  n <= m
<1> DEFINE T == 0..(n - 1)
           b == [i \in T |-> a[i]]
<1>0. \A i \in T : i \in 0..n /\ a[i] \in S
  BY DEF IsWalk
<1>i. \A i, j \in T : a[i] = a[j] => i = j
  BY DEF IsWalk
<1>1. b \in Injection(T, 1..m)
  <2>1. b \in [T -> 1..m] /\ \A i \in T : b[i] = a[i]
    BY <1>0, Zenon
  <2> HIDE DEF b, T
  <2> QED
    BY <1>i, <2>1 DEF Injection, IsInjective
<1>2. IsFiniteSet(T) /\ Cardinality(T) = n
  <2>1. n - 1 \in Int /\ 0 \in Int /\ (0 > n - 1 <=> n = 0) /\ (n - 1) - 0 + 1 = n
    OBVIOUS
  <2>2. /\ IsFiniteSet(0..(n - 1))
        /\ Cardinality(0..(n - 1)) = IF 0 > n - 1 THEN 0 ELSE (n - 1) - 0 + 1
    BY <2>1, FS_Interval
  <2> QED
    BY <2>1, <2>2
<1>3. IsFiniteSet(1..m) /\ Cardinality(1..m) = m
  <2>1. 1 \in Int /\ m \in Int /\ (1 > m <=> m = 0) /\ m - 1 + 1 = m
    OBVIOUS
  <2>2. /\ IsFiniteSet(1..m)
        /\ Cardinality(1..m) = IF 1 > m THEN 0 ELSE m - 1 + 1
    BY <2>1, FS_Interval
  <2> QED
    BY <2>1, <2>2
<1> HIDE DEF T, b
<1>4. Cardinality(T) <= Cardinality(1..m)
  BY <1>1, <1>2, <1>3, FS_Injection
<1> QED
  BY <1>2, <1>3, <1>4

\* Walk goes through the records of a list, and stays at its end.
LEMMA WalkList ==
  ASSUME NEW h, NEW S, ListOf(h, Ptr, S), S \subseteq 1..Len(idx),
         Len(idx) \in Nat, Len(idx) <= MaxRecs
  PROVE  \E n \in 0..MaxRecs : \E a \in [0..n -> S \cup {0}] :
           /\ IsWalk(a, n, h, Ptr, S)
           /\ \A i \in 0..MaxRecs : Walk(h)[i] = IF i <= n THEN a[i] ELSE 0
<1>m. MaxRecs \in Nat
  BY DbAssumption
<1>1. PICK n \in Nat : \E a \in [0..n -> S \cup {0}] : IsWalk(a, n, h, Ptr, S)
  BY DEF ListOf
<1>2. PICK a \in [0..n -> S \cup {0}] : IsWalk(a, n, h, Ptr, S)
  BY <1>1
<1>3. n \in 0..MaxRecs
  <2>1. n <= Len(idx)
    BY <1>2, ListShort, Zenon
  <2> QED
    BY <1>m, <2>1
<1>p. \A r \in S : Ptr[r] = idx[r].ptr /\ r # 0
  BY DEF Ptr
<1> DEFINE T == {i \in Nat : i <= MaxRecs =>
                    Walk(h)[i] = IF i <= n THEN a[i] ELSE 0}
<1>4. 0 \in T
  BY <1>2, WalkSteps DEF IsWalk
<1>5. ASSUME NEW i \in T PROVE i + 1 \in T
  <2> SUFFICES ASSUME i + 1 <= MaxRecs
               PROVE  Walk(h)[i + 1] = IF i + 1 <= n THEN a[i + 1] ELSE 0
    OBVIOUS
  <2>1. i \in Nat /\ i <= MaxRecs /\ (i + 1) - 1 = i /\ i + 1 \in 1..MaxRecs
    BY <1>m
  <2>2. Walk(h)[i] = IF i <= n THEN a[i] ELSE 0
    BY <2>1
  <2>3. Walk(h)[i + 1] = After(Walk(h)[i])
    BY <2>1, WalkSteps
  <2>4. CASE i < n
    <3>1. i \in 0..(n - 1) /\ i + 1 <= n /\ i <= n
      BY <2>1, <2>4
    <3>2. a[i] \in S /\ a[i + 1] = Ptr[a[i]]
      BY <1>2, <3>1 DEF IsWalk
    <3> QED
      BY <1>p, <2>2, <2>3, <3>1, <3>2, Zenon DEF After
  <2>5. CASE ~(i < n)
    <3>1. ~(i + 1 <= n) /\ (i <= n => i = n)
      BY <2>1, <2>5
    <3>2. Walk(h)[i] = 0
      BY <1>2, <2>2, <3>1 DEF IsWalk
    <3> QED
      BY <2>3, <3>1, <3>2 DEF After
  <2> QED
    BY <2>4, <2>5
<1>6. \A i \in Nat : i \in T
  <2> HIDE DEF T
  <2> QED
    BY <1>4, <1>5, UpTo
<1>7. \A i \in 0..MaxRecs : Walk(h)[i] = IF i <= n THEN a[i] ELSE 0
  BY <1>m, <1>6
<1> QED
  BY <1>2, <1>3, <1>7

\* A list has an end, and On gives its records.
LEMMA ListOn ==
  ASSUME NEW l, NEW S, ListOf(head[l], Ptr, S), S \subseteq 1..Len(idx),
         Len(idx) \in Nat, Len(idx) <= MaxRecs
  PROVE  Walk(head[l])[MaxRecs] = 0 /\ On(l) = S
<1>m. MaxRecs \in Nat /\ MaxRecs \in 0..MaxRecs
  BY DbAssumption
<1>1. PICK n \in 0..MaxRecs : \E a \in [0..n -> S \cup {0}] :
           /\ IsWalk(a, n, head[l], Ptr, S)
           /\ \A i \in 0..MaxRecs : Walk(head[l])[i] = IF i <= n THEN a[i] ELSE 0
  BY WalkList, Zenon
<1>2. PICK a \in [0..n -> S \cup {0}] :
           /\ IsWalk(a, n, head[l], Ptr, S)
           /\ \A i \in 0..MaxRecs : Walk(head[l])[i] = IF i <= n THEN a[i] ELSE 0
  BY <1>1
<1>3. Walk(head[l])[MaxRecs] = 0
  BY <1>m, <1>2 DEF IsWalk
<1>4. ASSUME NEW x \in S PROVE x \in On(l)
  <2>1. PICK i \in 0..(n - 1) : a[i] = x
    BY <1>2 DEF IsWalk
  <2>2. i \in 0..MaxRecs /\ i <= n
    BY <1>m
  <2>3. x # 0 /\ Walk(head[l])[i] = x
    BY <1>2, <2>1, <2>2
  <2> QED
    BY <2>2, <2>3 DEF On
<1>5. ASSUME NEW x \in On(l) PROVE x \in S
  <2>1. PICK i \in 0..MaxRecs : x = Walk(head[l])[i]
    BY DEF On
  <2>2. x # 0
    BY DEF On
  <2>3. i <= n /\ x = a[i] /\ i # n
    BY <1>2, <2>1, <2>2 DEF IsWalk
  <2>4. i \in 0..(n - 1)
    BY <1>m, <2>3
  <2> QED
    BY <1>2, <2>3, <2>4 DEF IsWalk
<1> QED
  BY <1>3, <1>4, <1>5, Zenon

\* What precedes record r on a list: y, or the head when y is 0.
Follows(h, f, S, y, r) ==
  IF y = 0 THEN h = r ELSE y \in S /\ y # r /\ f[y] = r

\* The search loop finds a record that matches if there is one, and what
\* precedes it.
LEMMA SearchList ==
  ASSUME NEW l, NEW S, ListOf(head[l], Ptr, S), S \subseteq 1..Len(idx),
         Len(idx) \in Nat, Len(idx) <= MaxRecs, NEW match
  PROVE  /\ Search(l, match).prev \in S \cup {0}
         /\ Search(l, match).rec \in (S \cap match) \cup {0}
         /\ Search(l, match).rec = 0 => S \cap match = {}
         /\ Search(l, match).rec # 0 =>
              Follows(head[l], Ptr, S, Search(l, match).prev, Search(l, match).rec)
<1>m. MaxRecs \in Nat
  BY DbAssumption
<1>1. PICK n \in 0..MaxRecs : \E a \in [0..n -> S \cup {0}] :
           /\ IsWalk(a, n, head[l], Ptr, S)
           /\ \A i \in 0..MaxRecs : Walk(head[l])[i] = IF i <= n THEN a[i] ELSE 0
  BY WalkList, Zenon
<1>2. PICK a \in [0..n -> S \cup {0}] :
           /\ IsWalk(a, n, head[l], Ptr, S)
           /\ \A i \in 0..MaxRecs : Walk(head[l])[i] = IF i <= n THEN a[i] ELSE 0
  BY <1>1
<1>w. /\ a[0] = head[l] /\ a[n] = 0
      /\ \A i \in 0..(n - 1) : a[i] \in S /\ a[i + 1] = Ptr[a[i]]
      /\ \A z \in S : \E i \in 0..(n - 1) : a[i] = z
      /\ \A i, k \in 0..(n - 1) : a[i] = a[k] => i = k
  BY <1>2 DEF IsWalk
<1> DEFINE w == Walk(head[l])
           Hits == {i \in 0..MaxRecs : w[i] \in match \cup {0}}
           Good(i) == /\ w[i] \in match \cup {0}
                      /\ \A k \in 0..(i - 1) : w[k] \notin match \cup {0}
           m == CHOOSE i \in 0..MaxRecs : Good(i)
<1>3. n \in Hits
  BY <1>2, <1>w
<1>4. PICK i \in Hits : \A k \in Hits : i <= k
  <2>1. Hits \in SUBSET Nat /\ Hits # {}
    BY <1>m, <1>3
  <2> HIDE DEF Hits
  <2> QED
    BY <2>1, LeastNat, Zenon
<1>5. i \in 0..MaxRecs /\ Good(i)
  <2>1. ASSUME NEW k \in 0..(i - 1) PROVE w[k] \notin match \cup {0}
    <3>1. k \in 0..MaxRecs /\ ~(i <= k)
      BY <1>m
    <3> QED
      BY <1>4, <3>1
  <2> QED
    BY <2>1
<1>6. m \in 0..MaxRecs /\ Good(m)
  BY <1>5
<1>7. Search(l, match) = [prev |-> IF m = 0 THEN 0 ELSE w[m - 1], rec |-> w[m]]
  BY DEF Search
<1> HIDE DEF m
<1>8. m <= n
  <2>1. CASE m > n
    <3>1. n \in 0..(m - 1) /\ w[n] = 0
      BY <1>m, <1>2, <1>w, <1>6, <2>1
    <3> QED
      BY <1>6, <3>1
  <2> QED
    BY <1>m, <1>6, <2>1
<1>9. \A k \in 0..m : w[k] = a[k] /\ k \in 0..n
  BY <1>m, <1>2, <1>6, <1>8
<1>10. /\ Search(l, match).rec = a[m]
       /\ Search(l, match).prev = IF m = 0 THEN 0 ELSE a[m - 1]
  <2>1. m \in 0..m /\ (m # 0 => m - 1 \in 0..m)
    BY <1>6
  <2> QED
    BY <1>7, <1>9, <2>1
<1>11. m # 0 => m - 1 \in 0..(n - 1) /\ (m - 1) + 1 = m
  BY <1>6, <1>8
<1>12. a[m] \in match \cup {0}
  BY <1>6, <1>9
<1>13. CASE m = n
  <2>1. \A z \in S : z \notin match
    <3> TAKE z \in S
    <3>1. PICK k \in 0..(n - 1) : a[k] = z
      BY <1>w
    <3>2. k \in 0..(m - 1) /\ k \in 0..m
      BY <1>13
    <3> QED
      BY <1>6, <1>9, <3>1, <3>2
  <2> QED
    BY <1>10, <1>11, <1>w, <1>13, <2>1, Zenon
<1>14. CASE m # n
  <2>1. m \in 0..(n - 1)
    BY <1>6, <1>8, <1>14
  <2>2. a[m] \in S /\ a[m] # 0
    BY <1>w, <2>1
  <2>3. CASE m = 0
    BY <1>10, <1>12, <1>w, <2>2, <2>3 DEF Follows
  <2>4. CASE m # 0
    <3>1. /\ a[m - 1] \in S /\ a[m] = Ptr[a[m - 1]] /\ a[m - 1] # 0
          /\ a[m - 1] # a[m]
      BY <1>11, <1>w, <2>1, <2>4
    <3> QED
      BY <1>10, <1>12, <2>2, <2>4, <3>1 DEF Follows
  <2> QED
    BY <2>3, <2>4
<1> QED
  BY <1>13, <1>14

-----------------------------------------------------------------------------
(* The invariant. *)

\* A process deletes the record it has found.
Deleting == {"dlock", "ddat", "didx", "dfree", "dchain"}
\* db_store puts in a new record: it looks for an empty one, uses it again,
\* or appends; then the record is linked.
Reusing == {"ffree", "ffunlink", "rdat", "ridx"}
Appending == {"adat", "wdat", "aidx", "widx"}
Storing == Reusing \cup Appending \cup {"link", "over"}
\* db_nextrec; in dead, err_dump has ended the process.
Scanning == {"nlock", "nidx", "ndat", "nunlock", "dead"}
Places == {"idle", "find", "readdat", "unlock"} \cup Deleting \cup Storing
            \cup Scanning

Records == [ptr : Nat, key : Keys \cup {Blank}, klen : Nat, dat : Nat, dlen : Nat]
Answers == Keys \cup Vals \cup {Blank, None, "absent", "ok", "exists", "eof"}
Fields == [idxoff : Nat, datoff : Nat, ptroff : Nat, ptrval : Nat,
           idxbuf : Keys \cup {None}]

TypeOK ==
  /\ idx \in Seq(Records) /\ dat \in Seq(Vals \cup {Blank})
  /\ head \in [Lists -> Nat]
  /\ writer \in [Locks -> Procs \cup {None}]
  /\ readers \in [Locks -> SUBSET Procs]
  /\ pc \in [Procs -> Places] /\ db \in [Procs -> Fields]
  /\ pos \in [Procs -> Nat]
  /\ call \in [Procs -> Map!Calls \cup {None}]
  /\ ret \in [Procs -> Seq(Answers)]
  /\ kv \in [Keys -> Vals \cup {None}]
  /\ stable \in [Procs -> SUBSET Keys] /\ seen \in [Procs -> [Keys -> Nat]]

\* Where a process is says which call it is in, and whether it has a result.
CallAt(p) ==
  /\ IF pc[p] = "idle" THEN call[p] = None
       ELSE call[p] \in Map!Calls /\ call[p].op \in Uses[p]
  /\ pc[p] \in Scanning => call[p].op = "nextrec"
  /\ pc[p] \notin Scanning \cup {"idle"} => call[p].op \in {"fetch", "delete", "store"}
  /\ pc[p] = "readdat" => call[p].op = "fetch"
  /\ pc[p] \in Deleting => call[p].op \in {"delete", "store"}
  /\ pc[p] \in Storing => call[p].op = "store"
  /\ pc[p] \in {"link", "unlock", "nunlock"} <=> ret[p] # <<>>
CallInv == \A p \in Procs : CallAt(p)

\* The locks a process holds.
LockAt(p) ==
  /\ pc[p] \in Deleting \cup Storing => writer[Chain(p)] = p
  /\ pc[p] = "readdat" => p \in readers[Chain(p)]
  /\ pc[p] \in {"ddat", "didx", "dfree", "dchain", "ffunlink"} => writer[Free] = p
  /\ pc[p] \in {"nidx", "ndat", "nunlock"} => p \in readers[Free]
  /\ pc[p] = "wdat" => writer[DatEnd] = p
  /\ pc[p] = "widx" => writer[IdxEnd] = p
LockInv ==
  /\ \A p \in Procs : LockAt(p)
  /\ \A l \in Locks : writer[l] # None => readers[l] = {}

\* There is room for the records of the stores in progress.
Unstored == {q \in Procs : /\ call[q] # None /\ call[q].op = "store"
                           /\ ret[q] = <<>>}
RoomInv == Len(idx) + Cardinality(Unstored) <= MaxRecs

Recs == 1..Len(idx)
\* The records that belong on chain l, and those that belong on the free list.
Holding == {"dfree", "rdat", "ridx"}
OnChain(l) == {r \in Recs : idx[r].key \in Keys /\ Hash[idx[r].key] = l}
Taken(r) == \E q \in Procs : pc[q] \in Holding /\ db[q].idxoff = r
OnFree == {r \in Recs : idx[r].key = Blank /\ ~Taken(r)}

\* The records of the files.
FileInv ==
  /\ \A r \in Recs : idx[r].dat \in 1..Len(dat)
  /\ \A r, s \in Recs : idx[r].dat = idx[s].dat => r = s
  /\ \A r, s \in Recs : idx[r].key = idx[s].key /\ idx[r].key # Blank => r = s

\* The record a process has in hand.
RecordAt(p) ==
  LET d == db[p]
  IN  /\ pc[p] \in {"readdat", "over", "dlock", "ddat", "didx", "link"} =>
           d.idxoff \in Recs /\ idx[d.idxoff].key = call[p].key
      /\ pc[p] \in {"readdat", "over", "dlock", "ddat", "didx", "ffunlink", "rdat", "ridx"} =>
           d.idxoff \in Recs /\ d.datoff = idx[d.idxoff].dat
      /\ pc[p] \in {"dlock", "ddat", "didx"} =>
           /\ d.ptrval = idx[d.idxoff].ptr
           /\ Follows(head[Chain(p)], Ptr, OnChain(Chain(p)), d.ptroff, d.idxoff)
      /\ pc[p] \in Holding => d.idxoff \in Recs /\ idx[d.idxoff].key = Blank
      /\ pc[p] \in {"dfree", "dchain"} =>
           d.ptroff \in OnChain(Chain(p)) \cup {0}
      /\ pc[p] = "dfree" => idx[d.idxoff].ptr = head[Free]
      /\ pc[p] \in Reusing \cup Appending => d.ptrval = head[Chain(p)]
      /\ pc[p] = "link" => idx[d.idxoff].ptr = head[Chain(p)]
      /\ pc[p] = "ffunlink" =>
           d.idxoff \in OnFree /\ Follows(head[Free], Ptr, OnFree, d.ptroff, d.idxoff)
      /\ pc[p] = "wdat" => d.datoff = Len(dat) + 1
      /\ pc[p] \in {"aidx", "widx"} =>
           d.datoff \in 1..Len(dat) /\ \A r \in Recs : idx[r].dat # d.datoff
      /\ pc[p] \in {"aidx", "widx", "ridx"} => dat[d.datoff] = call[p].val
      /\ pc[p] = "widx" => d.idxoff = Len(idx) + 1
      /\ pc[p] = "ndat" => \E r \in Recs : /\ idx[r].key = d.idxbuf /\ d.idxbuf \in Keys
                                           /\ idx[r].dat = d.datoff
RecordInv == \A p \in Procs : RecordAt(p)

\* No two processes have the same empty record or new data record.
ApartInv ==
  \A p, q \in Procs : p # q =>
    /\ pc[p] \in Holding /\ pc[q] \in Holding => db[p].idxoff # db[q].idxoff
    /\ pc[p] \in {"aidx", "widx"} /\ pc[q] \in {"aidx", "widx"} =>
         db[p].datoff # db[q].datoff

\* The files hold the map, but for what a process is about to change.
MapInv ==
  /\ \A r \in Recs : idx[r].key \in Keys =>
       /\ kv[idx[r].key] # None
       /\ \/ dat[idx[r].dat] = kv[idx[r].key]
          \/ \E p \in Procs : pc[p] = "didx" /\ db[p].idxoff = r
  /\ \A k \in Keys : kv[k] # None =>
       \/ \E r \in Recs : idx[r].key = k
       \/ \E p \in Procs : /\ pc[p] \in {"dfree", "dchain"} \cup Appending
                           /\ call[p].key = k
MapAt(p) ==
  /\ pc[p] \in Deleting =>
       kv[call[p].key] # None /\ (call[p].op = "store" => call[p].flag # "insert")
  /\ pc[p] \in {"dfree", "dchain"} \cup Appending =>
       \A r \in Recs : idx[r].key # call[p].key
  /\ pc[p] \in Reusing => kv[call[p].key] = None /\ call[p].flag # "replace"
  /\ pc[p] \in Appending =>
       IF kv[call[p].key] = None THEN call[p].flag # "replace"
                                 ELSE call[p].flag # "insert"
  /\ pc[p] = "over" => call[p].flag # "insert"
MapsInv == \A p \in Procs : MapAt(p)

\* The chain pointers once p has taken its record off its chain.
Relinked(p) == [r \in Recs |-> IF r = db[p].ptroff THEN db[p].ptrval ELSE idx[r].ptr]
Rehead(p) == IF db[p].ptroff = 0 THEN db[p].ptrval ELSE head[Chain(p)]

\* The lists: whole, but for the record a process links or unlinks.
ChainInv ==
  /\ \A l \in Chains :
       (\A p \in Procs : pc[p] \in {"link", "dfree", "dchain"} => Chain(p) # l)
         => ListOf(head[l], Ptr, OnChain(l))
  /\ \A p \in Procs : pc[p] = "link" =>
       ListOf(head[Chain(p)], Ptr, OnChain(Chain(p)) \ {db[p].idxoff})
  /\ \A p \in Procs : pc[p] \in {"dfree", "dchain"} =>
       ListOf(Rehead(p), Relinked(p), OnChain(Chain(p)))
FreeInv == ListOf(head[Free], Ptr, OnFree)

\* A scan has returned the stable keys before its offset, and none after it.
ScanAt(p) ==
  /\ stable[p] # {} => /\ pc[p] \in Scanning \cup {"idle"} /\ pos[p] # 0
                       /\ "nextrec" \in Uses[p]
  /\ \A k \in stable[p] :
       /\ \E r \in Recs : /\ idx[r].key = k
                          /\ IF pc[p] = "ndat" /\ db[p].idxbuf = k
                               THEN r < pos[p] /\ seen[p][k] = 0
                               ELSE seen[p][k] = IF r < pos[p] THEN 1 ELSE 0
       /\ ret[p] = <<"eof">> => seen[p][k] = 1
ScanInv == \A p \in Procs : ScanAt(p)

IInv ==
  /\ TypeOK /\ CallInv /\ LockInv /\ RoomInv /\ FileInv /\ RecordInv /\ ApartInv
  /\ MapInv /\ MapsInv /\ ChainInv /\ FreeInv /\ ScanInv

-----------------------------------------------------------------------------
(* Facts about the state. *)

\* Replacing one element of a sequence changes that element alone.
LEMMA SeqExcept ==
  ASSUME NEW A, NEW s \in Seq(A), NEW i \in 1..Len(s), NEW x \in A
  PROVE  /\ [s EXCEPT ![i] = x] \in Seq(A)
         /\ Len([s EXCEPT ![i] = x]) = Len(s)
         /\ \A j \in 1..Len(s) : [s EXCEPT ![i] = x][j] = IF j = i THEN x ELSE s[j]
  OBVIOUS

\* Appending keeps the elements there were.
LEMMA SeqAppend ==
  ASSUME NEW A, NEW s \in Seq(A), NEW x \in A
  PROVE  /\ Append(s, x) \in Seq(A)
         /\ Len(Append(s, x)) = Len(s) + 1
         /\ \A j \in 1..Len(s) : Append(s, x)[j] = s[j]
         /\ Append(s, x)[Len(s) + 1] = x
  OBVIOUS

\* The call of a process that is inside db_fetch, db_store or db_delete.
LEMMA KeyCall ==
  ASSUME TypeOK, CallInv, NEW p \in Procs, pc[p] \notin Scanning \cup {"idle"}
  PROVE  /\ call[p] \in Map!Calls /\ call[p] # None
         /\ call[p].key \in Keys /\ Chain(p) \in Chains
         /\ call[p].op = "store" => call[p].val \in Vals /\ call[p].flag \in Map!Flags
<1>1. call[p] \in Map!Calls /\ call[p].op # "nextrec"
  BY DEF CallInv, CallAt, Scanning
<1>2. call[p].key \in Keys
  BY <1>1 DEF Map!Calls
<1>3. call[p].op = "store" => call[p].val \in Vals /\ call[p].flag \in Map!Flags
  BY <1>1 DEF Map!Calls
<1> QED
  BY <1>1, <1>2, <1>3, DbAssumption, CallAssumption DEF Chain

\* The names of locks differ.
LEMMA LockNames ==
  /\ Chains \subseteq Locks /\ Chains \subseteq Lists
  /\ Free \in Locks /\ DatEnd \in Locks /\ IdxEnd \in Locks /\ Free \in Lists
  /\ Free \notin Chains /\ DatEnd \notin Chains /\ IdxEnd \notin Chains
  /\ Free # DatEnd /\ Free # IdxEnd /\ DatEnd # IdxEnd
  BY DbAssumption DEF Locks, Lists, Free, DatEnd, IdxEnd

\* The files are no longer than the bound.
LEMMA FileSize ==
  ASSUME TypeOK, RoomInv
  PROVE  Len(idx) \in Nat /\ Len(idx) <= MaxRecs /\ Len(dat) \in Nat
         /\ IsFiniteSet(Unstored)
<1>1. IsFiniteSet(Unstored) /\ Cardinality(Unstored) \in Nat
  <2>1. Unstored \subseteq Procs
    BY DEF Unstored
  <2> QED
    BY <2>1, CallAssumption, FS_Subset, FS_CardinalityType
<1> QED
  BY <1>1, DbAssumption DEF RoomInv, TypeOK

\* A chain that nobody has locked for writing is whole.
LEMMA WholeChain ==
  ASSUME IInv, NEW l \in Chains, writer[l] = None
  PROVE  ListOf(head[l], Ptr, OnChain(l))
<1>1. ASSUME NEW p \in Procs, pc[p] \in {"link", "dfree", "dchain"}
      PROVE  Chain(p) # l
  BY <1>1, DbAssumption DEF IInv, LockInv, LockAt, Deleting, Storing
<1> QED
  BY <1>1, Zenon DEF IInv, ChainInv

\* A record with a key is on the chain of the key.
LEMMA KeyOnChain ==
  ASSUME TypeOK, NEW r \in Recs, idx[r].key \in Keys
  PROVE  r \in OnChain(Hash[idx[r].key])
  BY DEF OnChain

\* What _db_find_and_lock finds.
LEMMA FoundOnChain ==
  ASSUME IInv, NEW p \in Procs, pc[p] = "find", writer[Chain(p)] = None,
         NEW s, s = Search(Chain(p), WithKey(call[p].key))
  PROVE  /\ s.prev \in OnChain(Chain(p)) \cup {0} /\ s.prev \in Nat /\ s.rec \in Nat
         /\ s.rec # 0 =>
              /\ s.rec \in Recs /\ idx[s.rec].key = call[p].key
              /\ Follows(head[Chain(p)], Ptr, OnChain(Chain(p)), s.prev, s.rec)
         /\ s.rec = 0 => \A r \in Recs : idx[r].key # call[p].key
<1> DEFINE l == Chain(p)
           S == OnChain(l)
<1>1. call[p].key \in Keys /\ l \in Chains
  BY KeyCall, Zenon DEF IInv, Scanning
<1>2. ListOf(head[l], Ptr, S)
  BY <1>1, WholeChain
<1>3. /\ Len(idx) \in Nat /\ Len(idx) <= MaxRecs /\ S \subseteq 1..Len(idx)
  BY FileSize, Zenon DEF IInv, OnChain, Recs
<1>4. /\ s.prev \in S \cup {0}
      /\ s.rec \in (S \cap WithKey(call[p].key)) \cup {0}
      /\ s.rec = 0 => S \cap WithKey(call[p].key) = {}
      /\ s.rec # 0 => Follows(head[l], Ptr, S, s.prev, s.rec)
  <2> DEFINE M == WithKey(call[p].key)
  <2>1. s = Search(l, M)
    BY Zenon
  <2> HIDE DEF S, l, M
  <2>2. /\ Search(l, M).prev \in S \cup {0}
        /\ Search(l, M).rec \in (S \cap M) \cup {0}
        /\ Search(l, M).rec = 0 => S \cap M = {}
        /\ Search(l, M).rec # 0 =>
             Follows(head[l], Ptr, S, Search(l, M).prev, Search(l, M).rec)
    BY <1>2, <1>3, SearchList, Zenon
  <2> QED
    BY <2>1, <2>2, Zenon DEF M
<1>5. ASSUME NEW r \in Recs, idx[r].key = call[p].key
      PROVE  r \in S \cap WithKey(call[p].key)
  BY <1>1, <1>5 DEF OnChain, WithKey, Recs, Chain
<1>6. s.prev \in Nat /\ s.rec \in Nat
  BY <1>3, <1>4
<1>7. s.rec # 0 => s.rec \in Recs /\ idx[s.rec].key = call[p].key
  BY <1>3, <1>4, Zenon DEF WithKey, Recs
<1>8. s.rec = 0 => \A r \in Recs : idx[r].key # call[p].key
  BY <1>4, <1>5, Zenon
<1> QED
  BY <1>4, <1>6, <1>7, <1>8, Zenon

\* What _db_findfree finds.
Fits(p) == {r \in 1..Len(idx) : /\ idx[r].klen = KeyLen[call[p].key]
                                /\ idx[r].dlen = ValLen[call[p].val]}
\* _db_findfree's search of the free list ends at a record of the list, with
\* its predecessor, or at the end of the list.
LEMMA FoundFree ==
  ASSUME IInv, NEW p \in Procs, NEW s, s = Search(Free, Fits(p))
  PROVE  /\ s.prev \in Nat /\ s.rec \in Nat
         /\ s.rec # 0 =>
              /\ s.rec \in Recs /\ s.rec \in OnFree
              /\ Follows(head[Free], Ptr, OnFree, s.prev, s.rec)
<1>1. ListOf(head[Free], Ptr, OnFree)
  BY DEF IInv, FreeInv
<1>2. /\ Len(idx) \in Nat /\ Len(idx) <= MaxRecs /\ OnFree \subseteq 1..Len(idx)
  BY FileSize DEF IInv, OnFree, Recs
<1>3. /\ s.prev \in OnFree \cup {0}
      /\ s.rec \in (OnFree \cap Fits(p)) \cup {0}
      /\ s.rec # 0 => Follows(head[Free], Ptr, OnFree, s.prev, s.rec)
  <2> DEFINE M == Fits(p)
  <2> HIDE DEF M
  <2>1. /\ Search(Free, M).prev \in OnFree \cup {0}
        /\ Search(Free, M).rec \in (OnFree \cap M) \cup {0}
        /\ Search(Free, M).rec # 0 =>
             Follows(head[Free], Ptr, OnFree, Search(Free, M).prev, Search(Free, M).rec)
    BY <1>1, <1>2, SearchList, Zenon
  <2>2. s = Search(Free, M)
    BY DEF M
  <2> QED
    BY <2>1, <2>2 DEF M
<1>4. \A r \in OnFree : r \in Nat /\ r \in Recs
  BY <1>2 DEF Recs
<1>5. s.prev \in Nat /\ s.rec \in Nat /\ (s.rec # 0 => s.rec \in OnFree)
  BY <1>3, <1>4
<1> QED
  BY <1>3, <1>4, <1>5

-----------------------------------------------------------------------------
(* What the steps do, record by record. *)

\* Only p's DB structure changes.
DbSet(p) ==
  db' \in [Procs -> Fields] /\ \A q \in Procs \ {p} : db'[q] = db[q]

\* _db_find_and_lock has found a record, or none.
Took(p, place) ==
  /\ pc' = [pc EXCEPT ![p] = place]
  /\ \E r \in Recs, y \in Nat :
       /\ idx[r].key = call[p].key
       /\ Follows(head[Chain(p)], Ptr, OnChain(Chain(p)), y, r)
       /\ db'[p].idxoff = r /\ db'[p].datoff = idx[r].dat
       /\ db'[p].ptroff = y /\ db'[p].ptrval = idx[r].ptr
  /\ DbSet(p)
Missed(p, place) ==
  /\ pc' = [pc EXCEPT ![p] = place]
  /\ \A r \in Recs : idx[r].key # call[p].key
  /\ DbSet(p) /\ db'[p].ptrval = head[Chain(p)]

\* lseek moves the offset of its own process only.
LEMMA SeekType ==
  ASSUME TypeOK, NEW p \in Procs, NEW n \in Nat, Seek(p, n)
  PROVE  pos' \in [Procs -> Nat] /\ \A q \in Procs \ {p} : pos'[q] = pos[q]
  BY DEF Seek, TypeOK

\* _db_find_and_lock that finds the record leaves its offset and its
\* predecessor's in the handle.
LEMMA FindRecordDoes ==
  ASSUME IInv, NEW p \in Procs, NEW place, pc[p] = "find", writer[Chain(p)] = None,
         FindRecord(p, place)
  PROVE  /\ Took(p, place) /\ UNCHANGED <<idx, dat, head, call, kv, stable, seen>>
         /\ pos' \in [Procs -> Nat] /\ \A q \in Procs \ {p} : pos'[q] = pos[q]
<1> DEFINE s == Search(Chain(p), WithKey(call[p].key))
<1>1. /\ s.prev \in Nat /\ s.rec \in Nat
      /\ s.rec # 0 =>
           /\ s.rec \in Recs /\ idx[s.rec].key = call[p].key
           /\ Follows(head[Chain(p)], Ptr, OnChain(Chain(p)), s.prev, s.rec)
  <2> HIDE DEF s
  <2>1. s = Search(Chain(p), WithKey(call[p].key))
    BY DEF s
  <2> QED
    BY <2>1, FoundOnChain, Zenon
<1>2. /\ pc' = [pc EXCEPT ![p] = place]
      /\ s.rec # 0
      /\ db' = [db EXCEPT ![p].idxoff = s.rec, ![p].datoff = idx[s.rec].dat,
                          ![p].ptroff = s.prev, ![p].ptrval = idx[s.rec].ptr]
      /\ Seek(p, s.rec + 1)
      /\ UNCHANGED <<idx, dat, head, call, kv, stable, seen>>
  BY Zenon DEF FindRecord, Goto, files, history
<1> HIDE DEF s
<1>3. Took(p, place)
  <2> DEFINE f == [db[p] EXCEPT !.idxoff = s.rec, !.datoff = idx[s.rec].dat,
                                !.ptroff = s.prev, !.ptrval = idx[s.rec].ptr]
  <2>1. idx[s.rec] \in Records /\ db \in [Procs -> Fields]
    BY <1>1, <1>2 DEF IInv, TypeOK, Recs
  <2>2. /\ f \in Fields /\ f.idxoff = s.rec /\ f.datoff = idx[s.rec].dat
        /\ f.ptroff = s.prev /\ f.ptrval = idx[s.rec].ptr
    BY <1>1, <2>1, Zenon DEF Fields, Records
  <2>3. db' = [db EXCEPT ![p] = f]
    BY <1>2, <2>1, Zenon
  <2> HIDE DEF f
  <2>4. DbSet(p) /\ db'[p] = f
    BY <2>1, <2>2, <2>3 DEF DbSet
  <2> QED
    BY <1>1, <1>2, <2>2, <2>4, Zenon DEF Took
<1>4. s.rec + 1 \in Nat
  BY <1>1
<1>5. TypeOK
  BY Zenon DEF IInv
<1> QED
  BY <1>2, <1>3, <1>4, <1>5, SeekType

\* _db_find_and_lock that reaches the end of the chain has found no record.
LEMMA FindNoneDoes ==
  ASSUME IInv, NEW p \in Procs, NEW place, pc[p] = "find", writer[Chain(p)] = None,
         FindNone(p, place)
  PROVE  /\ Missed(p, place) /\ UNCHANGED <<idx, dat, head, call, kv, stable, seen>>
         /\ pos' \in [Procs -> Nat] /\ \A q \in Procs \ {p} : pos'[q] = pos[q]
<1> DEFINE s == Search(Chain(p), WithKey(call[p].key))
<1>1. /\ s.prev \in Nat /\ s.rec \in Nat
      /\ s.rec = 0 => \A r \in Recs : idx[r].key # call[p].key
  <2> HIDE DEF s
  <2>1. s = Search(Chain(p), WithKey(call[p].key))
    BY DEF s
  <2> QED
    BY <2>1, FoundOnChain, Zenon
<1>2. /\ pc' = [pc EXCEPT ![p] = place]
      /\ s.rec = 0
      /\ db' = [db EXCEPT ![p].ptrval = head[Chain(p)]]
      /\ Seek(p, IF s.prev = 0 THEN 0 ELSE s.prev + 1)
      /\ UNCHANGED <<idx, dat, head, call, kv, stable, seen>>
  BY DEF FindNone, Goto, files, history
<1> HIDE DEF s
<1>3. Missed(p, place)
  <2>1. db \in [Procs -> Fields] /\ Chain(p) \in Lists /\ head[Chain(p)] \in Nat
    BY KeyCall, LockNames, Zenon DEF IInv, TypeOK, Scanning
  <2>2. DbSet(p) /\ db'[p].ptrval = head[Chain(p)]
    BY <1>2, <2>1 DEF DbSet, Fields
  <2> QED
    BY <1>1, <1>2, <2>2 DEF Missed
<1>4. TypeOK /\ (IF s.prev = 0 THEN 0 ELSE s.prev + 1) \in Nat
  BY <1>1 DEF IInv
<1> QED
  BY <1>2, <1>3, <1>4, SeekType

\* What the search of db_fetch leaves behind.
LEMMA FetchFindDoes ==
  ASSUME IInv, NEW p \in Procs, FetchFind(p)
  PROVE  /\ pc[p] = "find" /\ call[p].op = "fetch" /\ ReadLock(p, Chain(p))
         /\ \/ Took(p, "readdat") /\ ret' = ret
            \/ Missed(p, "unlock") /\ ret' = [ret EXCEPT ![p] = <<None>>]
         /\ UNCHANGED <<idx, dat, head, call, kv, stable, seen>>
         /\ pos' \in [Procs -> Nat] /\ \A q \in Procs \ {p} : pos'[q] = pos[q]
  BY FindRecordDoes, FindNoneDoes, Zenon DEF FetchFind, At, Finish, ReadLock

\* What the search of db_delete leaves behind.
LEMMA DeleteFindDoes ==
  ASSUME IInv, NEW p \in Procs, DeleteFind(p)
  PROVE  /\ pc[p] = "find" /\ call[p].op = "delete" /\ WriteLock(p, Chain(p))
         /\ \/ Took(p, "dlock") /\ ret' = ret
            \/ Missed(p, "unlock") /\ ret' = [ret EXCEPT ![p] = <<"absent">>]
         /\ UNCHANGED <<idx, dat, head, call, kv, stable, seen>>
         /\ pos' \in [Procs -> Nat] /\ \A q \in Procs \ {p} : pos'[q] = pos[q]
  BY FindRecordDoes, FindNoneDoes, Zenon DEF DeleteFind, At, Finish, WriteLock

\* What the search of db_store leaves behind, for each of its flags.
LEMMA StoreFindDoes ==
  ASSUME IInv, NEW p \in Procs, StoreFind(p)
  PROVE  /\ pc[p] = "find" /\ call[p].op = "store" /\ WriteLock(p, Chain(p))
         /\ \/ /\ Missed(p, "unlock") /\ call[p].flag = "replace"
               /\ ret' = [ret EXCEPT ![p] = <<"absent">>]
            \/ Missed(p, "ffree") /\ call[p].flag # "replace" /\ ret' = ret
            \/ /\ Took(p, "unlock") /\ call[p].flag = "insert"
               /\ ret' = [ret EXCEPT ![p] = <<"exists">>]
            \/ Took(p, "over") /\ call[p].flag # "insert" /\ ret' = ret
            \/ Took(p, "dlock") /\ call[p].flag # "insert" /\ ret' = ret
         /\ UNCHANGED <<idx, dat, head, call, kv, stable, seen>>
         /\ pos' \in [Procs -> Nat] /\ \A q \in Procs \ {p} : pos'[q] = pos[q]
<1>1. /\ pc[p] = "find" /\ call[p].op = "store" /\ WriteLock(p, Chain(p))
      /\ writer[Chain(p)] = None
  BY Zenon DEF StoreFind, At, WriteLock
<1>2. \/ FindNone(p, "unlock") /\ call[p].flag = "replace" /\ Finish(p, <<"absent">>)
      \/ FindNone(p, "ffree") /\ call[p].flag # "replace" /\ ret' = ret
      \/ FindRecord(p, "unlock") /\ call[p].flag = "insert" /\ Finish(p, <<"exists">>)
      \/ FindRecord(p, "over") /\ call[p].flag # "insert" /\ ret' = ret
      \/ FindRecord(p, "dlock") /\ call[p].flag # "insert" /\ ret' = ret
  BY Zenon DEF StoreFind
<1>3. CASE FindNone(p, "unlock") /\ call[p].flag = "replace" /\ Finish(p, <<"absent">>)
  BY <1>1, <1>3, FindNoneDoes, Zenon DEF Finish
<1>4. CASE FindNone(p, "ffree") /\ call[p].flag # "replace" /\ ret' = ret
  BY <1>1, <1>4, FindNoneDoes, Zenon
<1>5. CASE FindRecord(p, "unlock") /\ call[p].flag = "insert" /\ Finish(p, <<"exists">>)
  BY <1>1, <1>5, FindRecordDoes, Zenon DEF Finish
<1>6. CASE FindRecord(p, "over") /\ call[p].flag # "insert" /\ ret' = ret
  BY <1>1, <1>6, FindRecordDoes, Zenon
<1>7. CASE FindRecord(p, "dlock") /\ call[p].flag # "insert" /\ ret' = ret
  BY <1>1, <1>7, FindRecordDoes, Zenon
<1> QED
  BY <1>2, <1>3, <1>4, <1>5, <1>6, <1>7, Zenon

\* _db_findfree either finds no record of the right size or keeps the lock on
\* the free list, with the record found and its predecessor in the handle.
LEMMA FindFreeDoes ==
  ASSUME IInv, NEW p \in Procs, FindFree(p)
  PROVE  /\ pc[p] = "ffree" /\ writer[Free] = None /\ readers[Free] = {}
         /\ \/ pc' = [pc EXCEPT ![p] = "adat"] /\ UNCHANGED <<writer, readers, db>>
            \/ /\ pc' = [pc EXCEPT ![p] = "ffunlink"]
               /\ WriteLock(p, Free)
               /\ \E r \in Recs, y \in Nat :
                    /\ r \in OnFree /\ Follows(head[Free], Ptr, OnFree, y, r)
                    /\ db'[p].idxoff = r /\ db'[p].ptroff = y
                    /\ db'[p].datoff = idx[r].dat
                    /\ db'[p].ptrval = db[p].ptrval
               /\ DbSet(p)
         /\ UNCHANGED <<idx, dat, head, pos, call, ret, kv, stable, seen>>
<1> DEFINE s == Search(Free, Fits(p))
<1>1. /\ s.prev \in Nat /\ s.rec \in Nat
      /\ s.rec # 0 =>
           /\ s.rec \in Recs /\ s.rec \in OnFree
           /\ Follows(head[Free], Ptr, OnFree, s.prev, s.rec)
  <2> HIDE DEF s
  <2>1. s = Search(Free, Fits(p))
    BY DEF s
  <2> QED
    BY <2>1, FoundFree
<1>2. /\ pc[p] = "ffree" /\ writer[Free] = None /\ readers[Free] = {}
      /\ \/ pc' = [pc EXCEPT ![p] = "adat"] /\ UNCHANGED <<writer, readers, db>>
         \/ /\ s.rec # 0
            /\ pc' = [pc EXCEPT ![p] = "ffunlink"] /\ WriteLock(p, Free)
            /\ db' = [db EXCEPT ![p].idxoff = s.rec, ![p].ptroff = s.prev,
                                ![p].datoff = idx[s.rec].dat]
      /\ UNCHANGED <<idx, dat, head, pos, call, ret, kv, stable, seen>>
  BY Zenon DEF FindFree, Fits, At, Goto, files, locks, history
<1> HIDE DEF s
<1>3. ASSUME s.rec # 0, db' = [db EXCEPT ![p].idxoff = s.rec, ![p].ptroff = s.prev,
                                         ![p].datoff = idx[s.rec].dat]
      PROVE  /\ DbSet(p) /\ db'[p].idxoff = s.rec /\ db'[p].ptroff = s.prev
             /\ db'[p].datoff = idx[s.rec].dat /\ db'[p].ptrval = db[p].ptrval
  <2> DEFINE f == [db[p] EXCEPT !.idxoff = s.rec, !.ptroff = s.prev,
                                !.datoff = idx[s.rec].dat]
  <2>1. idx[s.rec] \in Records /\ db \in [Procs -> Fields]
    BY <1>1, <1>3 DEF IInv, TypeOK, Recs
  <2>2. /\ f \in Fields /\ f.idxoff = s.rec /\ f.datoff = idx[s.rec].dat
        /\ f.ptroff = s.prev /\ f.ptrval = db[p].ptrval
    BY <1>1, <2>1, Zenon DEF Fields, Records
  <2>3. db' = [db EXCEPT ![p] = f]
    BY <1>3, <2>1, Zenon
  <2> HIDE DEF f
  <2>4. DbSet(p) /\ db'[p] = f
    BY <2>1, <2>2, <2>3 DEF DbSet
  <2> QED
    BY <2>2, <2>4
<1> QED
  BY <1>1, <1>2, <1>3

\* The three searches change only p's place and DB structure.
LEMMA FoundOthers ==
  ASSUME TypeOK, NEW p \in Procs, NEW place, Took(p, place) \/ Missed(p, place)
  PROVE  /\ pc' = [pc EXCEPT ![p] = place] /\ pc'[p] = place
         /\ db' \in [Procs -> Fields]
         /\ \A q \in Procs \ {p} : pc'[q] = pc[q] /\ db'[q] = db[q]
<1>1. pc' = [pc EXCEPT ![p] = place] /\ DbSet(p) /\ pc \in [Procs -> Places]
  BY Zenon DEF Took, Missed, TypeOK
<1> QED
  BY <1>1 DEF DbSet

\* How the search of p ends, when it is done with the files it read.
LEMMA FindDoes ==
  ASSUME IInv, NEW p \in Procs, FetchFind(p) \/ DeleteFind(p) \/ StoreFind(p)
  PROVE  /\ pc[p] = "find"
         /\ pc'[p] \in {"readdat", "unlock", "dlock", "ffree", "over"}
         /\ \A q \in Procs \ {p} : pc'[q] = pc[q] /\ db'[q] = db[q] /\ ret'[q] = ret[q]
         /\ db' \in [Procs -> Fields]
         /\ UNCHANGED <<idx, dat, head, call, kv, stable, seen>>
         /\ pos' \in [Procs -> Nat] /\ \A q \in Procs \ {p} : pos'[q] = pos[q]
         /\ writer[Chain(p)] = None
<1>t. TypeOK /\ ret \in [Procs -> Seq(Answers)]
  BY DEF IInv, TypeOK
<1>1. CASE FetchFind(p)
  <2>1. /\ pc[p] = "find" /\ ReadLock(p, Chain(p))
        /\ \/ Took(p, "readdat") /\ ret' = ret
           \/ Missed(p, "unlock") /\ ret' = [ret EXCEPT ![p] = <<None>>]
        /\ UNCHANGED <<idx, dat, head, call, kv, stable, seen>>
        /\ pos' \in [Procs -> Nat] /\ \A q \in Procs \ {p} : pos'[q] = pos[q]
    BY <1>1, FetchFindDoes, Zenon
  <2>2. writer[Chain(p)] = None /\ \A q \in Procs \ {p} : ret'[q] = ret[q]
    BY <1>t, <2>1, Zenon DEF ReadLock
  <2>3. /\ pc'[p] \in {"readdat", "unlock"} /\ db' \in [Procs -> Fields]
        /\ \A q \in Procs \ {p} : pc'[q] = pc[q] /\ db'[q] = db[q]
    BY <1>t, <2>1, FoundOthers, Zenon
  <2> QED
    BY <2>1, <2>2, <2>3, Zenon
<1>2. CASE DeleteFind(p)
  <2>1. /\ pc[p] = "find" /\ WriteLock(p, Chain(p))
        /\ \/ Took(p, "dlock") /\ ret' = ret
           \/ Missed(p, "unlock") /\ ret' = [ret EXCEPT ![p] = <<"absent">>]
        /\ UNCHANGED <<idx, dat, head, call, kv, stable, seen>>
        /\ pos' \in [Procs -> Nat] /\ \A q \in Procs \ {p} : pos'[q] = pos[q]
    BY <1>2, DeleteFindDoes, Zenon
  <2>2. writer[Chain(p)] = None /\ \A q \in Procs \ {p} : ret'[q] = ret[q]
    BY <1>t, <2>1, Zenon DEF WriteLock
  <2>3. /\ pc'[p] \in {"dlock", "unlock"} /\ db' \in [Procs -> Fields]
        /\ \A q \in Procs \ {p} : pc'[q] = pc[q] /\ db'[q] = db[q]
    BY <1>t, <2>1, FoundOthers, Zenon
  <2> QED
    BY <2>1, <2>2, <2>3, Zenon
<1>3. CASE StoreFind(p)
  <2>1. /\ pc[p] = "find" /\ WriteLock(p, Chain(p))
        /\ \/ ret' = ret
           \/ ret' = [ret EXCEPT ![p] = <<"absent">>]
           \/ ret' = [ret EXCEPT ![p] = <<"exists">>]
        /\ UNCHANGED <<idx, dat, head, call, kv, stable, seen>>
        /\ pos' \in [Procs -> Nat] /\ \A q \in Procs \ {p} : pos'[q] = pos[q]
    BY <1>3, StoreFindDoes, Zenon
  <2>2. writer[Chain(p)] = None /\ \A q \in Procs \ {p} : ret'[q] = ret[q]
    BY <1>t, <2>1 DEF WriteLock
  <2>3. \/ Missed(p, "unlock") \/ Missed(p, "ffree") \/ Took(p, "unlock")
        \/ Took(p, "over") \/ Took(p, "dlock")
    BY <1>3, StoreFindDoes, Zenon
  <2>4. /\ pc'[p] \in {"unlock", "ffree", "over", "dlock"} /\ db' \in [Procs -> Fields]
        /\ \A q \in Procs \ {p} : pc'[q] = pc[q] /\ db'[q] = db[q]
    BY <1>t, <2>3, FoundOthers
  <2> QED
    BY <2>1, <2>2, <2>4, Zenon
<1> QED
  BY <1>1, <1>2, <1>3, Zenon

\* A write of one data record.
DataWritten(i, x) ==
  /\ dat' \in Seq(Vals \cup {Blank}) /\ Len(dat') = Len(dat)
  /\ \A j \in 1..Len(dat) : dat'[j] = IF j = i THEN x ELSE dat[j]
\* A write of chain pointer v after record y of list l.
PtrWritten(l, y, v) ==
  /\ idx' \in Seq(Records) /\ Len(idx') = Len(idx)
  /\ \A r \in Recs : /\ idx'[r].key = idx[r].key /\ idx'[r].dat = idx[r].dat
                     /\ idx'[r].ptr = IF r = y THEN v ELSE idx[r].ptr
  /\ head' \in [Lists -> Nat]
  /\ \A m \in Lists : head'[m] = IF y = 0 /\ m = l THEN v ELSE head[m]

\* A write inside the data file changes one data record.
LEMMA DataWrites ==
  ASSUME TypeOK, NEW i \in 1..Len(dat), NEW x \in Vals \cup {Blank},
         dat' = [dat EXCEPT ![i] = x]
  PROVE  DataWritten(i, x)
  BY SeqExcept DEF DataWritten, TypeOK

\* _db_writeptr changes one pointer: the head of a list or that of a record.
LEMMA PtrWrites ==
  ASSUME TypeOK, NEW l \in Lists, NEW y \in Recs \cup {0}, NEW v \in Nat,
         WritePtr(l, y, v)
  PROVE  PtrWritten(l, y, v)
<1>1. Len(idx) \in Nat /\ 0 \notin Recs
  BY DEF TypeOK, Recs
<1>2. CASE y = 0
  BY <1>1, <1>2, Zenon DEF WritePtr, PtrWritten, TypeOK
<1>3. CASE y # 0
  <2> DEFINE x == [idx[y] EXCEPT !.ptr = v]
  <2>1. y \in 1..Len(idx) /\ idx[y] \in Records
    BY <1>3 DEF Recs, TypeOK
  <2>2. x \in Records /\ x.ptr = v /\ x.key = idx[y].key /\ x.dat = idx[y].dat
    BY <2>1 DEF Records
  <2>3. idx' = [idx EXCEPT ![y] = x] /\ head' = head
    BY <1>3 DEF WritePtr
  <2> HIDE DEF x
  <2>t. idx \in Seq(Records) /\ head \in [Lists -> Nat]
    BY Zenon DEF TypeOK
  <2>4. /\ idx' \in Seq(Records) /\ Len(idx') = Len(idx)
        /\ \A r \in 1..Len(idx) : idx'[r] = IF r = y THEN x ELSE idx[r]
    BY <2>1, <2>2, <2>3, <2>t, SeqExcept
  <2> QED
    BY <1>3, <2>2, <2>3, <2>4, <2>t DEF PtrWritten, Recs
<1> QED
  BY <1>2, <1>3

\* _db_dodelete blanks the data record it has found.
LEMMA DeleteDataDoes ==
  ASSUME IInv, NEW p \in Procs, DeleteData(p)
  PROVE  DataWritten(db[p].datoff, Blank) /\ db[p].datoff \in 1..Len(dat)
<1>1. db[p].datoff \in 1..Len(dat)
  <2>1. pc[p] = "ddat" /\ RecordAt(p) /\ FileInv
    BY Zenon DEF DeleteData, Step, At, IInv, RecordInv
  <2>2. db[p].idxoff \in Recs /\ db[p].datoff = idx[db[p].idxoff].dat
    BY <2>1, Zenon DEF RecordAt
  <2> QED
    BY <2>1, <2>2, Zenon DEF FileInv
<1> QED
  BY <1>1, DataWrites, Zenon DEF DeleteData, IInv

\* db_store writes its data over that of the free record it took.
LEMMA ReuseDatDoes ==
  ASSUME IInv, NEW p \in Procs, ReuseDat(p)
  PROVE  DataWritten(db[p].datoff, call[p].val) /\ db[p].datoff \in 1..Len(dat)
<1>1. db[p].datoff \in 1..Len(dat)
  <2>1. pc[p] = "rdat" /\ RecordAt(p) /\ FileInv
    BY DEF ReuseDat, Step, At, IInv, RecordInv
  <2>2. db[p].idxoff \in Recs /\ db[p].datoff = idx[db[p].idxoff].dat
    BY <2>1, Zenon DEF RecordAt, Holding
  <2> QED
    BY <2>1, <2>2 DEF FileInv
<1>2. call[p].val \in Vals
  BY KeyCall, Zenon
     DEF ReuseDat, Step, At, IInv, CallInv, CallAt, Scanning, Storing, Reusing
<1> QED
  BY <1>1, <1>2, DataWrites, Zenon DEF ReuseDat, IInv

\* db_store overwrites the data of the record it replaces.
LEMMA OverwriteDoes ==
  ASSUME IInv, NEW p \in Procs, Overwrite(p)
  PROVE  DataWritten(db[p].datoff, call[p].val) /\ db[p].datoff \in 1..Len(dat)
<1>1. db[p].datoff \in 1..Len(dat)
  <2>1. pc[p] = "over" /\ RecordAt(p) /\ FileInv
    BY Zenon DEF Overwrite, Step, At, IInv, RecordInv
  <2>2. db[p].idxoff \in Recs /\ db[p].datoff = idx[db[p].idxoff].dat
    BY <2>1, Zenon DEF RecordAt
  <2> QED
    BY <2>1, <2>2, Zenon DEF FileInv
<1>2. call[p].val \in Vals
  BY KeyCall, Zenon
     DEF Overwrite, Step, At, IInv, CallInv, CallAt, Scanning, Storing
<1> QED
  BY <1>1, <1>2, DataWrites, Zenon DEF Overwrite, IInv

\* _db_writedat appends one data record, where db_store has seen the end.
LEMMA AppendDatWriteDoes ==
  ASSUME IInv, NEW p \in Procs, AppendDatWrite(p)
  PROVE  /\ dat' \in Seq(Vals \cup {Blank}) /\ Len(dat') = Len(dat) + 1
         /\ db[p].datoff = Len(dat) + 1 /\ call[p].val \in Vals
         /\ \A j \in 1..Len(dat) : dat'[j] = dat[j]
         /\ dat'[Len(dat) + 1] = call[p].val
<1>1. db[p].datoff = Len(dat) + 1
  BY Zenon DEF AppendDatWrite, Step, At, IInv, RecordInv, RecordAt
<1>2. call[p].val \in Vals
  BY KeyCall, Zenon
     DEF AppendDatWrite, Step, At, IInv, CallInv, CallAt, Scanning, Storing,
         Appending
<1>3. dat' = Append(dat, call[p].val)
  BY <1>1 DEF AppendDatWrite, WriteAt
<1> QED
  BY <1>1, <1>2, <1>3, SeqAppend DEF IInv, TypeOK

\* _db_dodelete blanks the key of the record and points it at the free list.
LEMMA DeleteIdxDoes ==
  ASSUME IInv, NEW p \in Procs, DeleteIdx(p)
  PROVE  /\ db[p].idxoff \in Recs /\ idx[db[p].idxoff].key = call[p].key
         /\ idx' \in Seq(Records) /\ Len(idx') = Len(idx)
         /\ \A r \in Recs : /\ r # db[p].idxoff => idx'[r] = idx[r]
                            /\ idx'[r].dat = idx[r].dat
         /\ idx'[db[p].idxoff].key = Blank /\ idx'[db[p].idxoff].ptr = head[Free]
<1> DEFINE i == db[p].idxoff
           x == [idx[i] EXCEPT !.key = Blank, !.ptr = head[Free]]
<1>1. i \in Recs /\ idx[i].key = call[p].key
  BY Zenon DEF DeleteIdx, Step, At, IInv, RecordInv, RecordAt
<1>2. i \in 1..Len(idx) /\ idx[i] \in Records /\ head[Free] \in Nat
  <2>1. idx \in Seq(Records) /\ head \in [Lists -> Nat]
    BY Zenon DEF IInv, TypeOK
  <2> QED
    BY <1>1, <2>1, LockNames DEF Recs
<1>3. x \in Records /\ x.key = Blank /\ x.ptr = head[Free] /\ x.dat = idx[i].dat
  BY <1>2, Zenon DEF Records
<1>4. idx' = [idx EXCEPT ![i] = x]
  BY Zenon DEF DeleteIdx
<1> HIDE DEF x
<1>t. idx \in Seq(Records)
  BY Zenon DEF IInv, TypeOK
<1>5. /\ idx' \in Seq(Records) /\ Len(idx') = Len(idx)
      /\ \A r \in 1..Len(idx) : idx'[r] = IF r = i THEN x ELSE idx[r]
  BY <1>2, <1>3, <1>4, <1>t, SeqExcept
<1> QED
  BY <1>1, <1>2, <1>3, <1>5, Zenon DEF Recs

\* _db_dodelete points the predecessor at the successor of the record.
LEMMA DeleteChainDoes ==
  ASSUME IInv, NEW p \in Procs, DeleteChain(p)
  PROVE  /\ PtrWritten(Chain(p), db[p].ptroff, db[p].ptrval)
         /\ db[p].ptroff \in OnChain(Chain(p)) \cup {0} /\ Chain(p) \in Chains
         /\ head'[Chain(p)] = Rehead(p)
<1>1. db[p].ptroff \in OnChain(Chain(p)) \cup {0}
  BY Zenon DEF DeleteChain, At, IInv, RecordInv, RecordAt
<1>2. Chain(p) \in Chains /\ Chain(p) \in Lists
  BY KeyCall, LockNames DEF DeleteChain, At, IInv, Scanning
<1>3. db[p].ptrval \in Nat /\ db[p].ptroff \in Recs \cup {0}
  BY <1>1, Zenon DEF IInv, TypeOK, Fields, OnChain
<1>4. PtrWritten(Chain(p), db[p].ptroff, db[p].ptrval)
  BY <1>2, <1>3, PtrWrites DEF DeleteChain, IInv
<1> QED
  BY <1>1, <1>2, <1>4, Zenon DEF PtrWritten, Rehead

\* _db_findfree points the predecessor at the successor of the record it takes.
LEMMA FreeUnlinkDoes ==
  ASSUME IInv, NEW p \in Procs, FreeUnlink(p)
  PROVE  /\ PtrWritten(Free, db[p].ptroff, idx[db[p].idxoff].ptr)
         /\ db[p].idxoff \in OnFree /\ db[p].idxoff \in Recs
         /\ db[p].ptroff \in OnFree \cup {0}
         /\ Follows(head[Free], Ptr, OnFree, db[p].ptroff, db[p].idxoff)
<1>1. /\ db[p].idxoff \in OnFree /\ db[p].idxoff \in Recs
      /\ Follows(head[Free], Ptr, OnFree, db[p].ptroff, db[p].idxoff)
  BY Zenon DEF FreeUnlink, Step, At, IInv, RecordInv, RecordAt
<1>2. db[p].ptroff \in OnFree \cup {0}
  BY <1>1 DEF Follows
<1>3. idx[db[p].idxoff].ptr \in Nat /\ db[p].ptroff \in Recs \cup {0}
  <2>1. idx[db[p].idxoff] \in Records
    BY <1>1 DEF IInv, TypeOK, Recs
  <2>2. db[p].ptroff \in Recs \cup {0}
    BY <1>2 DEF OnFree
  <2> QED
    BY <2>1, <2>2 DEF Records
<1>4. PtrWritten(Free, db[p].ptroff, idx[db[p].idxoff].ptr)
  BY <1>3, PtrWrites, LockNames, Zenon DEF FreeUnlink, IInv
<1> QED
  BY <1>1, <1>2, <1>4, Zenon

\* The index record of a new record.
LEMMA NewRecord ==
  ASSUME IInv, NEW p \in Procs, pc[p] \in {"widx", "ridx"}
  PROVE  /\ IdxRecord(p) \in Records
         /\ IdxRecord(p).key = call[p].key /\ IdxRecord(p).dat = db[p].datoff
         /\ IdxRecord(p).ptr = head[Chain(p)] /\ call[p].key \in Keys
         /\ Chain(p) \in Chains
<1>1. /\ call[p].key \in Keys /\ call[p].val \in Vals /\ Chain(p) \in Chains
  BY KeyCall, Zenon
     DEF IInv, CallInv, CallAt, Scanning, Storing, Appending, Reusing
<1>2. db[p].ptrval = head[Chain(p)] /\ db[p] \in Fields
  BY Zenon DEF IInv, RecordInv, RecordAt, TypeOK, Appending, Reusing
<1> QED
  BY <1>1, <1>2, DbAssumption, Zenon DEF IdxRecord, Records, Fields

\* _db_writeidx appends one index record, where db_store has seen the end.
LEMMA AppendIdxWriteDoes ==
  ASSUME IInv, NEW p \in Procs, AppendIdxWrite(p)
  PROVE  /\ idx' \in Seq(Records) /\ Len(idx') = Len(idx) + 1
         /\ db[p].idxoff = Len(idx) + 1
         /\ \A r \in Recs : idx'[r] = idx[r]
         /\ idx'[Len(idx) + 1] = IdxRecord(p)
<1>1. db[p].idxoff = Len(idx) + 1 /\ pc[p] = "widx"
  BY Zenon DEF AppendIdxWrite, Step, At, IInv, RecordInv, RecordAt
<1>2. idx' = Append(idx, IdxRecord(p))
  BY <1>1 DEF AppendIdxWrite, WriteAt
<1>3. IdxRecord(p) \in Records
  BY <1>1, NewRecord, Zenon
<1>4. idx \in Seq(Records)
  BY Zenon DEF IInv, TypeOK
<1> HIDE DEF IdxRecord
<1> QED
  BY <1>1, <1>2, <1>3, <1>4, SeqAppend DEF Recs

\* _db_writeidx writes over the free record db_store took.
LEMMA ReuseIdxDoes ==
  ASSUME IInv, NEW p \in Procs, ReuseIdx(p)
  PROVE  /\ idx' \in Seq(Records) /\ Len(idx') = Len(idx)
         /\ db[p].idxoff \in Recs /\ idx[db[p].idxoff].key = Blank
         /\ db[p].datoff = idx[db[p].idxoff].dat
         /\ \A r \in Recs : r # db[p].idxoff => idx'[r] = idx[r]
         /\ idx'[db[p].idxoff] = IdxRecord(p)
<1>1. pc[p] = "ridx"
  BY DEF ReuseIdx, Step, At
<1>2. /\ db[p].idxoff \in Recs /\ idx[db[p].idxoff].key = Blank
      /\ db[p].datoff = idx[db[p].idxoff].dat
  BY <1>1, Zenon DEF IInv, RecordInv, RecordAt, Holding
<1>3. IdxRecord(p) \in Records
  BY <1>1, NewRecord, Zenon
<1>4. idx' = [idx EXCEPT ![db[p].idxoff] = IdxRecord(p)]
  BY DEF ReuseIdx
<1>5. idx \in Seq(Records)
  BY Zenon DEF IInv, TypeOK
<1> HIDE DEF IdxRecord
<1> QED
  BY <1>2, <1>3, <1>4, <1>5, SeqExcept DEF Recs

-----------------------------------------------------------------------------
(* Types, calls, locks and room. *)

\* A step of process p.
Move(p) ==
  Advance(p) \/ CallKey(p) \/ CallStore(p) \/ CallNextrec(p) \/ DbRewind(p)

\* What a step of one process leaves alone in the others.
LEMMA OthersStay ==
  ASSUME IInv, NEW p \in Procs, Move(p), NEW q \in Procs, q # p
  PROVE  /\ pc'[q] = pc[q] /\ db'[q] = db[q] /\ call'[q] = call[q]
         /\ ret'[q] = ret[q] /\ pos'[q] = pos[q] /\ seen'[q] = seen[q]
<1>t. /\ pc \in [Procs -> Places] /\ db \in [Procs -> Fields]
      /\ call \in [Procs -> Map!Calls \cup {None}] /\ ret \in [Procs -> Seq(Answers)]
      /\ pos \in [Procs -> Nat] /\ seen \in [Procs -> [Keys -> Nat]]
  BY DEF IInv, TypeOK
<1> USE <1>t
<1>1. CASE FindFree(p)
  <2>1. /\ \/ pc' = [pc EXCEPT ![p] = "adat"] /\ db' = db
           \/ pc' = [pc EXCEPT ![p] = "ffunlink"] /\ DbSet(p)
        /\ UNCHANGED <<pos, call, ret, seen>>
    BY <1>1, FindFreeDoes, Zenon
  <2> QED
    BY <2>1 DEF DbSet
<1>2. CASE FetchFind(p) \/ DeleteFind(p) \/ StoreFind(p)
  BY <1>2, FindDoes, Zenon
<1>3. CASE FetchData(p) \/ DeleteLock(p) \/ DeleteData(p) \/ DeleteIdx(p) \/
           DeleteFree(p) \/ DeleteChain(p) \/ FreeUnlink(p) \/
           AppendDatSeek(p)
  BY <1>3
     DEF FetchData, Step, Finish, At, Goto, procV, history, DeleteLock,
         DeleteData, DeleteIdx, DeleteFree, DeleteChain, Seek, FreeUnlink,
         AppendDatSeek
<1>4. CASE AppendDatWrite(p) \/ AppendIdxSeek(p) \/ AppendIdxWrite(p) \/
           ReuseDat(p) \/ ReuseIdx(p) \/ LinkChain(p) \/ Overwrite(p) \/
           NextrecLock(p)
  BY <1>4
     DEF AppendDatWrite, Step, At, Goto, procV, history, AppendIdxSeek,
         AppendIdxWrite, Stored, Finish, ReuseDat, ReuseIdx, LinkChain, Seek,
         Overwrite, NextrecLock
<1>5. CASE NextrecIdx(p) \/ NextrecAstray(p) \/ NextrecData(p) \/
           NextrecUnlock(p) \/ Unlock(p) \/ CallKey(p) \/ CallStore(p) \/
           CallNextrec(p)
  BY <1>5
     DEF NextrecIdx, At, Goto, Seek, Finish, history, NextrecAstray, Step,
         procV, NextrecData, NextrecUnlock, Unlock, CallKey, Invoke, CallStore,
         CallNextrec
<1>6. CASE DbRewind(p)
  BY <1>6 DEF DbRewind, At, Seek
<1> QED
  BY <1>1, <1>2, <1>3, <1>4, <1>5, <1>6, Zenon DEF Move, Advance

\* The steps that write to the files.
Writes(p) ==
  \/ DeleteData(p) \/ ReuseDat(p) \/ Overwrite(p) \/ AppendDatWrite(p)
  \/ DeleteIdx(p) \/ DeleteFree(p) \/ DeleteChain(p) \/ FreeUnlink(p)
  \/ AppendIdxWrite(p) \/ ReuseIdx(p) \/ LinkChain(p)

\* The other steps leave the files and the map alone.
Quiet(p) ==
  /\ UNCHANGED <<idx, dat, head, kv>>
  /\ {pc[p], pc'[p]} \cap {"didx", "dfree", "dchain", "rdat", "ridx", "link"} = {}
\* A step changes nothing in the files unless it is one of the writing places.
LEMMA QuietOrWrites ==
  ASSUME IInv, NEW p \in Procs, Move(p)
  PROVE  Quiet(p) \/ Writes(p)
<1>t. pc \in [Procs -> Places]
  BY DEF IInv, TypeOK
<1>1. CASE FindFree(p)
  BY <1>1, FindFreeDoes, <1>t, Zenon DEF Quiet
<1>2. CASE FetchFind(p) \/ DeleteFind(p) \/ StoreFind(p)
  BY <1>2, FindDoes, Zenon DEF Quiet
<1>3. CASE FetchData(p) \/ DeleteLock(p) \/ AppendDatSeek(p) \/
           AppendIdxSeek(p) \/ NextrecLock(p) \/ NextrecIdx(p) \/
           NextrecAstray(p) \/ NextrecData(p)
  BY <1>3, <1>t
     DEF Quiet, FetchData, Step, At, Goto, files, DeleteLock, AppendDatSeek,
         AppendIdxSeek, NextrecLock, NextrecIdx, NextrecAstray, NextrecData
<1>4. CASE NextrecUnlock(p) \/ Unlock(p) \/ CallKey(p) \/ CallStore(p) \/
           CallNextrec(p) \/ DbRewind(p)
  BY <1>4, <1>t, Zenon
     DEF Quiet, NextrecUnlock, Step, At, Goto, files, Unlock, CallKey, Invoke,
         CallStore, CallNextrec, DbRewind
<1> QED
  BY <1>1, <1>2, <1>3, <1>4, Zenon DEF Move, Advance, Writes

\* Where a process goes from a place, and where it comes from.
LEMMA Leaves ==
  ASSUME IInv, NEW p \in Procs, Move(p)
  PROVE  /\ pc[p] = "dlock" => DeleteLock(p)
         /\ pc[p] = "ddat" => DeleteData(p)
         /\ pc[p] = "didx" => DeleteIdx(p)
         /\ pc[p] = "dfree" => DeleteFree(p)
         /\ pc[p] = "dchain" => DeleteChain(p)
         /\ pc[p] = "adat" => AppendDatSeek(p)
         /\ pc[p] = "wdat" => AppendDatWrite(p)
         /\ pc[p] = "aidx" => AppendIdxSeek(p)
         /\ pc[p] = "widx" => AppendIdxWrite(p)
         /\ pc[p] = "ffree" => FindFree(p)
         /\ pc[p] = "ffunlink" => FreeUnlink(p)
         /\ pc[p] = "rdat" => ReuseDat(p)
         /\ pc[p] = "ridx" => ReuseIdx(p)
         /\ pc[p] = "link" => LinkChain(p)
         /\ pc[p] = "ndat" => NextrecData(p)
<1>1. CASE FetchFind(p)
  BY <1>1, FindDoes, Zenon
<1>2. CASE DeleteFind(p)
  BY <1>2, FindDoes, Zenon
<1>3. CASE StoreFind(p)
  BY <1>3, FindDoes, Zenon
<1>4. CASE FindFree(p)
  BY <1>4, FindFreeDoes, Zenon
<1>5. CASE FetchData(p) \/ DeleteLock(p) \/ DeleteData(p) \/ DeleteIdx(p) \/
           DeleteFree(p) \/ DeleteChain(p) \/ FreeUnlink(p) \/
           AppendDatSeek(p) \/ AppendDatWrite(p) \/ AppendIdxSeek(p) \/
           AppendIdxWrite(p) \/ ReuseDat(p) \/ ReuseIdx(p) \/ LinkChain(p) \/
           Overwrite(p) \/ NextrecLock(p) \/ NextrecIdx(p) \/
           NextrecAstray(p) \/ NextrecData(p) \/ NextrecUnlock(p) \/
           Unlock(p) \/ CallKey(p) \/ CallStore(p) \/ CallNextrec(p) \/
           DbRewind(p)
  BY <1>5, Zenon
     DEF FetchData, Step, At, Goto, DeleteLock, DeleteData, DeleteIdx,
         DeleteFree, DeleteChain, FreeUnlink, AppendDatSeek, AppendDatWrite,
         AppendIdxSeek, AppendIdxWrite, ReuseDat, ReuseIdx, LinkChain,
         Overwrite, NextrecLock, NextrecIdx, NextrecAstray, NextrecData,
         NextrecUnlock, Unlock, CallKey, Invoke, CallStore, CallNextrec,
         DbRewind
<1> QED
  BY <1>1, <1>2, <1>3, <1>4, <1>5, Zenon DEF Move, Advance

\* The step that leads to each place in the code.
LEMMA Enters ==
  ASSUME IInv, NEW p \in Procs, Move(p)
  PROVE  /\ pc'[p] = "ddat" => DeleteLock(p)
         /\ pc'[p] = "didx" => DeleteData(p)
         /\ pc'[p] = "dfree" => DeleteIdx(p)
         /\ pc'[p] = "dchain" => DeleteFree(p)
         /\ pc'[p] = "ffunlink" => FindFree(p)
         /\ pc'[p] = "rdat" => FreeUnlink(p)
         /\ pc'[p] = "ridx" => ReuseDat(p)
         /\ pc'[p] = "adat" => FindFree(p) \/ DeleteChain(p)
         /\ pc'[p] = "wdat" => AppendDatSeek(p)
         /\ pc'[p] = "aidx" => AppendDatWrite(p)
         /\ pc'[p] = "widx" => AppendIdxSeek(p)
         /\ pc'[p] = "link" => AppendIdxWrite(p) \/ ReuseIdx(p)
         /\ pc'[p] = "ndat" => NextrecIdx(p)
         /\ pc'[p] \in {"readdat", "dlock", "ffree", "over"} =>
              FetchFind(p) \/ DeleteFind(p) \/ StoreFind(p)
<1>t. pc \in [Procs -> Places]
  BY DEF IInv, TypeOK
<1>1. CASE FetchFind(p)
  BY <1>1, FindDoes, Zenon
<1>2. CASE DeleteFind(p)
  BY <1>2, FindDoes, Zenon
<1>3. CASE StoreFind(p)
  BY <1>3, FindDoes, Zenon
<1>4. CASE FindFree(p)
  <2>1. pc' = [pc EXCEPT ![p] = "adat"] \/ pc' = [pc EXCEPT ![p] = "ffunlink"]
    BY <1>4, FindFreeDoes, Zenon
  <2> QED
    BY <1>4, <1>t, <2>1
<1>5. CASE FetchData(p) \/ DeleteLock(p) \/ DeleteData(p) \/ DeleteIdx(p) \/
           DeleteFree(p) \/ DeleteChain(p) \/ FreeUnlink(p)
  BY <1>5, <1>t
     DEF FetchData, Step, At, Goto, DeleteLock, DeleteData, DeleteIdx,
         DeleteFree, DeleteChain, FreeUnlink
<1>6. CASE AppendDatSeek(p) \/ AppendDatWrite(p) \/ AppendIdxSeek(p) \/
           AppendIdxWrite(p) \/ ReuseDat(p) \/ ReuseIdx(p) \/ LinkChain(p)
  BY <1>6, <1>t
     DEF AppendDatSeek, Step, At, Goto, AppendDatWrite, AppendIdxSeek,
         AppendIdxWrite, ReuseDat, ReuseIdx, LinkChain
<1>7. CASE Overwrite(p) \/ NextrecLock(p) \/ NextrecIdx(p) \/
           NextrecAstray(p) \/ NextrecData(p) \/ NextrecUnlock(p) \/
           Unlock(p)
  BY <1>7, <1>t
     DEF Overwrite, Step, At, Goto, NextrecLock, NextrecIdx, NextrecAstray,
         NextrecData, NextrecUnlock, Unlock
<1>8. CASE CallKey(p) \/ CallStore(p) \/ CallNextrec(p) \/ DbRewind(p)
  BY <1>8, <1>t
     DEF CallKey, Invoke, At, Goto, CallStore, CallNextrec, DbRewind
<1> QED
  BY <1>1, <1>2, <1>3, <1>4, <1>5, <1>6, <1>7, <1>8, Zenon DEF Move, Advance

\* Only an append makes the index file longer.
LEMMA Lengthens ==
  ASSUME IInv, NEW p \in Procs, Move(p), ~AppendIdxWrite(p)
  PROVE  Len(idx') = Len(idx)
<1>0. CASE Quiet(p)
  BY <1>0, Zenon DEF Quiet
<1>1. CASE DeleteData(p) \/ ReuseDat(p) \/ Overwrite(p) \/ AppendDatWrite(p)
           \/ DeleteFree(p) \/ LinkChain(p)
  BY <1>1, Zenon
     DEF DeleteData, ReuseDat, Overwrite, AppendDatWrite, DeleteFree, LinkChain
<1>2. CASE DeleteIdx(p)
  BY <1>2, DeleteIdxDoes, Zenon DEF DeleteIdx
<1>3. CASE DeleteChain(p)
  BY <1>3, DeleteChainDoes, Zenon DEF PtrWritten, DeleteChain
<1>4. CASE FreeUnlink(p)
  BY <1>4, FreeUnlinkDoes, Zenon DEF PtrWritten, FreeUnlink
<1>5. CASE ReuseIdx(p)
  BY <1>5, ReuseIdxDoes, Zenon DEF ReuseIdx
<1> QED
  BY <1>0, <1>1, <1>2, <1>3, <1>4, <1>5, QuietOrWrites DEF Writes
=============================================================================
