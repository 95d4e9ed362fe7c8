--------------------------- MODULE FooTableProofs ---------------------------
(***************************************************************************)
(* For any number of threads, objects and references, the three versions   *)
(* of the foo_ functions (mutex1.c, mutex2.c, mutex3.c) use no object that *)
(* has been freed, count its references right, and keep the hash chain.    *)
(***************************************************************************)
EXTENDS FooTable, FiniteSetTheorems, TLAPS

Labels == {"idle", "link", "initialised", "hold", "rele", "relehash", "recheck", "free"}
Typed ==
    /\ version \in 1..3
    /\ mem \in [Objs -> {"free", "live"}] /\ f_count \in [Objs -> Int]
    /\ hashlock \in Threads \cup {none}
    /\ fh \in Seq(Objs)
    /\ where \in [Threads -> Labels]
    /\ fp \in [Threads -> Objs \cup {none}]
    /\ refs \in [Threads -> [Objs -> 0..MaxRefs]]

\* What a thread inside one of the functions can rely on: its reference to the
\* new object, which it alone links; hashlock; and, between finding an object
\* and counting the reference, that the object stays in the chain.
Place(t) ==
    /\ fp[t] = none <=> where[t] = "idle"
    /\ where[t] \in {"link", "initialised"} => refs[t][fp[t]] > 0
    /\ where[t] = "link" => /\ version # 1
                            /\ \A u \in Threads : where[u] = "link" /\ fp[u] = fp[t] => u = t
    /\ where[t] \in {"hold", "relehash", "recheck"} => version = 2
    /\ where[t] \in {"hold", "recheck"} => hashlock = t
    /\ where[t] = "hold" => Linked(fp[t]) /\ refs[t][fp[t]] < MaxRefs
Places == \A t \in Threads : Place(t)

FooInv == /\ Typed /\ Places /\ FooTableSafe
          /\ version = 1 => fh = <<>>

-----------------------------------------------------------------------------
\* There are finitely many references to an object.
LEMMA ReferencesFinite ==
    ASSUME ConstantsOK, NEW o PROVE IsFiniteSet(References(o))
<1>1. IsFiniteSet(0..MaxRefs)
  BY FS_Interval DEF ConstantsOK
<1>2. IsFiniteSet(Threads \X (0..MaxRefs))
  BY <1>1, FS_Product DEF ConstantsOK
<1>3. References(o) \in SUBSET (Threads \X (0..MaxRefs))
  BY DEF References
<1> QED BY <1>2, <1>3, FS_Subset

\* Unlinking an object closes the gap and moves no other out of the chain.
LEMMA ReleaseFacts ==
    ASSUME NEW s \in Seq(Objs), NEW x \in Objs, \E i \in 1..Len(s) : s[i] = x,
           \A i, k \in 1..Len(s) : s[i] = s[k] => i = k
    PROVE  /\ Unchained(s, x) \in Seq(Objs)
           /\ \A i, k \in 1..Len(Unchained(s, x)) : Unchained(s, x)[i] = Unchained(s, x)[k] => i = k
           /\ \A o \in Objs : (\E n \in 1..Len(Unchained(s, x)) : Unchained(s, x)[n] = o) <=>
                                 o # x /\ \E n \in 1..Len(s) : s[n] = o
<1> DEFINE k == CHOOSE i \in 1..Len(s) : s[i] = x
           w == [i \in 1..Len(s) - 1 |-> IF i < k THEN s[i] ELSE s[i + 1]]
<1>1. k \in 1..Len(s) /\ s[k] = x
  OBVIOUS
<1>2. Unchained(s, x) = w
  BY DEF Unchained
<1>3. Len(s) \in Nat /\ Len(s) - 1 \in Nat
  BY <1>1
<1> HIDE DEF k
<1>4. \A i \in 1..Len(s) - 1 : s[i] \in Objs /\ s[i + 1] \in Objs
  BY <1>3
<1>5. w \in [1..Len(s) - 1 -> Objs]
  BY <1>4
<1>6. w \in Seq(Objs) /\ Len(w) = Len(s) - 1
  BY <1>3, <1>5
<1>7. \A i \in 1..Len(s) - 1 : w[i] = IF i < k THEN s[i] ELSE s[i + 1]
  OBVIOUS
<1> HIDE DEF w
<1>8. ASSUME NEW i \in 1..Len(s) - 1, NEW j \in 1..Len(s) - 1, w[i] = w[j]
      PROVE  i = j
  <2>1. i \in 1..Len(s) /\ i + 1 \in 1..Len(s) /\ j \in 1..Len(s) /\ j + 1 \in 1..Len(s)
    BY <1>3
  <2> DEFINE a == IF i < k THEN i ELSE i + 1
             b == IF j < k THEN j ELSE j + 1
  <2>2. a \in 1..Len(s) /\ b \in 1..Len(s) /\ s[a] = s[b]
    BY <1>7, <1>8, <2>1
  <2>3. a = b
    BY <2>2
  <2> QED BY <2>1, <2>3, <1>1
<1>9. ASSUME NEW o \in Objs
      PROVE  (\E n \in 1..Len(s) - 1 : w[n] = o) <=> o # x /\ \E n \in 1..Len(s) : s[n] = o
  <2>1. ASSUME NEW n \in 1..Len(s) - 1, w[n] = o
        PROVE  o # x /\ \E m \in 1..Len(s) : s[m] = o
    <3> DEFINE a == IF n < k THEN n ELSE n + 1
    <3>1. a \in 1..Len(s) /\ s[a] = o /\ a # k
      BY <2>1, <1>1, <1>3, <1>7
    <3> QED BY <3>1, <1>1
  <2>2. ASSUME NEW n \in 1..Len(s), s[n] = o, o # x
        PROVE  \E m \in 1..Len(s) - 1 : w[m] = o
    <3>1. n # k
      BY <2>2, <1>1
    <3>2. CASE n < k
      <4>1. n \in 1..Len(s) - 1
        BY <3>2, <1>1, <1>3
      <4> QED BY <4>1, <3>2, <2>2, <1>7
    <3>3. CASE n > k
      <4>1. n - 1 \in 1..Len(s) - 1 /\ ~(n - 1 < k) /\ (n - 1) + 1 = n
        BY <3>3, <1>1, <1>3
      <4> QED BY <4>1, <2>2, <1>7
    <3> QED BY <3>1, <3>2, <3>3, <1>1
  <2> QED BY <2>1, <2>2
<1> QED BY Zenon, <1>2, <1>6, <1>8, <1>9

-----------------------------------------------------------------------------
\* Which pairs are references.
LEMMA ReferenceIs ==
    ASSUME ConstantsOK, NEW t \in Threads, NEW k \in 0..MaxRefs, NEW o
    PROVE  <<t, k>> \in References(o) <=> IF k = 0 THEN Releasing(t, o) ELSE k <= refs[t][o]
BY DEF References

\* An object that somebody has a reference to is in memory, and nobody frees
\* it: its count is the number of references.
LEMMA Counted ==
    ASSUME ConstantsOK, FooInv, NEW o \in Objs, NEW t \in Threads,
           Releasing(t, o) \/ refs[t][o] > 0
    PROVE  /\ mem[o] = "live" /\ Freeing(o) = {}
           /\ Count(o) = Cardinality(References(o))
           /\ References(o) # {}
<1>1. References(o) # {}
  <2>1. CASE Releasing(t, o)
    <3>1. <<t, 0>> \in References(o)
      BY <2>1, ReferenceIs DEF ConstantsOK
    <3> QED BY <3>1
  <2>2. CASE refs[t][o] > 0
    <3>1. 1 \in 0..MaxRefs /\ 1 <= refs[t][o]
      BY <2>2 DEF ConstantsOK, FooInv, Typed
    <3>2. <<t, 1>> \in References(o)
      BY <3>1, ReferenceIs
    <3> QED BY <3>2
  <2> QED BY <2>1, <2>2
<1>2. mem[o] = "live"
  BY DEF FooInv, FooTableSafe, NoUseAfterFree, Releasing, ConstantsOK
<1> QED BY Zenon, <1>1, <1>2 DEF FooInv, FooTableSafe, CountIsReferences

\* The last reference: when t releases the only one, nobody else has one.
LEMMA OnlyReference ==
    ASSUME ConstantsOK, FooInv, NEW o \in Objs, NEW t \in Threads, Releasing(t, o), Count(o) = 1
    PROVE  /\ References(o) = {<<t, 0>>}
           /\ \A u \in Threads : refs[u][o] = 0 /\ (Releasing(u, o) => u = t)
<1>1. IsFiniteSet(References(o)) /\ Cardinality(References(o)) = 1
  BY Counted, ReferencesFinite, Zenon
<1>2. <<t, 0>> \in References(o)
  BY ReferenceIs, SMTT(30) DEF ConstantsOK
<1>3. References(o) = {<<t, 0>>}
  BY <1>1, <1>2, FS_Singleton
<1>4. ASSUME NEW u \in Threads PROVE refs[u][o] = 0 /\ (Releasing(u, o) => u = t)
  <2>1. 1 \in 0..MaxRefs /\ refs[u][o] \in Nat
    BY DEF ConstantsOK, FooInv, Typed
  <2>2. <<u, 1>> \notin References(o)
    BY <1>3
  <2>3. ~(1 <= refs[u][o])
    BY <2>1, <2>2, ReferenceIs
  <2>4. Releasing(u, o) => <<u, 0>> \in References(o)
    BY ReferenceIs, SMTT(30) DEF ConstantsOK
  <2> QED BY <2>1, <2>3, <2>4, <1>3
<1> QED BY <1>3, <1>4

\* One thread gets one reference more: foo_hold, foo_find.
LEMMA TakeCount ==
    ASSUME ConstantsOK, FooInv, NEW t \in Threads, NEW o \in Objs,
           mem[o] = "live", Freeing(o) = {}, refs[t][o] < MaxRefs,
           Add(o, 1), GotRef(t, o), UNCHANGED mem,
           \/ UNCHANGED <<where, fp>>
           \/ where[t] = "hold" /\ Done(t)
    PROVE  CountIsReferences'
<1>1. /\ f_count' = [f_count EXCEPT ![o] = @ + 1]
      /\ refs' = [refs EXCEPT ![t][o] = @ + 1]
      /\ refs[t][o] \in 0..MaxRefs /\ refs[t][o] + 1 \in 1..MaxRefs
      /\ refs \in [Threads -> [Objs -> 0..MaxRefs]] /\ f_count \in [Objs -> Int]
  BY SMTT(30) DEF Add, GotRef, FooInv, Typed, ConstantsOK
<1>2. \A u \in Threads, x \in Objs : Releasing(u, x)' <=> Releasing(u, x)
  BY Zenon DEF Done, Goto, Releasing, FooInv, Typed, Places, Place
<1>3. \A x : Freeing(x)' = Freeing(x)
  BY SMTT(30) DEF Done, Goto, Freeing, FooInv, Typed, Places, Place
<1>4. \A x \in Objs \ {o} : References(x)' = References(x)
  BY <1>1, <1>2, Zenon DEF References
<1>5. References(o)' = References(o) \cup {<<t, refs[t][o] + 1>>}
  <2> DEFINE N == <<t, refs[t][o] + 1>>
  <2>1. ASSUME NEW u \in Threads, NEW k \in 0..MaxRefs
        PROVE  <<u, k>> \in References(o)' <=> <<u, k>> \in References(o) \/ <<u, k>> = N
    <3>1. <<u, k>> \in References(o)' <=> IF k = 0 THEN Releasing(u, o) ELSE k <= refs'[u][o]
      BY <1>2, Zenon DEF References
    <3>2. refs'[u][o] = IF u = t THEN refs[t][o] + 1 ELSE refs[u][o]
      BY <1>1
    <3>3. <<u, k>> = N <=> u = t /\ k = refs[t][o] + 1
      BY Zenon
    <3>4. refs[u][o] \in 0..MaxRefs
      BY <1>1
    <3> QED BY SMTT(30), <3>1, <3>2, <3>3, <3>4, <1>1, ReferenceIs
  <2>2. N \in Threads \X (0..MaxRefs)
    BY <1>1
  <2>3. References(o)' \subseteq Threads \X (0..MaxRefs) /\ References(o) \subseteq Threads \X (0..MaxRefs)
    BY Zenon DEF References
  <2>4. \A r \in Threads \X (0..MaxRefs) : r \in References(o)' <=> r \in References(o) \/ r = N
    <3> HIDE DEF N
    <3> QED BY SMTT(30), <2>1
  <2>5. References(o)' = References(o) \cup {N}
    <3> HIDE DEF N
    <3> QED BY Zenon, <2>2, <2>3, <2>4
  <2> QED BY Zenon, <2>5
<1>6. <<t, refs[t][o] + 1>> \notin References(o)
  BY <1>1, ReferenceIs, SMTT(30)
<1>7. Cardinality(References(o)') = Count(o) + 1
  BY <1>5, <1>6, ReferencesFinite, FS_AddElement, ZenonT(30)
     DEF FooInv, FooTableSafe, CountIsReferences
<1> SUFFICES ASSUME NEW x \in Objs, mem'[x] = "live"
             PROVE  (IF Freeing(x) = {} THEN Count(x) = Cardinality(References(x))
                     ELSE References(x) = {} /\ \A v, u \in Freeing(x) : v = u)'
  BY Zenon DEF CountIsReferences
<1>8. CASE x = o
  BY <1>1, <1>3, <1>7, <1>8, Zenon DEF Count
<1>9. CASE x # o
  <2>1. Freeing(x)' = Freeing(x) /\ References(x)' = References(x) /\ Count(x)' = Count(x)
    BY <1>1, <1>3, <1>4, <1>9, Zenon DEF Count
  <2> QED BY Zenon, <2>1 DEF FooInv, FooTableSafe, CountIsReferences
<1> QED BY Zenon, <1>8, <1>9

\* One thread gives one reference up: foo_rele.  The last one to do so frees.
LEMMA GiveUpCount ==
    ASSUME ConstantsOK, FooInv, NEW t \in Threads, NEW o \in Objs,
           Releasing(t, o), UNCHANGED <<mem, refs>>,
           \/ Count(o) # 1 /\ Add(o, -1) /\ Done(t)
           \/ /\ Count(o) = 1 /\ Goto(t, "free") /\ UNCHANGED fp
              /\ UNCHANGED f_count \/ Add(o, -1)
    PROVE  CountIsReferences'
<1>1. /\ DOMAIN where = Threads /\ fp \in [Threads -> Objs \cup {none}]
      /\ f_count \in [Objs -> Int] /\ fp[t] = o /\ where[t] # "free" /\ none \notin Objs
  BY DEF FooInv, Typed, Releasing, ConstantsOK
<1>2. Freeing(o) = {} /\ Count(o) = Cardinality(References(o)) /\ Count(o) = f_count[o]
  BY Counted, Zenon DEF Count
<1>3. \A u \in Threads, x \in Objs : Releasing(u, x)' <=> Releasing(u, x) /\ u # t
  BY <1>1 DEF Done, Goto, Releasing
<1>4. \A x \in Objs : References(x)' = References(x) \ {<<t, 0>>}
  <2> SUFFICES ASSUME NEW x \in Objs
               PROVE  References(x)' = References(x) \ {<<t, 0>>}
    OBVIOUS
  <2>1. \A u \in Threads, k \in 0..MaxRefs :
           <<u, k>> \in References(x)' <=> <<u, k>> \in References(x) /\ <<u, k>> # <<t, 0>>
    BY <1>3, Zenon DEF References
  <2>2. References(x)' \subseteq Threads \X (0..MaxRefs) /\ References(x) \subseteq Threads \X (0..MaxRefs)
    BY Zenon DEF References
  <2>3. \A r \in Threads \X (0..MaxRefs) :
           r \in References(x)' <=> r \in References(x) /\ r # <<t, 0>>
    BY <2>1
  <2> QED BY <2>2, <2>3
<1>5. <<t, 0>> \in References(o) /\ \A x \in Objs \ {o} : <<t, 0>> \notin References(x)
  BY <1>1, ReferenceIs, SMTT(30) DEF ConstantsOK, Releasing
<1>6. Cardinality(References(o)') = Count(o) - 1
  BY <1>2, <1>4, <1>5, ReferencesFinite, FS_RemoveElement, Zenon
<1> SUFFICES ASSUME NEW x \in Objs, mem'[x] = "live"
             PROVE  (IF Freeing(x) = {} THEN Count(x) = Cardinality(References(x))
                     ELSE References(x) = {} /\ \A v, u \in Freeing(x) : v = u)'
  BY DEF CountIsReferences
<1>7. CASE x # o
  <2>1. References(x)' = References(x)
    <3>1. <<t, 0>> \notin References(x)
      BY <1>5, <1>7
    <3>2. References(x)' = References(x) \ {<<t, 0>>}
      BY <1>4
    <3>3. References(x) \ {<<t, 0>>} = References(x)
      BY <3>1
    <3> QED BY <3>2, <3>3
  <2>2. Freeing(x)' = Freeing(x)
    <3>1. \A u \in Threads : fp'[u] = x <=> fp[u] = x
      BY <1>1, <1>7 DEF Done
    <3>2. \A u \in Threads : fp[u] = x => where'[u] = where[u]
      BY <1>1, <1>7 DEF Done, Goto
    <3> QED BY Zenon, <3>1, <3>2 DEF Freeing
  <2>3. Count(x)' = Count(x)
    BY <1>1, <1>7 DEF Add, Count
  <2> QED BY Zenon, <2>1, <2>2, <2>3 DEF FooInv, FooTableSafe, CountIsReferences
<1>8. CASE x = o /\ Count(o) # 1
  <2>1. Freeing(o)' = {}
    BY <1>1, <1>2, <1>8 DEF Freeing, Done, Goto
  <2>2. Count(o)' = Count(o) - 1
    BY <1>1, <1>8 DEF Add, Count
  <2> QED BY <2>1, <2>2, <1>6, <1>8
<1>9. CASE x = o /\ Count(o) = 1
  <2>1. Freeing(o)' = {t}
    BY <1>1, <1>2, <1>9 DEF Freeing, Goto
  <2>2. References(o)' = {}
    BY <1>4, <1>9, OnlyReference, Zenon
  <2> QED BY <2>1, <2>2, <1>9
<1> QED BY Zenon, <1>7, <1>8, <1>9

\* A step that touches no reference.
LEMMA SameCount ==
    ASSUME ConstantsOK, FooInv, UNCHANGED <<mem, f_count, refs>>,
           \A u \in Threads, x \in Objs :
              /\ Releasing(u, x)' <=> Releasing(u, x)
              /\ fp'[u] = x /\ where'[u] = "free" <=> fp[u] = x /\ where[u] = "free"
    PROVE  CountIsReferences'
<1> SUFFICES ASSUME NEW x \in Objs, mem'[x] = "live"
             PROVE  (IF Freeing(x) = {} THEN Count(x) = Cardinality(References(x))
                     ELSE References(x) = {} /\ \A v, u \in Freeing(x) : v = u)'
  BY Zenon DEF CountIsReferences
<1>1. Freeing(x)' = Freeing(x) /\ Count(x)' = Count(x)
  BY Zenon DEF Freeing, Count
<1>2. References(x)' = References(x)
  BY Zenon DEF References
<1> QED BY Zenon, <1>1, <1>2 DEF FooInv, FooTableSafe, CountIsReferences

-----------------------------------------------------------------------------
\* foo_alloc: nobody knows the memory that malloc returns.
LEMMA AllocInv == ASSUME ConstantsOK, FooInv, NEW t \in Threads, Alloc(t) PROVE FooInv'
<1>1. PICK o \in Objs :
        /\ where[t] = "idle" /\ mem[o] = "free" /\ mem' = [mem EXCEPT ![o] = "live"]
        /\ f_count' = [f_count EXCEPT ![o] = 1] /\ refs' = [refs EXCEPT ![t][o] = @ + 1]
        /\ \/ version = 1 /\ Done(t)
           \/ version # 1 /\ Goto(t, "link") /\ fp' = [fp EXCEPT ![t] = o]
        /\ UNCHANGED <<version, hashlock, fh>>
  BY Zenon DEF Alloc, GotRef
<1>2. Typed /\ Places /\ none \notin Objs /\ fp[t] = none
  BY <1>1, Zenon DEF FooInv, Places, Place, ConstantsOK
<1>3. /\ \A u \in Threads : fp[u] # o /\ refs[u][o] = 0
      /\ ~Linked(o)
  <2>1. /\ \A u \in Threads : fp[u] # none => mem[fp[u]] = "live"
        /\ \A u \in Threads : refs[u][o] > 0 => mem[o] = "live"
        /\ \A n \in 1..Len(fh) : mem[fh[n]] = "live"
    BY Zenon DEF FooInv, FooTableSafe, NoUseAfterFree
  <2>2. \A u \in Threads : refs[u][o] \in Nat
    BY <1>2 DEF Typed, ConstantsOK
  <2> QED BY SMTT(30), <2>1, <2>2, <1>1, <1>2 DEF Linked
<1>4. /\ refs' \in [Threads -> [Objs -> 0..MaxRefs]]
      /\ \A u \in Threads, x \in Objs : refs'[u][x] = IF u = t /\ x = o THEN 1 ELSE refs[u][x]
  BY <1>1, <1>2, <1>3, SMTT(30) DEF Typed, ConstantsOK
<1>5. Typed'
  <2>1. where' \in [Threads -> Labels] /\ fp' \in [Threads -> Objs \cup {none}]
    BY <1>1, <1>2, ZenonT(30) DEF Typed, Done, Goto, Labels
  <2> QED BY SMTT(30), <2>1, <1>1, <1>2, <1>4 DEF Typed
<1>6. Places'
  <2> SUFFICES ASSUME NEW u \in Threads PROVE Place(u)'
    BY DEF Places
  <2>1. CASE u = t
    BY <2>1, <1>1, <1>2, <1>3, <1>4, SMTT(30)
       DEF Place, Places, Typed, Done, Goto
  <2>2. CASE u # t
    <3>1. fp'[u] = fp[u] /\ where'[u] = where[u] /\ fp[u] \in Objs \cup {none} /\ fp[u] # o
      BY <2>2, <1>1, <1>2, <1>3, Zenon DEF Typed, Done, Goto
    <3>2. fp[u] \in Objs => refs'[u][fp[u]] = refs[u][fp[u]]
      BY <3>1, <1>4, Zenon
    <3>3. Linked(fp[u])' <=> Linked(fp[u])
      BY <3>1, <1>1 DEF Linked
    <3>4. \A w \in Threads : where'[w] = "link" /\ fp'[w] = fp'[u] => where[w] = "link" /\ fp[w] = fp[u]
      BY <3>1, <1>1, <1>2, Zenon DEF Typed, Done, Goto
    <3> QED BY Zenon, <3>1, <3>2, <3>3, <3>4, <1>1, <1>2 DEF Place, Places
  <2> QED BY <2>1, <2>2
<1>7. NoUseAfterFree'
  <2>1. ASSUME NEW u \in Threads, fp'[u] # none PROVE mem'[fp'[u]] = "live"
    <3>1. fp'[u] = fp[u] \/ fp'[u] = o
      BY <2>1, <1>1, <1>2, Zenon DEF Typed, Done
    <3>2. fp[u] # none => fp[u] \in Objs /\ mem[fp[u]] = "live"
      BY <1>2, Zenon DEF FooInv, FooTableSafe, NoUseAfterFree, Typed
    <3> QED BY Zenon, <2>1, <3>1, <3>2, <1>1, <1>2 DEF Typed
  <2>2. \A u \in Threads, x \in Objs : refs'[u][x] > 0 => mem'[x] = "live"
    BY <1>1, <1>2, <1>4, SMTT(30)
       DEF FooInv, FooTableSafe, NoUseAfterFree, Typed
  <2>3. \A n \in 1..Len(fh') : mem'[fh'[n]] = "live"
    BY <1>1, <1>2, SMTT(30) DEF FooInv, FooTableSafe, NoUseAfterFree, Typed
  <2> QED BY Zenon, <2>1, <2>2, <2>3 DEF NoUseAfterFree
<1>8. CountIsReferences'
  <2> SUFFICES ASSUME NEW x \in Objs, mem'[x] = "live"
               PROVE  (IF Freeing(x) = {} THEN Count(x) = Cardinality(References(x))
                       ELSE References(x) = {} /\ \A v, u \in Freeing(x) : v = u)'
    BY DEF CountIsReferences
  <2>1. \A u \in Threads : Releasing(u, x)' <=> Releasing(u, x)
    BY <1>1, <1>2, Zenon DEF Releasing, Typed, Done, Goto
  <2>2. Freeing(x)' = Freeing(x)
    BY <1>1, <1>2, Zenon DEF Freeing, Typed, Done, Goto
  <2>3. CASE x = o
    <3>1. Freeing(x)' = {} /\ Count(x)' = 1
      BY <2>2, <2>3, <1>1, <1>2, <1>3, Zenon DEF Freeing, Count, Typed
    <3>2. \A u \in Threads, k \in 0..MaxRefs : <<u, k>> \in References(x)' <=> u = t /\ k = 1
      BY <2>1, <2>3, <1>3, <1>4, SMTT(30) DEF References, Releasing
    <3>3. References(x)' \subseteq Threads \X (0..MaxRefs) /\ <<t, 1>> \in Threads \X (0..MaxRefs)
      BY SMTT(30) DEF References, ConstantsOK
    <3>4. \A r \in Threads \X (0..MaxRefs) : r \in References(x)' <=> r = <<t, 1>>
      BY <3>2
    <3>5. References(x)' = {<<t, 1>>}
      BY <3>3, <3>4
    <3> QED BY Zenon, <3>1, <3>5, FS_Singleton
  <2>4. CASE x # o
    <3>1. References(x)' = References(x)
      BY <2>1, <2>4, <1>4, SMTT(30) DEF References
    <3>2. mem[x] = "live" /\ Count(x)' = Count(x)
      BY <2>4, <1>1, <1>2, Zenon DEF Typed, Count
    <3> QED BY Zenon, <3>1, <3>2, <2>2 DEF FooInv, FooTableSafe, CountIsReferences
  <2> QED BY <2>3, <2>4
<1>9. ChainIsTable'
  <2> SUFFICES ASSUME version # 1, NEW x \in Objs
               PROVE  (Linked(x) <=> /\ mem[x] = "live"
                                     /\ ~\E u \in Threads : fp[u] = x /\ where[u] \in {"link", "free"})'
    BY <1>1, Zenon DEF FooInv, FooTableSafe, ChainIsTable
  <2>1. Linked(x)' <=> Linked(x)
    BY <1>1 DEF Linked
  <2>2. CASE x = o
    BY <2>1, <2>2, <1>1, <1>2, <1>3, Zenon DEF Typed, Goto
  <2>3. CASE x # o
    <3>1. mem'[x] = mem[x]
      BY <2>3, <1>1, <1>2, Zenon DEF Typed
    <3>2. \A u \in Threads : fp'[u] = x /\ where'[u] \in {"link", "free"} <=> fp[u] = x /\ where[u] \in {"link", "free"}
      BY <2>3, <1>1, <1>2, Zenon DEF Typed, Goto
    <3> QED BY Zenon, <2>1, <3>1, <3>2 DEF FooInv, FooTableSafe, ChainIsTable
  <2> QED BY Zenon, <2>2, <2>3
<1> QED BY <1>1, <1>5, <1>6, <1>7, <1>8, <1>9 DEF FooInv, FooTableSafe

\* A thread that does not move keeps its place when its lock and its object in
\* the chain stay.
LEMMA OtherPlace ==
    ASSUME FooInv, NEW u \in Threads, UNCHANGED version, fp'[u] = fp[u], where'[u] = where[u],
           refs'[u] = refs[u],
           where[u] \in {"hold", "recheck"} => hashlock' = hashlock,
           where[u] = "hold" => Linked(fp[u])',
           \A w \in Threads : where'[w] = "link" => where[w] = "link" /\ fp'[w] = fp[w]
    PROVE  Place(u)'
BY Zenon DEF FooInv, Places, Place

\* Nothing that is freed becomes known as long as nothing is freed.
LEMMA SameMemory ==
    ASSUME ConstantsOK, FooInv, UNCHANGED mem,
           \A u \in Threads : fp'[u] \in {none, fp[u]} \/ mem[fp'[u]] = "live",
           \A u \in Threads, x \in Objs : refs'[u][x] > 0 => refs[u][x] > 0 \/ mem[x] = "live",
           \A n \in 1..Len(fh') : mem[fh'[n]] = "live"
    PROVE  NoUseAfterFree'
BY Zenon DEF FooInv, FooTableSafe, NoUseAfterFree

\* The chain stays the table when neither changes.
LEMMA SameChain ==
    ASSUME FooInv, UNCHANGED <<version, mem, fh>>,
           \A u \in Threads : \/ fp'[u] = fp[u] /\ (where'[u] = where[u] \/ {where[u], where'[u]} \cap {"link", "free"} = {})
                              \/ {where[u], where'[u]} \cap {"link", "free"} = {}
    PROVE  ChainIsTable'
<1>1. \A x \in Objs : Linked(x)' <=> Linked(x)
  BY Zenon DEF Linked
<1>2. \A x \in Objs, u \in Threads :
         fp'[u] = x /\ where'[u] \in {"link", "free"} <=> fp[u] = x /\ where[u] \in {"link", "free"}
  BY Zenon
<1> QED BY SMTT(30), <1>1, <1>2 DEF FooInv, FooTableSafe, ChainIsTable

\* The new object goes to the head of the chain.
LEMMA AllocLinkInv == ASSUME ConstantsOK, FooInv, NEW t \in Threads, AllocLink(t) PROVE FooInv'
<1> DEFINE o == fp[t]
<1>1. /\ where[t] = "link" /\ hashlock = none /\ fh' = <<o>> \o fh /\ where' = [where EXCEPT ![t] = "initialised"]
      /\ UNCHANGED <<version, mem, f_count, hashlock, fp, refs>>
  BY DEF AllocLink, Goto
<1>2. Typed /\ none \notin Objs /\ none \notin Threads
  BY DEF FooInv, ConstantsOK
<1>3. /\ o \in Objs /\ refs[t][o] > 0 /\ version # 1
      /\ \A u \in Threads : where[u] = "link" /\ fp[u] = o => u = t
  BY <1>1, <1>2, Zenon DEF FooInv, Places, Place, Typed
<1>4. mem[o] = "live" /\ Freeing(o) = {}
  BY <1>3, Counted, Zenon
<1>5. ~Linked(o)
  BY <1>1, <1>3, Zenon DEF FooInv, FooTableSafe, ChainIsTable
<1>6. /\ fh' \in Seq(Objs) /\ Len(fh') = Len(fh) + 1 /\ fh'[1] = o /\ Len(fh) \in Nat
      /\ \A n \in 2..Len(fh') : n - 1 \in 1..Len(fh) /\ fh'[n] = fh[n - 1]
      /\ \A n \in 1..Len(fh) : n + 1 \in 2..Len(fh') /\ fh'[n + 1] = fh[n]
  <2>1. fh \in Seq(Objs) /\ o \in Objs
    BY <1>2, <1>3 DEF Typed
  <2> HIDE DEF o
  <2> QED BY SMTT(30), <2>1, <1>1
<1>7. \A x : Linked(x)' <=> x = o \/ Linked(x)
  <2> HIDE DEF o
  <2>1. ASSUME NEW x, Linked(x)' PROVE x = o \/ Linked(x)
    <3>1. PICK n \in 1..Len(fh') : fh'[n] = x
      BY <2>1 DEF Linked
    <3>2. n = 1 \/ n \in 2..Len(fh')
      BY <1>6
    <3> QED BY <3>1, <3>2, <1>6 DEF Linked
  <2>2. ASSUME NEW x, x = o \/ Linked(x) PROVE Linked(x)'
    <3>1. 1 \in 1..Len(fh') /\ \A n \in 1..Len(fh) : n + 1 \in 1..Len(fh')
      BY <1>6, SMTT(30)
    <3> QED BY Zenon, <2>2, <3>1, <1>6 DEF Linked
  <2> QED BY <2>1, <2>2
<1>8. Typed'
  BY <1>1, <1>2, <1>6, Zenon DEF Typed, Labels
<1>9. Places'
  <2> SUFFICES ASSUME NEW u \in Threads PROVE Place(u)'
    BY DEF Places
  <2>1. CASE u = t
    BY <2>1, <1>1, <1>2, <1>3, Zenon DEF Place, Typed
  <2>2. CASE u # t
    <3>1. where'[u] = where[u] /\ \A w \in Threads : where'[w] = "link" => where[w] = "link"
      BY <2>2, <1>1, <1>2 DEF Typed
    <3>2. where[u] = "hold" => Linked(fp[u])'
      BY <1>1, <1>7, Zenon DEF FooInv, Places, Place
    <3> QED BY Zenon, <3>1, <3>2, <1>1, OtherPlace
  <2> QED BY <2>1, <2>2
<1>10. NoUseAfterFree'
  <2>1. \A n \in 1..Len(fh') : mem[fh'[n]] = "live"
    <3> SUFFICES ASSUME NEW n \in 1..Len(fh') PROVE mem[fh'[n]] = "live"
      OBVIOUS
    <3>1. n = 1 \/ n \in 2..Len(fh')
      BY <1>6
    <3>2. \A m \in 1..Len(fh) : mem[fh[m]] = "live"
      BY DEF FooInv, FooTableSafe, NoUseAfterFree
    <3> QED BY SMTT(30), <3>1, <3>2, <1>4, <1>6
  <2> QED BY Zenon, <2>1, <1>1, SameMemory
<1>11. CountIsReferences'
  <2>1. \A u \in Threads, x \in Objs :
          /\ Releasing(u, x)' <=> Releasing(u, x)
          /\ fp'[u] = x /\ where'[u] = "free" <=> fp[u] = x /\ where[u] = "free"
    BY <1>1, <1>2, Zenon DEF Releasing, Typed
  <2> QED BY <2>1, <1>1, SameCount
<1>12. ChainIsTable'
  <2>1. \A i, k \in 1..Len(fh') : fh'[i] = fh'[k] => i = k
    <3> HIDE DEF o
    <3> SUFFICES ASSUME NEW i \in 1..Len(fh'), NEW k \in 1..Len(fh'), fh'[i] = fh'[k]
                 PROVE  i = k
      OBVIOUS
    <3>1. (i = 1 \/ i \in 2..Len(fh')) /\ (k = 1 \/ k \in 2..Len(fh'))
      BY <1>6, SMTT(30)
    <3>2. \A n \in 2..Len(fh') : fh'[n] # o
      BY <1>5, <1>6, SMTT(30) DEF Linked
    <3>3. CASE i \in 2..Len(fh') /\ k \in 2..Len(fh')
      <4>1. i - 1 \in 1..Len(fh) /\ k - 1 \in 1..Len(fh) /\ fh[i - 1] = fh[k - 1]
        BY <3>3, <1>6, Zenon
      <4>2. \A m, n \in 1..Len(fh) : fh[m] = fh[n] => m = n
        BY <1>3, Zenon DEF FooInv, FooTableSafe, ChainIsTable
      <4>3. i - 1 = k - 1
        BY <4>1, <4>2
      <4> QED BY <4>3
    <3> QED BY Zenon, <3>1, <3>2, <3>3, <1>6
  <2>2. ASSUME NEW x \in Objs
        PROVE  Linked(x)' <=> /\ mem'[x] = "live"
                              /\ ~\E u \in Threads : fp'[u] = x /\ where'[u] \in {"link", "free"}
    <3>1. CASE x = o
      <4>1. \A u \in Threads : ~(fp'[u] = o /\ where'[u] \in {"link", "free"})
        BY <1>1, <1>2, <1>3, <1>4, Zenon DEF Typed, Freeing
      <4> QED BY Zenon, <4>1, <3>1, <1>1, <1>4, <1>7
    <3>2. CASE x # o
      <4>1. \A u \in Threads : fp'[u] = x => where'[u] = where[u] /\ fp[u] = x
        BY <3>2, <1>1, <1>2, Zenon DEF Typed
      <4>2. \A u \in Threads : fp[u] = x => where'[u] = where[u] /\ fp'[u] = x
        BY <3>2, <1>1, <1>2, Zenon DEF Typed
      <4>3. Linked(x)' <=> Linked(x)
        BY <3>2, <1>7
      <4> QED BY Zenon, <4>1, <4>2, <4>3, <1>1, <1>3 DEF FooInv, FooTableSafe, ChainIsTable
    <3> QED BY Zenon, <3>1, <3>2
  <2> QED BY Zenon, <2>1, <2>2 DEF ChainIsTable
<1> QED BY Zenon, <1>1, <1>3, <1>8, <1>9, <1>10, <1>11, <1>12 DEF FooInv, FooTableSafe

\* The end of foo_alloc.
LEMMA AllocEndInv == ASSUME ConstantsOK, FooInv, NEW t \in Threads, AllocEnd(t) PROVE FooInv'
<1>1. /\ where[t] = "initialised" /\ where' = [where EXCEPT ![t] = "idle"] /\ fp' = [fp EXCEPT ![t] = none]
      /\ UNCHANGED <<version, mem, f_count, hashlock, fh, refs>>
  BY Zenon DEF AllocEnd, Done, Goto
<1>2. Typed /\ none \notin Objs
  BY DEF FooInv, ConstantsOK
<1>3. Typed'
  BY <1>1, <1>2, Zenon DEF Typed, Labels
<1>4. \A u \in Threads : u # t => fp'[u] = fp[u] /\ where'[u] = where[u]
  BY <1>1, <1>2, Zenon DEF Typed
<1>5. fp'[t] = none /\ where'[t] = "idle"
  BY <1>1, <1>2 DEF Typed
<1>6. Places'
  <2> SUFFICES ASSUME NEW u \in Threads PROVE Place(u)'
    BY DEF Places
  <2>1. CASE u = t
    BY <2>1, <1>5, Zenon DEF Place
  <2>2. CASE u # t
    <3>1. \A w \in Threads : where'[w] = "link" => where[w] = "link" /\ fp'[w] = fp[w]
      BY <1>4, <1>5
    <3>2. where[u] = "hold" => Linked(fp[u])'
      BY <1>1, SMTT(30) DEF FooInv, Places, Place, Linked
    <3> QED BY Zenon, <2>2, <3>1, <3>2, <1>1, <1>4, OtherPlace
  <2> QED BY <2>1, <2>2
<1>7. NoUseAfterFree'
  <2>1. \A n \in 1..Len(fh') : mem[fh'[n]] = "live"
    BY <1>1, Zenon DEF FooInv, FooTableSafe, NoUseAfterFree
  <2> QED BY Zenon, <2>1, <1>1, <1>4, <1>5, SameMemory
<1>8. CountIsReferences'
  <2>1. \A u \in Threads, x \in Objs :
          /\ Releasing(u, x)' <=> Releasing(u, x)
          /\ fp'[u] = x /\ where'[u] = "free" <=> fp[u] = x /\ where[u] = "free"
    BY <1>1, <1>4, <1>5, Zenon DEF Releasing
  <2> QED BY Zenon, <2>1, <1>1, SameCount
<1>9. ChainIsTable'
  BY <1>1, <1>4, <1>5, SameChain, Zenon
<1> QED BY Zenon, <1>1, <1>3, <1>6, <1>7, <1>8, <1>9 DEF FooInv, FooTableSafe

\* A thread takes a reference to an object that it found in the chain or
\* already has one to.
LEMMA TakeInv ==
    ASSUME ConstantsOK, FooInv, NEW t \in Threads, NEW o \in Objs,
           (Linked(o) /\ version # 1) \/ refs[t][o] > 0, refs[t][o] < MaxRefs,
           Add(o, 1), GotRef(t, o), UNCHANGED <<version, mem, fh>>,
           \/ where[t] = "idle" /\ UNCHANGED <<where, fp, hashlock>>
           \/ where[t] = "hold" /\ Done(t) /\ hashlock' = none
    PROVE  FooInv'
<1>1. /\ f_count' = [f_count EXCEPT ![o] = @ + 1]
      /\ refs' = [refs EXCEPT ![t][o] = @ + 1]
  BY DEF Add, GotRef
<1>2. Typed /\ Places /\ none \notin Objs /\ none \notin Threads
  BY Zenon DEF FooInv, ConstantsOK
<1>3. mem[o] = "live" /\ Freeing(o) = {}
  <2>1. CASE Linked(o) /\ version # 1
    BY <2>1, Zenon DEF FooInv, FooTableSafe, ChainIsTable, Freeing
  <2> QED BY Zenon, <2>1, Counted
<1>4. CountIsReferences'
  BY <1>3, TakeCount, Zenon
<1>5. /\ refs' \in [Threads -> [Objs -> 0..MaxRefs]]
      /\ \A u \in Threads, x \in Objs : refs'[u][x] = IF u = t /\ x = o THEN refs[t][o] + 1 ELSE refs[u][x]
      /\ \A u \in Threads : u # t => refs'[u] = refs[u]
  BY <1>1, <1>2, SMTT(30) DEF Typed, ConstantsOK
<1>6. /\ \A u \in Threads : u # t => fp'[u] = fp[u] /\ where'[u] = where[u]
      /\ fp'[t] = none /\ where'[t] = "idle"
      /\ fp' \in [Threads -> Objs \cup {none}] /\ where' \in [Threads -> Labels]
  <2>1. CASE where[t] = "idle" /\ UNCHANGED <<where, fp>>
    BY <2>1, <1>2, Zenon DEF Typed, Places, Place
  <2>2. CASE where[t] = "hold" /\ Done(t)
    BY <2>2, <1>2, Zenon DEF Typed, Labels, Done, Goto
  <2> QED BY Zenon, <2>1, <2>2
<1>7. Typed'
  BY <1>1, <1>2, <1>5, <1>6, SMTT(30) DEF Typed
<1>8. Places'
  <2> SUFFICES ASSUME NEW u \in Threads PROVE Place(u)'
    BY Zenon DEF Places
  <2>1. CASE u = t
    BY <2>1, <1>6, Zenon DEF Place
  <2>2. CASE u # t
    <3>1. \A w \in Threads : where'[w] = "link" => where[w] = "link" /\ fp'[w] = fp[w]
      BY <1>6, Zenon
    <3>2. where[u] = "hold" => Linked(fp[u])'
      BY <2>2, <1>2, <1>6, SMTT(30) DEF Places, Place, Linked
    <3>3. where[u] \in {"hold", "recheck"} => hashlock' = hashlock
      BY <2>2, <1>2, Zenon DEF Places, Place
    <3> QED BY Zenon, <2>2, <3>1, <3>2, <3>3, <1>5, <1>6, OtherPlace
  <2> QED BY Zenon, <2>1, <2>2
<1>9. NoUseAfterFree'
  <2>1. \A n \in 1..Len(fh') : mem[fh'[n]] = "live"
    BY Zenon DEF FooInv, FooTableSafe, NoUseAfterFree
  <2>2. \A u \in Threads : fp'[u] \in {none, fp[u]}
    BY <1>6, Zenon
  <2>3. \A u \in Threads, x \in Objs : refs'[u][x] > 0 => refs[u][x] > 0 \/ mem[x] = "live"
    BY <1>3, <1>5, Zenon
  <2> QED BY Zenon, <2>1, <2>2, <2>3, SameMemory
<1>10. ChainIsTable'
  <2>1. \A u \in Threads : \/ fp'[u] = fp[u] /\ where'[u] = where[u]
                           \/ {where[u], where'[u]} \cap {"link", "free"} = {}
    BY <1>6, Zenon
  <2> QED BY Zenon, <2>1, SameChain
<1> QED BY Zenon, <1>4, <1>7, <1>8, <1>9, <1>10 DEF FooInv, FooTableSafe

\* foo_hold by a thread that has a reference.
LEMMA HoldInv == ASSUME ConstantsOK, FooInv, NEW t \in Threads, Hold(t) PROVE FooInv'
BY TakeInv, Zenon DEF Hold

\* foo_hold called from foo_find of mutex2.c, hashlock held: it counts one more reference.
LEMMA FindHold2Inv == ASSUME ConstantsOK, FooInv, NEW t \in Threads, FindHold2(t) PROVE FooInv'
<1>1. where[t] = "hold"
  BY Zenon DEF FindHold2
<1>2. fp[t] \in Objs /\ Linked(fp[t]) /\ refs[t][fp[t]] < MaxRefs /\ version # 1
  BY <1>1, SMTT(30) DEF FooInv, Places, Place, Typed
<1> QED BY Zenon, <1>1, <1>2, TakeInv DEF FindHold2

\* foo_find of mutex3.c: it finds and counts in one step, under hashlock.
LEMMA Find3Inv == ASSUME ConstantsOK, FooInv, NEW t \in Threads, Find3(t) PROVE FooInv'
<1>1. PICK n \in 1..Len(fh) :
        /\ version = 3 /\ where[t] = "idle" /\ refs[t][fh[n]] < MaxRefs
        /\ Add(fh[n], 1) /\ GotRef(t, fh[n])
        /\ UNCHANGED <<version, mem, hashlock, fh, where, fp>>
  BY Zenon DEF Find3
<1>2. fh[n] \in Objs /\ Linked(fh[n])
  BY DEF FooInv, Typed, Linked
<1> QED BY SMTT(30), <1>1, <1>2, TakeInv

\* foo_find of mutex2.c takes hashlock, which nobody has, and holds it until
\* the reference is counted.
LEMMA Find2Inv == ASSUME ConstantsOK, FooInv, NEW t \in Threads, Find2(t) PROVE FooInv'
<1>1. PICK n \in 1..Len(fh) :
        /\ version = 2 /\ where[t] = "idle" /\ hashlock = none /\ refs[t][fh[n]] < MaxRefs
        /\ fp' = [fp EXCEPT ![t] = fh[n]] /\ hashlock' = t /\ where' = [where EXCEPT ![t] = "hold"]
        /\ UNCHANGED <<version, mem, f_count, fh, refs>>
  BY Zenon DEF Find2, Goto
<1>2. Typed /\ Places /\ none \notin Objs /\ none \notin Threads
  BY DEF FooInv, ConstantsOK
<1>3. fh[n] \in Objs /\ Linked(fh[n]) /\ mem[fh[n]] = "live"
  BY <1>2, SMTT(30) DEF FooInv, FooTableSafe, NoUseAfterFree, Typed, Linked
<1>4. /\ \A u \in Threads : u # t => fp'[u] = fp[u] /\ where'[u] = where[u]
      /\ fp'[t] = fh[n] /\ where'[t] = "hold"
  BY <1>1, <1>2, Zenon DEF Typed
<1>5. Typed'
  BY <1>1, <1>2, <1>3, Zenon DEF Typed, Labels
<1>6. Places'
  <2> SUFFICES ASSUME NEW u \in Threads PROVE Place(u)'
    BY DEF Places
  <2>1. CASE u = t
    <3>1. Linked(fp[t])'
      BY <1>1, <1>4, Zenon DEF Linked
    <3> QED BY Zenon, <2>1, <3>1, <1>1, <1>2, <1>3, <1>4 DEF Place
  <2>2. CASE u # t
    <3>1. \A w \in Threads : where'[w] = "link" => where[w] = "link" /\ fp'[w] = fp[w]
      BY <1>4, Zenon
    <3>2. where[u] \notin {"hold", "recheck"}
      BY <1>1, <1>2, Zenon DEF Places, Place
    <3> QED BY Zenon, <2>2, <3>1, <3>2, <1>1, <1>4, OtherPlace
  <2> QED BY <2>1, <2>2
<1>7. NoUseAfterFree'
  <2>1. \A m \in 1..Len(fh') : mem[fh'[m]] = "live"
    BY <1>1, Zenon DEF FooInv, FooTableSafe, NoUseAfterFree
  <2>2. \A u \in Threads : fp'[u] \in {none, fp[u]} \/ mem[fp'[u]] = "live"
    BY <1>3, <1>4, Zenon
  <2> QED BY Zenon, <2>1, <2>2, <1>1, SameMemory
<1>8. CountIsReferences'
  <2>1. \A u \in Threads, x \in Objs :
          /\ Releasing(u, x)' <=> Releasing(u, x)
          /\ fp'[u] = x /\ where'[u] = "free" <=> fp[u] = x /\ where[u] = "free"
    BY <1>1, <1>4, Zenon DEF Releasing
  <2> QED BY Zenon, <2>1, <1>1, SameCount
<1>9. ChainIsTable'
  BY <1>1, <1>4, SameChain, Zenon
<1> QED BY Zenon, <1>1, <1>5, <1>6, <1>7, <1>8, <1>9 DEF FooInv, FooTableSafe

\* foo_rele: a reference the thread held becomes the one it gives up.
LEMMA ReleInv == ASSUME ConstantsOK, FooInv, NEW t \in Threads, Rele(t) PROVE FooInv'
<1>1. PICK o \in Objs :
        /\ where[t] = "idle" /\ refs[t][o] > 0 /\ refs' = [refs EXCEPT ![t][o] = @ - 1]
        /\ fp' = [fp EXCEPT ![t] = o] /\ where' = [where EXCEPT ![t] = "rele"]
        /\ UNCHANGED <<version, mem, f_count, hashlock, fh>>
  BY Zenon DEF Rele, StartRele, Goto
<1>2. Typed /\ Places /\ none \notin Objs
  BY DEF FooInv, ConstantsOK
<1>3. /\ mem[o] = "live" /\ Freeing(o) = {} /\ Count(o) = Cardinality(References(o))
  BY <1>1, Counted
<1>4. /\ \A u \in Threads : u # t => fp'[u] = fp[u] /\ where'[u] = where[u] /\ refs'[u] = refs[u]
      /\ fp'[t] = o /\ where'[t] = "rele" /\ fp[t] = none
  BY <1>1, <1>2, Zenon DEF Typed, Places, Place
<1>5. /\ refs' \in [Threads -> [Objs -> 0..MaxRefs]] /\ refs[t][o] \in 1..MaxRefs
      /\ \A u \in Threads, x \in Objs : refs'[u][x] = IF u = t /\ x = o THEN refs[t][o] - 1 ELSE refs[u][x]
      /\ \A u \in Threads, x \in Objs : refs[u][x] \in 0..MaxRefs
  BY <1>1, <1>2, SMTT(30) DEF Typed, ConstantsOK
<1>6. Typed'
  BY <1>1, <1>2, <1>5, Zenon DEF Typed, Labels
<1>7. Places'
  <2> SUFFICES ASSUME NEW u \in Threads PROVE Place(u)'
    BY DEF Places
  <2>1. CASE u = t
    BY <2>1, <1>2, <1>4, Zenon DEF Place
  <2>2. CASE u # t
    <3>1. \A w \in Threads : where'[w] = "link" => where[w] = "link" /\ fp'[w] = fp[w]
      BY <1>4, Zenon
    <3>2. where[u] = "hold" => Linked(fp[u])'
      BY <2>2, <1>1, <1>2, <1>4, SMTT(30) DEF Places, Place, Linked
    <3> QED BY Zenon, <2>2, <3>1, <3>2, <1>1, <1>4, OtherPlace
  <2> QED BY <2>1, <2>2
<1>8. NoUseAfterFree'
  <2>1. \A m \in 1..Len(fh') : mem[fh'[m]] = "live"
    BY <1>1 DEF FooInv, FooTableSafe, NoUseAfterFree
  <2>2. \A u \in Threads : fp'[u] \in {none, fp[u]} \/ mem[fp'[u]] = "live"
    BY <1>3, <1>4, Zenon
  <2>3. \A u \in Threads, x \in Objs : refs'[u][x] > 0 => refs[u][x] > 0 \/ mem[x] = "live"
    BY <1>5, SMTT(30)
  <2> QED BY Zenon, <2>1, <2>2, <2>3, <1>1, SameMemory
<1>9. CountIsReferences'
  <2> SUFFICES ASSUME NEW x \in Objs, mem'[x] = "live"
               PROVE  (IF Freeing(x) = {} THEN Count(x) = Cardinality(References(x))
                       ELSE References(x) = {} /\ \A v, u \in Freeing(x) : v = u)'
    BY DEF CountIsReferences
  <2>1. Freeing(x)' = Freeing(x) /\ Count(x)' = Count(x)
    BY <1>1, <1>4, Zenon DEF Freeing, Count
  <2>2. \A u \in Threads : Releasing(u, x)' <=> Releasing(u, x) \/ (u = t /\ x = o)
    BY <1>1, <1>4, Zenon DEF Releasing
  <2>3. CASE x # o
    <3>1. References(x)' = References(x)
      BY <2>2, <2>3, <1>5, SMTT(30) DEF References
    <3> QED BY Zenon, <3>1, <2>1, <1>1 DEF FooInv, FooTableSafe, CountIsReferences
  <2>4. CASE x = o
    <3> DEFINE old == <<t, refs[t][o]>>
               mid == References(o) \ {old}
    <3>1. ASSUME NEW u \in Threads, NEW k \in 0..MaxRefs
          PROVE  <<u, k>> \in References(o)' <=> <<u, k>> \in mid \/ <<u, k>> = <<t, 0>>
      <4>1. <<u, k>> \in References(o)' <=> IF k = 0 THEN Releasing(u, o)' ELSE k <= refs'[u][o]
        BY Zenon DEF References
      <4>2. <<u, k>> = old <=> u = t /\ k = refs[t][o]
        BY Zenon
      <4>3. CASE k = 0
        BY <4>1, <4>2, <4>3, <2>2, <2>4, <1>5, ReferenceIs, Zenon
      <4>4. CASE k # 0
        <5>1. <<u, k>> \in References(o) <=> k <= refs[u][o]
          BY <4>4, ReferenceIs, Zenon
        <5>2. <<u, k>> \in References(o)' <=> k <= IF u = t THEN refs[t][o] - 1 ELSE refs[u][o]
          <6>1. refs'[u][o] = IF u = t THEN refs[t][o] - 1 ELSE refs[u][o]
            BY <1>5, Zenon
          <6> QED BY Zenon, <6>1, <4>1, <4>4
        <5>3. k <= refs[t][o] - 1 <=> k <= refs[t][o] /\ k # refs[t][o]
          <6>1. \A a, b \in Int : a <= b - 1 <=> a <= b /\ a # b
            OBVIOUS
          <6>2. k \in Int /\ refs[t][o] \in Int
            BY <1>5, SMTT(30)
          <6> QED BY Zenon, <6>1, <6>2
        <5>4. <<u, k>> # <<t, 0>>
          BY <4>4
        <5> QED BY Zenon, <5>1, <5>2, <5>3, <5>4, <4>2
      <4> QED BY Zenon, <4>3, <4>4
    <3>2. <<t, 0>> \in Threads \X (0..MaxRefs) /\ References(o)' \subseteq Threads \X (0..MaxRefs)
      BY SMTT(30) DEF References, ConstantsOK
    <3>3. mid \subseteq Threads \X (0..MaxRefs)
      BY Zenon DEF References
    <3>4. old \in References(o) /\ <<t, 0>> \notin mid
      <4>1. <<t, 0>> \notin References(o)
        BY <1>1, ReferenceIs, SMTT(30) DEF ConstantsOK, Releasing
      <4>2. refs[t][o] \in 0..MaxRefs /\ refs[t][o] # 0 /\ refs[t][o] <= refs[t][o]
        BY <1>5, SMTT(30)
      <4>3. old \in References(o)
        BY <4>2, ReferenceIs, Zenon
      <4> QED BY Zenon, <4>1, <4>3
    <3>5. IsFiniteSet(mid) /\ Cardinality(mid) = Cardinality(References(o)) - 1
      BY <3>4, ReferencesFinite, FS_RemoveElement, Zenon
    <3> HIDE DEF mid
    <3>6. \A r \in Threads \X (0..MaxRefs) : r \in References(o)' <=> r \in mid \/ r = <<t, 0>>
      BY <3>1
    <3>7. References(o)' = mid \cup {<<t, 0>>}
      BY <3>2, <3>3, <3>6
    <3>8. Cardinality(References(o)') = Cardinality(mid) + 1 /\ Cardinality(References(o)) \in Nat
      BY <3>4, <3>5, <3>7, ReferencesFinite, FS_AddElement, FS_CardinalityType,
         Zenon
    <3> QED BY SMTT(30), <3>5, <3>8, <2>1, <2>4, <1>3
  <2> QED BY <2>3, <2>4
<1>10. ChainIsTable'
  BY <1>1, <1>4, SameChain, Zenon
<1> QED BY <1>1, <1>6, <1>7, <1>8, <1>9, <1>10 DEF FooInv, FooTableSafe

\* A reference that is not the last is subtracted.
LEMMA SubtractInv ==
    ASSUME ConstantsOK, FooInv, NEW t \in Threads, Releasing(t, fp[t]), Count(fp[t]) # 1,
           Add(fp[t], -1), Done(t), UNCHANGED <<version, mem, fh, refs>>,
           hashlock' = hashlock \/ (where[t] = "recheck" /\ hashlock' = none)
    PROVE  FooInv'
<1>1. /\ f_count' = [f_count EXCEPT ![fp[t]] = @ + (-1)]
      /\ where' = [where EXCEPT ![t] = "idle"] /\ fp' = [fp EXCEPT ![t] = none]
      /\ where[t] \in {"rele", "relehash", "recheck"}
  BY Zenon DEF Add, Done, Goto, Releasing
<1>2. Typed /\ Places /\ none \notin Objs /\ none \notin Threads
  BY Zenon DEF FooInv, ConstantsOK
<1>3. fp[t] \in Objs
  BY <1>1, <1>2, Zenon DEF Typed, Places, Place
<1>4. /\ \A u \in Threads : u # t => fp'[u] = fp[u] /\ where'[u] = where[u]
      /\ fp'[t] = none /\ where'[t] = "idle"
  BY <1>1, <1>2, Zenon DEF Typed
<1>5. Typed'
  <2>1. f_count' \in [Objs -> Int]
    BY <1>1, <1>2, <1>3, SMTT(30) DEF Typed
  <2>2. where' \in [Threads -> Labels] /\ fp' \in [Threads -> Objs \cup {none}]
    BY <1>1, <1>2, Zenon DEF Typed, Labels
  <2> QED BY Zenon, <2>1, <2>2, <1>2 DEF Typed
<1>6. Places'
  <2> SUFFICES ASSUME NEW u \in Threads PROVE Place(u)'
    BY Zenon DEF Places
  <2>1. CASE u = t
    BY <2>1, <1>4, Zenon DEF Place
  <2>2. CASE u # t
    <3>1. \A w \in Threads : where'[w] = "link" => where[w] = "link" /\ fp'[w] = fp[w]
      BY <1>4, Zenon
    <3>2. where[u] = "hold" => Linked(fp[u])'
      BY <2>2, <1>2, <1>4, SMTT(30) DEF Places, Place, Linked
    <3>3. where[u] \in {"hold", "recheck"} => hashlock' = hashlock
      BY <2>2, <1>2, Zenon DEF Places, Place
    <3> QED BY Zenon, <2>2, <3>1, <3>2, <3>3, <1>4, OtherPlace
  <2> QED BY Zenon, <2>1, <2>2
<1>7. NoUseAfterFree'
  <2>1. \A m \in 1..Len(fh') : mem[fh'[m]] = "live"
    BY Zenon DEF FooInv, FooTableSafe, NoUseAfterFree
  <2> QED BY Zenon, <2>1, <1>4, SameMemory
<1>8. CountIsReferences'
  BY <1>3, GiveUpCount, Zenon
<1>9. ChainIsTable'
  BY <1>1, <1>4, SameChain, Zenon
<1> QED BY Zenon, <1>5, <1>6, <1>7, <1>8, <1>9 DEF FooInv, FooTableSafe

\* The last reference: the object leaves the chain, and its thread is the only
\* one that knows it.  Who is about to count a reference has hashlock.
LEMMA UnlinkInv ==
    ASSUME ConstantsOK, FooInv, NEW t \in Threads, Releasing(t, fp[t]), Count(fp[t]) = 1,
           UNCHANGED f_count \/ Add(fp[t], -1),
           Goto(t, "free"), UNCHANGED <<version, mem, fp, refs>>,
           \/ version = 1 /\ UNCHANGED <<fh, hashlock>>
           \/ /\ version = 2 /\ where[t] = "recheck" /\ hashlock' = none
              /\ fh' = Unchained(fh, fp[t])
           \/ version = 3 /\ UNCHANGED hashlock /\ fh' = Unchained(fh, fp[t])
    PROVE  FooInv'
<1> DEFINE o == fp[t]
<1>1. where' = [where EXCEPT ![t] = "free"] /\ where[t] \in {"rele", "relehash", "recheck"}
  BY Zenon DEF Goto, Releasing
<1>2. Typed /\ Places /\ none \notin Objs /\ none \notin Threads
  BY Zenon DEF FooInv, ConstantsOK
<1>3. o \in Objs
  BY <1>1, <1>2, Zenon DEF Typed, Places, Place
<1>4. where'[t] = "free" /\ \A u \in Threads : u # t => where'[u] = where[u]
  BY <1>1, <1>2, Zenon DEF Typed
<1>5. mem[o] = "live" /\ Freeing(o) = {} /\ \A u \in Threads : refs[u][o] = 0
  BY <1>3, Counted, OnlyReference, Zenon
<1>6. \A u \in Threads : fp[u] = o => where[u] \notin {"link", "free"}
  BY <1>2, <1>5, SMTT(30) DEF Places, Place, Freeing
<1>7. version # 1 => /\ fh' \in Seq(Objs)
                     /\ \A i, k \in 1..Len(fh') : fh'[i] = fh'[k] => i = k
                     /\ \A x \in Objs : Linked(x)' <=> x # o /\ Linked(x)
  <2> SUFFICES ASSUME version # 1
               PROVE  /\ fh' \in Seq(Objs)
                      /\ \A i, k \in 1..Len(fh') : fh'[i] = fh'[k] => i = k
                      /\ \A x \in Objs : Linked(x)' <=> x # o /\ Linked(x)
    BY Zenon
  <2>1. Linked(o) /\ \A i, k \in 1..Len(fh) : fh[i] = fh[k] => i = k
    BY <1>3, <1>5, <1>6, Zenon DEF FooInv, FooTableSafe, ChainIsTable
  <2>2. fh' = Unchained(fh, o) /\ fh \in Seq(Objs)
    BY <1>2, Zenon DEF Typed
  <2> HIDE DEF o
  <2>3. \E i \in 1..Len(fh) : fh[i] = o
    BY <2>1, Zenon DEF Linked
  <2> DEFINE w == Unchained(fh, o)
  <2>4. /\ w \in Seq(Objs)
        /\ \A i, k \in 1..Len(w) : w[i] = w[k] => i = k
        /\ \A x \in Objs : (\E n \in 1..Len(w) : w[n] = x) <=> x # o /\ \E n \in 1..Len(fh) : fh[n] = x
    BY <2>1, <2>2, <2>3, <1>3, ReleaseFacts, Zenon
  <2>5. fh' = w
    BY <2>2, Zenon
  <2> HIDE DEF w
  <2> QED BY Zenon, <2>4, <2>5 DEF Linked
<1>8. Typed'
  <2>1. f_count' \in [Objs -> Int]
    BY <1>2, <1>3, SMTT(30) DEF Typed, Add
  <2>2. where' \in [Threads -> Labels] /\ fh' \in Seq(Objs)
    BY <1>1, <1>2, <1>7, SMTT(30) DEF Typed, Labels
  <2> QED BY Zenon, <2>1, <2>2, <1>2 DEF Typed
<1>9. Places'
  <2> SUFFICES ASSUME NEW u \in Threads PROVE Place(u)'
    BY Zenon DEF Places
  <2>1. CASE u = t
    BY <2>1, <1>2, <1>3, <1>4, Zenon DEF Place
  <2>2. CASE u # t
    <3>1. \A w \in Threads : where'[w] = "link" => where[w] = "link" /\ fp'[w] = fp[w]
      BY <1>4, Zenon
    <3>2. where[u] # "hold"
      BY <2>2, <1>2, <1>3, <1>4, SMTT(30) DEF Places, Place
    <3>3. where[u] \in {"hold", "recheck"} => hashlock' = hashlock
      BY <2>2, <1>2, Zenon DEF Places, Place
    <3> QED BY Zenon, <2>2, <3>1, <3>2, <3>3, <1>4, OtherPlace
  <2> QED BY Zenon, <2>1, <2>2
<1>10. NoUseAfterFree'
  <2>1. \A m \in 1..Len(fh') : mem[fh'[m]] = "live"
    <3>1. CASE version = 1
      BY <3>1, SMTT(30) DEF FooInv, FooTableSafe, NoUseAfterFree
    <3>2. CASE version # 1
      <4> SUFFICES ASSUME NEW m \in 1..Len(fh') PROVE mem[fh'[m]] = "live"
        BY Zenon
      <4>1. fh'[m] \in Objs /\ Linked(fh'[m])
        BY <3>2, <1>7, SMTT(30) DEF Linked
      <4> QED BY Zenon, <4>1 DEF FooInv, FooTableSafe, NoUseAfterFree, Linked
    <3> QED BY Zenon, <3>1, <3>2
  <2> QED BY Zenon, <2>1, SameMemory
<1>11. CountIsReferences'
  BY <1>3, GiveUpCount, Zenon
<1>12. ChainIsTable'
  <2> SUFFICES ASSUME version # 1, NEW x \in Objs
               PROVE  Linked(x)' <=> /\ mem'[x] = "live"
                                     /\ ~\E u \in Threads : fp'[u] = x /\ where'[u] \in {"link", "free"}
    BY <1>7, Zenon DEF ChainIsTable
  <2>1. CASE x = o
    BY <2>1, <1>3, <1>4, <1>7, Zenon
  <2>2. CASE x # o
    <3>1. \A u \in Threads : fp[u] = x => where'[u] = where[u]
      BY <2>2, <1>4, Zenon
    <3>2. Linked(x)' <=> Linked(x)
      BY <2>2, <1>7, Zenon
    <3> QED BY Zenon, <3>1, <3>2 DEF FooInv, FooTableSafe, ChainIsTable
  <2> QED BY Zenon, <2>1, <2>2
<1> QED BY SMTT(30), <1>8, <1>9, <1>10, <1>11, <1>12 DEF FooInv, FooTableSafe

\* mutex2.c lets go of the object to take the locks in order; the reference
\* stays, so that the object does.
LEMMA ReorderInv ==
    ASSUME ConstantsOK, FooInv, NEW t \in Threads, version = 2,
           \/ where[t] = "rele" /\ Goto(t, "relehash") /\ UNCHANGED hashlock
           \/ where[t] = "relehash" /\ hashlock = none /\ hashlock' = t /\ Goto(t, "recheck"),
           UNCHANGED <<version, mem, f_count, fh, fp, refs>>
    PROVE  FooInv'
<1>1. Typed /\ Places /\ none \notin Threads
  BY DEF FooInv, ConstantsOK
<1>2. /\ \A u \in Threads : u # t => where'[u] = where[u]
      /\ where[t] \in {"rele", "relehash"} /\ where'[t] \in {"relehash", "recheck"}
      /\ where'[t] = "recheck" => hashlock' = t
      /\ where' \in [Threads -> Labels] /\ hashlock' \in Threads \cup {none}
  BY <1>1, Zenon DEF Typed, Labels, Goto
<1>3. Typed'
  BY <1>1, <1>2, Zenon DEF Typed
<1>4. Places'
  <2> SUFFICES ASSUME NEW u \in Threads PROVE Place(u)'
    BY DEF Places
  <2>1. CASE u = t
    BY <2>1, <1>1, <1>2, Zenon DEF Places, Place
  <2>2. CASE u # t
    <3>1. \A w \in Threads : where'[w] = "link" => where[w] = "link" /\ fp'[w] = fp[w]
      BY <1>2, Zenon
    <3>2. where[u] = "hold" => Linked(fp[u])'
      BY <1>1, Zenon DEF Places, Place, Linked
    <3>3. where[u] \in {"hold", "recheck"} => hashlock' = hashlock
      BY <1>1, Zenon DEF Places, Place
    <3> QED BY Zenon, <2>2, <3>1, <3>2, <3>3, <1>2, OtherPlace
  <2> QED BY <2>1, <2>2
<1>5. NoUseAfterFree'
  <2>1. \A m \in 1..Len(fh') : mem[fh'[m]] = "live"
    BY Zenon DEF FooInv, FooTableSafe, NoUseAfterFree
  <2> QED BY Zenon, <2>1, SameMemory
<1>6. CountIsReferences'
  <2>1. \A u \in Threads, x \in Objs :
          /\ Releasing(u, x)' <=> Releasing(u, x)
          /\ fp'[u] = x /\ where'[u] = "free" <=> fp[u] = x /\ where[u] = "free"
    BY <1>2, Zenon DEF Releasing
  <2> QED BY Zenon, <2>1, SameCount
<1>7. ChainIsTable'
  BY <1>2, SameChain, Zenon
<1> QED BY <1>3, <1>4, <1>5, <1>6, <1>7 DEF FooInv, FooTableSafe

\* The five steps of foo_rele that look at the count.
LEMMA ReleStepsInv ==
    ASSUME ConstantsOK, FooInv, NEW t \in Threads,
           Rele1(t) \/ Rele2(t) \/ Rele2Hash(t) \/ Rele2Recheck(t) \/ Rele3(t)
    PROVE  FooInv'
<1>1. CASE Rele1(t)
  <2>1. Releasing(t, fp[t])
    BY <1>1, Zenon DEF Rele1, Releasing
  <2>2. CASE Count(fp[t]) = 1
    BY <1>1, <2>1, <2>2, UnlinkInv, Zenon DEF Rele1
  <2>3. CASE Count(fp[t]) # 1
    <3>1. Add(fp[t], -1) /\ Done(t) /\ UNCHANGED <<version, mem, fh, refs>> /\ hashlock' = hashlock
      BY <1>1, <2>3, Zenon DEF Rele1
    <3> QED BY Zenon, <3>1, <2>1, <2>3, SubtractInv
  <2> QED BY <2>2, <2>3
<1>2. CASE Rele2(t)
  <2>1. Releasing(t, fp[t])
    BY <1>2, Zenon DEF Rele2, Releasing
  <2>2. CASE Count(fp[t]) = 1
    BY <1>2, <2>2, ReorderInv, Zenon DEF Rele2
  <2>3. CASE Count(fp[t]) # 1
    <3>1. Add(fp[t], -1) /\ Done(t) /\ UNCHANGED <<version, mem, fh, refs>> /\ hashlock' = hashlock
      BY <1>2, <2>3, Zenon DEF Rele2
    <3> QED BY Zenon, <3>1, <2>1, <2>3, SubtractInv
  <2> QED BY <2>2, <2>3
<1>3. CASE Rele2Hash(t)
  <2>1. version = 2
    BY <1>3, Zenon DEF Rele2Hash, FooInv, Places, Place
  <2> QED BY Zenon, <1>3, <2>1, ReorderInv DEF Rele2Hash
<1>4. CASE Rele2Recheck(t)
  <2>1. Releasing(t, fp[t]) /\ version = 2
    BY <1>4, Zenon DEF Rele2Recheck, Releasing, FooInv, Places, Place
  <2>2. CASE Count(fp[t]) = 1
    BY <1>4, <2>1, <2>2, UnlinkInv, Zenon DEF Rele2Recheck
  <2>3. CASE Count(fp[t]) # 1
    BY <1>4, <2>1, <2>3, SubtractInv, Zenon DEF Rele2Recheck
  <2> QED BY <2>2, <2>3
<1>5. CASE Rele3(t)
  <2>1. Releasing(t, fp[t])
    BY <1>5, Zenon DEF Rele3, Releasing
  <2>2. CASE Count(fp[t]) = 1
    BY <1>5, <2>1, <2>2, UnlinkInv, Zenon DEF Rele3
  <2>3. CASE Count(fp[t]) # 1
    BY <1>5, <2>1, <2>3, SubtractInv, Zenon DEF Rele3
  <2> QED BY <2>2, <2>3
<1> QED BY <1>1, <1>2, <1>3, <1>4, <1>5

\* free: no other thread knows the object, and it is not in the chain.
LEMMA FreeInv == ASSUME ConstantsOK, FooInv, NEW t \in Threads, Free(t) PROVE FooInv'
<1> DEFINE o == fp[t]
<1>1. /\ where[t] = "free" /\ mem' = [mem EXCEPT ![o] = "free"] /\ f_count' = [f_count EXCEPT ![o] = 0]
      /\ where' = [where EXCEPT ![t] = "idle"] /\ fp' = [fp EXCEPT ![t] = none]
      /\ UNCHANGED <<version, hashlock, fh, refs>>
  BY DEF Free, Done, Goto
<1>2. Typed /\ Places /\ none \notin Objs
  BY DEF FooInv, ConstantsOK
<1>3. o \in Objs /\ mem[o] = "live" /\ t \in Freeing(o)
  BY <1>1, <1>2, SMTT(30)
     DEF Typed, Places, Place, FooInv, FooTableSafe, NoUseAfterFree, Freeing
<1>4. ~Linked(o)
  <2>1. CASE version = 1
    BY <2>1 DEF FooInv, Linked
  <2>2. CASE version # 1
    BY <2>2, <1>1, <1>3 DEF FooInv, FooTableSafe, ChainIsTable
  <2> QED BY <2>1, <2>2
<1>5. \A u \in Threads : refs[u][o] = 0 /\ ~Releasing(u, o)
  <2> SUFFICES ASSUME NEW u \in Threads PROVE refs[u][o] = 0 /\ ~Releasing(u, o)
    BY Zenon
  <2>1. ~(Releasing(u, o) \/ refs[u][o] > 0)
    BY <1>3, Counted, Zenon
  <2>2. refs[u][o] \in Nat
    BY <1>2, <1>3 DEF Typed, ConstantsOK
  <2> QED BY SMTT(30), <2>1, <2>2
<1>6. \A u \in Threads : fp[u] = o => u = t
  <2> SUFFICES ASSUME NEW u \in Threads, fp[u] = o PROVE u = t
    OBVIOUS
  <2>1. where[u] \notin {"idle", "link", "initialised", "hold", "rele", "relehash", "recheck"}
    BY <1>2, <1>3, <1>4, <1>5, SMTT(30) DEF Places, Place, Releasing
  <2>2. where[u] = "free"
    BY <2>1, <1>2 DEF Typed, Labels
  <2>3. u \in Freeing(o)
    BY <2>2, Zenon DEF Freeing
  <2> QED BY Zenon, <2>3, <1>3 DEF FooInv, FooTableSafe, CountIsReferences
<1>7. /\ \A u \in Threads : u # t => fp'[u] = fp[u] /\ where'[u] = where[u]
      /\ fp'[t] = none /\ where'[t] = "idle"
      /\ \A x \in Objs : x # o => mem'[x] = mem[x] /\ f_count'[x] = f_count[x]
      /\ mem'[o] = "free"
  BY <1>1, <1>2, <1>3, Zenon DEF Typed
<1>8. Typed'
  <2>1. f_count' \in [Objs -> Int]
    <3>1. f_count \in [Objs -> Int] /\ 0 \in Int
      BY <1>2 DEF Typed
    <3> HIDE DEF o
    <3> QED BY Zenon, <3>1, <1>1
  <2>3. mem' \in [Objs -> {"free", "live"}]
    BY <1>1, <1>2, Zenon DEF Typed
  <2>2. where' \in [Threads -> Labels] /\ fp' \in [Threads -> Objs \cup {none}]
    BY <1>1, <1>2, Zenon DEF Typed, Labels
  <2> QED BY Zenon, <2>1, <2>2, <2>3, <1>1, <1>2 DEF Typed
<1>9. Places'
  <2> SUFFICES ASSUME NEW u \in Threads PROVE Place(u)'
    BY DEF Places
  <2>1. CASE u = t
    BY <2>1, <1>7, Zenon DEF Place
  <2>2. CASE u # t
    <3>1. \A w \in Threads : where'[w] = "link" => where[w] = "link" /\ fp'[w] = fp[w]
      BY <1>7, Zenon
    <3>2. where[u] = "hold" => Linked(fp[u])'
      BY <2>2, <1>1, <1>2, <1>7, SMTT(30) DEF Places, Place, Linked
    <3> QED BY Zenon, <2>2, <3>1, <3>2, <1>1, <1>7, OtherPlace
  <2> QED BY <2>1, <2>2
<1>10. NoUseAfterFree'
  <2>1. ASSUME NEW u \in Threads, fp'[u] # none PROVE mem'[fp'[u]] = "live"
    <3>1. u # t /\ fp'[u] = fp[u] /\ fp[u] # o /\ fp[u] \in Objs
      BY <2>1, <1>2, <1>6, <1>7, SMTT(30) DEF Typed
    <3>2. mem[fp[u]] = "live"
      BY <2>1, <3>1, Zenon DEF FooInv, FooTableSafe, NoUseAfterFree
    <3> QED BY Zenon, <3>1, <3>2, <1>7
  <2>2. ASSUME NEW u \in Threads, NEW x \in Objs, refs'[u][x] > 0 PROVE mem'[x] = "live"
    <3>1. refs[u][x] > 0 /\ x # o
      BY <2>2, <1>1, <1>5, SMTT(30)
    <3>2. mem[x] = "live"
      BY <3>1, Zenon DEF FooInv, FooTableSafe, NoUseAfterFree
    <3> QED BY Zenon, <3>1, <3>2, <1>7
  <2>3. ASSUME NEW n \in 1..Len(fh') PROVE mem'[fh'[n]] = "live"
    <3>1. fh'[n] = fh[n] /\ fh[n] \in Objs /\ fh[n] # o
      BY <1>1, <1>2, <1>4, SMTT(30) DEF Typed, Linked
    <3>2. mem[fh[n]] = "live"
      BY <1>1, Zenon DEF FooInv, FooTableSafe, NoUseAfterFree
    <3> QED BY Zenon, <3>1, <3>2, <1>7
  <2> QED BY Zenon, <2>1, <2>2, <2>3 DEF NoUseAfterFree
<1>11. CountIsReferences'
  <2> SUFFICES ASSUME NEW x \in Objs, mem'[x] = "live"
               PROVE  (IF Freeing(x) = {} THEN Count(x) = Cardinality(References(x))
                       ELSE References(x) = {} /\ \A v, u \in Freeing(x) : v = u)'
    BY DEF CountIsReferences
  <2>1. x # o /\ mem[x] = "live" /\ Count(x)' = Count(x)
    BY <1>7, Zenon DEF Count
  <2>2. \A u \in Threads : (fp'[u] = x <=> fp[u] = x) /\ (fp[u] = x => where'[u] = where[u])
    BY <2>1, <1>2, <1>7, Zenon
  <2>3. Freeing(x)' = Freeing(x)
    BY <2>2, Zenon DEF Freeing
  <2>4. References(x)' = References(x)
    <3>1. \A u \in Threads : Releasing(u, x)' <=> Releasing(u, x)
      BY <2>2 DEF Releasing
    <3> QED BY Zenon, <3>1, <1>1 DEF References
  <2> QED BY Zenon, <2>1, <2>3, <2>4 DEF FooInv, FooTableSafe, CountIsReferences
<1>12. ChainIsTable'
  <2> SUFFICES ASSUME version # 1, NEW x \in Objs
               PROVE  Linked(x)' <=> /\ mem'[x] = "live"
                                     /\ ~\E u \in Threads : fp'[u] = x /\ where'[u] \in {"link", "free"}
    BY <1>1, Zenon DEF FooInv, FooTableSafe, ChainIsTable
  <2>1. Linked(x)' <=> Linked(x)
    BY <1>1 DEF Linked
  <2>2. CASE x = o
    BY <2>1, <2>2, <1>4, <1>7, Zenon
  <2>3. CASE x # o
    <3>1. \A u \in Threads : (fp'[u] = x <=> fp[u] = x) /\ (fp[u] = x => where'[u] = where[u])
      BY <2>3, <1>2, <1>7, Zenon
    <3> QED BY SMTT(30), <2>1, <2>3, <3>1, <1>7 DEF FooInv, FooTableSafe, ChainIsTable
  <2> QED BY Zenon, <2>2, <2>3
<1> QED BY <1>1, <1>8, <1>9, <1>10, <1>11, <1>12 DEF FooInv, FooTableSafe

-----------------------------------------------------------------------------
\* The empty table satisfies the invariant.
LEMMA FooInit == ASSUME ConstantsOK, FInit PROVE FooInv
<1>1. Typed
  BY DEF ConstantsOK, FInit, Typed, Labels
<1>2. Places
  BY Zenon DEF FInit, Places, Place
<1>3. NoUseAfterFree
  BY DEF FInit, NoUseAfterFree
<1>4. CountIsReferences
  BY DEF FInit, CountIsReferences
<1>5. ChainIsTable
  BY DEF FInit, ChainIsTable, Linked
<1> QED BY <1>1, <1>2, <1>3, <1>4, <1>5 DEF FooInv, FooTableSafe, FInit

\* Every step of every version keeps the invariant.
LEMMA FooStep == ASSUME ConstantsOK, FooInv, [FNext]_fvars PROVE FooInv'
<1>1. CASE UNCHANGED fvars
  <2>1. \A x : /\ Freeing(x)' = Freeing(x) /\ References(x)' = References(x)
               /\ Count(x)' = Count(x) /\ (Linked(x)' <=> Linked(x))
    BY <1>1, Zenon DEF fvars, Freeing, References, Releasing, Count, Linked
  <2>2. Typed' /\ NoUseAfterFree' /\ (version = 1 => fh = <<>>)'
    BY <1>1, Zenon DEF fvars, FooInv, FooTableSafe, Typed, NoUseAfterFree
  <2>3. Places'
    BY <1>1, Zenon DEF fvars, FooInv, Places, Place, Linked
  <2>4. CountIsReferences'
    BY <1>1, <2>1, Zenon DEF fvars, FooInv, FooTableSafe, CountIsReferences
  <2>5. ChainIsTable'
    BY <1>1, SameChain, Zenon DEF fvars
  <2> QED BY <2>2, <2>3, <2>4, <2>5 DEF FooInv, FooTableSafe
<1>2. CASE FNext
  <2>1. PICK t \in Threads :
          \/ Alloc(t) \/ AllocLink(t) \/ AllocEnd(t) \/ Hold(t) \/ Find2(t) \/ FindHold2(t)
          \/ Find3(t) \/ Rele(t) \/ Free(t)
          \/ Rele1(t) \/ Rele2(t) \/ Rele2Hash(t) \/ Rele2Recheck(t) \/ Rele3(t)
    BY <1>2, Zenon
       DEF FNext, foo_alloc1, foo_alloc2, foo_alloc3, foo_hold1, foo_hold2,
           foo_hold3, foo_find2, foo_find3, foo_rele1, foo_rele2, foo_rele3
  <2> QED BY Zenon, <2>1, AllocInv, AllocLinkInv, AllocEndInv, HoldInv, Find2Inv, FindHold2Inv,
             Find3Inv, ReleInv, FreeInv, ReleStepsInv
<1> QED BY <1>1, <1>2

\* For any finite set of threads, any objects and any number of references:
\* whatever threads do at the same time in foo_alloc, foo_hold, foo_find and
\* foo_rele of the three versions, no thread works on an object that has been
\* freed, the count is the number of references, and the chain is the table.
THEOREM ObjectsAreSafe == FSpec => []FooTableSafe
<1>1. FInit => FooInv
  BY FooAssumption, FooInit
<1>2. FooInv /\ [FNext]_fvars => FooInv'
  BY FooAssumption, FooStep
<1>3. FooInv => FooTableSafe
  BY DEF FooInv
<1> QED BY <1>1, <1>2, <1>3, PTL DEF FSpec
=============================================================================
