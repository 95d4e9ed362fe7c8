------------------------------ MODULE FooTable ------------------------------
(***************************************************************************)
(* The reference-counted objects of apue threads/mutex1.c (a lock in each  *)
(* object), mutex2.c (a hash table with its own lock, two locks to release *)
(* the last reference) and mutex3.c (the table's lock guards the counts    *)
(* too).  Every lock and unlock is a step; one hash chain is modelled.     *)
(***************************************************************************)
EXTENDS Integers, Sequences, FiniteSets

CONSTANTS Threads, Objs,  \* Objs: the memory blocks malloc can return
          Ids,            \* f_id values, all in one hash chain
          MaxRefs         \* references one thread holds to one object

VARIABLES version,  \* 1, 2, 3
          mem,      \* object -> "free", "live"
          f_count, f_id,
          f_lock,   \* object -> the thread that holds it, or none
          hashlock,
          fh,       \* the chain, from its head
          where, fp, \* thread -> where it is, and the object it works on
          refs      \* thread -> object -> references it holds

fvars == <<version, mem, f_count, f_id, f_lock, hashlock, fh, where, fp, refs>>

none == "none"

\* There are finitely many threads, and none is not one of them nor an object.
ConstantsOK == /\ IsFiniteSet(Threads) /\ MaxRefs \in Nat \ {0}
               /\ none \notin Threads /\ none \notin Objs
ASSUME FooAssumption == ConstantsOK

Count(o) == f_count[o]

FInit ==
    /\ version \in 1..3
    /\ mem = [o \in Objs |-> "free"]
    /\ f_count = [o \in Objs |-> 0] /\ f_id \in [Objs -> Ids]
    /\ f_lock = [o \in Objs |-> none] /\ hashlock = none
    /\ fh = <<>>
    /\ where = [t \in Threads |-> "idle"] /\ fp = [t \in Threads |-> none]
    /\ refs = [t \in Threads |-> [o \in Objs |-> 0]]

Goto(t, l) == where' = [where EXCEPT ![t] = l]
Done(t) == Goto(t, "idle") /\ fp' = [fp EXCEPT ![t] = none]
GotRef(t, o) == refs' = [refs EXCEPT ![t][o] = @ + 1]
Lock(t, o) == f_lock[o] = none /\ f_lock' = [f_lock EXCEPT ![o] = t]
Unlock(o) == f_lock' = [f_lock EXCEPT ![o] = none]
Add(o, n) == f_count' = [f_count EXCEPT ![o] = @ + n]

-----------------------------------------------------------------------------
(* foo_alloc                                                               *)

\* malloc, f_count = 1, f_id = id.  mutex1.c returns the object at once.
Alloc(t) ==
    \E o \in Objs, id \in Ids :
        /\ where[t] = "idle" /\ mem[o] = "free"
        /\ mem' = [mem EXCEPT ![o] = "live"]
        /\ f_count' = [f_count EXCEPT ![o] = 1] /\ f_id' = [f_id EXCEPT ![o] = id]
        /\ GotRef(t, o)
        /\ IF version = 1 THEN Done(t) ELSE Goto(t, "link") /\ fp' = [fp EXCEPT ![t] = o]
        /\ UNCHANGED <<version, f_lock, hashlock, fh>>

\* Under hashlock: insert at the head, and lock the object.
AllocLink(t) ==
    /\ where[t] = "link" /\ hashlock = none
    /\ fh' = <<fp[t]>> \o fh
    /\ Lock(t, fp[t])
    /\ Goto(t, "initialised")
    /\ UNCHANGED <<version, mem, f_count, f_id, hashlock, fp, refs>>

\* "continue initialization", then unlock f_lock.
AllocEnd(t) ==
    /\ where[t] = "initialised"
    /\ Unlock(fp[t])
    /\ Done(t)
    /\ UNCHANGED <<version, mem, f_count, f_id, hashlock, fh, refs>>

-----------------------------------------------------------------------------
(* foo_hold: only a thread that has a reference may call it.               *)

Hold(t) ==
    \E o \in Objs :
        /\ where[t] = "idle" /\ refs[t][o] > 0 /\ refs[t][o] < MaxRefs
        /\ IF version = 3 THEN hashlock = none ELSE f_lock[o] = none
        /\ Add(o, 1) /\ GotRef(t, o)
        /\ UNCHANGED <<version, mem, f_id, f_lock, hashlock, fh, where, fp>>

-----------------------------------------------------------------------------
(* foo_find (mutex2.c, mutex3.c)                                           *)

\* The first in the chain with this id.
Found(id, n) == f_id[fh[n]] = id /\ \A m \in 1..n - 1 : f_id[fh[m]] # id

\* mutex2.c searches the chain under hashlock and then waits for f_lock.
Find2(t) ==
    \E id \in Ids, n \in 1..Len(fh) :
        /\ version = 2 /\ where[t] = "idle" /\ hashlock = none /\ Found(id, n)
        /\ refs[t][fh[n]] < MaxRefs /\ fp' = [fp EXCEPT ![t] = fh[n]]
        /\ hashlock' = t
        /\ Goto(t, "hold")
        /\ UNCHANGED <<version, mem, f_count, f_id, f_lock, fh, refs>>

\* foo_hold(fp) inside foo_find, and the unlock of hashlock.
FindHold2(t) ==
    /\ where[t] = "hold" /\ f_lock[fp[t]] = none
    /\ Add(fp[t], 1) /\ GotRef(t, fp[t])
    /\ hashlock' = none
    /\ Done(t)
    /\ UNCHANGED <<version, mem, f_id, f_lock, fh>>

Find3Uncounted(t) ==
    \E id \in Ids, n \in 1..Len(fh) :
        /\ version = 3 /\ where[t] = "idle" /\ hashlock = none /\ Found(id, n)
        /\ refs[t][fh[n]] < MaxRefs /\ GotRef(t, fh[n])
        /\ UNCHANGED <<version, mem, f_count, f_id, f_lock, hashlock, fh, where, fp>>

\* mutex3.c increments f_count under hashlock.
Find3(t) ==
    \E id \in Ids, n \in 1..Len(fh) :
        /\ version = 3 /\ where[t] = "idle" /\ hashlock = none /\ Found(id, n)
        /\ refs[t][fh[n]] < MaxRefs /\ Add(fh[n], 1) /\ GotRef(t, fh[n])
        /\ UNCHANGED <<version, mem, f_id, f_lock, hashlock, fh, where, fp>>

-----------------------------------------------------------------------------
(* foo_rele: the reference is given up with the call.                      *)

StartRele(t, o) ==
    /\ where[t] = "idle" /\ refs[t][o] > 0
    /\ refs' = [refs EXCEPT ![t][o] = @ - 1]
    /\ fp' = [fp EXCEPT ![t] = o]

Rele(t) ==
    \E o \in Objs :
        /\ StartRele(t, o)
        /\ Goto(t, "rele")
        /\ UNCHANGED <<version, mem, f_count, f_id, f_lock, hashlock, fh>>

\* The chain without the object, which is in it.
Unchained(s, x) ==
    LET k == CHOOSE i \in 1..Len(s) : s[i] = x
    IN  [i \in 1..Len(s) - 1 |-> IF i < k THEN s[i] ELSE s[i + 1]]

Rele1FreesFirst(t) ==
    /\ version = 1 /\ where[t] = "rele" /\ f_lock[fp[t]] = none
    /\ Add(fp[t], -1)
    /\ IF Count(fp[t]) = 1 THEN Goto(t, "free") /\ mem' = [mem EXCEPT ![fp[t]] = "free"] /\ UNCHANGED fp
       ELSE Done(t) /\ UNCHANGED mem
    /\ UNCHANGED <<version, f_id, f_lock, hashlock, fh, refs>>

\* mutex1.c: decrement under f_lock; the last one unlocks, then frees.
Rele1(t) ==
    /\ version = 1 /\ where[t] = "rele" /\ f_lock[fp[t]] = none
    /\ Add(fp[t], -1)
    /\ IF Count(fp[t]) = 1 THEN Goto(t, "free") /\ UNCHANGED fp ELSE Done(t)
    /\ UNCHANGED <<version, mem, f_id, f_lock, hashlock, fh, refs>>

Rele2KeepsLock(t) ==
    /\ version = 2 /\ where[t] = "rele" /\ f_lock[fp[t]] = none
    /\ IF Count(fp[t]) = 1 THEN Goto(t, "relehash") /\ Lock(t, fp[t]) /\ UNCHANGED <<fp, f_count>>
       ELSE Add(fp[t], -1) /\ Done(t) /\ UNCHANGED f_lock
    /\ UNCHANGED <<version, mem, f_id, hashlock, fh, refs>>

\* mutex2.c: lock f_lock; if this is not the last reference, decrement,
\* else unlock it again to take the locks in order.
Rele2(t) ==
    /\ version = 2 /\ where[t] = "rele" /\ f_lock[fp[t]] = none
    /\ IF Count(fp[t]) = 1 THEN Goto(t, "relehash") /\ UNCHANGED <<fp, f_count>>
       ELSE Add(fp[t], -1) /\ Done(t)
    /\ UNCHANGED <<version, mem, f_id, f_lock, hashlock, fh, refs>>

Rele2Hash(t) ==
    /\ where[t] = "relehash" /\ hashlock = none
    /\ hashlock' = t
    /\ Goto(t, "recheck")
    /\ UNCHANGED <<version, mem, f_count, f_id, f_lock, fh, fp, refs>>

\* "need to recheck the condition": somebody may have found the object.
Rele2Recheck(t) ==
    /\ where[t] = "recheck" /\ f_lock[fp[t]] = none
    /\ hashlock' = none
    /\ IF Count(fp[t]) # 1 THEN Add(fp[t], -1) /\ Done(t) /\ UNCHANGED fh
       ELSE /\ fh' = Unchained(fh, fp[t])
            /\ Goto(t, "free") /\ UNCHANGED <<f_count, fp>>
    /\ UNCHANGED <<version, mem, f_id, f_lock, refs>>

Rele3KeepsLink(t) ==
    /\ version = 3 /\ where[t] = "rele" /\ hashlock = none
    /\ Add(fp[t], -1)
    /\ IF Count(fp[t]) = 1 THEN Goto(t, "free") /\ UNCHANGED fp ELSE Done(t)
    /\ UNCHANGED <<version, mem, f_id, f_lock, hashlock, fh, refs>>

\* mutex3.c: decrement and unlink under hashlock.
Rele3(t) ==
    /\ version = 3 /\ where[t] = "rele" /\ hashlock = none
    /\ Add(fp[t], -1)
    /\ IF Count(fp[t]) = 1
       THEN fh' = Unchained(fh, fp[t]) /\ Goto(t, "free") /\ UNCHANGED fp
       ELSE Done(t) /\ UNCHANGED fh
    /\ UNCHANGED <<version, mem, f_id, f_lock, hashlock, refs>>

\* pthread_mutex_destroy and free, after all locks are released.
Free(t) ==
    /\ where[t] = "free"
    /\ mem' = [mem EXCEPT ![fp[t]] = "free"]
    /\ f_count' = [f_count EXCEPT ![fp[t]] = 0]
    /\ Done(t)
    /\ UNCHANGED <<version, f_id, f_lock, hashlock, fh, refs>>

-----------------------------------------------------------------------------
foo_alloc1(t) == version = 1 /\ Alloc(t)
foo_alloc2(t) == version = 2 /\ (Alloc(t) \/ AllocLink(t) \/ AllocEnd(t))
foo_alloc3(t) == version = 3 /\ (Alloc(t) \/ AllocLink(t) \/ AllocEnd(t))
foo_hold1(t)  == version = 1 /\ Hold(t)
foo_hold2(t)  == version = 2 /\ Hold(t)
foo_hold3(t)  == version = 3 /\ Hold(t)
foo_find2(t)  == Find2(t) \/ FindHold2(t)
foo_find3(t)  == Find3(t)
foo_rele1(t)  == version = 1 /\ (Rele(t) \/ Rele1(t) \/ Free(t))
foo_rele2(t)  == version = 2 /\ (Rele(t) \/ Rele2(t) \/ Rele2Hash(t) \/ Rele2Recheck(t) \/ Free(t))
foo_rele3(t)  == version = 3 /\ (Rele(t) \/ Rele3(t) \/ Free(t))

FNext ==
    \E t \in Threads :
        \/ foo_alloc1(t) \/ foo_alloc2(t) \/ foo_alloc3(t)
        \/ foo_hold1(t) \/ foo_hold2(t) \/ foo_hold3(t)
        \/ foo_find2(t) \/ foo_find3(t)
        \/ foo_rele1(t) \/ foo_rele2(t) \/ foo_rele3(t)

Inside(t) == /\ where[t] # "idle"
             /\ \/ AllocLink(t) \/ AllocEnd(t) \/ FindHold2(t) \/ Rele1(t) \/ Rele2(t)
                \/ Rele2Hash(t) \/ Rele2Recheck(t) \/ Rele3(t) \/ Free(t)

\* A thread inside one of the functions runs on; a mutex is not withheld
\* from a waiter for ever.
FFairness == \A t \in Threads : SF_fvars(Inside(t))

FSpec == FInit /\ [][FNext]_fvars /\ FFairness

-----------------------------------------------------------------------------
\* No thread works on an object that has been freed, or holds a reference to
\* one, and nothing in the chain has been freed.
NoUseAfterFree ==
    /\ \A t \in Threads : fp[t] # none => mem[fp[t]] = "live"
    /\ \A t \in Threads, o \in Objs : refs[t][o] > 0 => mem[o] = "live"
    /\ \A n \in 1..Len(fh) : mem[fh[n]] = "live"

\* The references to an object: <<t, k>> is the k-th one that thread t holds,
\* <<t, 0>> the one that its foo_rele has not subtracted yet.
Releasing(t, o) == fp[t] = o /\ where[t] \in {"rele", "relehash", "recheck"}
References(o) ==
    {r \in Threads \X (0..MaxRefs) :
        IF r[2] = 0 THEN Releasing(r[1], o) ELSE r[2] <= refs[r[1]][o]}
Freeing(o) == {t \in Threads : fp[t] = o /\ where[t] = "free"}

\* The count is the number of references that exist.  A thread that frees its
\* object is the only one that still knows it.
CountIsReferences ==
    \A o \in Objs : mem[o] = "live" =>
        IF Freeing(o) = {} THEN Count(o) = Cardinality(References(o))
        ELSE References(o) = {} /\ \A t, u \in Freeing(o) : t = u

\* The chain has each object once, and exactly the ones that are allocated,
\* linked and not on their way out (mutex2.c, mutex3.c).
Linked(o) == \E n \in 1..Len(fh) : fh[n] = o
ChainIsTable ==
    version # 1 =>
        /\ \A i, k \in 1..Len(fh) : fh[i] = fh[k] => i = k
        /\ \A o \in Objs : Linked(o) <=>
              /\ mem[o] = "live"
              /\ ~\E t \in Threads : fp[t] = o /\ where[t] \in {"link", "free"}

\* The promises of the foo_ functions together: what one thread may still use
\* is not freed, f_count is the number of references, and the hash chain has
\* each object that can be found once.
FooTableSafe == NoUseAfterFree /\ CountIsReferences /\ ChainIsTable

\* The two locks are always taken in the same order: nobody who is inside a
\* function waits for ever.
Busy(t) == where[t] # "idle"
EveryCallReturns == \A t \in Threads : Busy(t) ~> ~Busy(t)
=============================================================================
