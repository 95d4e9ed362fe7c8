---------------------------- MODULE ThreadTools -----------------------------
(***************************************************************************)
(* Three uses of threads in apue:                                          *)
(*   barrier   threads/barrier.c, sorting in threads and merging in main   *)
(*   timeout   threadctl/timeout.c, a function called at a given time      *)
(*   getenv    threadctl/getenv1.c, getenv2.c, getenv3.c called by two     *)
(*             threads for two names at the same time                      *)
(***************************************************************************)
EXTENDS Integers, Sequences, Functions, FiniteSets

CONSTANTS NTHR, TNUM,     \* threads and numbers each of them sorts
          MaxNum,         \* random() gives 0..MaxNum
          LONG_MAX,
          SECTONSEC

VARIABLES use, pc,        \* the program, and per thread where it is
          nums, snums,    \* barrier: unsorted or sorted parts, and the result
          idx, minidx,    \* barrier: where merge is in each part, and in which
          waiters,        \* barrier: how many have called pthread_barrier_wait
          when, to,       \* timeout: the time asked for and the wait computed
          called,         \* timeout: who called the function, and holding the mutex?
          env,            \* getenv: the static buffer; timeout: the time of the call
          vals            \* getenv: what each caller holds

vars == <<use, pc, nums, snums, idx, minidx, waiters, when, to, called, env, vals>>

NUMNUM == NTHR * TNUM
Callers == {1, 2}
Sorted(s) == \A i, k \in 1..Len(s) : i < k => s[i] <= s[k]
Count(s, v) == Cardinality({i \in 1..Len(s) : s[i] = v})
Permutes(s, r) == Len(s) = Len(r) /\ \A v \in Range(s) \cup Range(r) : Count(s, v) = Count(r, v)
Times == [sec : 0..2, nsec : 0..SECTONSEC - 1]

Init ==
    /\ use \in {"barrier", "timeout", "getenv1", "getenv2", "getenv3"}
    /\ pc = [t \in 0..NTHR |-> "start"]
    /\ nums \in IF use = "barrier" THEN [0..NTHR - 1 -> [1..TNUM -> 0..MaxNum]] ELSE {<<>>}
    /\ snums = <<>> /\ waiters = 0
    /\ minidx \in IF use = "barrier" THEN 0..NTHR - 1 ELSE {0}     \* not initialised
    /\ idx = [i \in 0..NTHR - 1 |-> 1]
    /\ when \in IF use = "timeout" THEN Times ELSE {[sec |-> 0, nsec |-> 0]}
    /\ to = [sec |-> 0, nsec |-> 0]
    /\ called = <<>>
    /\ env = "" /\ vals = [c \in Callers |-> "none"]

-----------------------------------------------------------------------------
\* thr_fn sorts its part (heapsort of the C library) and waits.
thr_fn(t) ==
    /\ use = "barrier" /\ t < NTHR /\ pc[t] = "start"
    /\ \E s \in [1..TNUM -> Range(nums[t])] :
          Sorted(s) /\ Permutes(s, nums[t]) /\ nums' = [nums EXCEPT ![t] = s]
    /\ waiters' = waiters + 1
    /\ pc' = [pc EXCEPT ![t] = "waiting"]
    /\ UNCHANGED <<use, snums, when, to, called, env, vals, idx, minidx>>

MainGoesOn ==
    /\ use = "barrier" /\ pc[NTHR] = "start"
    /\ waiters' = NTHR + 1
    /\ pc' = [pc EXCEPT ![NTHR] = "waiting"]
    /\ UNCHANGED <<use, nums, snums, when, to, called, env, vals, idx, minidx>>

\* main: the barrier counts NTHR + 1, and merge follows it.
BarrierMain ==
    /\ use = "barrier" /\ pc[NTHR] = "start"
    /\ waiters' = waiters + 1
    /\ pc' = [pc EXCEPT ![NTHR] = "waiting"]
    /\ UNCHANGED <<use, nums, snums, when, to, called, env, vals, idx, minidx>>

\* One number of merge: the next of the part whose next is the smallest below
\* num, of the last minidx again when none is below LONG_MAX.
merge ==
    /\ use = "barrier" /\ pc[NTHR] = "waiting" /\ waiters = NTHR + 1
    /\ LET left  == {i \in 0..NTHR - 1 : idx[i] <= TNUM /\ nums[i][idx[i]] < LONG_MAX}
           least == {i \in left : \A k \in left : nums[i][idx[i]] <= nums[k][idx[k]]}
           m     == IF left = {} THEN minidx ELSE CHOOSE i \in least : \A k \in least : i <= k
       IN  /\ minidx' = m
           /\ idx' = [idx EXCEPT ![m] = @ + 1]
           /\ snums' = Append(snums, IF idx[m] <= TNUM THEN nums[m][idx[m]] ELSE -1)
    /\ pc' = [pc EXCEPT ![NTHR] = IF Len(snums') = NUMNUM THEN "done" ELSE @]
    /\ UNCHANGED <<use, nums, waiters, when, to, called, env, vals>>

-----------------------------------------------------------------------------
WaitWithoutBorrow(now) ==
    [sec |-> when.sec - now.sec,
     nsec |-> IF when.nsec >= now.nsec THEN when.nsec - now.nsec
              ELSE SECTONSEC - now.nsec + when.nsec]

\* The time from now to when; a second is borrowed for the nanoseconds.
WaitFrom(now) ==
    IF when.nsec >= now.nsec
    THEN [sec |-> when.sec - now.sec, nsec |-> when.nsec - now.nsec]
    ELSE [sec |-> when.sec - now.sec - 1, nsec |-> SECTONSEC - now.nsec + when.nsec]

\* timeout(&when, retry, arg), called with the recursive mutex held: a thread
\* that sleeps the difference, or the function itself at once when the time
\* has come, memory is short or no thread can be made.
timeout(now, enough, threads) ==
    /\ use = "timeout" /\ pc[0] = "start"
    /\ IF /\ \/ when.sec > now.sec
             \/ when.sec = now.sec /\ when.nsec > now.nsec
          /\ enough
       THEN /\ to' = WaitFrom(now)
            /\ IF threads THEN pc' = [pc EXCEPT ![0] = "unlock", ![1] = "sleeping"] /\ UNCHANGED called
               ELSE pc' = [pc EXCEPT ![0] = "unlock"] /\ called' = Append(called, <<"main", now>>)
       ELSE /\ pc' = [pc EXCEPT ![0] = "unlock"] /\ called' = Append(called, <<"main", now>>)
            /\ UNCHANGED to
    /\ env' = now
    /\ UNCHANGED <<use, nums, snums, waiters, when, vals, idx, minidx>>

Unlock ==
    /\ pc[0] = "unlock"
    /\ pc' = [pc EXCEPT ![0] = "done"]
    /\ UNCHANGED <<use, nums, snums, waiters, when, to, called, env, vals, idx, minidx>>

\* retry in the helper has to wait until main has unlocked the mutex.
timeout_helper ==
    /\ use = "timeout" /\ pc[1] = "sleeping" /\ pc[0] = "done"
    /\ LET n == env.nsec + to.nsec
       IN  called' = Append(called, <<"helper", [sec |-> env.sec + to.sec + n \div SECTONSEC,
                                                nsec |-> n % SECTONSEC]>>)
    /\ pc' = [pc EXCEPT ![1] = "done"]
    /\ UNCHANGED <<use, nums, snums, waiters, when, to, env, vals, idx, minidx>>

-----------------------------------------------------------------------------
Wanted(c) == IF c = 1 THEN "one" ELSE "two"
Getenv(c) == pc[c - 1] = "start" /\ pc' = [pc EXCEPT ![c - 1] = "copied"]

\* getenv1.c copies into the one static buffer and returns its address.
getenv1(c, there) ==
    /\ use = "getenv1" /\ Getenv(c)
    /\ IF there THEN env' = Wanted(c) /\ vals' = [vals EXCEPT ![c] = "static"]
       ELSE vals' = [vals EXCEPT ![c] = "NULL"] /\ UNCHANGED env
    /\ UNCHANGED <<use, nums, snums, waiters, when, to, called, idx, minidx>>

\* getenv_r copies into the caller's buffer, if there is a value and it fits.
getenv2(c, there, fits) ==
    /\ use = "getenv2" /\ Getenv(c)
    /\ vals' = [vals EXCEPT ![c] = IF ~there THEN "ENOENT"
                                   ELSE IF fits THEN Wanted(c) ELSE "ENOSPC"]
    /\ UNCHANGED <<use, nums, snums, waiters, when, to, called, env, idx, minidx>>

Getenv3Static(c, there, enough) ==
    /\ use = "getenv3" /\ Getenv(c)
    /\ vals' = [vals EXCEPT ![c] = IF enough /\ there THEN "static" ELSE "NULL"]
    /\ env' = IF enough /\ there THEN Wanted(c) ELSE env
    /\ UNCHANGED <<use, nums, snums, waiters, when, to, called, idx, minidx>>

\* getenv3.c copies into a buffer of the thread, made at its first call.
getenv3(c, there, enough) ==
    /\ use = "getenv3" /\ Getenv(c)
    /\ vals' = [vals EXCEPT ![c] = IF enough /\ there THEN Wanted(c) ELSE "NULL"]
    /\ UNCHANGED <<use, nums, snums, waiters, when, to, called, env, idx, minidx>>

\* What the caller reads when it comes to use the string it was given.
Held(c) == IF vals[c] = "static" THEN env ELSE vals[c]

Next ==
    \/ \E t \in 0..NTHR - 1 : thr_fn(t)
    \/ BarrierMain \/ merge \/ Unlock \/ timeout_helper
    \/ \E now \in Times, e, th \in BOOLEAN : timeout(now, e, th)
    \/ \E c \in Callers, r \in BOOLEAN :
          getenv1(c, r) \/ \E f \in BOOLEAN : getenv2(c, r, f) \/ getenv3(c, r, f)

Fairness == WF_vars(\E t \in 0..NTHR - 1 : thr_fn(t)) /\ WF_vars(BarrierMain \/ merge)
            /\ WF_vars(Unlock) /\ WF_vars(timeout_helper)

Spec == Init /\ [][Next]_vars /\ Fairness

-----------------------------------------------------------------------------
\* Main merges parts that are sorted, and the result is the numbers in order.
\* A number equal to LONG_MAX is never below num: merge takes the last part
\* again and may leave it (random() reaches LONG_MAX where long has 32 bits).
MergeSorts ==
    use = "barrier" /\ pc[NTHR] = "done" =>
        LET all == {v \in UNION {Range(nums[i]) : i \in 0..NTHR - 1} : TRUE}
        IN  /\ \A i \in 0..NTHR - 1 : Sorted(nums[i])
            /\ LONG_MAX \notin all =>
                  /\ Sorted(snums) /\ Len(snums) = NUMNUM
                  /\ \A v \in all : Count(snums, v) = Cardinality(
                        {<<i, k>> \in (0..NTHR - 1) \X (1..TNUM) : nums[i][k] = v})

\* Earlier(a, b): the time a is before b.
Earlier(a, b) == a.sec < b.sec \/ (a.sec = b.sec /\ a.nsec < b.nsec)

\* The function is called at most once, by the helper at the time asked for
\* and never before it; main calls it early only for want of memory or of a
\* thread, and the wait is a valid timespec also when it borrows a second.
CalledOnTime ==
    use = "timeout" =>
        /\ Len(called) <= 1
        /\ to.nsec \in 0..SECTONSEC - 1 /\ to.sec >= 0
        /\ \A i \in 1..Len(called) : called[i][1] = "helper" => called[i][2] = when

\* Whatever fails, the function is called: the recursive mutex lets main call
\* it with the lock held, and the helper gets the lock once main has left.
Asked == use = "timeout" /\ pc[0] # "start"
HasBeenCalled == called # <<>>
EventuallyCalled == Asked ~> HasBeenCalled

\* A caller of the reentrant versions keeps the value it asked for whatever
\* the other thread asks for; getenv1.c promises this to one caller only.
OwnValue ==
    \A c \in Callers :
        Held(c) \in {"none", "NULL", "ENOENT", "ENOSPC", Wanted(c)} \/
        (use = "getenv1" /\ \A d \in Callers : vals[d] = "static")
=============================================================================
