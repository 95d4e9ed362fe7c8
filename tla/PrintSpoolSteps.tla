-------------------------- MODULE PrintSpoolSteps ---------------------------
(***************************************************************************)
(* Lemmas about lists of jobs, and the proof that every step of PrintSpool *)
(* preserves the conjuncts of its inductive invariant IInv that speak of   *)
(* types, of the places of the threads, and of the files of the spool      *)
(* directory and the threads and jobs they belong to.                      *)
(***************************************************************************)
EXTENDS PrintSpool, TLAPS

-----------------------------------------------------------------------------
(* Lists of jobs. *)

\* A list add_job has appended to holds the old jobs and the new one.
LEMMA AppendMember ==
  ASSUME NEW S, NEW q \in Seq(S), NEW x \in S
  PROVE  /\ Append(q, x) \in Seq(S)
         /\ \A y : Member(Append(q, x), y) <=> Member(q, y) \/ y = x
<1>1. /\ Append(q, x) \in Seq(S) /\ Len(Append(q, x)) = Len(q) + 1
      /\ Len(q) \in Nat /\ Append(q, x)[Len(q) + 1] = x
      /\ \A k \in 1..Len(q) : Append(q, x)[k] = q[k]
  OBVIOUS
<1>2. ASSUME NEW y, Member(Append(q, x), y) PROVE Member(q, y) \/ y = x
  <2>1. PICK k \in 1..(Len(q) + 1) : Append(q, x)[k] = y
    BY <1>1, <1>2 DEF Member
  <2>2. k \in 1..Len(q) \/ k = Len(q) + 1
    BY <1>1
  <2> QED
    BY <1>1, <2>1, <2>2 DEF Member
<1>3. ASSUME NEW y, Member(q, y) \/ y = x PROVE Member(Append(q, x), y)
  BY <1>1, <1>3 DEF Member
<1> QED
  BY <1>1, <1>2, <1>3

\* A list remove_job has taken the head from holds the others.
LEMMA TailMember ==
  ASSUME NEW S, NEW q \in Seq(S), q # <<>>
  PROVE  /\ Head(q) \in S /\ Tail(q) \in Seq(S)
         /\ \A y : Member(q, y) <=> y = Head(q) \/ Member(Tail(q), y)
<1>1. /\ Head(q) \in S /\ Head(q) = q[1] /\ Tail(q) \in Seq(S)
      /\ Len(q) \in Nat \ {0} /\ Len(Tail(q)) = Len(q) - 1
      /\ \A k \in 1..Len(Tail(q)) : Tail(q)[k] = q[k + 1]
  OBVIOUS
<1>2. ASSUME NEW y, Member(q, y) PROVE y = Head(q) \/ Member(Tail(q), y)
  <2>1. PICK k \in 1..Len(q) : q[k] = y
    BY <1>2 DEF Member
  <2>2. CASE k = 1
    BY <1>1, <2>1, <2>2
  <2>3. CASE k # 1
    <3>1. k - 1 \in 1..Len(Tail(q)) /\ (k - 1) + 1 = k
      BY <1>1, <2>3
    <3> QED
      BY <1>1, <2>1, <3>1 DEF Member
  <2> QED
    BY <2>2, <2>3
<1>3. ASSUME NEW y, y = Head(q) \/ Member(Tail(q), y) PROVE Member(q, y)
  BY <1>1, <1>3 DEF Member
<1> QED
  BY <1>1, <1>2, <1>3

\* A list replace_job has put a job in front of holds the old jobs and that one.
LEMMA PrependMember ==
  ASSUME NEW S, NEW q \in Seq(S), NEW x \in S
  PROVE  /\ <<x>> \o q \in Seq(S) /\ <<x>> \o q # <<>>
         /\ \A y : Member(<<x>> \o q, y) <=> y = x \/ Member(q, y)
<1>1. /\ <<x>> \o q \in Seq(S) /\ Len(<<x>> \o q) = Len(q) + 1
      /\ Len(q) \in Nat /\ (<<x>> \o q)[1] = x
      /\ \A k \in 1..Len(q) : (<<x>> \o q)[k + 1] = q[k]
  OBVIOUS
<1>2. <<x>> \o q # <<>>
  BY <1>1
<1>3. ASSUME NEW y, Member(<<x>> \o q, y) PROVE y = x \/ Member(q, y)
  <2>1. PICK k \in 1..(Len(q) + 1) : (<<x>> \o q)[k] = y
    BY <1>1, <1>3 DEF Member
  <2>2. CASE k = 1
    BY <1>1, <2>1, <2>2
  <2>3. CASE k # 1
    <3>1. k - 1 \in 1..Len(q) /\ (k - 1) + 1 = k
      BY <1>1, <2>3
    <3>2. q[k - 1] = y
      BY <1>1, <2>1, <3>1
    <3> QED
      BY <3>1, <3>2 DEF Member
  <2> QED
    BY <2>2, <2>3
<1>4. ASSUME NEW y, y = x \/ Member(q, y) PROVE Member(<<x>> \o q, y)
  <2>1. CASE y = x
    BY <1>1, <2>1 DEF Member
  <2>2. CASE Member(q, y)
    <3>1. PICK k \in 1..Len(q) : q[k] = y
      BY <2>2 DEF Member
    <3>2. k + 1 \in 1..Len(<<x>> \o q) /\ (<<x>> \o q)[k + 1] = y
      BY <1>1, <3>1
    <3> QED
      BY <3>2, Zenon DEF Member
  <2> QED
    BY <1>4, <2>1, <2>2
<1> QED
  BY <1>1, <1>2, <1>3, <1>4

\* The empty list holds no job.
LEMMA EmptyMember == \A y : ~Member(<<>>, y)
BY DEF Member

\* What a list of jobs holds is a job.
LEMMA MemberType ==
  ASSUME NEW S, NEW q \in Seq(S), NEW y, Member(q, y)
  PROVE  y \in S
BY DEF Member

\* add_job of a job that is not in the list keeps the jobs distinct.
LEMMA DistinctAppend ==
  ASSUME NEW S, NEW q \in Seq(S), NEW x \in S, NEW R,
         Distinct(q, R), ~Member(q, x)
  PROVE  Distinct(Append(q, x), R)
<1>1. /\ Len(Append(q, x)) = Len(q) + 1 /\ Len(q) \in Nat
      /\ Append(q, x)[Len(q) + 1] = x
      /\ \A k \in 1..Len(q) : Append(q, x)[k] = q[k]
  OBVIOUS
<1>2. \A k \in 1..(Len(q) + 1) : k \in 1..Len(q) \/ k = Len(q) + 1
  BY <1>1
<1> QED
  BY <1>1, <1>2 DEF Distinct, Member

\* remove_job of the head keeps the jobs distinct, and the head is not left in
\* the list.
LEMMA DistinctTail ==
  ASSUME NEW S, NEW q \in Seq(S), q # <<>>, NEW R, Distinct(q, R)
  PROVE  /\ Distinct(Tail(q), R)
         /\ Member(Tail(q), Head(q)) => Head(q).req \in R
<1>1. /\ Head(q) = q[1] /\ Len(q) \in Nat \ {0}
      /\ Len(Tail(q)) = Len(q) - 1
      /\ \A k \in 1..Len(Tail(q)) : Tail(q)[k] = q[k + 1]
  OBVIOUS
<1>2. \A k \in 1..Len(Tail(q)) : k + 1 \in 1..Len(q) /\ k + 1 # 1
  BY <1>1
<1>3. Distinct(Tail(q), R)
  BY <1>1, <1>2 DEF Distinct
<1>4. ASSUME Member(Tail(q), Head(q)) PROVE Head(q).req \in R
  <2>1. PICK k \in 1..Len(Tail(q)) : Tail(q)[k] = Head(q)
    BY <1>4 DEF Member
  <2>2. q[k + 1] = q[1] /\ 1 \in 1..Len(q)
    BY <1>1, <2>1
  <2> QED
    BY <1>1, <1>2, <2>1, <2>2 DEF Distinct
<1> QED
  BY <1>3, <1>4

\* replace_job of a job that is not in the list keeps the jobs distinct.
LEMMA DistinctPrepend ==
  ASSUME NEW S, NEW q \in Seq(S), NEW x \in S, NEW R,
         Distinct(q, R), Member(q, x) => x.req \in R
  PROVE  Distinct(<<x>> \o q, R)
<1> DEFINE r == <<x>> \o q
<1>1. /\ Len(r) = Len(q) + 1 /\ Len(q) \in Nat /\ r[1] = x
      /\ \A k \in 1..Len(q) : r[k + 1] = q[k]
  OBVIOUS
<1> HIDE DEF r
<1>2. ASSUME NEW k \in 1..Len(r), k # 1
      PROVE  k - 1 \in 1..Len(q) /\ r[k] = q[k - 1]
  <2>1. k - 1 \in 1..Len(q) /\ (k - 1) + 1 = k
    BY <1>1, <1>2
  <2> QED
    BY <1>1, <2>1
<1>3. ASSUME NEW k \in 1..Len(r), NEW l \in 1..Len(r),
             r[k] = r[l], r[k].req \notin R
      PROVE  k = l
  <2>1. CASE k = 1 /\ l # 1
    BY <1>1, <1>2, <1>3, <2>1 DEF Member
  <2>2. CASE k # 1 /\ l = 1
    BY <1>1, <1>2, <1>3, <2>2 DEF Member
  <2>3. CASE k # 1 /\ l # 1
    <3>1. /\ k - 1 \in 1..Len(q) /\ l - 1 \in 1..Len(q)
          /\ q[k - 1] = q[l - 1] /\ q[k - 1].req \notin R
      BY <1>2, <1>3, <2>3
    <3>2. k - 1 = l - 1
      BY <3>1 DEF Distinct
    <3> QED
      BY <3>2
  <2> QED
    BY <2>1, <2>2, <2>3
<1>4. Distinct(r, R)
  BY <1>3 DEF Distinct
<1> QED
  BY <1>4 DEF r

\* Exempting more requests keeps the jobs distinct.
LEMMA DistinctMore ==
  ASSUME NEW q, NEW R, NEW R2, R \subseteq R2, Distinct(q, R)
  PROVE  Distinct(q, R2)
BY DEF Distinct

-----------------------------------------------------------------------------
(* Constants. *)

\* None is not a client.
LEMMA NoneIsNoClient == None \notin Clients
BY NoneAssumption

\* None is not a job.
LEMMA NoneIsNoJob == None \notin Jobs
BY NoneAssumption

\* 0 is not a job number.
LEMMA ZeroIsNoId == 0 \notin JobIds
BY BoundAssumption DEF JobIds

\* get_newjobno hands out a job number and leaves nextjob in range.
LEMMA NextNumber ==
  ASSUME NEW n \in 1..(MaxJobId + 1), n <= MaxJobId
  PROVE  n \in JobIds /\ n + 1 \in 1..(MaxJobId + 1)
BY BoundAssumption DEF JobIds

\* The fields of a job.
LEMMA JobFields ==
  /\ \A j \in Jobs : j.id \in JobIds /\ j.req \in Clients
  /\ \A i \in JobIds, c \in Clients :
       /\ [id |-> i, req |-> c] \in Jobs
       /\ [id |-> i, req |-> c].id = i /\ [id |-> i, req |-> c].req = c
BY DEF Jobs

\* Where the thread goes after its error response.
LEMMA ErrorGoes ==
  ASSUME cpc \in [Clients -> ThreadPlaces], NEW c \in Clients, RespondError(c)
  PROVE  /\ \/ cpc[c] = "err" /\ cpc'[c] = "done"
            \/ cpc[c] = "errD" /\ cpc'[c] = "unlinkD"
            \/ cpc[c] = "errR" /\ cpc'[c] = "unlinkR"
         /\ \A d \in Clients \ {c} : cpc'[d] = cpc[d]
  BY DEF RespondError, AfterErrorResponse

\* Taking a file away leaves the files that are some client's.
LEMMA Erased ==
  ASSUME NEW S, NEW f \in [JobIds -> S], NEW i, NEW v, v \notin Clients,
         NEW g, g = [f EXCEPT ![i] = v], NEW k \in JobIds
  PROVE  g[k] = f[k] \/ g[k] \notin Clients
  OBVIOUS

-----------------------------------------------------------------------------
(* Every step preserves the conjuncts of IInv about types and places. *)

\* Every step of the daemon, the clients and the printer preserves the types.
LEMMA TypeStep == IInv /\ [Next]_vars => TypeOK'
<1> SUFFICES ASSUME IInv, [Next]_vars PROVE TypeOK'
  OBVIOUS
<1>a. TypeOK
  BY DEF IInv
<1>b. LocalsOK /\ ThreadsOK
  BY DEF IInv
<1>1. CASE UNCHANGED vars
  BY <1>a, <1>1
     DEF vars, disk, globals, mainV, threadV, printV, clientV, history, TypeOK
<1>2. CASE Start
  BY <1>2, <1>a, BoundAssumption
     DEF Start, disk, threadV, clientV, TypeOK, PrinterPlaces, MainPlaces
<1>3. CASE ScanSignal
  BY <1>3, <1>a
     DEF ScanSignal, SignalJobwait, disk, globals, threadV, clientV, history,
         TypeOK, PrinterPlaces, MainPlaces
<1>4. CASE ScanUnlinkData
  BY <1>4, <1>a, Zenon
     DEF ScanUnlinkData, globals, threadV, printV, clientV, history, TypeOK,
         MainPlaces
<1>5. CASE ScanDone
  BY <1>5, <1>a
     DEF ScanDone, disk, globals, threadV, printV, clientV, history, TypeOK,
         MainPlaces
<1>6. CASE WaitForJob
  BY <1>6, <1>a
     DEF WaitForJob, Step, disk, globals, mainV, threadV, clientV, history,
         TypeOK, PrinterPlaces
<1>7. CASE PickJob
  <2>1. Head(queue) \in Jobs /\ Tail(queue) \in Seq(Jobs)
    BY <1>a, <1>7, TailMember DEF PickJob, TypeOK
  <2> QED
    BY <1>a, <1>7, <2>1
       DEF PickJob, Step, disk, mainV, threadV, clientV, history, TypeOK,
           PrinterPlaces
<1>8. CASE UpdateJobno
  BY <1>8, <1>a
     DEF UpdateJobno, Step, globals, mainV, threadV, clientV, history,
         TypeOK, PrinterPlaces
<1>9. CASE CheckConfig
  <2>1. reread' \in BOOLEAN
    BY <1>a, <1>9, Zenon DEF CheckConfig, TypeOK
  <2>2. printer' \in 0..MaxConf
    BY <1>a, <1>9, BoundAssumption DEF CheckConfig, TypeOK
  <2>3. ppc' \in PrinterPlaces
    BY <1>a, <1>9 DEF CheckConfig, PrinterPlaces
  <2> QED
    BY <1>a, <1>9, <2>1, <2>2, <2>3
       DEF CheckConfig, disk, mainV, threadV, clientV, history, TypeOK
<1>10. CASE ReloadConfig
  BY <1>10, <1>a
     DEF ReloadConfig, Step, disk, mainV, threadV, clientV, history, TypeOK,
         PrinterPlaces
<1>11. CASE OpenData
  <2>1. jp \in Jobs
    BY <1>a, <1>b, <1>11 DEF OpenData, Step, TypeOK, LocalsOK, HoldsJob
  <2>2. fd' \in Clients \cup {None}
    BY <1>a, <2>1, <1>11, JobFields DEF OpenData, TypeOK
  <2>3. ppc' \in PrinterPlaces
    BY <1>11 DEF OpenData, Step, PrinterPlaces
  <2> QED
    BY <1>a, <1>11, <2>2, <2>3
       DEF OpenData, disk, globals, mainV, threadV, clientV, history, TypeOK
<1>12. CASE CancelJob
  <2>1. dropped' \in SUBSET Clients
    BY <1>a, <1>b, <1>12, JobFields
       DEF CancelJob, Step, TypeOK, LocalsOK, HoldsJob
  <2>2. ppc' \in PrinterPlaces /\ jp' \in Jobs \cup {None}
    BY <1>12 DEF CancelJob, Step, PrinterPlaces
  <2> QED
    BY <1>a, <1>12, <2>1, <2>2, Zenon
       DEF CancelJob, disk, globals, mainV, threadV, clientV, TypeOK
<1>13. CASE ConnectPrinter
  BY <1>13, <1>a, Zenon
     DEF ConnectPrinter, Step, disk, globals, mainV, threadV, clientV, history,
         TypeOK, PrinterPlaces
<1>14. CASE SendDocument
  BY <1>14, <1>a, Zenon
     DEF SendDocument, Step, disk, globals, mainV, threadV, clientV, history,
         TypeOK, PrinterPlaces
<1>51. CASE StatusSpins
  BY <1>51, <1>a, Zenon
     DEF StatusSpins, disk, globals, mainV, threadV, clientV, history,
         TypeOK, PrinterPlaces
<1>15. CASE StatusOk
  <2>1. fd # None
    BY <1>b, <1>15 DEF StatusOk, Step, LocalsOK, HoldsFile
  <2>2. confirmed' \in SUBSET Clients
    BY <1>a, <2>1, <1>15 DEF StatusOk, TypeOK
  <2>3. ppc' \in PrinterPlaces
    BY <1>15 DEF StatusOk, Step, PrinterPlaces
  <2> QED
    BY <1>a, <1>15, <2>2, <2>3
       DEF StatusOk, disk, globals, mainV, threadV, clientV, TypeOK
<1>16. CASE UnlinkData
  BY <1>16, <1>a, Zenon
     DEF UnlinkData, Step, globals, mainV, threadV, clientV, history, TypeOK,
         PrinterPlaces
<1>17. CASE UnlinkReq
  BY <1>17, <1>a, Zenon
     DEF UnlinkReq, Step, globals, mainV, threadV, clientV, history, TypeOK,
         PrinterPlaces
<1>18. CASE DeferJob
  BY <1>18, <1>a
     DEF DeferJob, disk, globals, mainV, threadV, clientV, history, TypeOK,
         PrinterPlaces
<1>19. CASE ReplaceJob
  <2>1. jp \in Jobs
    BY <1>a, <1>b, <1>19 DEF ReplaceJob, Step, TypeOK, LocalsOK, HoldsJob
  <2>2. <<jp>> \o queue \in Seq(Jobs)
    BY <1>a, <2>1, PrependMember DEF TypeOK
  <2> QED
    BY <1>a, <1>19, <2>2
       DEF ReplaceJob, Step, disk, mainV, threadV, clientV, history, TypeOK,
           PrinterPlaces
<1>20. CASE Retry
  BY <1>20, <1>a
     DEF Retry, Step, disk, globals, mainV, threadV, clientV, history,
         TypeOK, PrinterPlaces
<1>21. CASE SpuriousWakeup
  BY <1>21, <1>a, Zenon
     DEF SpuriousWakeup, Step, disk, globals, mainV, threadV, clientV, history,
         TypeOK, PrinterPlaces
<1>22. CASE EditConfig
  BY <1>22, <1>a, BoundAssumption
     DEF EditConfig, globals, mainV, threadV, printV, clientV, history,
         TypeOK
<1>23. CASE Hangup
  BY <1>23, <1>a
     DEF Hangup, disk, mainV, threadV, printV, clientV, TypeOK
<1>24. CASE Crash
  <2>1. cpc' \in [Clients -> ThreadPlaces]
    BY <1>24 DEF Crash, ThreadPlaces
  <2>2. cli' \in [Clients -> ClientPlaces]
    BY <1>a, <1>24 DEF Crash, TypeOK, ClientPlaces
  <2>3. crashes' \in 0..MaxCrash
    BY <1>a, <1>24, BoundAssumption DEF Crash, TypeOK
  <2>4. nextjob' \in 1..(MaxJobId + 1) /\ printer' \in 0..MaxConf
    BY <1>24, BoundAssumption DEF Crash
  <2>5. reread' \in BOOLEAN
    BY <1>24, Zenon DEF Crash
  <2>6. queue' \in Seq(Jobs)
    BY <1>24 DEF Crash
  <2>7. /\ mpc' \in MainPlaces /\ toScan' \in SUBSET JobIds
        /\ mjob' \in JobIds \cup {0} /\ ppc' \in PrinterPlaces
        /\ jp' \in Jobs \cup {None} /\ fd' \in Clients \cup {None}
    BY <1>24 DEF Crash, MainPlaces, PrinterPlaces
  <2> QED
    BY <1>a, <1>24, <2>1, <2>2, <2>3, <2>4, <2>5, <2>6, <2>7, Zenon
       DEF Crash, disk, TypeOK
<1>25. ASSUME NEW i \in JobIds, ScanQueue(i) PROVE TypeOK'
  <2>1. [id |-> i, req |-> reqFile[i]] \in Jobs
    BY <1>25, JobFields DEF ScanQueue
  <2>2. queue' \in Seq(Jobs)
    BY <1>a, <1>25, <2>1, AppendMember DEF ScanQueue, TypeOK
  <2> QED
    BY <1>a, <1>25, <2>2, Zenon
       DEF ScanQueue, disk, threadV, printV, clientV, history, TypeOK,
           MainPlaces
<1>26. ASSUME NEW i \in JobIds, ScanDiscard(i) PROVE TypeOK'
  BY <1>26, <1>a, Zenon
     DEF ScanDiscard, globals, threadV, printV, clientV, TypeOK, MainPlaces
<1>27. ASSUME NEW i \in JobIds, ScanSkip(i) PROVE TypeOK'
  BY <1>27, <1>a, Zenon
     DEF ScanSkip, disk, globals, threadV, printV, clientV, TypeOK
<1>28. ASSUME NEW c \in Clients, Accept(c) PROVE TypeOK'
  BY <1>28, <1>a, Zenon
     DEF Accept, disk, globals, mainV, printV, clientV, history, TypeOK,
         ThreadPlaces
<1>29. ASSUME NEW c \in Clients, ReadHeader(c) PROVE TypeOK'
  BY <1>29, <1>a, BoundAssumption, SMTT(30)
     DEF ReadHeader, Goto, disk, globals, mainV, printV, history, TypeOK,
         ThreadPlaces
<1>30. ASSUME NEW c \in Clients, HeaderFails(c) PROVE TypeOK'
  BY <1>30, <1>a, Zenon
     DEF HeaderFails, Goto, disk, globals, mainV, printV, clientV, history,
         TypeOK, ThreadPlaces
<1>31. ASSUME NEW c \in Clients, GetNewJobno(c) PROVE TypeOK'
  <2>1. nextjob \in JobIds /\ nextjob' \in 1..(MaxJobId + 1)
    BY <1>a, <1>31, NextNumber DEF GetNewJobno, TypeOK
  <2>2. jobid' \in [Clients -> JobIds \cup {0}]
    BY <1>a, <1>31, <2>1 DEF GetNewJobno, TypeOK
  <2>3. cpc' \in [Clients -> ThreadPlaces]
    BY <1>a, <1>31 DEF GetNewJobno, Goto, TypeOK, ThreadPlaces
  <2> QED
    BY <1>a, <1>31, <2>1, <2>2, <2>3, Zenon
       DEF GetNewJobno, disk, mainV, printV, clientV, history, TypeOK
<1>32. ASSUME NEW c \in Clients, CreatData(c) PROVE TypeOK'
  BY <1>32, <1>a, Zenon
     DEF CreatData, CreatDataFile, Goto, globals, mainV, clientV, history,
         TypeOK, ThreadPlaces
<1>33. ASSUME NEW c \in Clients, CreatDataFails(c) PROVE TypeOK'
  BY <1>33, <1>a, Zenon
     DEF CreatDataFails, Goto, disk, globals, mainV, printV, clientV, history,
         TypeOK, ThreadPlaces
<1>34. ASSUME NEW c \in Clients, CopyChunk(c) PROVE TypeOK'
  <2>1. got[c] + 1 \in 0..(Chunks + 1)
    BY <1>a, <1>34, BoundAssumption DEF CopyChunk, TypeOK
  <2>2. got' \in [Clients -> 0..(Chunks + 1)]
    BY <1>a, <1>34, <2>1 DEF CopyChunk, TypeOK
  <2> QED
    BY <1>a, <1>34, <2>2, Zenon
       DEF CopyChunk, disk, globals, mainV, threadV, printV, history, TypeOK
<1>35. ASSUME NEW c \in Clients, CopyFails(c) PROVE TypeOK'
  BY <1>35, <1>a, Zenon
     DEF CopyFails, Goto, disk, globals, mainV, printV, clientV, history,
         TypeOK, ThreadPlaces
<1>36. ASSUME NEW c \in Clients, CopyEnds(c) PROVE TypeOK'
  BY <1>36, <1>a, Zenon
     DEF CopyEnds, Goto, disk, globals, mainV, printV, clientV, history,
         TypeOK, ThreadPlaces
<1>37. ASSUME NEW c \in Clients, CreatReq(c) PROVE TypeOK'
  BY <1>37, <1>a, Zenon
     DEF CreatReq, Goto, globals, mainV, printV, clientV, history, TypeOK,
         ThreadPlaces
<1>38. ASSUME NEW c \in Clients, CreatReqFails(c) PROVE TypeOK'
  BY <1>38, <1>a, Zenon
     DEF CreatReqFails, Goto, disk, globals, mainV, printV, clientV, history,
         TypeOK, ThreadPlaces
<1>39. ASSUME NEW c \in Clients, WriteReq(c) PROVE TypeOK'
  BY <1>39, <1>a, Zenon
     DEF WriteReq, Goto, globals, mainV, printV, clientV, history, TypeOK,
         ThreadPlaces
<1>40. ASSUME NEW c \in Clients, WriteReqFails(c) PROVE TypeOK'
  BY <1>40, <1>a, Zenon
     DEF WriteReqFails, Goto, disk, globals, mainV, printV, clientV, history,
         TypeOK, ThreadPlaces
<1>41. ASSUME NEW c \in Clients, Respond(c) PROVE TypeOK'
  BY <1>41, <1>a, Zenon
     DEF Respond, Goto, disk, globals, mainV, printV, history, TypeOK,
         ThreadPlaces
<1>42. ASSUME NEW c \in Clients, AddJob(c) PROVE TypeOK'
  <2>1. [id |-> jobid[c], req |-> c] \in Jobs
    BY <1>a, <1>b, <1>42, JobFields
       DEF AddJob, Goto, TypeOK, ThreadsOK, Numbered
  <2>2. queue' \in Seq(Jobs)
    BY <1>a, <1>42, <2>1, AppendMember DEF AddJob, TypeOK
  <2> QED
    BY <1>a, <1>42, <2>2, Zenon
       DEF AddJob, Goto, disk, mainV, printV, clientV, history, TypeOK,
           ThreadPlaces
<1>43. ASSUME NEW c \in Clients, AddJobSignal(c) PROVE TypeOK'
  BY <1>43, <1>a, Zenon
     DEF AddJobSignal, SignalJobwait, Goto, disk, globals, mainV, clientV,
         history, TypeOK, ThreadPlaces, PrinterPlaces
<1>44. ASSUME NEW c \in Clients, RespondError(c) PROVE TypeOK'
  BY <1>44, <1>a, SMTT(30)
     DEF RespondError, AfterErrorResponse, disk, globals, mainV, printV,
         history, TypeOK, ThreadPlaces
<1>45. ASSUME NEW c \in Clients, ThreadUnlinkReq(c) PROVE TypeOK'
  BY <1>45, <1>a, Zenon
     DEF ThreadUnlinkReq, Goto, globals, mainV, printV, clientV, history,
         TypeOK, ThreadPlaces
<1>46. ASSUME NEW c \in Clients, ThreadUnlinkData(c) PROVE TypeOK'
  BY <1>46, <1>a, Zenon
     DEF ThreadUnlinkData, Goto, globals, mainV, printV, clientV, history,
         TypeOK, ThreadPlaces
<1>47. ASSUME NEW c \in Clients, ClientConnect(c) PROVE TypeOK'
  BY <1>47, <1>a, Zenon
     DEF ClientConnect, disk, globals, mainV, threadV, printV, history, TypeOK,
         ClientPlaces
<1>48. ASSUME NEW c \in Clients, ClientSend(c) PROVE TypeOK'
  <2>1. sent[c] + 1 \in 0..(Chunks + 1)
    BY <1>a, <1>48, BoundAssumption DEF ClientSend, TypeOK
  <2>2. sent' \in [Clients -> 0..(Chunks + 1)]
    BY <1>a, <1>48, <2>1 DEF ClientSend, TypeOK
  <2> QED
    BY <1>a, <1>48, <2>2, Zenon
       DEF ClientSend, disk, globals, mainV, threadV, printV, history, TypeOK
<1>49. ASSUME NEW c \in Clients, ClientReceive(c) PROVE TypeOK'
  BY <1>49, <1>a, Zenon
     DEF ClientReceive, disk, globals, mainV, threadV, printV, history, TypeOK,
         ClientPlaces
<1>50. ASSUME NEW c \in Clients, ClientDie(c) PROVE TypeOK'
  BY <1>50, <1>a, Zenon
     DEF ClientDie, disk, globals, mainV, threadV, printV, history, TypeOK,
         ClientPlaces
<1> QED
  BY <1>1, <1>2, <1>3, <1>4, <1>5, <1>6, <1>7, <1>8, <1>9, <1>10, <1>11, <1>12,
     <1>13, <1>14, <1>15, <1>16, <1>17, <1>18, <1>19, <1>20, <1>21, <1>22,
     <1>23, <1>24, <1>25, <1>26, <1>27, <1>28, <1>29, <1>30, <1>31, <1>32,
     <1>33, <1>34, <1>35, <1>36, <1>37, <1>38, <1>39, <1>40, <1>41, <1>42,
     <1>43, <1>44, <1>45, <1>46, <1>47, <1>48, <1>49, <1>50, <1>51, Zenon
     DEF Next, Main, ClientThread, PrinterThread, PrintCommand

\* Every step keeps each thread's local variables in agreement with its place.
LEMMA LocalsStep == IInv /\ [Next]_vars => LocalsOK'
<1> SUFFICES ASSUME IInv, [Next]_vars PROVE LocalsOK'
  OBVIOUS
<1>t. /\ reqFile \in [JobIds -> Clients \cup {None, Partial}]
      /\ mjob \in JobIds \cup {0}
      /\ jp \in Jobs \cup {None}
      /\ fd \in Clients \cup {None}
      /\ cpc \in [Clients -> ThreadPlaces]
      /\ queue \in Seq(Jobs)
  BY DEF IInv, TypeOK
<1>i. LocalsOK
  BY DEF IInv
<1>1. CASE UNCHANGED <<jp, ppc, fd, mpc, mjob, reqFile, queue, toScan, cpc>>
  BY <1>1, <1>i DEF LocalsOK
<1>2. CASE Start
  BY <1>2, <1>t, <1>i
     DEF Start, disk, threadV, LocalsOK, HoldsJob, HoldsFile
<1>3. CASE ScanSignal
  BY <1>3, <1>t, <1>i
     DEF ScanSignal, SignalJobwait, disk, globals, threadV, LocalsOK,
         HoldsJob, HoldsFile
<1>4. CASE ScanUnlinkData
  BY <1>4, <1>t, <1>i
     DEF ScanUnlinkData, globals, threadV, printV, LocalsOK, HoldsJob,
         HoldsFile
<1>5. CASE ScanDone
  BY <1>5, <1>t, <1>i
     DEF ScanDone, disk, globals, threadV, printV, LocalsOK, HoldsJob,
         HoldsFile
<1>6. CASE WaitForJob
  BY <1>6, <1>t, <1>i
     DEF WaitForJob, Step, disk, globals, mainV, threadV, LocalsOK, HoldsJob,
         HoldsFile
<1>7. CASE PickJob
  <2>1. Head(queue) # None
    BY <1>t, <1>7, TailMember, NoneIsNoJob DEF PickJob
  <2> QED
    BY <1>i, <1>7, <2>1
       DEF PickJob, Step, disk, mainV, threadV, LocalsOK, HoldsJob, HoldsFile
<1>8. CASE UpdateJobno
  BY <1>8, <1>t, <1>i
     DEF UpdateJobno, Step, globals, mainV, threadV, LocalsOK, HoldsJob,
         HoldsFile
<1>9. CASE CheckConfig
  BY <1>9, <1>t, <1>i
     DEF CheckConfig, disk, mainV, threadV, LocalsOK, HoldsJob, HoldsFile
<1>10. CASE ReloadConfig
  BY <1>10, <1>t, <1>i
     DEF ReloadConfig, Step, disk, mainV, threadV, LocalsOK, HoldsJob,
         HoldsFile
<1>11. CASE OpenData
  BY <1>11, <1>t, <1>i, Zenon
     DEF OpenData, Step, disk, globals, mainV, threadV, LocalsOK, HoldsJob,
         HoldsFile
<1>12. CASE CancelJob
  BY <1>12, <1>t, <1>i
     DEF CancelJob, Step, disk, globals, mainV, threadV, LocalsOK, HoldsJob,
         HoldsFile
<1>13. CASE ConnectPrinter
  BY <1>13, <1>t, <1>i
     DEF ConnectPrinter, Step, disk, globals, mainV, threadV, LocalsOK,
         HoldsJob, HoldsFile
<1>14. CASE SendDocument
  BY <1>14, <1>t, <1>i
     DEF SendDocument, Step, disk, globals, mainV, threadV, LocalsOK,
         HoldsJob, HoldsFile
<1>44. CASE StatusSpins
  BY <1>44, <1>t, <1>i
     DEF StatusSpins, disk, globals, mainV, threadV, LocalsOK,
         HoldsJob, HoldsFile
<1>15. CASE StatusOk
  BY <1>15, <1>t, <1>i
     DEF StatusOk, Step, disk, globals, mainV, threadV, LocalsOK, HoldsJob,
         HoldsFile
<1>16. CASE UnlinkData
  BY <1>16, <1>t, <1>i
     DEF UnlinkData, Step, globals, mainV, threadV, LocalsOK, HoldsJob,
         HoldsFile
<1>17. CASE UnlinkReq
  BY <1>17, <1>t, <1>i
     DEF UnlinkReq, Step, globals, mainV, threadV, LocalsOK, HoldsJob,
         HoldsFile
<1>18. CASE DeferJob
  BY <1>18, <1>t, <1>i
     DEF DeferJob, disk, globals, mainV, threadV, LocalsOK, HoldsJob,
         HoldsFile
<1>19. CASE ReplaceJob
  <2>1. mpc # "off"
    BY <1>i, <1>19 DEF ReplaceJob, Step, LocalsOK
  <2> QED
    BY <1>i, <1>19, <2>1
       DEF ReplaceJob, Step, disk, mainV, threadV, LocalsOK, HoldsJob,
           HoldsFile
<1>20. CASE Retry
  BY <1>20, <1>t, <1>i
     DEF Retry, Step, disk, globals, mainV, threadV, LocalsOK, HoldsJob,
         HoldsFile
<1>21. CASE SpuriousWakeup
  BY <1>21, <1>t, <1>i
     DEF SpuriousWakeup, Step, disk, globals, mainV, threadV, LocalsOK,
         HoldsJob, HoldsFile
<1>22. CASE Crash
  BY <1>22, <1>t, <1>i, Zenon DEF Crash, disk, LocalsOK, HoldsJob, HoldsFile
<1>23. ASSUME NEW i \in JobIds, ScanQueue(i) PROVE LocalsOK'
  BY <1>23, <1>t, <1>i
     DEF ScanQueue, disk, threadV, printV, LocalsOK, HoldsJob, HoldsFile
<1>24. ASSUME NEW i \in JobIds, ScanDiscard(i) PROVE LocalsOK'
  BY <1>24, <1>t, <1>i, NoneIsNoClient, ZeroIsNoId
     DEF ScanDiscard, globals, threadV, printV, LocalsOK, HoldsJob, HoldsFile
<1>25. ASSUME NEW i \in JobIds, ScanSkip(i) PROVE LocalsOK'
  BY <1>25, <1>t, <1>i
     DEF ScanSkip, disk, globals, threadV, printV, LocalsOK, HoldsJob,
         HoldsFile
<1>26. ASSUME NEW c \in Clients, Accept(c) PROVE LocalsOK'
  BY <1>26, <1>t, <1>i
     DEF Accept, disk, globals, mainV, printV, LocalsOK, HoldsJob, HoldsFile
<1>27. ASSUME NEW c \in Clients, ReadHeader(c) PROVE LocalsOK'
  BY <1>27, <1>t, <1>i
     DEF ReadHeader, Goto, disk, globals, mainV, printV, LocalsOK, HoldsJob,
         HoldsFile
<1>28. ASSUME NEW c \in Clients, HeaderFails(c) PROVE LocalsOK'
  BY <1>28, <1>t, <1>i
     DEF HeaderFails, Goto, disk, globals, mainV, printV, LocalsOK, HoldsJob,
         HoldsFile
<1>29. ASSUME NEW c \in Clients, GetNewJobno(c) PROVE LocalsOK'
  BY <1>29, <1>t, <1>i, Zenon
     DEF GetNewJobno, Goto, disk, mainV, printV, LocalsOK, HoldsJob, HoldsFile
<1>30. ASSUME NEW c \in Clients, CreatData(c) PROVE LocalsOK'
  BY <1>30, <1>t, <1>i, NoneIsNoClient, ZeroIsNoId, Zenon
     DEF CreatData, CreatDataFile, Goto, globals, mainV, LocalsOK, HoldsJob,
         HoldsFile
<1>31. ASSUME NEW c \in Clients, CreatDataFails(c) PROVE LocalsOK'
  BY <1>31, <1>t, <1>i
     DEF CreatDataFails, Goto, disk, globals, mainV, printV, LocalsOK,
         HoldsJob, HoldsFile
<1>32. ASSUME NEW c \in Clients, CopyFails(c) PROVE LocalsOK'
  BY <1>32, <1>t, <1>i, Zenon
     DEF CopyFails, Goto, disk, globals, mainV, printV, LocalsOK, HoldsJob,
         HoldsFile
<1>33. ASSUME NEW c \in Clients, CopyEnds(c) PROVE LocalsOK'
  BY <1>33, <1>t, <1>i, Zenon
     DEF CopyEnds, Goto, disk, globals, mainV, printV, LocalsOK, HoldsJob,
         HoldsFile
<1>34. ASSUME NEW c \in Clients, CreatReq(c) PROVE LocalsOK'
  BY <1>34, <1>t, <1>i
     DEF CreatReq, Goto, globals, mainV, printV, LocalsOK, HoldsJob,
         HoldsFile
<1>35. ASSUME NEW c \in Clients, CreatReqFails(c) PROVE LocalsOK'
  BY <1>35, <1>t, <1>i
     DEF CreatReqFails, Goto, disk, globals, mainV, printV, LocalsOK,
         HoldsJob, HoldsFile
<1>36. ASSUME NEW c \in Clients, WriteReq(c) PROVE LocalsOK'
  BY <1>36, <1>t, <1>i
     DEF WriteReq, Goto, globals, mainV, printV, LocalsOK, HoldsJob,
         HoldsFile
<1>37. ASSUME NEW c \in Clients, WriteReqFails(c) PROVE LocalsOK'
  BY <1>37, <1>t, <1>i
     DEF WriteReqFails, Goto, disk, globals, mainV, printV, LocalsOK,
         HoldsJob, HoldsFile
<1>38. ASSUME NEW c \in Clients, Respond(c) PROVE LocalsOK'
  BY <1>38, <1>t, <1>i
     DEF Respond, Goto, disk, globals, mainV, printV, LocalsOK, HoldsJob,
         HoldsFile
<1>39. ASSUME NEW c \in Clients, AddJob(c) PROVE LocalsOK'
  BY <1>39, <1>t, <1>i
     DEF AddJob, Goto, disk, mainV, printV, LocalsOK, HoldsJob, HoldsFile
<1>40. ASSUME NEW c \in Clients, AddJobSignal(c) PROVE LocalsOK'
  BY <1>40, <1>t, <1>i
     DEF AddJobSignal, SignalJobwait, Goto, disk, globals, mainV, LocalsOK,
         HoldsJob, HoldsFile
<1>41. ASSUME NEW c \in Clients, RespondError(c) PROVE LocalsOK'
  BY <1>41, <1>t, <1>i, Zenon
     DEF RespondError, AfterErrorResponse, disk, globals, mainV, printV,
         LocalsOK, HoldsJob, HoldsFile
<1>42. ASSUME NEW c \in Clients, ThreadUnlinkReq(c) PROVE LocalsOK'
  BY <1>42, <1>t, <1>i
     DEF ThreadUnlinkReq, Goto, globals, mainV, printV, LocalsOK, HoldsJob,
         HoldsFile
<1>43. ASSUME NEW c \in Clients, ThreadUnlinkData(c) PROVE LocalsOK'
  BY <1>43, <1>t, <1>i
     DEF ThreadUnlinkData, Goto, globals, mainV, printV, LocalsOK, HoldsJob,
         HoldsFile
<1> QED
  BY <1>1, <1>2, <1>3, <1>4, <1>5, <1>6, <1>7, <1>8, <1>9, <1>10, <1>11,
     <1>12, <1>13, <1>14, <1>15, <1>16, <1>17, <1>18, <1>19, <1>20, <1>21,
     <1>22, <1>23, <1>24, <1>25, <1>26, <1>27, <1>28, <1>29, <1>30, <1>31,
     <1>32, <1>33, <1>34, <1>35, <1>36, <1>37, <1>38, <1>39, <1>40, <1>41,
     <1>42, <1>43, <1>44, Zenon
     DEF Next, Main, ClientThread, PrinterThread, PrintCommand, vars,
         EditConfig, globals, mainV, threadV, printV, Hangup, disk,
         CopyChunk, ClientConnect, ClientSend, ClientReceive, ClientDie

\* Every step keeps the job number and the response of a client in agreement with
\* the place of its client_thread.
LEMMA ThreadsStep == IInv /\ [Next]_vars => ThreadsOK'
<1> SUFFICES ASSUME IInv, [Next]_vars PROVE ThreadsOK'
  OBVIOUS
<1>t. /\ cpc \in [Clients -> ThreadPlaces]
      /\ jobid \in [Clients -> JobIds \cup {0}]
      /\ cli \in [Clients -> ClientPlaces]
      /\ resp \in [Clients -> {"none", "ok", "err"}]
  BY DEF IInv, TypeOK
<1>i. ThreadsOK
  BY DEF IInv
<1>1. CASE UNCHANGED <<cli, cpc, jobid, resp>>
  BY <1>1, <1>i, Zenon DEF ThreadsOK, Accepted
<1>2. CASE Crash
  BY <1>2, <1>t, <1>i
     DEF Crash, ThreadsOK, Accepted, Numbered
<1>3. ASSUME NEW c \in Clients, Accept(c) PROVE ThreadsOK'
  BY <1>3, <1>t, <1>i
     DEF Accept, clientV, ThreadsOK, Accepted, Numbered
<1>4. ASSUME NEW c \in Clients, ReadHeader(c) PROVE ThreadsOK'
  BY <1>4, <1>t, <1>i
     DEF ReadHeader, Goto, ThreadsOK, Accepted, Numbered
<1>5. ASSUME NEW c \in Clients, HeaderFails(c) PROVE ThreadsOK'
  BY <1>5, <1>t, <1>i
     DEF HeaderFails, Goto, clientV, ThreadsOK, Accepted, Numbered
<1>6. ASSUME NEW c \in Clients, GetNewJobno(c) PROVE ThreadsOK'
  <2>1. nextjob # 0
    BY <1>6, BoundAssumption DEF GetNewJobno, IInv, TypeOK
  <2> QED
    BY <1>t, <1>i, <1>6, <2>1
       DEF GetNewJobno, Goto, clientV, ThreadsOK, Accepted, Numbered
<1>7. ASSUME NEW c \in Clients, CreatData(c) PROVE ThreadsOK'
  BY <1>7, <1>t, <1>i
     DEF CreatData, CreatDataFile, Goto, clientV, ThreadsOK, Accepted,
         Numbered
<1>8. ASSUME NEW c \in Clients, CreatDataFails(c) PROVE ThreadsOK'
  BY <1>8, <1>t, <1>i
     DEF CreatDataFails, Goto, clientV, ThreadsOK, Accepted, Numbered
<1>9. ASSUME NEW c \in Clients, CopyFails(c) PROVE ThreadsOK'
  BY <1>9, <1>t, <1>i, Zenon
     DEF CopyFails, Goto, clientV, ThreadsOK, Accepted, Numbered
<1>10. ASSUME NEW c \in Clients, CopyEnds(c) PROVE ThreadsOK'
  BY <1>10, <1>t, <1>i
     DEF CopyEnds, Goto, clientV, ThreadsOK, Accepted, Numbered
<1>11. ASSUME NEW c \in Clients, CreatReq(c) PROVE ThreadsOK'
  BY <1>11, <1>t, <1>i
     DEF CreatReq, Goto, clientV, ThreadsOK, Accepted, Numbered
<1>12. ASSUME NEW c \in Clients, CreatReqFails(c) PROVE ThreadsOK'
  BY <1>12, <1>t, <1>i
     DEF CreatReqFails, Goto, clientV, ThreadsOK, Accepted, Numbered
<1>13. ASSUME NEW c \in Clients, WriteReq(c) PROVE ThreadsOK'
  BY <1>13, <1>t, <1>i
     DEF WriteReq, Goto, clientV, ThreadsOK, Accepted, Numbered
<1>14. ASSUME NEW c \in Clients, WriteReqFails(c) PROVE ThreadsOK'
  BY <1>14, <1>t, <1>i
     DEF WriteReqFails, Goto, clientV, ThreadsOK, Accepted, Numbered
<1>15. ASSUME NEW c \in Clients, Respond(c) PROVE ThreadsOK'
  BY <1>15, <1>t, <1>i
     DEF Respond, Goto, ThreadsOK, Accepted, Numbered
<1>16. ASSUME NEW c \in Clients, AddJob(c) PROVE ThreadsOK'
  BY <1>16, <1>t, <1>i
     DEF AddJob, Goto, clientV, ThreadsOK, Accepted, Numbered
<1>17. ASSUME NEW c \in Clients, AddJobSignal(c) PROVE ThreadsOK'
  BY <1>17, <1>t, <1>i
     DEF AddJobSignal, SignalJobwait, Goto, clientV, ThreadsOK, Accepted,
         Numbered
<1>18. ASSUME NEW c \in Clients, RespondError(c) PROVE ThreadsOK'
  <2>1. \/ cpc[c] = "err" /\ cpc'[c] = "done"
        \/ cpc[c] = "errD" /\ cpc'[c] = "unlinkD"
        \/ cpc[c] = "errR" /\ cpc'[c] = "unlinkR"
    BY <1>t, <1>18, ErrorGoes, Zenon
  <2>2. \A d \in Clients \ {c} : cpc'[d] = cpc[d] /\ resp'[d] = resp[d]
    BY <1>t, <1>18 DEF RespondError
  <2>3. resp'[c] = "err" /\ cli' = cli /\ jobid' = jobid
    BY <1>t, <1>18 DEF RespondError
  <2> QED
    BY <1>i, <2>1, <2>2, <2>3, Zenon DEF ThreadsOK, Accepted, Numbered
<1>19. ASSUME NEW c \in Clients, ThreadUnlinkReq(c) PROVE ThreadsOK'
  BY <1>19, <1>t, <1>i
     DEF ThreadUnlinkReq, Goto, clientV, ThreadsOK, Accepted, Numbered
<1>20. ASSUME NEW c \in Clients, ThreadUnlinkData(c) PROVE ThreadsOK'
  BY <1>20, <1>t, <1>i
     DEF ThreadUnlinkData, Goto, clientV, ThreadsOK, Accepted, Numbered
<1>21. ASSUME NEW c \in Clients, ClientConnect(c) PROVE ThreadsOK'
  BY <1>21, <1>t, <1>i
     DEF ClientConnect, threadV, ThreadsOK, Accepted, Numbered
<1>22. ASSUME NEW c \in Clients, ClientReceive(c) PROVE ThreadsOK'
  BY <1>22, <1>t, <1>i
     DEF ClientReceive, threadV, ThreadsOK, Accepted, Numbered
<1>23. ASSUME NEW c \in Clients, ClientDie(c) PROVE ThreadsOK'
  BY <1>23, <1>t, <1>i
     DEF ClientDie, threadV, ThreadsOK, Accepted, Numbered
<1> QED
  BY <1>1, <1>2, <1>3, <1>4, <1>5, <1>6, <1>7, <1>8, <1>9, <1>10, <1>11, <1>12,
     <1>13, <1>14, <1>15, <1>16, <1>17, <1>18, <1>19, <1>20, <1>21, <1>22,
     <1>23, Zenon
     DEF Next, Main, ClientThread, PrinterThread, PrintCommand, vars, Start,
         threadV, clientV, ScanSignal, ScanUnlinkData, ScanDone, WaitForJob,
         PickJob, UpdateJobno, CheckConfig, ReloadConfig, OpenData, CancelJob,
         ConnectPrinter, SendDocument, StatusSpins, StatusOk, UnlinkData,
         UnlinkReq, DeferJob, ReplaceJob, Retry, SpuriousWakeup, EditConfig,
         Hangup, ScanQueue, ScanDiscard, ScanSkip, CopyChunk, ClientSend

-----------------------------------------------------------------------------
(* The files of the spool directory. *)

\* Every step keeps each spool file with a client that has its job number.
LEMMA FilesStep == IInv /\ [Next]_vars => FilesOK'
<1> SUFFICES ASSUME IInv, [Next]_vars PROVE FilesOK'
  OBVIOUS
<1>t. /\ dataFile \in [JobIds -> Clients \cup {None}]
      /\ reqFile \in [JobIds -> Clients \cup {None, Partial}]
      /\ cpc \in [Clients -> ThreadPlaces]
      /\ jobid \in [Clients -> JobIds \cup {0}]
      /\ jp \in Jobs \cup {None}
  BY DEF IInv, TypeOK
<1>i. FilesOK /\ ThreadsOK /\ LocalsOK
  BY DEF IInv
<1>1. CASE UNCHANGED <<dataFile, reqFile, jobid>>
  BY <1>1, <1>i DEF FilesOK
<1>d. ASSUME NEW i, dataFile' = [dataFile EXCEPT ![i] = None],
             reqFile' = reqFile, jobid' = jobid
      PROVE  FilesOK'
  <2>1. \A k \in JobIds : dataFile'[k] = dataFile[k] \/ dataFile'[k] \notin Clients
    BY <1>t, <1>d, Erased, NoneIsNoClient, Zenon
  <2> QED
    BY <1>d, <1>i, <2>1, Zenon DEF FilesOK
<1>e. ASSUME NEW i, NEW v \in {None, Partial}, reqFile' = [reqFile EXCEPT ![i] = v],
             dataFile' = dataFile, jobid' = jobid
      PROVE  FilesOK'
  <2>1. v \notin Clients
    BY NoneIsNoClient, PartialAssumption
  <2>2. \A k \in JobIds : reqFile'[k] = reqFile[k] \/ reqFile'[k] \notin Clients
    BY <1>t, <1>e, <2>1, Erased, Zenon
  <2> QED
    BY <1>e, <1>i, <2>2, Zenon DEF FilesOK
<1>2. CASE ScanUnlinkData
  BY <1>2, <1>d, Zenon DEF ScanUnlinkData, threadV
<1>3. CASE UnlinkData
  BY <1>3, <1>d, Zenon DEF UnlinkData, threadV
<1>4. CASE UnlinkReq
  BY <1>4, <1>e, Zenon DEF UnlinkReq, threadV
<1>5. ASSUME NEW i \in JobIds, ScanDiscard(i) PROVE FilesOK'
  BY <1>5, <1>e, Zenon DEF ScanDiscard, threadV
<1>6. ASSUME NEW c \in Clients, GetNewJobno(c) PROVE FilesOK'
  <2>1. /\ cpc[c] = "number" /\ jobid' = [jobid EXCEPT ![c] = nextjob]
        /\ dataFile' = dataFile /\ reqFile' = reqFile
    BY <1>6, Zenon DEF GetNewJobno, Goto, disk
  <2>2. jobid[c] = 0
    BY <1>i, <2>1, Zenon DEF ThreadsOK
  <2>3. \A d \in Clients \ {c} : jobid'[d] = jobid[d]
    BY <1>t, <2>1
  <2> QED
    BY <1>i, <2>1, <2>2, <2>3, ZeroIsNoId, Zenon DEF FilesOK
<1>7. ASSUME NEW c \in Clients, CreatData(c) PROVE FilesOK'
  BY <1>7, <1>t, <1>i
     DEF CreatData, CreatDataFile, Goto, FilesOK
<1>8. ASSUME NEW c \in Clients, CreatReq(c) PROVE FilesOK'
  BY <1>8, <1>e, Zenon DEF CreatReq
<1>9. ASSUME NEW c \in Clients, WriteReq(c) PROVE FilesOK'
  BY <1>9, <1>t, <1>i
     DEF WriteReq, Goto, FilesOK
<1>10. ASSUME NEW c \in Clients, ThreadUnlinkReq(c) PROVE FilesOK'
  BY <1>10, <1>e, Zenon DEF ThreadUnlinkReq
<1>11. ASSUME NEW c \in Clients, ThreadUnlinkData(c) PROVE FilesOK'
  BY <1>11, <1>d, Zenon DEF ThreadUnlinkData
<1> QED
  BY <1>1, <1>2, <1>3, <1>4, <1>5, <1>6, <1>7, <1>8, <1>9, <1>10, <1>11, Zenon
     DEF Next, Main, ClientThread, PrinterThread, PrintCommand, vars, Start,
         disk, threadV, ScanSignal, ScanDone, WaitForJob, PickJob, UpdateJobno,
         CheckConfig, ReloadConfig, OpenData, CancelJob, ConnectPrinter,
         SendDocument, StatusSpins, StatusOk, DeferJob, ReplaceJob, Retry,
         SpuriousWakeup, EditConfig, Hangup, Crash, ScanQueue, ScanSkip,
         Accept, ReadHeader, HeaderFails, CreatDataFails, CopyChunk, CopyFails,
         CopyEnds, CreatReqFails, WriteReqFails, Respond, AddJob, AddJobSignal,
         RespondError, ClientConnect, ClientSend, ClientReceive, ClientDie

\* A job number that was given out twice stays so: numbers are never taken back.
LEMMA ReissuedStep ==
  ASSUME IInv, [Next]_vars, NEW e \in Clients, Reissued(e)
  PROVE  Reissued(e)'
<1>t. /\ cpc \in [Clients -> ThreadPlaces]
      /\ jobid \in [Clients -> JobIds \cup {0}]
  BY DEF IInv, TypeOK
<1>i. ThreadsOK
  BY DEF IInv
<1>1. CASE UNCHANGED <<jobid>>
  BY <1>1 DEF Reissued
<1>2. ASSUME NEW c \in Clients, GetNewJobno(c) PROVE Reissued(e)'
  BY <1>2, <1>t, <1>i
     DEF GetNewJobno, Goto, Reissued, ThreadsOK
<1> QED
  BY <1>1, <1>2, Zenon
     DEF Next, Main, ClientThread, PrinterThread, PrintCommand, vars, Start,
         threadV, ScanSignal, ScanUnlinkData, ScanDone, WaitForJob, PickJob,
         UpdateJobno, CheckConfig, ReloadConfig, OpenData, CancelJob,
         ConnectPrinter, SendDocument, StatusSpins, StatusOk, UnlinkData,
         UnlinkReq, DeferJob, ReplaceJob, Retry, SpuriousWakeup, EditConfig,
         Hangup, Crash, ScanQueue, ScanDiscard, ScanSkip, Accept, ReadHeader,
         HeaderFails, CreatData, CreatDataFails, CopyChunk, CopyFails,
         CopyEnds, CreatReq, CreatReqFails, WriteReq, WriteReqFails, Respond,
         AddJob, AddJobSignal, RespondError, ThreadUnlinkReq, ThreadUnlinkData,
         ClientConnect, ClientSend, ClientReceive, ClientDie

\* No other thread touches the files a client_thread is storing.
LEMMA StoringStep == IInv /\ [Next]_vars => StoringOK'
<1> DEFINE Goal(e) == /\ cpc[e] \in Storing => dataFile[jobid[e]] = e
                      /\ cpc[e] = "respond" => reqFile[jobid[e]] = e
<1> SUFFICES ASSUME IInv, [Next]_vars, NEW e \in Clients, ~Reissued(e)'
             PROVE  Goal(e)'
  BY Zenon DEF StoringOK
<1>r. ~Reissued(e)
  BY ReissuedStep
<1>t. /\ dataFile \in [JobIds -> Clients \cup {None}]
      /\ reqFile \in [JobIds -> Clients \cup {None, Partial}]
      /\ cpc \in [Clients -> ThreadPlaces]
      /\ jobid \in [Clients -> JobIds \cup {0}]
      /\ mjob \in JobIds \cup {0}
      /\ jp \in Jobs \cup {None}
  BY Zenon DEF IInv, TypeOK
<1>i. LocalsOK /\ ThreadsOK /\ JobsOK /\ StoringOK
  BY DEF IInv
<1>o. Goal(e)
  BY <1>i, <1>r DEF StoringOK
<1>1. CASE UNCHANGED <<cpc, jobid, dataFile, reqFile>>
  BY <1>1, <1>o
<1>2. CASE ScanUnlinkData
  BY <1>2, <1>t, <1>o, <1>i
     DEF ScanUnlinkData, threadV, Storing, LocalsOK
<1>j. ASSUME ppc \in HoldsJob, cpc[e] \in Storing
      PROVE  jobid[e] # jp.id /\ jobid[e] \in JobIds /\ jp.id \in JobIds
  <2>1. jp \in Jobs
    BY <1>t, <1>i, <1>j, Zenon DEF LocalsOK
  <2>2. jobid[jp.req] = jp.id /\ cpc[jp.req] \in {"signal", "done"}
    BY <1>i, <2>1, Zenon DEF JobsOK, JobOK
  <2>3. jp.id \in JobIds /\ jp.req \in Clients
    BY <2>1, JobFields, Zenon
  <2>4. jobid[e] # 0
    BY <1>i, <1>j, Zenon DEF ThreadsOK, Numbered, Storing
  <2>5. jp.req # e
    BY <1>j, <2>2, Zenon DEF Storing
  <2> QED
    BY <1>t, <1>r, <2>2, <2>3, <2>4, <2>5, Zenon DEF Reissued
<1>3. CASE UnlinkData
  <2>1. /\ ppc \in HoldsJob /\ dataFile' = [dataFile EXCEPT ![jp.id] = None]
        /\ UNCHANGED <<reqFile, cpc, jobid>>
    BY <1>3, Zenon DEF UnlinkData, Step, threadV, HoldsJob
  <2>2. cpc[e] \in Storing => dataFile'[jobid[e]] = dataFile[jobid[e]]
    BY <1>t, <1>j, <2>1
  <2> QED
    BY <1>o, <2>1, <2>2, Zenon
<1>4. CASE UnlinkReq
  <2>1. /\ ppc \in HoldsJob /\ reqFile' = [reqFile EXCEPT ![jp.id] = None]
        /\ UNCHANGED <<dataFile, cpc, jobid>>
    BY <1>4, Zenon DEF UnlinkReq, Step, threadV, HoldsJob
  <2>2. cpc[e] \in Storing => reqFile'[jobid[e]] = reqFile[jobid[e]]
    BY <1>t, <1>j, <2>1
  <2> QED
    BY <1>o, <2>1, <2>2, Zenon DEF Storing
<1>5. CASE Crash
  BY <1>5, <1>t, <1>o, Zenon DEF Crash, disk, Storing
<1>6. ASSUME NEW i \in JobIds, ScanDiscard(i) PROVE Goal(e)'
  BY <1>6, <1>t, <1>o, <1>i
     DEF ScanDiscard, threadV, Storing, LocalsOK
<1>7. ASSUME NEW c \in Clients, Accept(c) PROVE Goal(e)'
  BY <1>7, <1>t, <1>o
     DEF Accept, disk, Storing
<1>8. ASSUME NEW c \in Clients, ReadHeader(c) PROVE Goal(e)'
  BY <1>8, <1>t, <1>o
     DEF ReadHeader, Goto, disk, Storing
<1>9. ASSUME NEW c \in Clients, HeaderFails(c) PROVE Goal(e)'
  BY <1>9, <1>t, <1>o
     DEF HeaderFails, Goto, disk, Storing
<1>10. ASSUME NEW c \in Clients, GetNewJobno(c) PROVE Goal(e)'
  BY <1>10, <1>t, <1>o
     DEF GetNewJobno, Goto, disk, Storing
<1>11. ASSUME NEW c \in Clients, CreatData(c) PROVE Goal(e)'
  BY <1>11, <1>t, <1>o, <1>i, <1>r, Zenon
     DEF CreatData, CreatDataFile, Goto, Storing, ThreadsOK, Numbered, Reissued
<1>12. ASSUME NEW c \in Clients, CreatDataFails(c) PROVE Goal(e)'
  BY <1>12, <1>t, <1>o
     DEF CreatDataFails, Goto, disk, Storing
<1>13. ASSUME NEW c \in Clients, CopyFails(c) PROVE Goal(e)'
  BY <1>13, <1>t, <1>o, Zenon DEF CopyFails, Goto, disk, Storing
<1>14. ASSUME NEW c \in Clients, CopyEnds(c) PROVE Goal(e)'
  BY <1>14, <1>t, <1>o, Zenon DEF CopyEnds, Goto, disk, Storing
<1>15. ASSUME NEW c \in Clients, CreatReq(c) PROVE Goal(e)'
  BY <1>15, <1>t, <1>o, <1>i, <1>r, Zenon
     DEF CreatReq, Goto, Storing, ThreadsOK, Numbered, Reissued
<1>16. ASSUME NEW c \in Clients, CreatReqFails(c) PROVE Goal(e)'
  BY <1>16, <1>t, <1>o
     DEF CreatReqFails, Goto, disk, Storing
<1>17. ASSUME NEW c \in Clients, WriteReq(c) PROVE Goal(e)'
  BY <1>17, <1>t, <1>o, <1>i, <1>r
     DEF WriteReq, Goto, Storing, ThreadsOK, Numbered, Reissued
<1>18. ASSUME NEW c \in Clients, WriteReqFails(c) PROVE Goal(e)'
  BY <1>18, <1>t, <1>o
     DEF WriteReqFails, Goto, disk, Storing
<1>19. ASSUME NEW c \in Clients, Respond(c) PROVE Goal(e)'
  BY <1>19, <1>t, <1>o
     DEF Respond, Goto, disk, Storing
<1>20. ASSUME NEW c \in Clients, AddJob(c) PROVE Goal(e)'
  BY <1>20, <1>t, <1>o
     DEF AddJob, Goto, disk, Storing
<1>21. ASSUME NEW c \in Clients, AddJobSignal(c) PROVE Goal(e)'
  BY <1>21, <1>t, <1>o
     DEF AddJobSignal, SignalJobwait, Goto, disk, Storing
<1>22. ASSUME NEW c \in Clients, RespondError(c) PROVE Goal(e)'
  <2>1. UNCHANGED <<dataFile, reqFile, jobid>>
    BY <1>22, Zenon DEF RespondError, disk
  <2>2. cpc'[e] = cpc[e] \/ cpc'[e] \in {"done", "unlinkD", "unlinkR"}
    BY <1>22, <1>t, ErrorGoes, Zenon
  <2> QED
    BY <1>o, <2>1, <2>2, Zenon DEF Storing
<1>23. ASSUME NEW c \in Clients, ThreadUnlinkReq(c) PROVE Goal(e)'
  BY <1>23, <1>t, <1>o, <1>i, <1>r, Zenon
     DEF ThreadUnlinkReq, Goto, Storing, ThreadsOK, Numbered, Reissued
<1>24. ASSUME NEW c \in Clients, ThreadUnlinkData(c) PROVE Goal(e)'
  BY <1>24, <1>t, <1>o, <1>i, <1>r, Zenon
     DEF ThreadUnlinkData, Goto, Storing, ThreadsOK, Numbered, Reissued
<1> QED
  BY <1>1, <1>2, <1>3, <1>4, <1>5, <1>6, <1>7, <1>8, <1>9, <1>10, <1>11, <1>12,
     <1>13, <1>14, <1>15, <1>16, <1>17, <1>18, <1>19, <1>20, <1>21, <1>22,
     <1>23, <1>24, Zenon
     DEF Next, Main, ClientThread, PrinterThread, PrintCommand, vars, Start,
         disk, threadV, ScanSignal, ScanDone, WaitForJob, PickJob, UpdateJobno,
         CheckConfig, ReloadConfig, OpenData, CancelJob, ConnectPrinter,
         SendDocument, StatusSpins, StatusOk, DeferJob, ReplaceJob, Retry,
         SpuriousWakeup, EditConfig, Hangup, ScanQueue, ScanSkip, CopyChunk,
         ClientConnect, ClientSend, ClientReceive, ClientDie

\* A step of a running daemon keeps what JobOK says of a job.
LEMMA JobStep ==
  ASSUME IInv, [Next]_vars, mpc # "off", NEW j \in Jobs, JobOK(j)
  PROVE  JobOK(j)'
<1>t. /\ cpc \in [Clients -> ThreadPlaces]
      /\ jobid \in [Clients -> JobIds \cup {0}]
  BY DEF IInv, TypeOK
<1>i. LocalsOK /\ ThreadsOK
  BY DEF IInv
<1>1. CASE UNCHANGED <<cpc, jobid, toScan, mpc>>
  BY <1>1 DEF JobOK
<1>2. CASE Start
  BY <1>2, <1>t, <1>i
     DEF Start, threadV, JobOK
<1>3. CASE ScanSignal
  BY <1>3, <1>t, <1>i
     DEF ScanSignal, SignalJobwait, threadV, JobOK
<1>4. CASE ScanUnlinkData
  BY <1>4, <1>t, <1>i
     DEF ScanUnlinkData, threadV, JobOK
<1>5. CASE ScanDone
  BY <1>5, <1>t, <1>i
     DEF ScanDone, threadV, JobOK
<1>6. CASE Crash
  BY <1>6, <1>t, <1>i, JobFields, Zenon DEF Crash, JobOK, ThreadsOK
<1>7. ASSUME NEW i \in JobIds, ScanQueue(i) PROVE JobOK(j)'
  BY <1>7, <1>t, <1>i, Zenon DEF ScanQueue, threadV, JobOK
<1>8. ASSUME NEW i \in JobIds, ScanDiscard(i) PROVE JobOK(j)'
  BY <1>8, <1>t, <1>i
     DEF ScanDiscard, threadV, JobOK
<1>9. ASSUME NEW i \in JobIds, ScanSkip(i) PROVE JobOK(j)'
  BY <1>9, <1>t, <1>i, Zenon DEF ScanSkip, threadV, JobOK
<1>10. ASSUME NEW c \in Clients, Accept(c) PROVE JobOK(j)'
  BY <1>10, <1>t, <1>i, SMTT(30) DEF Accept, mainV, JobOK
<1>11. ASSUME NEW c \in Clients, ReadHeader(c) PROVE JobOK(j)'
  BY <1>11, <1>t, <1>i, SMTT(30) DEF ReadHeader, Goto, mainV, JobOK
<1>12. ASSUME NEW c \in Clients, HeaderFails(c) PROVE JobOK(j)'
  BY <1>12, <1>t, <1>i, SMTT(30) DEF HeaderFails, Goto, mainV, JobOK
<1>13. ASSUME NEW c \in Clients, GetNewJobno(c) PROVE JobOK(j)'
  BY <1>13, <1>t, <1>i
     DEF GetNewJobno, Goto, mainV, JobOK
<1>14. ASSUME NEW c \in Clients, CreatData(c) PROVE JobOK(j)'
  BY <1>14, <1>t, <1>i
     DEF CreatData, CreatDataFile, Goto, mainV, JobOK
<1>15. ASSUME NEW c \in Clients, CreatDataFails(c) PROVE JobOK(j)'
  BY <1>15, <1>t, <1>i
     DEF CreatDataFails, Goto, mainV, JobOK
<1>16. ASSUME NEW c \in Clients, CopyFails(c) PROVE JobOK(j)'
  BY <1>16, <1>t, <1>i
     DEF CopyFails, Goto, mainV, JobOK
<1>17. ASSUME NEW c \in Clients, CopyEnds(c) PROVE JobOK(j)'
  BY <1>17, <1>t, <1>i
     DEF CopyEnds, Goto, mainV, JobOK
<1>18. ASSUME NEW c \in Clients, CreatReq(c) PROVE JobOK(j)'
  BY <1>18, <1>t, <1>i
     DEF CreatReq, Goto, mainV, JobOK
<1>19. ASSUME NEW c \in Clients, CreatReqFails(c) PROVE JobOK(j)'
  BY <1>19, <1>t, <1>i
     DEF CreatReqFails, Goto, mainV, JobOK
<1>20. ASSUME NEW c \in Clients, WriteReq(c) PROVE JobOK(j)'
  BY <1>20, <1>t, <1>i
     DEF WriteReq, Goto, mainV, JobOK
<1>21. ASSUME NEW c \in Clients, WriteReqFails(c) PROVE JobOK(j)'
  BY <1>21, <1>t, <1>i
     DEF WriteReqFails, Goto, mainV, JobOK
<1>22. ASSUME NEW c \in Clients, Respond(c) PROVE JobOK(j)'
  BY <1>22, <1>t, <1>i
     DEF Respond, Goto, mainV, JobOK
<1>23. ASSUME NEW c \in Clients, AddJob(c) PROVE JobOK(j)'
  BY <1>23, <1>t, <1>i
     DEF AddJob, Goto, mainV, JobOK
<1>24. ASSUME NEW c \in Clients, AddJobSignal(c) PROVE JobOK(j)'
  BY <1>24, <1>t, <1>i
     DEF AddJobSignal, SignalJobwait, Goto, mainV, JobOK
<1>25. ASSUME NEW c \in Clients, RespondError(c) PROVE JobOK(j)'
  BY <1>25, <1>t, <1>i, SMTT(30)
     DEF RespondError, AfterErrorResponse, mainV, JobOK
<1>26. ASSUME NEW c \in Clients, ThreadUnlinkReq(c) PROVE JobOK(j)'
  BY <1>26, <1>t, <1>i
     DEF ThreadUnlinkReq, Goto, mainV, JobOK
<1>27. ASSUME NEW c \in Clients, ThreadUnlinkData(c) PROVE JobOK(j)'
  BY <1>27, <1>t, <1>i
     DEF ThreadUnlinkData, Goto, mainV, JobOK
<1> QED
  BY <1>1, <1>2, <1>3, <1>4, <1>5, <1>6, <1>7, <1>8, <1>9, <1>10, <1>11, <1>12,
     <1>13, <1>14, <1>15, <1>16, <1>17, <1>18, <1>19, <1>20, <1>21, <1>22,
     <1>23, <1>24, <1>25, <1>26, <1>27, Zenon
     DEF Next, Main, ClientThread, PrinterThread, PrintCommand, vars,
         WaitForJob, mainV, threadV, PickJob, UpdateJobno, CheckConfig,
         ReloadConfig, OpenData, CancelJob, ConnectPrinter, SendDocument,
         StatusSpins, StatusOk, UnlinkData, UnlinkReq, DeferJob, ReplaceJob,
         Retry, SpuriousWakeup, EditConfig, Hangup, CopyChunk, ClientConnect,
         ClientSend, ClientReceive, ClientDie

\* add_job, replace_job, remove_job and build_qonstart keep JobsOK.
LEMMA JobsStep == IInv /\ [Next]_vars => JobsOK'
<1> DEFINE Fine(j) == /\ jobid'[j.req] = j.id
                      /\ cpc'[j.req] \in {"signal", "done"}
                      /\ j.id \notin toScan'
<1> DEFINE Goal == \A j \in Jobs : j = jp' \/ Member(queue', j) => Fine(j)
<1> SUFFICES ASSUME IInv, [Next]_vars PROVE Goal
  BY DEF JobsOK, JobOK
<1>a. mpc # "off" => \A j \in Jobs : JobOK(j) => Fine(j)
  BY JobStep DEF JobOK
<1> HIDE DEF Fine
<1>t. /\ queue \in Seq(Jobs)
      /\ toScan \in SUBSET JobIds
      /\ cpc \in [Clients -> ThreadPlaces]
      /\ jobid \in [Clients -> JobIds \cup {0}]
      /\ jp \in Jobs \cup {None}
  BY DEF IInv, TypeOK
<1>i. LocalsOK /\ ThreadsOK /\ FilesOK /\ JobsOK
  BY DEF IInv
<1>e. mpc = "off" => jp = None /\ queue = <<>>
  BY <1>i DEF LocalsOK, HoldsJob
<1>1. CASE UNCHANGED <<queue, jp>>
  BY <1>1, <1>i, <1>a, <1>e, NoneIsNoJob, EmptyMember DEF JobsOK
<1>2. CASE PickJob
  <2>1. mpc # "off" /\ queue # <<>>
    BY <1>i, <1>2 DEF PickJob, Step, LocalsOK
  <2>2. \A j : j = jp' \/ Member(queue', j) => Member(queue, j)
    BY <1>t, <1>2, <2>1, TailMember DEF PickJob
  <2> QED
    BY <1>i, <1>a, <2>1, <2>2 DEF JobsOK
<1>3. CASE CancelJob
  BY <1>i, <1>a, <1>3, NoneIsNoJob
     DEF CancelJob, Step, globals, LocalsOK, JobsOK
<1>4. CASE UnlinkReq
  BY <1>i, <1>a, <1>4, NoneIsNoJob, Zenon
     DEF UnlinkReq, Step, globals, LocalsOK, JobsOK
<1>5. CASE ReplaceJob
  <2>1. mpc # "off" /\ jp \in Jobs
    BY <1>t, <1>i, <1>5 DEF ReplaceJob, Step, LocalsOK, HoldsJob
  <2>2. \A j : Member(queue', j) => j = jp \/ Member(queue, j)
    BY <1>t, <1>5, <2>1, PrependMember DEF ReplaceJob
  <2>3. jp' = None
    BY <1>5 DEF ReplaceJob
  <2> QED
    BY <1>i, <1>a, <2>1, <2>2, <2>3, NoneIsNoJob DEF JobsOK
<1>6. CASE Crash
  BY <1>t, <1>6, NoneIsNoJob, EmptyMember, Zenon DEF Crash
<1>7. ASSUME NEW i \in JobIds, ScanQueue(i) PROVE Goal
  <2> DEFINE n == [id |-> i, req |-> reqFile[i]]
  <2>1. n \in Jobs /\ n.id = i /\ n.req = reqFile[i]
    BY <1>7, JobFields DEF ScanQueue
  <2>2. /\ jobid[reqFile[i]] = i /\ cpc[reqFile[i]] \in {"none", "done"}
        /\ mpc # "off" /\ reqFile[i] \in Clients
    BY <1>t, <1>i, <1>7, Zenon DEF ScanQueue, FilesOK, LocalsOK
  <2>3. cpc[reqFile[i]] = "done"
    BY <1>t, <1>i, <2>2, ZeroIsNoId, Zenon DEF ThreadsOK
  <2>4. Fine(n)
    BY <1>7, <2>1, <2>2, <2>3, Zenon DEF ScanQueue, Fine, threadV
  <2>5. jp' = jp /\ \A j : Member(queue', j) => j = n \/ Member(queue, j)
    BY <1>t, <1>7, <2>1, AppendMember, SMTT(30) DEF ScanQueue, printV
  <2> QED
    BY <1>i, <1>a, <2>2, <2>4, <2>5, Zenon DEF JobsOK
<1>8. ASSUME NEW c \in Clients, AddJob(c) PROVE Goal
  <2> DEFINE n == [id |-> jobid[c], req |-> c]
  <2>1. jobid[c] \in JobIds /\ mpc = "accept" /\ toScan = {}
    BY <1>t, <1>i, <1>8 DEF AddJob, Goto, ThreadsOK, LocalsOK, Numbered
  <2>2. n \in Jobs /\ n.id = jobid[c] /\ n.req = c
    BY <2>1, JobFields
  <2>3. Fine(n)
    BY <1>t, <1>8, <2>1, <2>2, Zenon DEF AddJob, Goto, Fine, mainV
  <2>4. jp' = jp /\ \A j : Member(queue', j) => j = n \/ Member(queue, j)
    BY <1>t, <1>8, <2>2, AppendMember, SMTT(30) DEF AddJob, printV
  <2> QED
    BY <1>i, <1>a, <2>1, <2>3, <2>4 DEF JobsOK
<1> QED
  BY <1>1, <1>2, <1>3, <1>4, <1>5, <1>6, <1>7, <1>8, Zenon
     DEF Next, Main, ClientThread, PrinterThread, PrintCommand, vars, Start,
         ScanSignal, globals, ScanUnlinkData, printV, ScanDone, WaitForJob,
         UpdateJobno, CheckConfig, ReloadConfig, OpenData, ConnectPrinter,
         SendDocument, StatusSpins, StatusOk, UnlinkData, DeferJob, Retry,
         SpuriousWakeup, EditConfig, Hangup, ScanDiscard, ScanSkip, Accept,
         ReadHeader, HeaderFails, GetNewJobno, CreatData, CreatDataFails,
         CopyChunk, CopyFails, CopyEnds, CreatReq, CreatReqFails, WriteReq,
         WriteReqFails, Respond, AddJobSignal, RespondError, ThreadUnlinkReq,
         ThreadUnlinkData, ClientConnect, ClientSend, ClientReceive, ClientDie

\* printer_thread opens the data file of its job, and the file stays what it was.
LEMMA OwnStep == IInv /\ [Next]_vars => PrintsOwnDocument'
<1> SUFFICES ASSUME IInv, [Next]_vars, fd' # None, ~Reissued(jp.req)'
             PROVE  fd' = jp'.req
  BY DEF PrintsOwnDocument
<1>t. /\ dataFile \in [JobIds -> Clients \cup {None}]
      /\ jobid \in [Clients -> JobIds \cup {0}]
      /\ jp \in Jobs \cup {None}
      /\ fd \in Clients \cup {None}
  BY DEF IInv, TypeOK
<1>i. LocalsOK /\ FilesOK /\ JobsOK /\ PrintsOwnDocument
  BY DEF IInv
<1>1. CASE UNCHANGED <<fd, jobid, jp>>
  BY <1>1, <1>i DEF PrintsOwnDocument, Reissued
<1>2. CASE PickJob
  BY <1>i, <1>2 DEF PickJob, Step, LocalsOK, HoldsFile
<1>3. CASE OpenData
  <2>1. jp \in Jobs /\ jp' = jp /\ jobid' = jobid
    BY <1>t, <1>i, <1>3, Zenon DEF OpenData, Step, threadV, LocalsOK, HoldsJob
  <2>2. /\ jp.id \in JobIds /\ jp.req \in Clients /\ jobid[jp.req] = jp.id
        /\ dataFile[jp.id] \in Clients => jobid[dataFile[jp.id]] = jp.id
    BY <1>i, <2>1, JobFields, Zenon DEF JobsOK, JobOK, FilesOK
  <2>3. fd' = dataFile[jp.id] /\ dataFile[jp.id] \in Clients
    BY <1>t, <2>2, <1>3 DEF OpenData
  <2> QED
    BY <2>1, <2>2, <2>3, ZeroIsNoId DEF Reissued
<1>4. CASE CancelJob
  BY <1>i, <1>4 DEF CancelJob, Step, LocalsOK, HoldsFile
<1>5. CASE UnlinkReq
  BY <1>5, <1>t, <1>i
     DEF UnlinkReq, Step, threadV, PrintsOwnDocument, Reissued
<1>6. CASE DeferJob
  BY <1>6, <1>t, <1>i, Zenon DEF DeferJob, threadV, PrintsOwnDocument, Reissued
<1>7. CASE ReplaceJob
  BY <1>i, <1>7, Zenon DEF ReplaceJob, Step, LocalsOK, HoldsFile
<1>8. CASE Crash
  BY <1>8, <1>t, <1>i
     DEF Crash, PrintsOwnDocument, Reissued
<1>9. ASSUME NEW c \in Clients, GetNewJobno(c) PROVE fd' = jp'.req
  <2>1. jp \in Jobs /\ jp' = jp /\ fd' = fd
    BY <1>t, <1>i, <1>9, Zenon
       DEF GetNewJobno, printV, LocalsOK, HoldsJob, HoldsFile
  <2>2. ~Reissued(jp.req)
    BY <2>1, ReissuedStep, JobFields, Zenon DEF Reissued
  <2> QED
    BY <1>i, <2>1, <2>2 DEF PrintsOwnDocument
<1>10. ASSUME NEW c \in Clients, CreatData(c) PROVE fd' = jp'.req
  <2>1. jp \in Jobs /\ jp' = jp /\ jobid' = jobid
    BY <1>t, <1>i, <1>10, Zenon
       DEF CreatData, CreatDataFile, LocalsOK, HoldsJob, HoldsFile
  <2>2. /\ jp.id \in JobIds /\ jp.req \in Clients /\ jobid[jp.req] = jp.id
    BY <1>i, <2>1, JobFields DEF JobsOK, JobOK
  <2>3. CASE fd' = fd
    BY <1>i, <2>1, <2>3 DEF PrintsOwnDocument, Reissued
  <2>4. CASE fd' = c /\ jp.id = jobid[c]
    BY <2>1, <2>2, <2>4, ZeroIsNoId DEF Reissued
  <2> QED
    BY <1>10, <2>3, <2>4, Zenon DEF CreatData, CreatDataFile
<1> QED
  BY <1>1, <1>2, <1>3, <1>4, <1>5, <1>6, <1>7, <1>8, <1>9, <1>10, Zenon
     DEF Next, Main, ClientThread, PrinterThread, PrintCommand, vars, Start,
         threadV, ScanSignal, ScanUnlinkData, printV, ScanDone, WaitForJob,
         UpdateJobno, CheckConfig, ReloadConfig, ConnectPrinter, SendDocument,
         StatusSpins, StatusOk, UnlinkData, Retry, SpuriousWakeup, EditConfig,
         Hangup, ScanQueue, ScanDiscard, ScanSkip, Accept, ReadHeader,
         HeaderFails, CreatDataFails, CopyChunk, CopyFails, CopyEnds, CreatReq,
         CreatReqFails, WriteReq, WriteReqFails, Respond, AddJob, AddJobSignal,
         RespondError, ThreadUnlinkReq, ThreadUnlinkData, ClientConnect,
         ClientSend, ClientReceive, ClientDie

\* printer_thread comes to unlink the files only after printer_status.
LEMMA UnlinkStep == IInv /\ [Next]_vars => UnlinkOK'
<1> SUFFICES ASSUME IInv, [Next]_vars, ppc' \in {"unlinkD", "unlinkR"},
                    ~Reissued(jp.req)'
             PROVE  jp'.req \in confirmed'
  BY DEF UnlinkOK
<1>t. /\ jobid \in [Clients -> JobIds \cup {0}]
      /\ jp \in Jobs \cup {None}
      /\ fd \in Clients \cup {None}
  BY DEF IInv, TypeOK
<1>i. LocalsOK /\ PrintsOwnDocument /\ UnlinkOK
  BY DEF IInv
<1>1. CASE UNCHANGED <<ppc, jobid, jp, confirmed>>
  BY <1>1, <1>i, Zenon DEF UnlinkOK, Reissued
<1>2. CASE Start
  BY <1>2, <1>t, <1>i, Zenon DEF Start, threadV, UnlinkOK, Reissued
<1>3. CASE ScanSignal
  BY <1>3, <1>t, <1>i
     DEF ScanSignal, SignalJobwait, threadV, history, UnlinkOK, Reissued
<1>4. CASE WaitForJob
  BY <1>4, <1>t, <1>i
     DEF WaitForJob, Step, threadV, history, UnlinkOK, Reissued
<1>5. CASE PickJob
  BY <1>5, <1>t, <1>i, Zenon
     DEF PickJob, Step, threadV, history, UnlinkOK, Reissued
<1>6. CASE UpdateJobno
  BY <1>6, <1>t, <1>i
     DEF UpdateJobno, Step, threadV, history, UnlinkOK, Reissued
<1>7. CASE CheckConfig
  BY <1>7, <1>t, <1>i
     DEF CheckConfig, threadV, history, UnlinkOK, Reissued
<1>8. CASE ReloadConfig
  BY <1>8, <1>t, <1>i
     DEF ReloadConfig, Step, threadV, history, UnlinkOK, Reissued
<1>9. CASE OpenData
  BY <1>9, <1>t, <1>i, Zenon
     DEF OpenData, Step, threadV, history, UnlinkOK, Reissued
<1>10. CASE CancelJob
  BY <1>10, <1>t, <1>i
     DEF CancelJob, Step, threadV, UnlinkOK, Reissued
<1>11. CASE ConnectPrinter
  BY <1>11, <1>t, <1>i
     DEF ConnectPrinter, Step, threadV, history, UnlinkOK, Reissued
<1>12. CASE SendDocument
  BY <1>12, <1>t, <1>i
     DEF SendDocument, Step, threadV, history, UnlinkOK, Reissued
<1>23. CASE StatusSpins
  BY <1>23, <1>t, <1>i
     DEF StatusSpins, threadV, history, UnlinkOK, Reissued
<1>13. CASE StatusOk
  BY <1>i, <1>13, Zenon
     DEF StatusOk, Step, threadV, LocalsOK, HoldsFile, PrintsOwnDocument,
         Reissued
<1>14. CASE UnlinkData
  BY <1>14, <1>t, <1>i
     DEF UnlinkData, Step, threadV, history, UnlinkOK, Reissued
<1>15. CASE UnlinkReq
  BY <1>15, <1>t, <1>i
     DEF UnlinkReq, Step, threadV, history, UnlinkOK, Reissued
<1>16. CASE DeferJob
  BY <1>16, <1>t, <1>i
     DEF DeferJob, threadV, history, UnlinkOK, Reissued
<1>17. CASE ReplaceJob
  BY <1>17, <1>t, <1>i
     DEF ReplaceJob, Step, threadV, history, UnlinkOK, Reissued
<1>18. CASE Retry
  BY <1>18, <1>t, <1>i
     DEF Retry, Step, threadV, history, UnlinkOK, Reissued
<1>19. CASE SpuriousWakeup
  BY <1>19, <1>t, <1>i
     DEF SpuriousWakeup, Step, threadV, history, UnlinkOK, Reissued
<1>20. CASE Crash
  BY <1>20, <1>t, <1>i, Zenon DEF Crash, UnlinkOK, Reissued
<1>21. ASSUME NEW c \in Clients, GetNewJobno(c) PROVE jp'.req \in confirmed'
  <2>1. /\ jp \in Jobs /\ jp' = jp /\ ppc' = ppc
        /\ confirmed' = confirmed
    BY <1>t, <1>i, <1>21, Zenon
       DEF GetNewJobno, printV, history, LocalsOK, HoldsJob
  <2>2. ~Reissued(jp.req)
    BY <2>1, ReissuedStep, JobFields, Zenon DEF Reissued
  <2> QED
    BY <1>i, <2>1, <2>2 DEF UnlinkOK
<1>22. ASSUME NEW c \in Clients, AddJobSignal(c) PROVE jp'.req \in confirmed'
  BY <1>22, <1>t, <1>i
     DEF AddJobSignal, SignalJobwait, Goto, history, UnlinkOK, Reissued
<1> QED
  BY <1>1, <1>2, <1>3, <1>4, <1>5, <1>6, <1>7, <1>8, <1>9, <1>10, <1>11,
     <1>12, <1>13, <1>14, <1>15, <1>16, <1>17, <1>18, <1>19, <1>20, <1>21,
     <1>22, <1>23, Zenon
     DEF Next, Main, ClientThread, PrinterThread, PrintCommand, vars,
         ScanUnlinkData, threadV, printV, history, ScanDone, EditConfig,
         Hangup, ScanQueue, ScanDiscard, ScanSkip, Accept, ReadHeader,
         HeaderFails, CreatData, CreatDataFails, CopyChunk, CopyFails,
         CopyEnds, CreatReq, CreatReqFails, WriteReq, WriteReqFails, Respond,
         AddJob, RespondError, ThreadUnlinkReq, ThreadUnlinkData,
         ClientConnect, ClientSend, ClientReceive, ClientDie
=============================================================================
