-------------------------- MODULE PrintSpoolProofs --------------------------
(***************************************************************************)
(* Theorems about PrintSpool, for any set of clients, any number of job    *)
(* numbers, chunks, deaths of the daemon and versions of its               *)
(* configuration.  The conjuncts of IInv that are properties come first;   *)
(* then the promises that follow from IInv: the list is served first come, *)
(* first served; no SIGHUP is lost; and until the daemon dies no file of   *)
(* the spool directory is without an owner.                                *)
(***************************************************************************)
EXTENDS PrintSpoolSteps

\* No step takes the files of an acknowledged job away before it is printed.
LEMMA DurableStep == IInv /\ [Next]_vars => UnprintedOnDisk'
<1> DEFINE Goal(e) == dataFile[jobid[e]] = e /\ reqFile[jobid[e]] = e
<1> SUFFICES ASSUME IInv, [Next]_vars, NEW e \in Clients,
                    Accepted(e)', ~Reissued(e)',
                    e \notin confirmed' \cup discarded'
             PROVE  Goal(e)'
  BY DEF UnprintedOnDisk
<1>r. ~Reissued(e)
  BY ReissuedStep
<1>t. /\ dataFile \in [JobIds -> Clients \cup {None}]
      /\ reqFile \in [JobIds -> Clients \cup {None, Partial}]
      /\ mjob \in JobIds \cup {0}
      /\ cpc \in [Clients -> ThreadPlaces]
      /\ jobid \in [Clients -> JobIds \cup {0}]
      /\ jp \in Jobs \cup {None}
      /\ resp \in [Clients -> {"none", "ok", "err"}]
  BY DEF IInv, TypeOK
<1>i. LocalsOK /\ ThreadsOK /\ StoringOK /\ JobsOK /\ UnlinkOK /\ UnprintedOnDisk
  BY DEF IInv
<1>o. Accepted(e) /\ e \notin confirmed \cup discarded => Goal(e)
  BY <1>i, <1>r DEF UnprintedOnDisk
<1>1. CASE UNCHANGED <<resp, jobid, confirmed, discarded, dataFile, reqFile>>
  BY <1>1, <1>o DEF Accepted
<1>2. CASE ScanUnlinkData
  BY <1>2, <1>t, <1>o, <1>i
     DEF ScanUnlinkData, threadV, clientV, history, Accepted, LocalsOK
<1>3. CASE StatusOk
  BY <1>3, <1>t, <1>o
     DEF StatusOk, Step, disk, threadV, clientV, Accepted
<1>4. CASE UnlinkData
  <2>1. jp \in Jobs /\ Goal(e) /\ jobid' = jobid
    BY <1>t, <1>i, <1>o, <1>4
       DEF UnlinkData, Step, threadV, clientV, history, Accepted, LocalsOK, HoldsJob
  <2>2. jp.id \in JobIds /\ jp.req \in Clients /\ jobid[jp.req] = jp.id
    BY <1>i, <2>1, JobFields DEF JobsOK, JobOK
  <2>3. jobid[e] # jp.id
    BY <1>i, <1>r, <1>4, <2>2, ZeroIsNoId
       DEF UnlinkData, Step, history, UnlinkOK, Reissued
  <2> QED
    BY <1>t, <1>4, <2>1, <2>2, <2>3 DEF UnlinkData
<1>5. CASE UnlinkReq
  <2>1. jp \in Jobs /\ Goal(e) /\ jobid' = jobid
    BY <1>t, <1>i, <1>o, <1>5
       DEF UnlinkReq, Step, threadV, clientV, history, Accepted, LocalsOK, HoldsJob
  <2>2. jp.id \in JobIds /\ jp.req \in Clients /\ jobid[jp.req] = jp.id
    BY <1>i, <2>1, JobFields DEF JobsOK, JobOK
  <2>3. jobid[e] # jp.id
    BY <1>i, <1>r, <1>5, <2>2, ZeroIsNoId
       DEF UnlinkReq, Step, history, UnlinkOK, Reissued
  <2> QED
    BY <1>t, <1>5, <2>1, <2>2, <2>3 DEF UnlinkReq
<1>6. ASSUME NEW i \in JobIds, ScanDiscard(i) PROVE Goal(e)'
  BY <1>6, <1>t, <1>o
     DEF ScanDiscard, threadV, clientV, Accepted
<1>7. ASSUME NEW c \in Clients, GetNewJobno(c) PROVE Goal(e)'
  BY <1>7, <1>t, <1>o, <1>i
     DEF GetNewJobno, Goto, disk, clientV, history, Accepted, ThreadsOK
<1>8. ASSUME NEW c \in Clients, CreatData(c) PROVE Goal(e)'
  <2>1. c # e /\ Accepted(e) /\ Goal(e) /\ jobid' = jobid
    BY <1>t, <1>i, <1>o, <1>8
       DEF CreatData, Goto, clientV, history, Accepted, ThreadsOK
  <2>2. jobid[c] # jobid[e]
    BY <1>t, <1>i, <1>r, <2>1, <1>8
       DEF CreatData, Goto, ThreadsOK, Accepted, Numbered, Reissued
  <2> QED
    BY <1>t, <1>8, <2>1, <2>2 DEF CreatData, CreatDataFile
<1>9. ASSUME NEW c \in Clients, CreatReq(c) PROVE Goal(e)'
  <2>1. c # e /\ Accepted(e) /\ Goal(e) /\ jobid' = jobid
    BY <1>t, <1>i, <1>o, <1>9
       DEF CreatReq, Goto, clientV, history, Accepted, ThreadsOK
  <2>2. jobid[c] # jobid[e]
    BY <1>t, <1>i, <1>r, <2>1, <1>9
       DEF CreatReq, Goto, ThreadsOK, Accepted, Numbered, Reissued
  <2> QED
    BY <1>t, <1>9, <2>1, <2>2 DEF CreatReq
<1>10. ASSUME NEW c \in Clients, WriteReq(c) PROVE Goal(e)'
  <2>1. c # e /\ Accepted(e) /\ Goal(e) /\ jobid' = jobid
    BY <1>t, <1>i, <1>o, <1>10
       DEF WriteReq, Goto, clientV, history, Accepted, ThreadsOK
  <2>2. jobid[c] # jobid[e]
    BY <1>t, <1>i, <1>r, <2>1, <1>10
       DEF WriteReq, Goto, ThreadsOK, Accepted, Numbered, Reissued
  <2> QED
    BY <1>t, <1>10, <2>1, <2>2 DEF WriteReq
<1>11. ASSUME NEW c \in Clients, Respond(c) PROVE Goal(e)'
  BY <1>11, <1>t, <1>o, <1>i, <1>r
     DEF Respond, Goto, disk, history, Accepted, StoringOK, Storing
<1>12. ASSUME NEW c \in Clients, RespondError(c) PROVE Goal(e)'
  BY <1>12, <1>t, <1>o
     DEF RespondError, AfterErrorResponse, disk, history, Accepted
<1>13. ASSUME NEW c \in Clients, ThreadUnlinkReq(c) PROVE Goal(e)'
  <2>1. c # e /\ Accepted(e) /\ Goal(e) /\ jobid' = jobid
    BY <1>t, <1>i, <1>o, <1>13
       DEF ThreadUnlinkReq, Goto, clientV, history, Accepted, ThreadsOK
  <2>2. jobid[c] # jobid[e]
    BY <1>t, <1>i, <1>r, <2>1, <1>13
       DEF ThreadUnlinkReq, Goto, ThreadsOK, Accepted, Numbered, Reissued
  <2> QED
    BY <1>t, <1>13, <2>1, <2>2 DEF ThreadUnlinkReq
<1>14. ASSUME NEW c \in Clients, ThreadUnlinkData(c) PROVE Goal(e)'
  <2>1. c # e /\ Accepted(e) /\ Goal(e) /\ jobid' = jobid
    BY <1>t, <1>i, <1>o, <1>14
       DEF ThreadUnlinkData, Goto, clientV, history, Accepted, ThreadsOK
  <2>2. jobid[c] # jobid[e]
    BY <1>t, <1>i, <1>r, <2>1, <1>14
       DEF ThreadUnlinkData, Goto, ThreadsOK, Accepted, Numbered, Reissued
  <2> QED
    BY <1>t, <1>14, <2>1, <2>2 DEF ThreadUnlinkData
<1> QED
  BY <1>1, <1>2, <1>3, <1>4, <1>5, <1>6, <1>7, <1>8, <1>9, <1>10, <1>11, <1>12,
     <1>13, <1>14, Zenon
     DEF Next, Main, ClientThread, PrinterThread, PrintCommand, vars, Start,
         disk, threadV, clientV, ScanSignal, history, ScanDone, WaitForJob,
         PickJob, UpdateJobno, CheckConfig, ReloadConfig, OpenData, CancelJob,
         ConnectPrinter, SendDocument, StatusSpins, DeferJob, ReplaceJob,
         Retry, SpuriousWakeup, EditConfig, Hangup, Crash, ScanQueue, ScanSkip,
         Accept, ReadHeader, HeaderFails, CreatDataFails, CopyChunk, CopyFails,
         CopyEnds, CreatReqFails, WriteReqFails, AddJob, AddJobSignal,
         ClientConnect, ClientSend, ClientReceive, ClientDie

\* No step leaves printer_thread waiting with a job in the list and no signal to come.
LEMMA WakeupStep == IInv /\ [Next]_vars => NoLostWakeup'
<1> SUFFICES ASSUME IInv, [Next]_vars PROVE NoLostWakeup'
  OBVIOUS
<1>t. /\ cpc \in [Clients -> ThreadPlaces]
  BY DEF IInv, TypeOK
<1>i. LocalsOK /\ NoLostWakeup
  BY DEF IInv
<1>1. CASE UNCHANGED <<ppc, queue, mpc, cpc>>
  BY <1>1, <1>i DEF NoLostWakeup
<1>2. CASE Start
  BY <1>2, <1>t, <1>i
     DEF Start, threadV, NoLostWakeup
<1>3. CASE ScanSignal
  BY <1>3, <1>t, <1>i
     DEF ScanSignal, SignalJobwait, globals, threadV, NoLostWakeup
<1>4. CASE ScanUnlinkData
  BY <1>4, <1>t, <1>i
     DEF ScanUnlinkData, globals, threadV, printV, NoLostWakeup
<1>5. CASE ScanDone
  BY <1>5, <1>t, <1>i
     DEF ScanDone, globals, threadV, printV, NoLostWakeup
<1>6. CASE WaitForJob
  BY <1>6, <1>t, <1>i
     DEF WaitForJob, Step, globals, mainV, threadV, NoLostWakeup
<1>7. CASE PickJob
  BY <1>7, <1>t, <1>i
     DEF PickJob, Step, mainV, threadV, NoLostWakeup
<1>8. CASE UpdateJobno
  BY <1>8, <1>t, <1>i
     DEF UpdateJobno, Step, globals, mainV, threadV, NoLostWakeup
<1>9. CASE CheckConfig
  BY <1>9, <1>t, <1>i
     DEF CheckConfig, mainV, threadV, NoLostWakeup
<1>10. CASE ReloadConfig
  BY <1>10, <1>t, <1>i
     DEF ReloadConfig, Step, mainV, threadV, NoLostWakeup
<1>11. CASE OpenData
  BY <1>11, <1>t, <1>i
     DEF OpenData, Step, globals, mainV, threadV, NoLostWakeup
<1>12. CASE CancelJob
  BY <1>12, <1>t, <1>i
     DEF CancelJob, Step, globals, mainV, threadV, NoLostWakeup
<1>13. CASE ConnectPrinter
  BY <1>13, <1>t, <1>i
     DEF ConnectPrinter, Step, globals, mainV, threadV, NoLostWakeup
<1>14. CASE SendDocument
  BY <1>14, <1>t, <1>i
     DEF SendDocument, Step, globals, mainV, threadV, NoLostWakeup
<1>43. CASE StatusSpins
  BY <1>43, <1>t, <1>i
     DEF StatusSpins, globals, mainV, threadV, NoLostWakeup
<1>15. CASE StatusOk
  BY <1>15, <1>t, <1>i
     DEF StatusOk, Step, globals, mainV, threadV, NoLostWakeup
<1>16. CASE UnlinkData
  BY <1>16, <1>t, <1>i
     DEF UnlinkData, Step, globals, mainV, threadV, NoLostWakeup
<1>17. CASE UnlinkReq
  BY <1>17, <1>t, <1>i
     DEF UnlinkReq, Step, globals, mainV, threadV, NoLostWakeup
<1>18. CASE DeferJob
  BY <1>18, <1>t, <1>i
     DEF DeferJob, globals, mainV, threadV, NoLostWakeup
<1>19. CASE ReplaceJob
  BY <1>19, <1>t, <1>i
     DEF ReplaceJob, Step, mainV, threadV, NoLostWakeup
<1>20. CASE Retry
  BY <1>20, <1>t, <1>i
     DEF Retry, Step, globals, mainV, threadV, NoLostWakeup
<1>21. CASE SpuriousWakeup
  BY <1>21, <1>t, <1>i
     DEF SpuriousWakeup, Step, globals, mainV, threadV, NoLostWakeup
<1>22. CASE Crash
  BY <1>22, <1>t, <1>i
     DEF Crash, NoLostWakeup
<1>23. ASSUME NEW i \in JobIds, ScanQueue(i) PROVE NoLostWakeup'
  BY <1>23, <1>t, <1>i
     DEF ScanQueue, threadV, printV, NoLostWakeup
<1>24. ASSUME NEW i \in JobIds, ScanDiscard(i) PROVE NoLostWakeup'
  BY <1>24, <1>t, <1>i
     DEF ScanDiscard, globals, threadV, printV, NoLostWakeup
<1>25. ASSUME NEW c \in Clients, Accept(c) PROVE NoLostWakeup'
  BY <1>25, <1>t, <1>i
     DEF Accept, globals, mainV, printV, NoLostWakeup
<1>26. ASSUME NEW c \in Clients, ReadHeader(c) PROVE NoLostWakeup'
  BY <1>26, <1>t, <1>i
     DEF ReadHeader, Goto, globals, mainV, printV, NoLostWakeup
<1>27. ASSUME NEW c \in Clients, HeaderFails(c) PROVE NoLostWakeup'
  BY <1>27, <1>t, <1>i
     DEF HeaderFails, Goto, globals, mainV, printV, NoLostWakeup
<1>28. ASSUME NEW c \in Clients, GetNewJobno(c) PROVE NoLostWakeup'
  BY <1>28, <1>t, <1>i
     DEF GetNewJobno, Goto, mainV, printV, NoLostWakeup
<1>29. ASSUME NEW c \in Clients, CreatData(c) PROVE NoLostWakeup'
  BY <1>29, <1>t, <1>i
     DEF CreatData, CreatDataFile, Goto, globals, mainV, NoLostWakeup
<1>30. ASSUME NEW c \in Clients, CreatDataFails(c) PROVE NoLostWakeup'
  BY <1>30, <1>t, <1>i
     DEF CreatDataFails, Goto, globals, mainV, printV, NoLostWakeup
<1>31. ASSUME NEW c \in Clients, CopyFails(c) PROVE NoLostWakeup'
  BY <1>31, <1>t, <1>i
     DEF CopyFails, Goto, globals, mainV, printV, NoLostWakeup
<1>32. ASSUME NEW c \in Clients, CopyEnds(c) PROVE NoLostWakeup'
  BY <1>32, <1>t, <1>i
     DEF CopyEnds, Goto, globals, mainV, printV, NoLostWakeup
<1>33. ASSUME NEW c \in Clients, CreatReq(c) PROVE NoLostWakeup'
  BY <1>33, <1>t, <1>i
     DEF CreatReq, Goto, globals, mainV, printV, NoLostWakeup
<1>34. ASSUME NEW c \in Clients, CreatReqFails(c) PROVE NoLostWakeup'
  BY <1>34, <1>t, <1>i
     DEF CreatReqFails, Goto, globals, mainV, printV, NoLostWakeup
<1>35. ASSUME NEW c \in Clients, WriteReq(c) PROVE NoLostWakeup'
  BY <1>35, <1>t, <1>i
     DEF WriteReq, Goto, globals, mainV, printV, NoLostWakeup
<1>36. ASSUME NEW c \in Clients, WriteReqFails(c) PROVE NoLostWakeup'
  BY <1>36, <1>t, <1>i
     DEF WriteReqFails, Goto, globals, mainV, printV, NoLostWakeup
<1>37. ASSUME NEW c \in Clients, Respond(c) PROVE NoLostWakeup'
  BY <1>37, <1>t, <1>i
     DEF Respond, Goto, globals, mainV, printV, NoLostWakeup
<1>38. ASSUME NEW c \in Clients, AddJob(c) PROVE NoLostWakeup'
  BY <1>38, <1>t, <1>i
     DEF AddJob, Goto, mainV, printV, NoLostWakeup
<1>39. ASSUME NEW c \in Clients, AddJobSignal(c) PROVE NoLostWakeup'
  BY <1>39, <1>t, <1>i
     DEF AddJobSignal, SignalJobwait, Goto, globals, mainV, NoLostWakeup
<1>40. ASSUME NEW c \in Clients, RespondError(c) PROVE NoLostWakeup'
  BY <1>40, <1>t, <1>i
     DEF RespondError, AfterErrorResponse, globals, mainV, printV,
         NoLostWakeup
<1>41. ASSUME NEW c \in Clients, ThreadUnlinkReq(c) PROVE NoLostWakeup'
  BY <1>41, <1>t, <1>i
     DEF ThreadUnlinkReq, Goto, globals, mainV, printV, NoLostWakeup
<1>42. ASSUME NEW c \in Clients, ThreadUnlinkData(c) PROVE NoLostWakeup'
  BY <1>42, <1>t, <1>i
     DEF ThreadUnlinkData, Goto, globals, mainV, printV, NoLostWakeup
<1> QED
  BY <1>1, <1>2, <1>3, <1>4, <1>5, <1>6, <1>7, <1>8, <1>9, <1>10, <1>11,
     <1>12, <1>13, <1>14, <1>15, <1>16, <1>17, <1>18, <1>19, <1>20, <1>21,
     <1>22, <1>23, <1>24, <1>25, <1>26, <1>27, <1>28, <1>29, <1>30, <1>31,
     <1>32, <1>33, <1>34, <1>35, <1>36, <1>37, <1>38, <1>39, <1>40, <1>41,
     <1>42, <1>43, Zenon
     DEF Next, Main, ClientThread, PrinterThread, PrintCommand, vars,
         EditConfig, globals, mainV, threadV, printV, Hangup, ScanSkip,
         CopyChunk, ClientConnect, ClientSend, ClientReceive, ClientDie

\* No step of a running daemon loses an acknowledged job.
LEMMA ScheduledStep == IInv /\ [Next]_vars => AcceptedIsScheduled'
<1> DEFINE Place(e) == \/ cpc[e] = "add" \/ InQueue(e) \/ jp = Job(e)
                       \/ jobid[e] \in toScan
<1> SUFFICES ASSUME IInv, [Next]_vars, NEW e \in Clients,
                    mpc' # "off", Accepted(e)', ~Reissued(e)',
                    e \notin confirmed' \cup discarded' \cup dropped'
             PROVE  Place(e)'
  BY DEF AcceptedIsScheduled
<1>r. ~Reissued(e)
  BY ReissuedStep
<1>t. /\ queue \in Seq(Jobs)
      /\ cpc \in [Clients -> ThreadPlaces]
      /\ jobid \in [Clients -> JobIds \cup {0}]
      /\ jp \in Jobs \cup {None}
      /\ resp \in [Clients -> {"none", "ok", "err"}]
  BY DEF IInv, TypeOK
<1>i. LocalsOK /\ ThreadsOK /\ UnlinkOK /\ UnprintedOnDisk /\ AcceptedIsScheduled
  BY DEF IInv
<1>o. /\ mpc # "off" /\ Accepted(e)
      /\ e \notin confirmed \cup discarded \cup dropped
      => Place(e)
  BY <1>i, <1>r DEF AcceptedIsScheduled
<1>j. Job(e).req = e /\ (Accepted(e) => Job(e) \in Jobs)
  BY <1>t, <1>i, JobFields DEF Job, ThreadsOK
<1>1. CASE UNCHANGED <<mpc, resp, jobid, confirmed, discarded, dropped, cpc, queue, jp, toScan>>
  BY <1>1, <1>o, Zenon DEF Accepted, Job, InQueue
<1>2. CASE Start
  <2>1. Accepted(e) /\ reqFile[jobid[e]] = e /\ jobid[e] \in JobIds
    BY <1>t, <1>i, <1>r, <1>2
       DEF Start, clientV, UnprintedOnDisk, Accepted, ThreadsOK
  <2> QED
    BY <1>2, <2>1, NoneIsNoClient, Zenon DEF Start, threadV
<1>3. CASE ScanSignal
  BY <1>3, <1>t, <1>o
     DEF ScanSignal, SignalJobwait, globals, threadV, clientV, history,
         Accepted, Job, InQueue
<1>4. CASE ScanUnlinkData
  BY <1>4, <1>t, <1>o
     DEF ScanUnlinkData, globals, threadV, printV, clientV, history,
         Accepted, Job, InQueue
<1>5. CASE ScanDone
  BY <1>5, <1>t, <1>o
     DEF ScanDone, globals, threadV, printV, clientV, history, Accepted, Job,
         InQueue
<1>6. CASE PickJob
  <2>1. /\ queue # <<>> /\ Job(e)' = Job(e) /\ Place(e) /\ jp = None
        /\ Accepted(e)
    BY <1>i, <1>o, <1>6, Zenon
       DEF PickJob, Step, mainV, threadV, clientV, history, Accepted, Job,
           LocalsOK, HoldsJob
  <2>2. jp # Job(e)
    BY <2>1, <1>j, NoneIsNoJob, Zenon
  <2>3. Member(queue, Job(e)) => jp' = Job(e) \/ Member(queue', Job(e))
    BY <1>t, <1>6, <2>1, TailMember DEF PickJob
  <2> QED
    BY <1>6, <2>1, <2>2, <2>3 DEF PickJob, mainV, threadV, InQueue
<1>7. CASE CancelJob
  <2>1. Job(e)' = Job(e) /\ Place(e) /\ jp # Job(e)
    BY <1>o, <1>j, <1>7, Zenon
       DEF CancelJob, mainV, threadV, clientV, Accepted, Job
  <2> QED
    BY <1>7, <2>1 DEF CancelJob, globals, mainV, threadV, InQueue
<1>8. CASE StatusOk
  BY <1>8, <1>t, <1>o
     DEF StatusOk, Step, globals, mainV, threadV, clientV, Accepted, Job,
         InQueue
<1>9. CASE UnlinkReq
  <2>1. Job(e)' = Job(e) /\ Place(e)
    BY <1>o, <1>9, Zenon
       DEF UnlinkReq, mainV, threadV, clientV, history, Accepted, Job
  <2>2. jp # Job(e)
    BY <1>i, <1>j, <1>r, <1>9 DEF UnlinkReq, Step, history, UnlinkOK
  <2> QED
    BY <1>9, <2>1, <2>2, Zenon DEF UnlinkReq, globals, mainV, threadV, InQueue
<1>10. CASE ReplaceJob
  <2>1. /\ jp \in Jobs /\ Job(e)' = Job(e) /\ Place(e)
    BY <1>t, <1>i, <1>o, <1>10, Zenon
       DEF ReplaceJob, Step, mainV, threadV, clientV, history, Accepted, Job,
           LocalsOK, HoldsJob
  <2>2. \A y : Member(queue', y) <=> y = jp \/ Member(queue, y)
    BY <1>t, <1>10, <2>1, PrependMember DEF ReplaceJob
  <2> QED
    BY <1>10, <2>1, <2>2, Zenon DEF ReplaceJob, mainV, threadV, InQueue
<1>11. CASE Crash
  BY <1>11, Zenon DEF Crash
<1>12. ASSUME NEW i \in JobIds, ScanQueue(i) PROVE Place(e)'
  <2> DEFINE n == [id |-> i, req |-> reqFile[i]]
  <2>1. n \in Jobs
    BY <1>12, JobFields DEF ScanQueue
  <2>2. Job(e)' = Job(e) /\ Place(e) /\ jp' = jp
    BY <1>o, <1>12, Zenon
       DEF ScanQueue, threadV, printV, clientV, history, Accepted, Job
  <2>3. \A y : Member(queue', y) <=> Member(queue, y) \/ y = n
    BY <1>t, <1>12, <2>1, AppendMember DEF ScanQueue
  <2>4. CASE i = jobid[e]
    <3>1. reqFile[i] = e
      BY <1>i, <1>r, <1>12, <2>4, Zenon
         DEF ScanQueue, clientV, history, UnprintedOnDisk, Accepted
    <3> QED
      BY <2>2, <2>3, <2>4, <3>1, Zenon DEF Job, InQueue
  <2>5. CASE i # jobid[e]
    BY <1>12, <2>2, <2>3, <2>5, Zenon DEF ScanQueue, threadV, InQueue
  <2> QED
    BY <2>4, <2>5
<1>13. ASSUME NEW i \in JobIds, ScanDiscard(i) PROVE Place(e)'
  <2>1. Job(e)' = Job(e) /\ Place(e)
    BY <1>o, <1>13, Zenon DEF ScanDiscard, threadV, clientV, Accepted, Job
  <2>2. jobid[e] # i
    BY <1>i, <1>r, <1>13
       DEF ScanDiscard, clientV, UnprintedOnDisk, Accepted
  <2> QED
    BY <1>13, <2>1, <2>2, Zenon
       DEF ScanDiscard, globals, threadV, printV, InQueue
<1>14. ASSUME NEW i \in JobIds, ScanSkip(i) PROVE Place(e)'
  <2>1. Job(e)' = Job(e) /\ Place(e)
    BY <1>o, <1>14 DEF ScanSkip, threadV, clientV, Accepted, Job
  <2>2. jobid[e] # i
    BY <1>i, <1>r, <1>14
       DEF ScanSkip, clientV, UnprintedOnDisk, Accepted
  <2> QED
    BY <1>14, <2>1, <2>2, Zenon DEF ScanSkip, globals, threadV, printV, InQueue
<1>15. ASSUME NEW c \in Clients, Accept(c) PROVE Place(e)'
  BY <1>15, <1>t, <1>o
     DEF Accept, globals, mainV, printV, clientV, history, Accepted, Job,
         InQueue
<1>16. ASSUME NEW c \in Clients, ReadHeader(c) PROVE Place(e)'
  BY <1>16, <1>t, <1>o
     DEF ReadHeader, Goto, globals, mainV, printV, history, Accepted, Job,
         InQueue
<1>17. ASSUME NEW c \in Clients, HeaderFails(c) PROVE Place(e)'
  BY <1>17, <1>t, <1>o
     DEF HeaderFails, Goto, globals, mainV, printV, clientV, history,
         Accepted, Job, InQueue
<1>18. ASSUME NEW c \in Clients, GetNewJobno(c) PROVE Place(e)'
  <2>1. c # e
    BY <1>t, <1>i, <1>18 DEF GetNewJobno, Goto, clientV, ThreadsOK, Accepted
  <2>2. cpc'[e] = cpc[e] /\ jobid'[e] = jobid[e]
    BY <1>t, <1>18, <2>1 DEF GetNewJobno, Goto
  <2>3. Place(e) /\ Job(e)' = Job(e)
    BY <1>o, <1>18, <2>2, Zenon
       DEF GetNewJobno, mainV, clientV, history, Accepted, Job
  <2> QED
    BY <1>18, <2>2, <2>3, SMTT(30) DEF GetNewJobno, mainV, printV, InQueue
<1>19. ASSUME NEW c \in Clients, CreatData(c) PROVE Place(e)'
  BY <1>19, <1>t, <1>o
     DEF CreatData, CreatDataFile, Goto, globals, mainV, clientV, history,
         Accepted, Job, InQueue
<1>20. ASSUME NEW c \in Clients, CreatDataFails(c) PROVE Place(e)'
  BY <1>20, <1>t, <1>o
     DEF CreatDataFails, Goto, globals, mainV, printV, clientV, history,
         Accepted, Job, InQueue
<1>21. ASSUME NEW c \in Clients, CopyFails(c) PROVE Place(e)'
  BY <1>21, <1>t, <1>o, Zenon
     DEF CopyFails, Goto, globals, mainV, printV, clientV, history, Accepted,
         Job, InQueue
<1>22. ASSUME NEW c \in Clients, CopyEnds(c) PROVE Place(e)'
  BY <1>22, <1>t, <1>o, Zenon
     DEF CopyEnds, Goto, globals, mainV, printV, clientV, history, Accepted,
         Job, InQueue
<1>23. ASSUME NEW c \in Clients, CreatReq(c) PROVE Place(e)'
  BY <1>23, <1>t, <1>o
     DEF CreatReq, Goto, globals, mainV, printV, clientV, history, Accepted,
         Job, InQueue
<1>24. ASSUME NEW c \in Clients, CreatReqFails(c) PROVE Place(e)'
  BY <1>24, <1>t, <1>o
     DEF CreatReqFails, Goto, globals, mainV, printV, clientV, history,
         Accepted, Job, InQueue
<1>25. ASSUME NEW c \in Clients, WriteReq(c) PROVE Place(e)'
  BY <1>25, <1>t, <1>o
     DEF WriteReq, Goto, globals, mainV, printV, clientV, history, Accepted,
         Job, InQueue
<1>26. ASSUME NEW c \in Clients, WriteReqFails(c) PROVE Place(e)'
  BY <1>26, <1>t, <1>o
     DEF WriteReqFails, Goto, globals, mainV, printV, clientV, history,
         Accepted, Job, InQueue
<1>27. ASSUME NEW c \in Clients, Respond(c) PROVE Place(e)'
  <2>1. CASE c = e
    BY <1>t, <1>27, <2>1 DEF Respond, Goto
  <2>2. CASE c # e
    <3>1. Place(e) /\ Job(e)' = Job(e)
      BY <1>t, <1>o, <1>27, <2>2 DEF Respond, mainV, history, Accepted, Job
    <3> QED
      BY <1>t, <1>27, <2>2, <3>1
         DEF Respond, Goto, globals, mainV, printV, InQueue
  <2> QED
    BY <2>1, <2>2, Zenon
<1>28. ASSUME NEW c \in Clients, AddJob(c) PROVE Place(e)'
  <2> DEFINE n == [id |-> jobid[c], req |-> c]
  <2>1. n \in Jobs
    BY <1>t, <1>i, <1>28, JobFields DEF AddJob, Goto, ThreadsOK, Numbered
  <2>2. Job(e)' = Job(e) /\ Place(e) /\ jp' = jp
    BY <1>o, <1>28, Zenon
       DEF AddJob, mainV, printV, clientV, history, Accepted, Job
  <2>3. \A y : Member(queue', y) <=> Member(queue, y) \/ y = n
    BY <1>t, <1>28, <2>1, AppendMember DEF AddJob
  <2>4. CASE c = e
    BY <2>2, <2>3, <2>4, Zenon DEF Job, InQueue
  <2>5. CASE c # e
    BY <1>t, <1>28, <2>2, <2>3, <2>5 DEF AddJob, Goto, mainV, InQueue
  <2> QED
    BY <2>4, <2>5, Zenon
<1>29. ASSUME NEW c \in Clients, AddJobSignal(c) PROVE Place(e)'
  BY <1>29, <1>t, <1>o
     DEF AddJobSignal, SignalJobwait, Goto, globals, mainV, clientV, history,
         Accepted, Job, InQueue
<1>30. ASSUME NEW c \in Clients, RespondError(c) PROVE Place(e)'
  <2>1. c # e
    BY <1>t, <1>30 DEF RespondError, Accepted
  <2>2. cpc'[e] = cpc[e] /\ resp'[e] = resp[e]
    BY <1>t, <1>30, <2>1, Zenon DEF RespondError
  <2>3. Place(e) /\ Job(e)' = Job(e)
    BY <1>o, <1>30, <2>2, Zenon DEF RespondError, mainV, history, Accepted, Job
  <2> QED
    BY <1>30, <2>2, <2>3 DEF RespondError, globals, mainV, printV, InQueue
<1>31. ASSUME NEW c \in Clients, ThreadUnlinkReq(c) PROVE Place(e)'
  BY <1>31, <1>t, <1>o, Zenon
     DEF ThreadUnlinkReq, Goto, globals, mainV, printV, clientV, history,
         Accepted, Job, InQueue
<1>32. ASSUME NEW c \in Clients, ThreadUnlinkData(c) PROVE Place(e)'
  BY <1>32, <1>t, <1>o, Zenon
     DEF ThreadUnlinkData, Goto, globals, mainV, printV, clientV, history,
         Accepted, Job, InQueue
<1> QED
  BY <1>1, <1>2, <1>3, <1>4, <1>5, <1>6, <1>7, <1>8, <1>9, <1>10, <1>11, <1>12,
     <1>13, <1>14, <1>15, <1>16, <1>17, <1>18, <1>19, <1>20, <1>21, <1>22,
     <1>23, <1>24, <1>25, <1>26, <1>27, <1>28, <1>29, <1>30, <1>31, <1>32,
     Zenon
     DEF Next, Main, ClientThread, PrinterThread, PrintCommand, vars,
         WaitForJob, globals, mainV, threadV, clientV, history, UpdateJobno,
         CheckConfig, ReloadConfig, OpenData, ConnectPrinter, SendDocument,
         StatusSpins, UnlinkData, DeferJob, Retry, SpuriousWakeup, EditConfig,
         printV, Hangup, CopyChunk, ClientConnect, ClientSend, ClientReceive,
         ClientDie

\* No step puts a job in the list that is there already or in hand.
LEMMA OnceStep == IInv /\ [Next]_vars => QueuedOnce'
<1> SUFFICES ASSUME IInv, [Next]_vars PROVE QueuedOnce'
  OBVIOUS
<1> DEFINE New == {c \in Clients : jobid'[c] # 0 /\
                     \E d \in Clients \ {c} : jobid'[d] = jobid'[c]}
<1> DEFINE Goal == /\ Distinct(queue', New)
                   /\ jp' # None /\ Member(queue', jp') => jp'.req \in New
<1>n. \A c \in Clients : Reissued(c)' <=> c \in New
  BY DEF Reissued
<1> SUFFICES Goal
  <2>1. {c \in Clients : Reissued(c)}' = New
    BY Zenon DEF Reissued
  <2>2. TypeOK'
    BY TypeStep
  <2>3. jp' \in Jobs \cup {None}
    BY <2>2, Zenon DEF TypeOK
  <2>4. jp' # None => jp'.req \in Clients
    BY <2>3, JobFields
  <2> HIDE DEF New
  <2>5. jp' # None /\ jp'.req \in New => Reissued(jp.req)'
    BY <1>n, <2>4 DEF Reissued
  <2> QED
    BY <2>1, <2>5 DEF QueuedOnce
<1>a. {c \in Clients : Reissued(c)} \subseteq New
  BY <1>n, ReissuedStep
<1> HIDE DEF New
<1>t. /\ queue \in Seq(Jobs)
      /\ jobid \in [Clients -> JobIds \cup {0}]
      /\ jp \in Jobs \cup {None}
  BY DEF IInv, TypeOK
<1>i. LocalsOK /\ ThreadsOK /\ JobsOK /\ QueuedOnce
  BY DEF IInv
<1>b. /\ Distinct(queue, New)
      /\ jp # None /\ Member(queue, jp) => jp.req \in New
  <2>1. Distinct(queue, New)
    BY <1>a, <1>i, DistinctMore, Zenon DEF QueuedOnce
  <2>2. jp # None /\ Member(queue, jp) => jp.req \in New
    BY <1>t, <1>a, <1>i, JobFields DEF QueuedOnce
  <2> QED
    BY <2>1, <2>2
<1>1. CASE UNCHANGED <<queue, jp, jobid>>
  BY <1>1, <1>b
<1>2. CASE PickJob
  <2>1. queue # <<>> /\ jp' = Head(queue) /\ queue' = Tail(queue)
    BY <1>2 DEF PickJob
  <2> QED
    BY <1>t, <1>b, <2>1, DistinctTail
<1>3. CASE CancelJob
  BY <1>b, <1>3, Zenon DEF CancelJob, globals
<1>4. CASE UnlinkReq
  BY <1>b, <1>4 DEF UnlinkReq, globals
<1>5. CASE ReplaceJob
  <2>1. jp \in Jobs /\ jp # None
    BY <1>t, <1>i, <1>5 DEF ReplaceJob, Step, LocalsOK, HoldsJob
  <2>2. queue' = <<jp>> \o queue /\ jp' = None
    BY <1>5 DEF ReplaceJob
  <2>3. Distinct(<<jp>> \o queue, New)
    BY <1>t, <1>b, <2>1, DistinctPrepend
  <2> QED
    BY <2>2, <2>3
<1>6. CASE Crash
  <2>1. Distinct(<<>>, New)
    BY DEF Distinct
  <2> QED
    BY <1>6, <2>1, Zenon DEF Crash
<1>7. ASSUME NEW i \in JobIds, ScanQueue(i) PROVE Goal
  <2> DEFINE n == [id |-> i, req |-> reqFile[i]]
  <2>1. n \in Jobs /\ ~JobOK(n)
    BY <1>7, JobFields, Zenon DEF ScanQueue, JobOK
  <2>2. ~Member(queue, n) /\ n # jp
    BY <1>i, <2>1 DEF JobsOK
  <2>3. queue' = Append(queue, n) /\ jp' = jp
    BY <1>7 DEF ScanQueue, printV
  <2> HIDE DEF n
  <2>4. Distinct(Append(queue, n), New)
    BY <1>t, <1>b, <2>1, <2>2, DistinctAppend
  <2>5. Member(Append(queue, n), jp) => Member(queue, jp)
    BY <1>t, <2>1, <2>2, AppendMember
  <2> QED
    BY <1>b, <2>3, <2>4, <2>5
<1>8. ASSUME NEW c \in Clients, GetNewJobno(c) PROVE Goal
  BY <1>b, <1>8 DEF GetNewJobno, printV
<1>9. ASSUME NEW c \in Clients, AddJob(c) PROVE Goal
  <2> DEFINE n == [id |-> jobid[c], req |-> c]
  <2>1. n \in Jobs /\ n.req = c
    BY <1>t, <1>i, <1>9, JobFields, SMTT(30)
       DEF AddJob, Goto, ThreadsOK, Numbered
  <2>2. ~JobOK(n)
    BY <1>9, <2>1, Zenon DEF AddJob, Goto, JobOK
  <2>3. ~Member(queue, n) /\ n # jp
    BY <1>i, <2>1, <2>2 DEF JobsOK
  <2>4. queue' = Append(queue, n) /\ jp' = jp
    BY <1>9 DEF AddJob, printV
  <2> HIDE DEF n
  <2>5. Distinct(Append(queue, n), New)
    BY <1>t, <1>b, <2>1, <2>3, DistinctAppend
  <2>6. Member(Append(queue, n), jp) => Member(queue, jp)
    BY <1>t, <2>1, <2>3, AppendMember
  <2> QED
    BY <1>b, <2>4, <2>5, <2>6
<1> QED
  BY <1>1, <1>2, <1>3, <1>4, <1>5, <1>6, <1>7, <1>8, <1>9, ZenonT(30)
     DEF Next, Main, ClientThread, PrinterThread, PrintCommand, vars, Start,
         threadV, ScanSignal, globals, ScanUnlinkData, printV, ScanDone,
         WaitForJob, UpdateJobno, CheckConfig, ReloadConfig, OpenData,
         ConnectPrinter, SendDocument, StatusSpins, StatusOk, UnlinkData,
         DeferJob, Retry, SpuriousWakeup, EditConfig, Hangup, ScanDiscard,
         ScanSkip, Accept, ReadHeader, HeaderFails, CreatData, CreatDataFails,
         CopyChunk, CopyFails, CopyEnds, CreatReq, CreatReqFails, WriteReq,
         WriteReqFails, Respond, AddJobSignal, RespondError, ThreadUnlinkReq,
         ThreadUnlinkData, ClientConnect, ClientSend, ClientReceive, ClientDie

-----------------------------------------------------------------------------
(* The theorems. *)

\* The inductive invariant holds before the daemon is first started.
LEMMA InitIInv == Init => IInv
<1> SUFFICES ASSUME Init PROVE IInv
  OBVIOUS
<1> USE BoundAssumption, NoneAssumption, PartialAssumption DEF Init
<1>1. TypeOK
  <2>1. /\ jobFile \in 0..(MaxJobId + 1) /\ confFile \in 1..MaxConf
        /\ nextjob \in 1..(MaxJobId + 1) /\ printer \in 0..MaxConf
        /\ hupConf \in 0..MaxConf /\ crashes \in 0..MaxCrash
        /\ sent \in [Clients -> 0..(Chunks + 1)]
        /\ got \in [Clients -> 0..(Chunks + 1)]
    OBVIOUS
  <2>2. reread \in BOOLEAN
    BY Zenon
  <2>3. queue \in Seq(Jobs)
    OBVIOUS
  <2> QED
    BY <2>1, <2>2, <2>3, Zenon
       DEF TypeOK, MainPlaces, ThreadPlaces, PrinterPlaces, ClientPlaces
<1>2. LocalsOK
  BY DEF LocalsOK, HoldsJob, HoldsFile
<1>3. ThreadsOK
  BY Zenon DEF ThreadsOK, Numbered, Accepted
<1>4. FilesOK
  BY DEF FilesOK
<1>5. StoringOK
  BY DEF StoringOK, Storing
<1>6. JobsOK
  BY NoneIsNoJob, EmptyMember DEF JobsOK
<1>7. PrintsOwnDocument /\ UnlinkOK
  BY DEF PrintsOwnDocument, UnlinkOK
<1>8. UnprintedOnDisk /\ AcceptedIsScheduled
  BY Zenon DEF UnprintedOnDisk, AcceptedIsScheduled, Accepted
<1>9. QueuedOnce /\ NoLostWakeup
  BY SMTT(30) DEF QueuedOnce, Distinct, NoLostWakeup
<1> QED
  BY <1>1, <1>2, <1>3, <1>4, <1>5, <1>6, <1>7, <1>8, <1>9 DEF IInv

\* IInv holds in every reachable state: it holds initially and every step of
\* main, of a client thread, of printer_thread, of a print command, every
\* SIGHUP and every death of the daemon preserves it.
THEOREM Invariance == Spec => []IInv
<1>1. IInv /\ [Next]_vars => IInv'
  BY TypeStep, LocalsStep, ThreadsStep, FilesStep, StoringStep, JobsStep,
     OwnStep, UnlinkStep, DurableStep, ScheduledStep, OnceStep, WakeupStep,
     Zenon
     DEF IInv
<1> QED
  BY InitIInv, <1>1, PTL DEF Spec

\* Every variable of the daemon keeps its type.
THEOREM TypeCorrect == Spec => []TypeOK
<1>1. IInv => TypeOK
  BY DEF IInv
<1> QED
  BY Invariance, <1>1, PTL

\* No step takes the control file of an acknowledged job and leaves its
\* document: printer_thread unlinks the data file first, build_qonstart goes
\* by the control file.
LEMMA HasControlStep == IInv /\ ControlOK /\ [Next]_vars => DataHasControl'
<1> DEFINE Goal(e) == dataFile[jobid[e]] = e => reqFile[jobid[e]] = e
<1> SUFFICES ASSUME IInv, ControlOK, [Next]_vars, NEW e \in Clients,
                    Accepted(e)', ~Reissued(e)', e \notin discarded'
             PROVE  Goal(e)'
  BY Zenon DEF DataHasControl
<1>n. None \notin Clients
  BY NoneAssumption
<1>r. ~Reissued(e)
  BY ReissuedStep
<1>t. /\ dataFile \in [JobIds -> Clients \cup {None}]
      /\ reqFile \in [JobIds -> Clients \cup {None, Partial}]
      /\ mjob \in JobIds \cup {0}
      /\ cpc \in [Clients -> ThreadPlaces]
      /\ jobid \in [Clients -> JobIds \cup {0}]
      /\ jp \in Jobs \cup {None}
      /\ resp \in [Clients -> {"none", "ok", "err"}]
  BY DEF IInv, TypeOK
<1>i. LocalsOK /\ ThreadsOK /\ StoringOK /\ JobsOK /\ UnlinkOK
  BY DEF IInv
<1>o. Accepted(e) /\ e \notin discarded => Goal(e)
  BY <1>r, Zenon DEF ControlOK, DataHasControl
<1>1. CASE UNCHANGED <<resp, jobid, discarded, dataFile, reqFile>>
  BY <1>1, <1>o DEF Accepted
<1>2. CASE ScanUnlinkData
  BY <1>2, <1>t, <1>n, <1>o, <1>i
     DEF ScanUnlinkData, threadV, clientV, history, Accepted, LocalsOK
<1>3. CASE StatusOk
  BY <1>3, <1>t, <1>o
     DEF StatusOk, Step, disk, threadV, clientV, Accepted
<1>4. CASE UnlinkData
  <2>1. jp \in Jobs /\ Goal(e) /\ jobid' = jobid /\ reqFile' = reqFile
    BY <1>t, <1>i, <1>o, <1>4
       DEF UnlinkData, Step, threadV, clientV, history, Accepted, LocalsOK, HoldsJob
  <2> QED
    BY <1>t, <1>n, <1>4, <2>1 DEF UnlinkData
<1>5. CASE UnlinkReq
  <2>1. jp \in Jobs /\ Goal(e) /\ jobid' = jobid
    BY <1>t, <1>i, <1>o, <1>5
       DEF UnlinkReq, Step, threadV, clientV, history, Accepted, LocalsOK, HoldsJob
  <2>2. jp.id \in JobIds /\ jp.req \in Clients /\ jobid[jp.req] = jp.id
    BY <1>i, <2>1, JobFields DEF JobsOK, JobOK
  <2>3. dataFile[jp.id] # jp.req \/ Reissued(jp.req)
    BY <1>5, Zenon DEF UnlinkReq, Step, ControlOK
  <2>4. jobid[e] = jp.id => e = jp.req
    BY <1>r, <2>2, ZeroIsNoId, Zenon DEF Reissued
  <2> QED
    BY <1>t, <1>r, <1>5, <2>1, <2>2, <2>3, <2>4 DEF UnlinkReq
<1>6. ASSUME NEW i \in JobIds, ScanDiscard(i) PROVE Goal(e)'
  BY <1>6, <1>t, <1>o
     DEF ScanDiscard, threadV, clientV, Accepted
<1>7. ASSUME NEW c \in Clients, GetNewJobno(c) PROVE Goal(e)'
  BY <1>7, <1>t, <1>o, <1>i
     DEF GetNewJobno, Goto, disk, clientV, history, Accepted, ThreadsOK
<1>8. ASSUME NEW c \in Clients, CreatData(c) PROVE Goal(e)'
  <2>1. c # e /\ Accepted(e) /\ Goal(e) /\ jobid' = jobid
    BY <1>t, <1>i, <1>o, <1>8
       DEF CreatData, Goto, clientV, history, Accepted, ThreadsOK
  <2>2. jobid[c] # jobid[e]
    BY <1>t, <1>i, <1>r, <2>1, <1>8
       DEF CreatData, Goto, ThreadsOK, Accepted, Numbered, Reissued
  <2> QED
    BY <1>t, <1>8, <2>1, <2>2 DEF CreatData, CreatDataFile
<1>9. ASSUME NEW c \in Clients, CreatReq(c) PROVE Goal(e)'
  <2>1. c # e /\ Accepted(e) /\ Goal(e) /\ jobid' = jobid
    BY <1>t, <1>i, <1>o, <1>9
       DEF CreatReq, Goto, clientV, history, Accepted, ThreadsOK
  <2>2. jobid[c] # jobid[e]
    BY <1>t, <1>i, <1>r, <2>1, <1>9
       DEF CreatReq, Goto, ThreadsOK, Accepted, Numbered, Reissued
  <2> QED
    BY <1>t, <1>9, <2>1, <2>2 DEF CreatReq
<1>10. ASSUME NEW c \in Clients, WriteReq(c) PROVE Goal(e)'
  <2>1. c # e /\ Accepted(e) /\ Goal(e) /\ jobid' = jobid
    BY <1>t, <1>i, <1>o, <1>10
       DEF WriteReq, Goto, clientV, history, Accepted, ThreadsOK
  <2>2. jobid[c] # jobid[e]
    BY <1>t, <1>i, <1>r, <2>1, <1>10
       DEF WriteReq, Goto, ThreadsOK, Accepted, Numbered, Reissued
  <2> QED
    BY <1>t, <1>10, <2>1, <2>2 DEF WriteReq
<1>11. ASSUME NEW c \in Clients, Respond(c) PROVE Goal(e)'
  BY <1>11, <1>t, <1>o, <1>i, <1>r
     DEF Respond, Goto, disk, history, Accepted, StoringOK, Storing
<1>12. ASSUME NEW c \in Clients, RespondError(c) PROVE Goal(e)'
  BY <1>12, <1>t, <1>o
     DEF RespondError, AfterErrorResponse, disk, history, Accepted
<1>13. ASSUME NEW c \in Clients, ThreadUnlinkReq(c) PROVE Goal(e)'
  <2>1. c # e /\ Accepted(e) /\ Goal(e) /\ jobid' = jobid
    BY <1>t, <1>i, <1>o, <1>13
       DEF ThreadUnlinkReq, Goto, clientV, history, Accepted, ThreadsOK
  <2>2. jobid[c] # jobid[e]
    BY <1>t, <1>i, <1>r, <2>1, <1>13
       DEF ThreadUnlinkReq, Goto, ThreadsOK, Accepted, Numbered, Reissued
  <2> QED
    BY <1>t, <1>13, <2>1, <2>2 DEF ThreadUnlinkReq
<1>14. ASSUME NEW c \in Clients, ThreadUnlinkData(c) PROVE Goal(e)'
  <2>1. c # e /\ Accepted(e) /\ Goal(e) /\ jobid' = jobid
    BY <1>t, <1>i, <1>o, <1>14
       DEF ThreadUnlinkData, Goto, clientV, history, Accepted, ThreadsOK
  <2>2. jobid[c] # jobid[e]
    BY <1>t, <1>i, <1>r, <2>1, <1>14
       DEF ThreadUnlinkData, Goto, ThreadsOK, Accepted, Numbered, Reissued
  <2> QED
    BY <1>t, <1>14, <2>1, <2>2 DEF ThreadUnlinkData
<1> QED
  BY <1>1, <1>2, <1>3, <1>4, <1>5, <1>6, <1>7, <1>8, <1>9, <1>10, <1>11, <1>12,
     <1>13, <1>14, Zenon
     DEF Next, Main, ClientThread, PrinterThread, PrintCommand, vars, Start,
         disk, threadV, clientV, ScanSignal, history, ScanDone, WaitForJob,
         PickJob, UpdateJobno, CheckConfig, ReloadConfig, OpenData, CancelJob,
         ConnectPrinter, SendDocument, StatusSpins, DeferJob, ReplaceJob,
         Retry, SpuriousWakeup, EditConfig, Hangup, Crash, ScanQueue, ScanSkip,
         Accept, ReadHeader, HeaderFails, CreatDataFails, CopyChunk, CopyFails,
         CopyEnds, CreatReqFails, WriteReqFails, AddJob, AddJobSignal,
         ClientConnect, ClientSend, ClientReceive, ClientDie

\* When printer_thread comes to unlink a control file, the job's document is
\* gone, and nobody makes it again.
LEMMA DocumentGoneStep ==
  ASSUME IInv, ControlOK, [Next]_vars, ppc' = "unlinkR", ~Reissued(jp.req)'
  PROVE  dataFile'[jp'.id] # jp'.req
<1> DEFINE Goal == dataFile'[jp'.id] # jp'.req
<1> SUFFICES Goal
  OBVIOUS
<1>n. None \notin Clients
  BY NoneAssumption
<1>t. /\ dataFile \in [JobIds -> Clients \cup {None}]
      /\ cpc \in [Clients -> ThreadPlaces]
      /\ jobid \in [Clients -> JobIds \cup {0}]
      /\ jp \in Jobs \cup {None}
      /\ mjob \in JobIds \cup {0}
  BY Zenon DEF IInv, TypeOK
<1>r. ASSUME ppc = "unlinkR", jp' = jp PROVE ~Reissued(jp.req)
  <2>1. jp.req \in Clients
    BY <1>t, <1>r, JobFields, Zenon DEF IInv, LocalsOK, HoldsJob
  <2>2. ASSUME NEW e \in Clients, e = jp.req, Reissued(e) PROVE FALSE
    <3>1. Reissued(e)'
      BY <2>2, ReissuedStep
    <3>2. e = jp'.req
      BY <1>r, <2>2
    <3> QED
      BY <3>1, <3>2, Zenon DEF Reissued
  <2> QED
    BY <2>1, <2>2, Zenon
<1>f. ppc = "unlinkR" /\ jp' = jp => dataFile[jp.id] # jp.req
  BY <1>r, Zenon DEF ControlOK
<1>i. LocalsOK
  BY DEF IInv
<1>1. CASE UNCHANGED <<ppc, jp, dataFile>>
  BY <1>1, <1>f, Zenon
<1>2. CASE Start
  BY <1>2, <1>f, Zenon DEF Start, disk
<1>3. CASE ScanSignal
  BY <1>3, <1>f, Zenon DEF ScanSignal, SignalJobwait, disk
<1>4. CASE ScanUnlinkData
  <2>1. ppc = "unlinkR" /\ jp' = jp /\ jp \in Jobs /\ mjob \in JobIds
    BY <1>t, <1>i, <1>4, Zenon
       DEF ScanUnlinkData, printV, LocalsOK, HoldsJob
  <2>2. jp.id \in JobIds /\ jp.req \in Clients
    BY <2>1, JobFields
  <2> QED
    BY <1>t, <1>n, <1>f, <2>1, <2>2, <1>4 DEF ScanUnlinkData
<1>5. CASE WaitForJob
  BY <1>5, <1>f, Zenon DEF WaitForJob, Step, disk
<1>6. CASE SpuriousWakeup
  BY <1>6, <1>f
     DEF SpuriousWakeup, Step, disk
<1>7. CASE PickJob
  BY <1>7, <1>f
     DEF PickJob, Step, disk
<1>8. CASE UpdateJobno
  BY <1>8, <1>f
     DEF UpdateJobno, Step
<1>9. CASE CheckConfig
  BY <1>9, <1>f
     DEF CheckConfig, disk
<1>10. CASE ReloadConfig
  BY <1>10, <1>f
     DEF ReloadConfig, Step, disk
<1>11. CASE OpenData
  BY <1>11, <1>f
     DEF OpenData, Step, disk
<1>12. CASE CancelJob
  BY <1>12, <1>f, Zenon DEF CancelJob, Step, disk
<1>13. CASE ConnectPrinter
  BY <1>13, <1>f
     DEF ConnectPrinter, Step, disk
<1>14. CASE SendDocument
  BY <1>14, <1>f
     DEF SendDocument, Step, disk
<1>25. CASE StatusSpins
  BY <1>25, <1>f
     DEF StatusSpins, disk
<1>15. CASE StatusOk
  BY <1>15, <1>f, Zenon DEF StatusOk, Step, disk
<1>16. CASE UnlinkData
  <2>1. jp \in Jobs /\ jp' = jp /\ jp.id \in JobIds /\ jp.req \in Clients
    BY <1>t, <1>i, <1>16, JobFields, Zenon
       DEF UnlinkData, Step, LocalsOK, HoldsJob
  <2> QED
    BY <1>t, <1>n, <2>1, <1>16 DEF UnlinkData
<1>17. CASE UnlinkReq
  BY <1>17, <1>f
     DEF UnlinkReq, Step
<1>18. CASE DeferJob
  BY <1>18, <1>f
     DEF DeferJob, disk
<1>19. CASE ReplaceJob
  BY <1>19, <1>f
     DEF ReplaceJob, Step, disk
<1>20. CASE Retry
  BY <1>20, <1>f
     DEF Retry, Step, disk
<1>21. CASE Crash
  BY <1>21, Zenon DEF Crash
<1>22. ASSUME NEW d \in Clients, CreatData(d) PROVE Goal
  <2>1. ppc = "unlinkR" /\ jp' = jp /\ jp \in Jobs
    BY <1>t, <1>i, <1>22, Zenon
       DEF CreatData, CreatDataFile, LocalsOK, HoldsJob
  <2>2. jp.id \in JobIds /\ jp.req \in Clients /\ JobOK(jp)
    BY <2>1, JobFields DEF IInv, JobsOK
  <2>3. jp.req # d
    BY <2>2, <1>22, Zenon DEF JobOK, CreatData, Goto
  <2>4. jobid[d] # jp.id
    BY <1>r, <2>1, <2>2, <2>3, ZeroIsNoId, Zenon DEF JobOK, Reissued
  <2> QED
    BY <1>t, <1>f, <2>1, <2>2, <2>4, <1>22, Zenon DEF CreatData, CreatDataFile
<1>23. ASSUME NEW d \in Clients, AddJobSignal(d) PROVE Goal
  BY <1>23, <1>f, Zenon DEF AddJobSignal, Goto, SignalJobwait, disk
<1>24. ASSUME NEW d \in Clients, ThreadUnlinkData(d) PROVE Goal
  <2>1. ppc = "unlinkR" /\ jp' = jp /\ jp \in Jobs
    BY <1>t, <1>i, <1>24, Zenon
       DEF ThreadUnlinkData, printV, LocalsOK, HoldsJob
  <2>2. jp.id \in JobIds /\ jp.req \in Clients
    BY <2>1, JobFields
  <2> QED
    BY <1>t, <1>n, <1>f, <2>1, <2>2, <1>24 DEF ThreadUnlinkData
<1> QED
  BY <1>1, <1>2, <1>3, <1>4, <1>5, <1>6, <1>7, <1>8, <1>9, <1>10, <1>11,
     <1>12, <1>13, <1>14, <1>15, <1>16, <1>17, <1>18, <1>19, <1>20, <1>21,
     <1>22, <1>23, <1>24, <1>25, Zenon
     DEF Next, Main, ClientThread, PrinterThread, PrintCommand, vars, disk,
         printV, ScanDone, EditConfig, Hangup, ScanQueue, ScanDiscard,
         ScanSkip, Accept, ReadHeader, HeaderFails, GetNewJobno,
         CreatDataFails, CopyChunk, CopyFails, CopyEnds, CreatReq,
         CreatReqFails, WriteReq, WriteReqFails, Respond, AddJob,
         RespondError, ThreadUnlinkReq, ClientConnect, ClientSend,
         ClientReceive, ClientDie

\* An acknowledged job stays on disk until the printer has reported it
\* printed, through any number of deaths and restarts of the daemon, unless
\* its number was given out again or its control file became unreadable; and
\* its document is never on disk without its control file.
THEOREM Durability == Spec => []AcceptedIsDurable
<1>1. Init => ControlOK
  BY Zenon DEF Init, ControlOK, DataHasControl, Accepted
<1>2. IInv /\ ControlOK /\ [Next]_vars => ControlOK'
  <2> SUFFICES ASSUME IInv, ControlOK, [Next]_vars PROVE ControlOK'
    OBVIOUS
  <2>1. DataHasControl'
    BY HasControlStep
  <2>2. ppc' = "unlinkR" /\ ~Reissued(jp.req)' => dataFile'[jp'.id] # jp'.req
    BY DocumentGoneStep, Zenon
  <2> QED
    BY <2>1, <2>2, Zenon DEF ControlOK
<1>3. IInv /\ ControlOK => AcceptedIsDurable
  BY Zenon DEF IInv, ControlOK, AcceptedIsDurable
<1> QED
  BY Invariance, <1>1, <1>2, <1>3, PTL DEF Spec

\* While the daemon runs, an acknowledged job is queued, about to be queued,
\* in hand, or still to be found by build_qonstart.
THEOREM Scheduling == Spec => []AcceptedIsScheduled
<1>1. IInv => AcceptedIsScheduled
  BY DEF IInv
<1> QED
  BY Invariance, <1>1, PTL

\* No job is in the list twice, or in the list while printer_thread has it.
THEOREM Once == Spec => []QueuedOnce
<1>1. IInv => QueuedOnce
  BY DEF IInv
<1> QED
  BY Invariance, <1>1, PTL

\* add_job's signal after the unlock of joblock loses no wakeup.
THEOREM Wakeup == Spec => []NoLostWakeup
<1>1. IInv => NoLostWakeup
  BY DEF IInv
<1> QED
  BY Invariance, <1>1, PTL

\* printer_thread sends each job's own document.
THEOREM OwnDocument == Spec => []PrintsOwnDocument
<1>1. IInv => PrintsOwnDocument
  BY DEF IInv
<1> QED
  BY Invariance, <1>1, PTL

-----------------------------------------------------------------------------
(* First come, first served. *)

\* Laws of lists: the job in hand in front of the list, and the list without
\* it.
LEMMA PendingLaws ==
  ASSUME NEW S, NEW q \in Seq(S), NEW x \in S
  PROVE  /\ <<>> \o q = q
         /\ <<x>> \o q # <<>> /\ Tail(<<x>> \o q) = q
         /\ q # <<>> => <<Head(q)>> \o Tail(q) = q
         /\ Append(<<>> \o q, x) = <<>> \o Append(q, x)
         /\ \A y \in S : Append(<<y>> \o q, x) = <<y>> \o Append(q, x)
<1>1. <<>> \o q = q
  OBVIOUS
<1>2. <<x>> \o q # <<>>
  BY PrependMember
<1>3. Tail(<<x>> \o q) = q
  OBVIOUS
<1>4. q # <<>> => <<Head(q)>> \o Tail(q) = q
  OBVIOUS
<1>5. Append(<<>> \o q, x) = <<>> \o Append(q, x)
  OBVIOUS
<1>6. \A y \in S : Append(<<y>> \o q, x) = <<y>> \o Append(q, x)
  OBVIOUS
<1> QED
  BY <1>1, <1>2, <1>3, <1>4, <1>5, <1>6

\* A step that touches neither the list nor the job in hand is a stuttering
\* step of the queue.
LEMMA PendingSame == UNCHANGED <<queue, jp>> => UNCHANGED PendingJobs
BY DEF PendingJobs

\* Every step of the daemon is a step of a first-come, first-served queue:
\* add_job adds at the end, remove_job and replace_job change nothing of what
\* is pending, a job leaves from the front.
LEMMA OrderStep == IInv /\ [Next]_vars => [Fifo!Next]_PendingJobs
<1> SUFFICES ASSUME IInv, [Next]_vars PROVE [Fifo!Next]_PendingJobs
  OBVIOUS
<1>t. /\ queue \in Seq(Jobs)
      /\ jobid \in [Clients -> JobIds \cup {0}]
      /\ jp \in Jobs \cup {None}
  BY DEF IInv, TypeOK
<1>i. LocalsOK /\ ThreadsOK
  BY DEF IInv
<1> DEFINE Goal == [Fifo!Next]_PendingJobs
<1>a. ASSUME NEW n \in Jobs, queue' = Append(queue, n), jp' = jp PROVE Goal
  <2>1. PendingJobs' = Append(PendingJobs, n)
    <3>1. CASE jp = None
      BY <1>t, <1>a, <3>1, PendingLaws DEF PendingJobs
    <3>2. CASE jp # None
      BY <1>t, <1>a, <3>2, PendingLaws DEF PendingJobs
    <3> QED
      BY <3>1, <3>2
  <2> QED
    BY <2>1 DEF Fifo!Next, Fifo!Add
<1>l. ASSUME jp \in Jobs, queue' = queue, jp' = None PROVE Goal
  <2>1. PendingJobs = <<jp>> \o queue /\ PendingJobs' = <<>> \o queue
    BY <1>l, NoneIsNoJob DEF PendingJobs
  <2>2. PendingJobs # <<>> /\ PendingJobs' = Tail(PendingJobs)
    BY <1>t, <1>l, <2>1, PendingLaws
  <2> QED
    BY <2>2 DEF Fifo!Next, Fifo!Leave
<1>1. CASE UNCHANGED <<queue, jp>>
  BY <1>1, PendingSame
<1>2. CASE PickJob
  <2>1. jp = None /\ queue # <<>> /\ jp' = Head(queue) /\ queue' = Tail(queue)
    BY <1>i, <1>2 DEF PickJob, Step, LocalsOK, HoldsJob
  <2>2. Head(queue) \in Jobs /\ Tail(queue) \in Seq(Jobs)
    BY <1>t, <2>1, TailMember
  <2>3. PendingJobs = <<>> \o queue /\ PendingJobs' = <<Head(queue)>> \o Tail(queue)
    BY <2>1, <2>2, NoneIsNoJob DEF PendingJobs
  <2>4. PendingJobs' = PendingJobs
    BY <1>t, <2>1, <2>2, <2>3, PendingLaws
  <2> QED
    BY <2>4
<1>3. CASE CancelJob
  BY <1>t, <1>i, <1>l, <1>3
     DEF CancelJob, Step, globals, LocalsOK, HoldsJob
<1>4. CASE UnlinkReq
  BY <1>t, <1>i, <1>l, <1>4
     DEF UnlinkReq, Step, globals, LocalsOK, HoldsJob
<1>5. CASE ReplaceJob
  <2>1. jp \in Jobs /\ jp' = None /\ queue' = <<jp>> \o queue
    BY <1>t, <1>i, <1>5 DEF ReplaceJob, Step, LocalsOK, HoldsJob
  <2>2. <<jp>> \o queue \in Seq(Jobs)
    BY <1>t, <2>1, PrependMember
  <2>3. PendingJobs = <<jp>> \o queue /\ PendingJobs' = <<>> \o (<<jp>> \o queue)
    BY <2>1, NoneIsNoJob DEF PendingJobs
  <2>4. PendingJobs' = PendingJobs
    BY <2>1, <2>2, <2>3, PendingLaws
  <2> QED
    BY <2>4
<1>6. CASE Crash
  <2>1. PendingJobs' = <<>>
    BY <1>6, SMTT(30) DEF Crash, PendingJobs
  <2> QED
    BY <2>1 DEF Fifo!Next, Fifo!Die
<1>7. ASSUME NEW i \in JobIds, ScanQueue(i) PROVE Goal
  BY <1>a, <1>7, JobFields DEF ScanQueue, printV
<1>8. ASSUME NEW c \in Clients, AddJob(c) PROVE Goal
  <2>1. jobid[c] \in JobIds
    BY <1>t, <1>i, <1>8 DEF AddJob, Goto, ThreadsOK, Numbered
  <2> QED
    BY <1>a, <1>8, <2>1, JobFields DEF AddJob, printV
<1> HIDE DEF Goal
<1> QED
  BY <1>1, <1>2, <1>3, <1>4, <1>5, <1>6, <1>7, <1>8, ZenonT(30)
     DEF Next, Main, ClientThread, PrinterThread, PrintCommand, vars, Start,
         ScanSignal, globals, ScanUnlinkData, printV, ScanDone, WaitForJob,
         UpdateJobno, CheckConfig, ReloadConfig, OpenData, ConnectPrinter,
         SendDocument, StatusSpins, StatusOk, UnlinkData, DeferJob, Retry,
         SpuriousWakeup, EditConfig, Hangup, ScanDiscard, ScanSkip, Accept,
         ReadHeader, HeaderFails, GetNewJobno, CreatData, CreatDataFails,
         CopyChunk, CopyFails, CopyEnds, CreatReq, CreatReqFails, WriteReq,
         WriteReqFails, Respond, AddJobSignal, RespondError, ThreadUnlinkReq,
         ThreadUnlinkData, ClientConnect, ClientSend, ClientReceive, ClientDie,
         Goal

\* printd's list implements PrintQueue: jobs are served first come, first
\* served, retries of replace_job included.
THEOREM FirstComeFirstServed == Spec => ServesInOrder
<1>1. Init => Fifo!Init
  BY PendingLaws DEF Init, PendingJobs, Fifo!Init
<1> QED
  BY Invariance, <1>1, OrderStep, PTL DEF Spec, ServesInOrder, Fifo!Spec

-----------------------------------------------------------------------------
(* No SIGHUP is lost. *)

\* Every step keeps ConfigOK: init_printer, SIGHUP, the check of reread, and
\* the steps that only move main or printer_thread.
LEMMA ConfigStep == IInv /\ ConfigOK /\ [Next]_vars => ConfigOK'
<1> SUFFICES ASSUME IInv, ConfigOK, [Next]_vars PROVE ConfigOK'
  OBVIOUS
<1>t. /\ confFile \in Nat \ {0} /\ printer \in Nat /\ hupConf \in Nat
      /\ reread \in BOOLEAN
  BY BoundAssumption DEF IInv, TypeOK
<1>i. mpc = "off" => ppc = "off"
  BY DEF IInv, LocalsOK
<1>1. CASE UNCHANGED <<mpc, ppc, reread, printer, hupConf, confFile>>
  BY <1>1 DEF ConfigOK
<1>2. CASE Start
  BY <1>2, <1>t, <1>i
     DEF Start, disk, ConfigOK
<1>3. CASE ScanSignal
  BY <1>3, <1>t, <1>i
     DEF ScanSignal, SignalJobwait, disk, globals, history, ConfigOK
<1>4. CASE ScanUnlinkData
  BY <1>4, <1>t, <1>i
     DEF ScanUnlinkData, globals, printV, history, ConfigOK
<1>5. CASE ScanDone
  BY <1>5, <1>t, <1>i
     DEF ScanDone, disk, globals, printV, history, ConfigOK
<1>6. CASE WaitForJob
  BY <1>6, <1>t, <1>i
     DEF WaitForJob, Step, disk, globals, mainV, history, ConfigOK
<1>7. CASE SpuriousWakeup
  BY <1>7, <1>t, <1>i
     DEF SpuriousWakeup, Step, disk, globals, mainV, history, ConfigOK
<1>8. CASE PickJob
  BY <1>8, <1>t, <1>i
     DEF PickJob, Step, disk, mainV, history, ConfigOK
<1>9. CASE UpdateJobno
  BY <1>9, <1>t, <1>i
     DEF UpdateJobno, Step, globals, mainV, history, ConfigOK
<1>10. CASE CheckConfig
  BY <1>10, <1>t, <1>i
     DEF CheckConfig, disk, mainV, history, ConfigOK
<1>11. CASE ReloadConfig
  BY <1>11, <1>t, <1>i
     DEF ReloadConfig, Step, disk, mainV, history, ConfigOK
<1>12. CASE OpenData
  BY <1>12, <1>t, <1>i
     DEF OpenData, Step, disk, globals, mainV, history, ConfigOK
<1>13. CASE CancelJob
  BY <1>13, <1>t, <1>i
     DEF CancelJob, Step, disk, globals, mainV, ConfigOK
<1>14. CASE ConnectPrinter
  BY <1>14, <1>t, <1>i
     DEF ConnectPrinter, Step, disk, globals, mainV, history, ConfigOK
<1>15. CASE SendDocument
  BY <1>15, <1>t, <1>i
     DEF SendDocument, Step, disk, globals, mainV, history, ConfigOK
<1>28. CASE StatusSpins
  BY <1>28, <1>t, <1>i
     DEF StatusSpins, disk, globals, mainV, history, ConfigOK
<1>16. CASE StatusOk
  BY <1>16, <1>t, <1>i
     DEF StatusOk, Step, disk, globals, mainV, ConfigOK
<1>17. CASE UnlinkData
  BY <1>17, <1>t, <1>i
     DEF UnlinkData, Step, globals, mainV, history, ConfigOK
<1>18. CASE UnlinkReq
  BY <1>18, <1>t, <1>i
     DEF UnlinkReq, Step, globals, mainV, history, ConfigOK
<1>19. CASE DeferJob
  BY <1>19, <1>t, <1>i
     DEF DeferJob, disk, globals, mainV, history, ConfigOK
<1>20. CASE ReplaceJob
  BY <1>20, <1>t, <1>i
     DEF ReplaceJob, Step, disk, mainV, history, ConfigOK
<1>21. CASE Retry
  BY <1>21, <1>t, <1>i
     DEF Retry, Step, disk, globals, mainV, history, ConfigOK
<1>22. CASE EditConfig
  BY <1>22, <1>t, <1>i
     DEF EditConfig, globals, mainV, printV, history, ConfigOK
<1>23. CASE Hangup
  BY <1>23, <1>t, <1>i
     DEF Hangup, disk, mainV, printV, ConfigOK
<1>24. CASE Crash
  BY <1>24, <1>t, <1>i
     DEF Crash, disk, ConfigOK
<1>25. ASSUME NEW k \in JobIds, ScanQueue(k) PROVE ConfigOK'
  BY <1>25, <1>t, <1>i
     DEF ScanQueue, disk, printV, history, ConfigOK
<1>26. ASSUME NEW k \in JobIds, ScanDiscard(k) PROVE ConfigOK'
  BY <1>26, <1>t, <1>i
     DEF ScanDiscard, globals, printV, ConfigOK
<1>27. ASSUME NEW d \in Clients, AddJobSignal(d) PROVE ConfigOK'
  BY <1>27, <1>t, <1>i
     DEF AddJobSignal, Goto, SignalJobwait, disk, globals, mainV, history,
         ConfigOK
<1> QED
  BY <1>1, <1>2, <1>3, <1>4, <1>5, <1>6, <1>7, <1>8, <1>9, <1>10, <1>11, <1>12,
     <1>13, <1>14, <1>15, <1>16, <1>17, <1>18, <1>19, <1>20, <1>21, <1>22,
     <1>23, <1>24, <1>25, <1>26, <1>27, <1>28, ZenonT(30)
     DEF Next, Main, ClientThread, PrinterThread, PrintCommand, vars, disk,
         globals, mainV, printV, history, CreatDataFile, ScanSkip, Accept,
         ReadHeader, HeaderFails, GetNewJobno, CreatData, CreatDataFails,
         CopyChunk, CopyFails, CopyEnds, CreatReq, CreatReqFails, WriteReq,
         WriteReqFails, Respond, AddJob, RespondError, ThreadUnlinkReq,
         ThreadUnlinkData, ClientConnect, ClientSend, ClientReceive, ClientDie

\* A SIGHUP is never lost, and no job is sent to a NULL printer.
THEOREM NoHangupLost == Spec => []ConfigIsCurrent
<1>1. Init => ConfigOK
  BY DEF Init, ConfigOK
<1>2. IInv /\ ConfigOK => ConfigIsCurrent
  BY DEF IInv, LocalsOK, ConfigOK, ConfigIsCurrent
<1> QED
  BY Invariance, <1>1, ConfigStep, <1>2, PTL DEF Spec

-----------------------------------------------------------------------------
(* No file is left behind. *)

\* A step of one life moves a client_thread that keeps a data file or a
\* control file to a place where it still keeps it, or is add_job, or is the
\* unlink.
LEMMA KeeperStep ==
  ASSUME IInv, [Next]_vars, crashes' = crashes, NEW c \in Clients
  PROVE  /\ cpc[c] \in KeepsData =>
              cpc'[c] \in KeepsData \/ AddJob(c) \/ ThreadUnlinkData(c)
         /\ cpc[c] \in KeepsReq =>
              cpc'[c] \in KeepsReq \/ AddJob(c) \/ ThreadUnlinkReq(c)
<1> DEFINE Goal == /\ cpc[c] \in KeepsData =>
                        cpc'[c] \in KeepsData \/ AddJob(c) \/ ThreadUnlinkData(c)
                   /\ cpc[c] \in KeepsReq =>
                        cpc'[c] \in KeepsReq \/ AddJob(c) \/ ThreadUnlinkReq(c)
<1> SUFFICES Goal
  BY Zenon
<1>t. cpc \in [Clients -> ThreadPlaces] /\ crashes \in Nat
  BY BoundAssumption DEF IInv, TypeOK
<1>1. CASE UNCHANGED <<cpc>>
  BY <1>1
<1>2. CASE Crash
  <2>1. crashes' = crashes + 1
    BY <1>2, Zenon DEF Crash
  <2> QED
    BY <1>t, <2>1
<1>3. ASSUME NEW d \in Clients, Accept(d) PROVE Goal
  BY <1>3, <1>t
     DEF Accept, KeepsData, KeepsReq
<1>4. ASSUME NEW d \in Clients, ReadHeader(d) PROVE Goal
  BY <1>4, <1>t
     DEF ReadHeader, Goto, KeepsData, KeepsReq
<1>5. ASSUME NEW d \in Clients, HeaderFails(d) PROVE Goal
  BY <1>5, <1>t
     DEF HeaderFails, Goto, KeepsData, KeepsReq
<1>6. ASSUME NEW d \in Clients, GetNewJobno(d) PROVE Goal
  BY <1>6, <1>t
     DEF GetNewJobno, Goto, KeepsData, KeepsReq
<1>7. ASSUME NEW d \in Clients, CreatData(d) PROVE Goal
  BY <1>7, <1>t, Zenon DEF CreatData, Goto, CreatDataFile, KeepsData, KeepsReq
<1>8. ASSUME NEW d \in Clients, CreatDataFails(d) PROVE Goal
  BY <1>8, <1>t
     DEF CreatDataFails, Goto, KeepsData, KeepsReq
<1>9. ASSUME NEW d \in Clients, CopyFails(d) PROVE Goal
  BY <1>9, <1>t
     DEF CopyFails, Goto, KeepsData, KeepsReq
<1>10. ASSUME NEW d \in Clients, CopyEnds(d) PROVE Goal
  BY <1>10, <1>t, Zenon DEF CopyEnds, Goto, KeepsData, KeepsReq
<1>11. ASSUME NEW d \in Clients, CreatReq(d) PROVE Goal
  BY <1>11, <1>t
     DEF CreatReq, Goto, KeepsData, KeepsReq
<1>12. ASSUME NEW d \in Clients, CreatReqFails(d) PROVE Goal
  BY <1>12, <1>t
     DEF CreatReqFails, Goto, KeepsData, KeepsReq
<1>13. ASSUME NEW d \in Clients, WriteReq(d) PROVE Goal
  BY <1>13, <1>t
     DEF WriteReq, Goto, KeepsData, KeepsReq
<1>14. ASSUME NEW d \in Clients, WriteReqFails(d) PROVE Goal
  BY <1>14, <1>t
     DEF WriteReqFails, Goto, KeepsData, KeepsReq
<1>15. ASSUME NEW d \in Clients, Respond(d) PROVE Goal
  BY <1>15, <1>t
     DEF Respond, Goto, KeepsData, KeepsReq
<1>16. ASSUME NEW d \in Clients, AddJob(d) PROVE Goal
  BY <1>16, <1>t, Zenon DEF AddJob, Goto, KeepsData, KeepsReq
<1>17. ASSUME NEW d \in Clients, AddJobSignal(d) PROVE Goal
  BY <1>17, <1>t
     DEF AddJobSignal, Goto, SignalJobwait, KeepsData, KeepsReq
<1>18. ASSUME NEW d \in Clients, RespondError(d) PROVE Goal
  BY <1>18, <1>t, ErrorGoes, Zenon DEF KeepsData, KeepsReq
<1>19. ASSUME NEW d \in Clients, ThreadUnlinkReq(d) PROVE Goal
  BY <1>19, <1>t, Zenon DEF ThreadUnlinkReq, Goto, KeepsData, KeepsReq
<1>20. ASSUME NEW d \in Clients, ThreadUnlinkData(d) PROVE Goal
  BY <1>20, <1>t, Zenon DEF ThreadUnlinkData, Goto, KeepsData, KeepsReq
<1> QED
  BY <1>1, <1>2, <1>3, <1>4, <1>5, <1>6, <1>7, <1>8, <1>9, <1>10, <1>11, <1>12,
     <1>13, <1>14, <1>15, <1>16, <1>17, <1>18, <1>19, <1>20, Zenon
     DEF Next, Main, ClientThread, PrinterThread, PrintCommand, vars, threadV,
         Start, ScanSignal, ScanUnlinkData, ScanDone, WaitForJob,
         SpuriousWakeup, PickJob, UpdateJobno, CheckConfig, ReloadConfig,
         OpenData, CancelJob, ConnectPrinter, SendDocument, StatusSpins,
         StatusOk, UnlinkData, UnlinkReq, DeferJob, ReplaceJob, Retry,
         EditConfig, Hangup, ScanQueue, ScanDiscard, ScanSkip, CopyChunk,
         ClientConnect, ClientSend, ClientReceive, ClientDie

\* A job the daemon has taken charge of stays in its list, in hand or
\* canceled, until printer_thread has unlinked its files.
LEMMA KeptStep ==
  ASSUME IInv, [Next]_vars, crashes' = crashes, mpc # "off",
         NEW c \in Clients, jobid[c] \in JobIds
  PROVE  /\ jobid'[c] = jobid[c]
         /\ Kept(c) => Kept(c)' \/ (UnlinkReq /\ jp = Job(c))
<1> DEFINE j == [id |-> jobid[c], req |-> c]
<1> DEFINE Goal == /\ jobid'[c] = jobid[c]
                   /\ \/ ~(Member(queue, j) \/ jp = j \/ c \in dropped)
                      \/ Member(queue', j) \/ jp' = j \/ c \in dropped'
                      \/ UnlinkReq /\ jp = j
<1> SUFFICES Goal
  BY Zenon DEF Kept, InQueue, Job
<1>t. /\ queue \in Seq(Jobs)
      /\ jobid \in [Clients -> JobIds \cup {0}]
      /\ jp \in Jobs \cup {None}
      /\ crashes \in Nat
  BY BoundAssumption DEF IInv, TypeOK
<1>i. LocalsOK /\ ThreadsOK
  BY DEF IInv
<1>j. j \in Jobs /\ j.req = c /\ j # None
  BY JobFields, NoneIsNoJob
<1> HIDE DEF j
<1>1. CASE UNCHANGED <<queue, jp, jobid, dropped>>
  BY <1>1
<1>2. CASE Start
  BY <1>2, Zenon DEF Start
<1>3. CASE PickJob
  <2>1. \A y : Member(queue, y) <=> y = jp' \/ Member(queue', y)
    BY <1>t, <1>3, TailMember DEF PickJob
  <2>2. jp = None /\ jobid' = jobid /\ dropped' = dropped
    BY <1>i, <1>3 DEF PickJob, Step, threadV, history, LocalsOK, HoldsJob
  <2> QED
    BY <1>j, <2>1, <2>2, Zenon
<1>4. CASE CancelJob
  BY <1>t, <1>j, <1>4 DEF CancelJob, globals, threadV
<1>5. CASE UnlinkReq
  BY <1>t, <1>j, <1>5, Zenon DEF UnlinkReq, globals, threadV, history
<1>6. CASE ReplaceJob
  <2>1. jp \in Jobs /\ jobid' = jobid /\ dropped' = dropped
    BY <1>t, <1>i, <1>6 DEF ReplaceJob, Step, threadV, history, LocalsOK, HoldsJob
  <2>2. \A y : Member(queue', y) <=> y = jp \/ Member(queue, y)
    BY <1>t, <1>6, <2>1, PrependMember DEF ReplaceJob
  <2> QED
    BY <2>1, <2>2
<1>7. CASE Crash
  <2>1. crashes' = crashes + 1
    BY <1>7, Zenon DEF Crash
  <2> QED
    BY <1>t, <2>1
<1>8. ASSUME NEW k \in JobIds, ScanQueue(k) PROVE Goal
  <2>1. \A y : Member(queue, y) => Member(queue', y)
    BY <1>t, <1>8, AppendMember, JobFields DEF ScanQueue
  <2> QED
    BY <1>8, <2>1, Zenon DEF ScanQueue, threadV, printV, history
<1>9. ASSUME NEW k \in JobIds, ScanSkip(k) PROVE Goal
  BY <1>9 DEF ScanSkip, globals, threadV, printV
<1>10. ASSUME NEW d \in Clients, GetNewJobno(d) PROVE Goal
  <2>1. jobid[d] = 0
    BY <1>i, <1>10 DEF GetNewJobno, Goto, ThreadsOK
  <2> QED
    BY <1>t, <1>10, <2>1, ZeroIsNoId DEF GetNewJobno, printV, history
<1>11. ASSUME NEW d \in Clients, AddJob(d) PROVE Goal
  <2>1. jobid[d] \in JobIds
    BY <1>t, <1>i, <1>11 DEF AddJob, Goto, ThreadsOK, Numbered
  <2>2. \A y : Member(queue, y) => Member(queue', y)
    BY <1>t, <1>11, <2>1, AppendMember, JobFields DEF AddJob
  <2> QED
    BY <1>11, <2>2 DEF AddJob, printV, history
<1> QED
  BY <1>1, <1>2, <1>3, <1>4, <1>5, <1>6, <1>7, <1>8, <1>9, <1>10, <1>11, Zenon
     DEF Next, Main, ClientThread, PrinterThread, PrintCommand, vars, globals,
         threadV, printV, history, CreatDataFile, ScanSignal, ScanUnlinkData,
         ScanDone, WaitForJob, SpuriousWakeup, UpdateJobno, CheckConfig,
         ReloadConfig, OpenData, ConnectPrinter, SendDocument, StatusSpins,
         StatusOk, UnlinkData, DeferJob, Retry, EditConfig, Hangup,
         ScanDiscard, Accept, ReadHeader, HeaderFails, CreatData,
         CreatDataFails, CopyChunk, CopyFails, CopyEnds, CreatReq,
         CreatReqFails, WriteReq, WriteReqFails, Respond, AddJobSignal,
         RespondError, ThreadUnlinkReq, ThreadUnlinkData, ClientConnect,
         ClientSend, ClientReceive, ClientDie

\* The daemon's deaths are only counted up.
LEMMA LifeStep == IInv /\ [Next]_vars => crashes' = crashes \/ (Crash /\ crashes' # 0)
<1> SUFFICES ASSUME IInv, [Next]_vars
             PROVE  crashes' = crashes \/ (Crash /\ crashes' # 0)
  OBVIOUS
<1>t. crashes \in Nat
  BY BoundAssumption DEF IInv, TypeOK
<1>1. CASE UNCHANGED <<crashes>>
  BY <1>1
<1>2. CASE Crash
  <2>1. crashes' = crashes + 1
    BY <1>2, Zenon DEF Crash
  <2> QED
    BY <1>2, <1>t, <2>1
<1> QED
  BY <1>1, <1>2, ZenonT(30)
     DEF Next, Main, ClientThread, PrinterThread, PrintCommand, vars, history,
         CreatDataFile, Start, ScanSignal, ScanUnlinkData, ScanDone,
         WaitForJob, SpuriousWakeup, PickJob, UpdateJobno, CheckConfig,
         ReloadConfig, OpenData, CancelJob, ConnectPrinter, SendDocument,
         StatusSpins, StatusOk, UnlinkData, UnlinkReq, DeferJob, ReplaceJob,
         Retry, EditConfig, Hangup, ScanQueue, ScanDiscard, ScanSkip, Accept,
         ReadHeader, HeaderFails, GetNewJobno, CreatData, CreatDataFails,
         CopyChunk, CopyFails, CopyEnds, CreatReq, CreatReqFails, WriteReq,
         WriteReqFails, Respond, AddJob, AddJobSignal, RespondError,
         ThreadUnlinkReq, ThreadUnlinkData, ClientConnect, ClientSend,
         ClientReceive, ClientDie

\* Until the daemon dies build_qonstart has nothing to do.
LEMMA FirstScanStep == IInv /\ FirstLife /\ [Next]_vars => FirstScan'
<1> SUFFICES ASSUME IInv, FirstLife, [Next]_vars, crashes = 0, crashes' = 0
             PROVE  FirstScan'
  BY LifeStep DEF FirstScan
<1>f. toScan = {} /\ mpc \in {"off", "scan", "accept"}
  BY DEF FirstLife, FirstScan
<1>1. CASE UNCHANGED <<toScan, mpc>>
  BY <1>1, <1>f DEF FirstScan
<1>2. CASE Start
  BY <1>2, Zenon DEF Start, disk, FirstLife, FirstScan, FirstSpool
<1>3. CASE ScanSignal
  BY <1>3, <1>f
     DEF ScanSignal, SignalJobwait, FirstScan
<1>4. CASE ScanUnlinkData
  BY <1>4, <1>f
     DEF ScanUnlinkData, FirstScan
<1>5. CASE ScanDone
  BY <1>5, <1>f
     DEF ScanDone, FirstScan
<1>6. CASE Crash
  BY <1>6, LifeStep, Zenon DEF Crash, FirstScan
<1>7. ASSUME NEW k \in JobIds, ScanQueue(k) PROVE FirstScan'
  BY <1>7, <1>f
     DEF ScanQueue, FirstScan
<1>8. ASSUME NEW k \in JobIds, ScanDiscard(k) PROVE FirstScan'
  BY <1>8, <1>f
     DEF ScanDiscard, FirstScan
<1>9. ASSUME NEW k \in JobIds, ScanSkip(k) PROVE FirstScan'
  BY <1>9, <1>f
     DEF ScanSkip, FirstScan
<1> QED
  BY <1>1, <1>2, <1>3, <1>4, <1>5, <1>6, <1>7, <1>8, <1>9, Zenon
     DEF Next, Main, ClientThread, PrinterThread, PrintCommand, vars, mainV,
         CreatDataFile, WaitForJob, SpuriousWakeup, PickJob, UpdateJobno,
         CheckConfig, ReloadConfig, OpenData, CancelJob, ConnectPrinter,
         SendDocument, StatusSpins, StatusOk, UnlinkData, UnlinkReq, DeferJob,
         ReplaceJob, Retry, EditConfig, Hangup, Accept, ReadHeader,
         HeaderFails, GetNewJobno, CreatData, CreatDataFails, CopyChunk,
         CopyFails, CopyEnds, CreatReq, CreatReqFails, WriteReq, WriteReqFails,
         Respond, AddJob, AddJobSignal, RespondError, ThreadUnlinkReq,
         ThreadUnlinkData, ClientConnect, ClientSend, ClientReceive, ClientDie

\* Until it is first started the daemon has written no file and handed out no
\* number.
LEMMA FirstSpoolStep == IInv /\ FirstLife /\ [Next]_vars => FirstSpool'
<1> SUFFICES ASSUME IInv, FirstLife, [Next]_vars, crashes = 0, crashes' = 0
             PROVE  FirstSpool'
  BY LifeStep DEF FirstSpool
<1>i. LocalsOK /\ FirstSpool
  BY DEF IInv, FirstLife
<1>1. CASE UNCHANGED <<mpc, jobFile, dataFile, reqFile, jobid>>
  BY <1>1, <1>i DEF FirstSpool
<1>2. CASE Start
  BY <1>2, <1>i, Zenon DEF Start, disk, threadV, LocalsOK, FirstSpool
<1>3. CASE ScanSignal
  BY <1>3, <1>i, Zenon
     DEF ScanSignal, SignalJobwait, disk, threadV, LocalsOK, FirstSpool
<1>4. CASE ScanUnlinkData
  BY <1>4, <1>i, Zenon DEF ScanUnlinkData, threadV, LocalsOK, FirstSpool
<1>5. CASE ScanDone
  BY <1>5, <1>i
     DEF ScanDone, disk, threadV, LocalsOK, FirstSpool
<1>6. CASE UpdateJobno
  BY <1>6, <1>i, Zenon
     DEF UpdateJobno, Step, mainV, threadV, LocalsOK, FirstSpool
<1>7. CASE UnlinkData
  BY <1>7, <1>i, Zenon
     DEF UnlinkData, Step, mainV, threadV, LocalsOK, FirstSpool
<1>8. CASE UnlinkReq
  BY <1>8, <1>i, Zenon
     DEF UnlinkReq, Step, mainV, threadV, LocalsOK, FirstSpool
<1>9. CASE Crash
  BY <1>9, LifeStep, SMTT(30) DEF Crash
<1>10. ASSUME NEW k \in JobIds, ScanQueue(k) PROVE FirstSpool'
  BY <1>10, <1>i, Zenon DEF ScanQueue, disk, threadV, LocalsOK, FirstSpool
<1>11. ASSUME NEW k \in JobIds, ScanDiscard(k) PROVE FirstSpool'
  BY <1>11, <1>i, Zenon DEF ScanDiscard, threadV, LocalsOK, FirstSpool
<1>12. ASSUME NEW d \in Clients, GetNewJobno(d) PROVE FirstSpool'
  BY <1>12, <1>i, Zenon
     DEF GetNewJobno, Goto, disk, mainV, LocalsOK, FirstSpool
<1>13. ASSUME NEW d \in Clients, CreatData(d) PROVE FirstSpool'
  BY <1>13, <1>i, Zenon
     DEF CreatData, Goto, CreatDataFile, mainV, LocalsOK, FirstSpool
<1>14. ASSUME NEW d \in Clients, CreatReq(d) PROVE FirstSpool'
  BY <1>14, <1>i, Zenon DEF CreatReq, Goto, mainV, LocalsOK, FirstSpool
<1>15. ASSUME NEW d \in Clients, WriteReq(d) PROVE FirstSpool'
  BY <1>15, <1>i, Zenon DEF WriteReq, Goto, mainV, LocalsOK, FirstSpool
<1>16. ASSUME NEW d \in Clients, ThreadUnlinkReq(d) PROVE FirstSpool'
  BY <1>16, <1>i, Zenon DEF ThreadUnlinkReq, Goto, mainV, LocalsOK, FirstSpool
<1>17. ASSUME NEW d \in Clients, ThreadUnlinkData(d) PROVE FirstSpool'
  BY <1>17, <1>i, Zenon DEF ThreadUnlinkData, Goto, mainV, LocalsOK, FirstSpool
<1> QED
  BY <1>1, <1>2, <1>3, <1>4, <1>5, <1>6, <1>7, <1>8, <1>9, <1>10, <1>11, <1>12,
     <1>13, <1>14, <1>15, <1>16, <1>17, Zenon
     DEF Next, Main, ClientThread, PrinterThread, PrintCommand, vars, disk,
         mainV, threadV, WaitForJob, SpuriousWakeup, PickJob, CheckConfig,
         ReloadConfig, OpenData, CancelJob, ConnectPrinter, SendDocument,
         StatusSpins, StatusOk, DeferJob, ReplaceJob, Retry, EditConfig,
         Hangup, ScanSkip, Accept, ReadHeader, HeaderFails, CreatDataFails,
         CopyChunk, CopyFails, CopyEnds, CreatReqFails, WriteReqFails, Respond,
         AddJob, AddJobSignal, RespondError, ClientConnect, ClientSend,
         ClientReceive, ClientDie

\* Until the daemon dies get_newjobno hands out every number once.
LEMMA FirstNumbersStep == IInv /\ FirstLife /\ [Next]_vars => FirstNumbers'
<1> SUFFICES ASSUME IInv, FirstLife, [Next]_vars, crashes = 0, crashes' = 0
             PROVE  FirstNumbers'
  BY LifeStep DEF FirstNumbers
<1>t. /\ jobid \in [Clients -> JobIds \cup {0}]
      /\ nextjob \in Nat \ {0}
  BY BoundAssumption DEF IInv, TypeOK
<1>f. /\ \A c \in Clients : jobid[c] < nextjob
      /\ \A c \in Clients : ~Reissued(c)
  BY DEF FirstLife, FirstNumbers
<1>n. \A c \in Clients : jobid[c] \in Nat
  BY <1>t, BoundAssumption DEF JobIds
<1>1. CASE UNCHANGED <<jobid, nextjob>>
  BY <1>1, <1>f DEF FirstNumbers, Reissued
<1>2. CASE Start
  BY <1>t, <1>2, SMTT(30)
     DEF Start, threadV, FirstLife, FirstSpool, FirstNumbers, Reissued
<1>3. CASE Crash
  BY <1>3, LifeStep, SMTT(30) DEF Crash
<1>4. ASSUME NEW d \in Clients, GetNewJobno(d) PROVE FirstNumbers'
  <2>1. /\ nextjob' = nextjob + 1 /\ jobid'[d] = nextjob
        /\ \A c \in Clients \ {d} : jobid'[c] = jobid[c]
    BY <1>t, <1>4 DEF GetNewJobno
  <2>2. nextjob \in Nat
    BY <1>t
  <2>3. \A c \in Clients : jobid'[c] < nextjob'
    BY <1>n, <1>f, <2>1, <2>2
  <2>4. \A c \in Clients \ {d} : jobid'[c] # jobid'[d]
    BY <1>n, <1>f, <2>1, <2>2
  <2>5. \A c \in Clients : ~Reissued(c)'
    BY <1>f, <2>1, <2>4, Zenon DEF Reissued
  <2> QED
    BY <2>3, <2>5 DEF FirstNumbers
<1> QED
  BY <1>1, <1>2, <1>3, <1>4, Zenon
     DEF Next, Main, ClientThread, PrinterThread, PrintCommand, vars, globals,
         threadV, CreatDataFile, ScanSignal, ScanUnlinkData, ScanDone,
         WaitForJob, SpuriousWakeup, PickJob, UpdateJobno, CheckConfig,
         ReloadConfig, OpenData, CancelJob, ConnectPrinter, SendDocument,
         StatusSpins, StatusOk, UnlinkData, UnlinkReq, DeferJob, ReplaceJob,
         Retry, EditConfig, Hangup, ScanQueue, ScanDiscard, ScanSkip, Accept,
         ReadHeader, HeaderFails, CreatData, CreatDataFails, CopyChunk,
         CopyFails, CopyEnds, CreatReq, CreatReqFails, WriteReq, WriteReqFails,
         Respond, AddJob, AddJobSignal, RespondError, ThreadUnlinkReq,
         ThreadUnlinkData, ClientConnect, ClientSend, ClientReceive, ClientDie

\* Only creat() in client_thread makes a data file.
LEMMA DataMade ==
  ASSUME IInv, [Next]_vars, NEW i \in JobIds,
         dataFile[i] = None, dataFile'[i] # None
  PROVE  \E d \in Clients : CreatData(d) /\ jobid[d] = i
<1> DEFINE Goal == \E d \in Clients : CreatData(d) /\ jobid[d] = i
<1> SUFFICES Goal
  OBVIOUS
<1>t. dataFile \in [JobIds -> Clients \cup {None}]
  BY Zenon DEF IInv, TypeOK
<1>1. CASE UNCHANGED <<dataFile>>
  BY <1>1, Zenon
<1>2. CASE ScanUnlinkData
  BY <1>2, <1>t
     DEF ScanUnlinkData
<1>3. CASE UnlinkData
  BY <1>3, <1>t, Zenon DEF UnlinkData, Step
<1>4. ASSUME NEW d \in Clients, CreatData(d) PROVE Goal
  BY <1>4, <1>t, Zenon DEF CreatData, Goto, CreatDataFile
<1>5. ASSUME NEW d \in Clients, ThreadUnlinkData(d) PROVE Goal
  BY <1>5, <1>t, Zenon DEF ThreadUnlinkData, Goto
<1> QED
  BY <1>1, <1>2, <1>3, <1>4, <1>5, Zenon
     DEF Next, Main, ClientThread, PrinterThread, PrintCommand, vars, disk,
         Start, ScanSignal, ScanDone, WaitForJob, SpuriousWakeup, PickJob,
         UpdateJobno, CheckConfig, ReloadConfig, OpenData, CancelJob,
         ConnectPrinter, SendDocument, StatusSpins, StatusOk, UnlinkReq,
         DeferJob, ReplaceJob, Retry, EditConfig, Hangup, Crash, ScanQueue,
         ScanDiscard, ScanSkip, Accept, ReadHeader, HeaderFails, GetNewJobno,
         CreatDataFails, CopyChunk, CopyFails, CopyEnds, CreatReq,
         CreatReqFails, WriteReq, WriteReqFails, Respond, AddJob, AddJobSignal,
         RespondError, ThreadUnlinkReq, ClientConnect, ClientSend,
         ClientReceive, ClientDie

\* Only creat() and write() in client_thread make a control file.
LEMMA ReqMade ==
  ASSUME IInv, [Next]_vars, NEW i \in JobIds,
         reqFile[i] = None, reqFile'[i] # None
  PROVE  \E d \in Clients : (CreatReq(d) \/ WriteReq(d)) /\ jobid[d] = i
<1> DEFINE Goal == \E d \in Clients : (CreatReq(d) \/ WriteReq(d)) /\ jobid[d] = i
<1> SUFFICES Goal
  OBVIOUS
<1>t. reqFile \in [JobIds -> Clients \cup {None, Partial}]
  BY Zenon DEF IInv, TypeOK
<1>1. CASE UNCHANGED <<reqFile>>
  BY <1>1
<1>2. CASE UnlinkReq
  BY <1>2, <1>t, Zenon DEF UnlinkReq, Step
<1>3. ASSUME NEW k \in JobIds, ScanDiscard(k) PROVE Goal
  BY <1>3, <1>t, Zenon DEF ScanDiscard
<1>4. ASSUME NEW d \in Clients, CreatReq(d) PROVE Goal
  BY <1>4, <1>t, Zenon DEF CreatReq, Goto
<1>5. ASSUME NEW d \in Clients, WriteReq(d) PROVE Goal
  BY <1>5, <1>t, Zenon DEF WriteReq, Goto
<1>6. ASSUME NEW d \in Clients, ThreadUnlinkReq(d) PROVE Goal
  BY <1>6, <1>t, Zenon DEF ThreadUnlinkReq, Goto
<1> QED
  BY <1>1, <1>2, <1>3, <1>4, <1>5, <1>6, Zenon
     DEF Next, Main, ClientThread, PrinterThread, PrintCommand, vars, disk,
         CreatDataFile, Start, ScanSignal, ScanUnlinkData, ScanDone,
         WaitForJob, SpuriousWakeup, PickJob, UpdateJobno, CheckConfig,
         ReloadConfig, OpenData, CancelJob, ConnectPrinter, SendDocument,
         StatusSpins, StatusOk, UnlinkData, DeferJob, ReplaceJob, Retry,
         EditConfig, Hangup, Crash, ScanQueue, ScanSkip, Accept, ReadHeader,
         HeaderFails, GetNewJobno, CreatData, CreatDataFails, CopyChunk,
         CopyFails, CopyEnds, CreatReqFails, WriteReqFails, Respond, AddJob,
         AddJobSignal, RespondError, ThreadUnlinkData, ClientConnect,
         ClientSend, ClientReceive, ClientDie

\* When printer_thread comes to unlink a control file the data file is gone,
\* and nobody makes it again.
LEMMA UnlinkedStep ==
  ASSUME IInv, FirstLife, [Next]_vars, crashes = 0, crashes' = 0,
         ppc' = "unlinkR"
  PROVE  dataFile'[jp'.id] = None
<1> DEFINE Goal == dataFile'[jp'.id] = None
<1> SUFFICES Goal
  OBVIOUS
<1>t. /\ dataFile \in [JobIds -> Clients \cup {None}]
      /\ cpc \in [Clients -> ThreadPlaces]
      /\ jobid \in [Clients -> JobIds \cup {0}]
      /\ jp \in Jobs \cup {None}
  BY Zenon DEF IInv, TypeOK
<1>f. ppc = "unlinkR" => dataFile[jp.id] = None
  BY Zenon DEF FirstLife, FirstFiles
<1>i. LocalsOK
  BY DEF IInv
<1>1. CASE UNCHANGED <<ppc, jp, dataFile>>
  BY <1>1, <1>f, Zenon
<1>2. CASE Start
  BY <1>2, <1>f, Zenon DEF Start, disk
<1>3. CASE ScanSignal
  BY <1>3, <1>f, Zenon DEF ScanSignal, SignalJobwait, disk
<1>4. CASE ScanUnlinkData
  BY <1>4 DEF ScanUnlinkData, FirstLife, FirstScan
<1>5. CASE WaitForJob
  BY <1>5, <1>f, Zenon DEF WaitForJob, Step, disk
<1>6. CASE SpuriousWakeup
  BY <1>6, <1>f
     DEF SpuriousWakeup, Step, disk
<1>7. CASE PickJob
  BY <1>7, <1>f
     DEF PickJob, Step, disk
<1>8. CASE UpdateJobno
  BY <1>8, <1>f
     DEF UpdateJobno, Step
<1>9. CASE CheckConfig
  BY <1>9, <1>f
     DEF CheckConfig, disk
<1>10. CASE ReloadConfig
  BY <1>10, <1>f
     DEF ReloadConfig, Step, disk
<1>11. CASE OpenData
  BY <1>11, <1>f
     DEF OpenData, Step, disk
<1>12. CASE CancelJob
  BY <1>12, <1>f, Zenon DEF CancelJob, Step, disk
<1>13. CASE ConnectPrinter
  BY <1>13, <1>f
     DEF ConnectPrinter, Step, disk
<1>14. CASE SendDocument
  BY <1>14, <1>f
     DEF SendDocument, Step, disk
<1>25. CASE StatusSpins
  BY <1>25, <1>f
     DEF StatusSpins, disk
<1>15. CASE StatusOk
  BY <1>15, <1>f, Zenon DEF StatusOk, Step, disk
<1>16. CASE UnlinkData
  <2>1. jp \in Jobs /\ jp' = jp /\ jp.id \in JobIds
    BY <1>t, <1>i, <1>16, JobFields, Zenon
       DEF UnlinkData, Step, LocalsOK, HoldsJob
  <2> QED
    BY <1>t, <2>1, <1>16 DEF UnlinkData
<1>17. CASE UnlinkReq
  BY <1>17, <1>f
     DEF UnlinkReq, Step
<1>18. CASE DeferJob
  BY <1>18, <1>f
     DEF DeferJob, disk
<1>19. CASE ReplaceJob
  BY <1>19, <1>f
     DEF ReplaceJob, Step, disk
<1>20. CASE Retry
  BY <1>20, <1>f
     DEF Retry, Step, disk
<1>21. CASE Crash
  BY <1>21, Zenon DEF Crash
<1>22. ASSUME NEW d \in Clients, CreatData(d) PROVE Goal
  <2>1. ppc = "unlinkR" /\ jp' = jp /\ jp \in Jobs
    BY <1>t, <1>i, <1>22, Zenon
       DEF CreatData, CreatDataFile, LocalsOK, HoldsJob
  <2>2. jp.id \in JobIds /\ jp.req \in Clients /\ JobOK(jp)
    BY <2>1, JobFields DEF IInv, JobsOK
  <2>3. jp.req # d
    BY <2>2, <1>22, Zenon DEF JobOK, CreatData, Goto
  <2>4. jobid[d] # jp.id
    BY <2>2, <2>3, ZeroIsNoId, Zenon
       DEF JobOK, FirstLife, FirstNumbers, Reissued
  <2> QED
    BY <1>t, <1>f, <2>1, <2>2, <2>4, <1>22, Zenon DEF CreatData, CreatDataFile
<1>23. ASSUME NEW d \in Clients, AddJobSignal(d) PROVE Goal
  BY <1>23, <1>f, Zenon DEF AddJobSignal, Goto, SignalJobwait, disk
<1>24. ASSUME NEW d \in Clients, ThreadUnlinkData(d) PROVE Goal
  <2>1. ppc = "unlinkR" /\ jp' = jp /\ jp \in Jobs
    BY <1>t, <1>i, <1>24, Zenon
       DEF ThreadUnlinkData, printV, LocalsOK, HoldsJob
  <2>2. jp.id \in JobIds
    BY <2>1, JobFields
  <2> QED
    BY <1>t, <1>f, <2>1, <2>2, <1>24 DEF ThreadUnlinkData
<1> QED
  BY <1>1, <1>2, <1>3, <1>4, <1>5, <1>6, <1>7, <1>8, <1>9, <1>10, <1>11,
     <1>12, <1>13, <1>14, <1>15, <1>16, <1>17, <1>18, <1>19, <1>20, <1>21,
     <1>22, <1>23, <1>24, <1>25, Zenon
     DEF Next, Main, ClientThread, PrinterThread, PrintCommand, vars, disk,
         printV, ScanDone, EditConfig, Hangup, ScanQueue, ScanDiscard,
         ScanSkip, Accept, ReadHeader, HeaderFails, GetNewJobno,
         CreatDataFails, CopyChunk, CopyFails, CopyEnds, CreatReq,
         CreatReqFails, WriteReq, WriteReqFails, Respond, AddJob,
         RespondError, ThreadUnlinkReq, ClientConnect, ClientSend,
         ClientReceive, ClientDie

\* Every file keeps its owner: whoever lets go of a file has handed the job
\* on or has unlinked the file.
LEMMA FirstFilesStep == IInv /\ FirstLife /\ [Next]_vars => FirstFiles'
<1> SUFFICES ASSUME IInv, FirstLife, [Next]_vars, crashes = 0, crashes' = 0
             PROVE  FirstFiles'
  BY LifeStep, Zenon DEF FirstFiles
<1>t. /\ dataFile \in [JobIds -> Clients \cup {None}]
      /\ reqFile \in [JobIds -> Clients \cup {None, Partial}]
      /\ cpc \in [Clients -> ThreadPlaces]
      /\ jobid \in [Clients -> JobIds \cup {0}]
      /\ queue \in Seq(Jobs)
  BY Zenon DEF IInv, TypeOK
<1>a. ASSUME NEW c \in Clients, AddJob(c), jobid[c] \in JobIds PROVE Kept(c)'
  <2>1. [id |-> jobid[c], req |-> c] \in Jobs
    BY <1>a, JobFields
  <2>2. Member(queue', [id |-> jobid[c], req |-> c]) /\ jobid' = jobid
    BY <1>t, <1>a, <2>1, AppendMember, SMTT(30) DEF AddJob
  <2> QED
    BY <2>2 DEF Kept, InQueue, Job
<1>d. ASSUME NEW i \in JobIds, dataFile'[i] # None
      PROVE  \E c \in Clients :
               jobid'[c] = i /\ (cpc'[c] \in KeepsData \/ Kept(c)')
  <2>1. CASE dataFile[i] = None
    <3>1. PICK d \in Clients : CreatData(d) /\ jobid[d] = i
      BY <1>d, <2>1, DataMade
    <3>2. jobid'[d] = i /\ cpc'[d] \in KeepsData
      BY <1>t, <3>1 DEF CreatData, Goto, KeepsData
    <3> QED
      BY <3>2
  <2>2. CASE dataFile[i] # None
    <3>1. mpc # "off"
      BY <2>2 DEF FirstLife, FirstSpool
    <3>2. PICK c \in Clients : jobid[c] = i /\ (cpc[c] \in KeepsData \/ Kept(c))
      BY <2>2, Zenon DEF FirstLife, FirstFiles
    <3>3. /\ jobid'[c] = i
          /\ Kept(c) => Kept(c)' \/ (UnlinkReq /\ jp = Job(c))
      BY <3>1, <3>2, KeptStep, Zenon
    <3>4. cpc[c] \in KeepsData =>
            cpc'[c] \in KeepsData \/ AddJob(c) \/ ThreadUnlinkData(c)
      BY KeeperStep, Zenon
    <3>5. ~(UnlinkReq /\ jp = Job(c))
      <4>1. jp = Job(c) => jp.id = i
        BY <3>2, SMTT(30) DEF Job
      <4> QED
        BY <2>2, <4>1, Zenon DEF UnlinkReq, Step, FirstLife, FirstFiles
    <3>6. ~ThreadUnlinkData(c)
      BY <1>t, <1>d, <3>2 DEF ThreadUnlinkData
    <3>7. AddJob(c) => Kept(c)'
      BY <1>a, <3>2, Zenon
    <3> QED
      BY <3>2, <3>3, <3>4, <3>5, <3>6, <3>7, Zenon
  <2> QED
    BY <2>1, <2>2
<1>r. ASSUME NEW i \in JobIds, reqFile'[i] # None
      PROVE  \E c \in Clients :
               jobid'[c] = i /\ (cpc'[c] \in KeepsReq \/ Kept(c)')
  <2>1. CASE reqFile[i] = None
    <3>1. PICK d \in Clients : (CreatReq(d) \/ WriteReq(d)) /\ jobid[d] = i
      BY <1>r, <2>1, ReqMade, Zenon
    <3>2. jobid'[d] = i /\ cpc'[d] \in KeepsReq
      BY <1>t, <3>1, Zenon DEF CreatReq, WriteReq, Goto, KeepsReq
    <3> QED
      BY <3>2
  <2>2. CASE reqFile[i] # None
    <3>1. mpc # "off"
      BY <2>2 DEF FirstLife, FirstSpool
    <3>2. PICK c \in Clients : jobid[c] = i /\ (cpc[c] \in KeepsReq \/ Kept(c))
      BY <2>2, Zenon DEF FirstLife, FirstFiles
    <3>3. /\ jobid'[c] = i
          /\ Kept(c) => Kept(c)' \/ (UnlinkReq /\ jp = Job(c))
      BY <3>1, <3>2, KeptStep, Zenon
    <3>4. cpc[c] \in KeepsReq =>
            cpc'[c] \in KeepsReq \/ AddJob(c) \/ ThreadUnlinkReq(c)
      BY KeeperStep, Zenon
    <3>5. ~(UnlinkReq /\ jp = Job(c))
      <4>1. jp = Job(c) => jp.id = i
        BY <3>2, SMTT(30) DEF Job
      <4> QED
        BY <1>t, <1>r, <4>1 DEF UnlinkReq
    <3>6. ~ThreadUnlinkReq(c)
      BY <1>t, <1>r, <3>2 DEF ThreadUnlinkReq
    <3>7. AddJob(c) => Kept(c)'
      BY <1>a, <3>2, Zenon
    <3> QED
      BY <3>2, <3>3, <3>4, <3>5, <3>6, <3>7, Zenon
  <2> QED
    BY <2>1, <2>2
<1> QED
  BY <1>d, <1>r, UnlinkedStep, Zenon DEF FirstFiles

\* Until the daemon dies, every file in the spool directory is some thread's
\* business: the error paths of client_thread and the success path of
\* printer_thread leave nothing behind.
THEOREM NothingLeftBehind == Spec => []FilesHaveOwner
<1>1. Init => FirstLife
  BY BoundAssumption, SMTT(30)
     DEF Init, FirstLife, FirstScan, FirstSpool, FirstNumbers, FirstFiles,
         Reissued
<1>2. IInv /\ FirstLife /\ [Next]_vars => FirstLife'
  BY FirstScanStep, FirstSpoolStep, FirstNumbersStep, FirstFilesStep
     DEF FirstLife
<1>3. FirstLife => FilesHaveOwner
  BY Zenon
     DEF FirstLife, FirstFiles, FilesHaveOwner, Kept, KeepsData, KeepsReq,
         ThreadPlaces
<1> QED
  BY Invariance, <1>1, <1>2, <1>3, PTL DEF Spec
=============================================================================
