----------------------------- MODULE PrintSpool -----------------------------
(***************************************************************************)
(* The print spooler of c/edu/apue.3e/printer: the daemon printd (main     *)
(* thread, one client_thread per connection, printer_thread,               *)
(* signal_thread), its spool directory, and the print command that talks   *)
(* to it.                                                                  *)
(*                                                                         *)
(* A client c is one run of the print command; its document is c itself,   *)
(* sent as one header message and Chunks data messages.  A data file that  *)
(* holds c stands for the chunks of c's document stored so far.  Critical  *)
(* sections under joblock and configlock touch no file or socket and are   *)
(* single steps; every file and socket call is a step of its own, so that  *)
(* the daemon may die between any two of them.                             *)
(***************************************************************************)
EXTENDS Integers, Sequences, TLC

CONSTANTS
  Clients,    \* runs of the print command
  None,       \* no file, no job, no document
  Partial,    \* a control file shorter than struct printreq
  MaxJobId,   \* bound: job numbers handed out are 1..MaxJobId (no wrap)
  Chunks,     \* data messages per document
  MaxCrash,   \* bound: how often the daemon dies
  MaxConf     \* bound: versions of the configuration file

ASSUME BoundAssumption ==
  /\ MaxJobId \in Nat /\ Chunks \in Nat
  /\ MaxCrash \in Nat /\ MaxConf \in Nat \ {0}

JobIds == 1..MaxJobId
Jobs == [id : JobIds, req : Clients]

ASSUME NoneAssumption == None \notin Clients /\ None \notin Jobs
ASSUME PartialAssumption == Partial \notin Clients \cup {None}

VARIABLES
  \* the spool directory and the configuration file, which outlive the daemon
  dataFile, reqFile, jobFile, confFile,
  \* the daemon's globals
  nextjob, queue, reread, printer,
  \* main: its place, the directory entries left to read, the one in hand
  mpc, toScan, mjob,
  \* the client threads: their place, and the job number each client got
  cpc, jobid,
  \* printer_thread: its place, its job, the document its open file reads
  ppc, jp, fd,
  \* the print commands: their place, messages sent, messages the daemon
  \* read, the response on the socket
  cli, sent, got, resp,
  \* history: documents the printer reported as printed, jobs discarded on a
  \* read error, jobs dropped since start-up, configuration at the last
  \* SIGHUP, deaths of the daemon
  confirmed, discarded, dropped, hupConf, crashes

disk    == <<dataFile, reqFile, jobFile, confFile>>
globals == <<nextjob, queue, reread, printer>>
mainV   == <<mpc, toScan, mjob>>
threadV == <<cpc, jobid>>
printV  == <<ppc, jp, fd>>
clientV == <<cli, sent, got, resp>>
history == <<confirmed, discarded, dropped, hupConf, crashes>>
vars == <<disk, globals, mainV, threadV, printV, clientV, history>>

MainPlaces == {"off", "scan", "unlinkD", "signal", "accept"}
ThreadPlaces ==
  {"none", "header", "number", "creatD", "read", "creatR", "writeR",
   "respond", "add", "signal", "err", "errD", "errR", "unlinkR",
   "unlinkD", "done"}
PrinterPlaces ==
  {"off", "get", "wait", "jobno", "conf", "reload", "open", "connect",
   "send", "status", "spin", "unlinkD", "unlinkR", "defer", "sleep"}
ClientPlaces ==
  {"idle", "connected", "accepted", "rejected", "died", "lost"}

TypeOK ==
  /\ dataFile \in [JobIds -> Clients \cup {None}]
  /\ reqFile \in [JobIds -> Clients \cup {None, Partial}]
  /\ jobFile \in 0..(MaxJobId + 1)
  /\ confFile \in 1..MaxConf
  /\ nextjob \in 1..(MaxJobId + 1)
  /\ queue \in Seq(Jobs)
  /\ reread \in BOOLEAN
  /\ printer \in 0..MaxConf
  /\ mpc \in MainPlaces
  /\ toScan \in SUBSET JobIds
  /\ mjob \in JobIds \cup {0}
  /\ cpc \in [Clients -> ThreadPlaces]
  /\ jobid \in [Clients -> JobIds \cup {0}]
  /\ ppc \in PrinterPlaces
  /\ jp \in Jobs \cup {None}
  /\ fd \in Clients \cup {None}
  /\ cli \in [Clients -> ClientPlaces]
  /\ sent \in [Clients -> 0..(Chunks + 1)]
  /\ got \in [Clients -> 0..(Chunks + 1)]
  /\ resp \in [Clients -> {"none", "ok", "err"}]
  /\ confirmed \in SUBSET Clients
  /\ discarded \in SUBSET Clients
  /\ dropped \in SUBSET Clients
  /\ hupConf \in 0..MaxConf
  /\ crashes \in 0..MaxCrash

Init ==
  /\ dataFile = [i \in JobIds |-> None]
  /\ reqFile = [i \in JobIds |-> None]
  /\ jobFile = 0                          \* an empty job ID file
  /\ confFile = 1
  /\ nextjob = 1 /\ queue = <<>> /\ reread = FALSE /\ printer = 0
  /\ mpc = "off" /\ toScan = {} /\ mjob = 0
  /\ cpc = [c \in Clients |-> "none"]
  /\ jobid = [c \in Clients |-> 0]
  /\ ppc = "off" /\ jp = None /\ fd = None
  /\ cli = [c \in Clients |-> "idle"]
  /\ sent = [c \in Clients |-> 0]
  /\ got = [c \in Clients |-> 0]
  /\ resp = [c \in Clients |-> "none"]
  /\ confirmed = {} /\ discarded = {} /\ dropped = {} /\ hupConf = 0 /\ crashes = 0

-----------------------------------------------------------------------------
(* Shared helpers of the daemon's threads. *)

\* pthread_cond_signal(&jobwait): only printer_thread ever waits on it.
SignalJobwait == ppc' = IF ppc = "wait" THEN "get" ELSE ppc

\* creat() of c's data file: a file of that name is truncated in place, so a
\* printer_thread that has it open and has yet to send it reads the new one.
CreatDataFile(c) ==
  /\ dataFile' = [dataFile EXCEPT ![jobid[c]] = c]
  /\ fd' = IF ppc \in {"connect", "send"} /\ jp.id = jobid[c] THEN c ELSE fd

-----------------------------------------------------------------------------
(* main: start-up, build_qonstart, the accept loop. *)

\* init_request (the job number comes from the job ID file), init_printer,
\* creation of printer_thread and signal_thread, opendir of build_qonstart.
Start ==
  /\ mpc = "off"
  /\ nextjob' = IF jobFile = 0 THEN 1 ELSE jobFile
  /\ printer' = confFile
  /\ mpc' = "scan"
  /\ toScan' = {i \in JobIds : reqFile[i] # None}
  /\ ppc' = "get"
  /\ dropped' = {}
  /\ UNCHANGED <<disk, queue, reread, mjob, threadV, jp, fd, clientV,
                 confirmed, discarded, hupConf, crashes>>

\* build_qonstart, a control file read in full: first half of add_job.
ScanQueue(i) ==
  /\ mpc = "scan" /\ i \in toScan
  /\ reqFile[i] \in Clients
  /\ queue' = Append(queue, [id |-> i, req |-> reqFile[i]])
  /\ toScan' = toScan \ {i}
  /\ mpc' = "signal"
  /\ UNCHANGED <<disk, nextjob, reread, printer, mjob, threadV, printV,
                 clientV, history>>

\* Wrong variant: the signal is forgotten.
ScanSignalLost ==
  /\ mpc = "signal"
  /\ mpc' = "scan"
  /\ UNCHANGED <<disk, globals, toScan, mjob, threadV, printV, clientV,
                 history>>

\* Second half of add_job, called from build_qonstart.
ScanSignal ==
  /\ mpc = "signal"
  /\ SignalJobwait
  /\ mpc' = "scan"
  /\ UNCHANGED <<disk, globals, toScan, mjob, threadV, jp, fd, clientV,
                 history>>

\* build_qonstart, a control file that is short or cannot be read: the
\* control file goes first, the data file next.
ScanDiscard(i) ==
  /\ mpc = "scan" /\ i \in toScan
  /\ discarded' = discarded \cup ({reqFile[i]} \cap Clients)
  /\ reqFile' = [reqFile EXCEPT ![i] = None]
  /\ toScan' = toScan \ {i}
  /\ mjob' = i
  /\ mpc' = "unlinkD"
  /\ UNCHANGED <<dataFile, jobFile, confFile, globals, threadV, printV,
                 clientV, confirmed, dropped, hupConf, crashes>>

ScanUnlinkData ==
  /\ mpc = "unlinkD"
  /\ dataFile' = [dataFile EXCEPT ![mjob] = None]
  /\ mjob' = 0
  /\ mpc' = "scan"
  /\ UNCHANGED <<reqFile, jobFile, confFile, globals, toScan, threadV, printV,
                 clientV, history>>

\* build_qonstart, the control file (or the directory) cannot be opened.
ScanSkip(i) ==
  /\ mpc = "scan" /\ i \in toScan
  /\ dropped' = dropped \cup ({reqFile[i]} \cap Clients)
  /\ toScan' = toScan \ {i}
  /\ UNCHANGED <<disk, globals, mpc, mjob, threadV, printV, clientV,
                 confirmed, discarded, hupConf, crashes>>

ScanDone ==
  /\ mpc = "scan" /\ toScan = {}
  /\ mpc' = "accept"
  /\ UNCHANGED <<disk, globals, toScan, mjob, threadV, printV, clientV,
                 history>>

\* The accept loop: a thread per connection, add_worker included.  A client
\* that died after connecting is accepted like any other.
Accept(c) ==
  /\ mpc = "accept"
  /\ cli[c] \in {"connected", "died"} /\ cpc[c] = "none"
  /\ cpc' = [cpc EXCEPT ![c] = "header"]
  /\ UNCHANGED <<disk, globals, mainV, jobid, printV, clientV, history>>

-----------------------------------------------------------------------------
(* client_thread, one step per call that another thread, the client or a    *)
(* restarted daemon can see.                                                *)

Goto(c, from, to) == cpc[c] = from /\ cpc' = [cpc EXCEPT ![c] = to]

\* treadn() returned the whole request header.
ReadHeader(c) ==
  /\ Goto(c, "header", "number")
  /\ sent[c] > 0
  /\ got' = [got EXCEPT ![c] = 1]
  /\ UNCHANGED <<disk, globals, mainV, jobid, printV, cli, sent, resp,
                 history>>

\* Wrong variant: a read without the timeout.
HeaderFailsAtEof(c) ==
  /\ Goto(c, "header", "err")
  /\ sent[c] = 0 /\ cli[c] = "died"
  /\ UNCHANGED <<disk, globals, mainV, jobid, printV, clientV, history>>

\* treadn() timed out after 10 s or met end of file.
HeaderFails(c) ==
  /\ Goto(c, "header", "err")
  /\ sent[c] = 0
  /\ UNCHANGED <<disk, globals, mainV, jobid, printV, clientV, history>>

\* get_newjobno, bounded: the counter does not wrap here.
GetNewJobno(c) ==
  /\ Goto(c, "number", "creatD")
  /\ nextjob <= MaxJobId
  /\ jobid' = [jobid EXCEPT ![c] = nextjob]
  /\ nextjob' = nextjob + 1
  /\ UNCHANGED <<disk, queue, reread, printer, mainV, printV, clientV,
                 history>>

CreatData(c) ==
  /\ Goto(c, "creatD", "read")
  /\ CreatDataFile(c)
  /\ UNCHANGED <<reqFile, jobFile, confFile, globals, mainV, jobid, ppc, jp,
                 clientV, history>>

CreatDataFails(c) ==
  /\ Goto(c, "creatD", "err")
  /\ UNCHANGED <<disk, globals, mainV, jobid, printV, clientV, history>>

\* The copy loop: tread() returned data and write() stored it.
CopyChunk(c) ==
  /\ cpc[c] = "read" /\ got[c] < sent[c]
  /\ got' = [got EXCEPT ![c] = @ + 1]
  /\ UNCHANGED <<disk, globals, mainV, threadV, printV, cli, sent, resp,
                 history>>

\* tread() returned data and write() stored less of it.
CopyFails(c) ==
  /\ Goto(c, "read", "errD")
  /\ got[c] < sent[c]
  /\ UNCHANGED <<disk, globals, mainV, jobid, printV, clientV, history>>

\* tread() returned 0 (end of file) or -1 (nothing came for 20 s): the loop
\* ends in the same way, and req.size is not looked at.
CopyEnds(c) ==
  /\ Goto(c, "read", "creatR")
  /\ got[c] = sent[c]
  /\ UNCHANGED <<disk, globals, mainV, jobid, printV, clientV, history>>

CreatReq(c) ==
  /\ Goto(c, "creatR", "writeR")
  /\ reqFile' = [reqFile EXCEPT ![jobid[c]] = Partial]
  /\ UNCHANGED <<dataFile, jobFile, confFile, globals, mainV, jobid, printV,
                 clientV, history>>

CreatReqFails(c) ==
  /\ Goto(c, "creatR", "errD")
  /\ UNCHANGED <<disk, globals, mainV, jobid, printV, clientV, history>>

WriteReq(c) ==
  /\ Goto(c, "writeR", "respond")
  /\ reqFile' = [reqFile EXCEPT ![jobid[c]] = c]
  /\ UNCHANGED <<dataFile, jobFile, confFile, globals, mainV, jobid, printV,
                 clientV, history>>

WriteReqFails(c) ==
  /\ Goto(c, "writeR", "errR")
  /\ UNCHANGED <<disk, globals, mainV, jobid, printV, clientV, history>>

\* The success response, written before the job is queued.
Respond(c) ==
  /\ Goto(c, "respond", "add")
  /\ resp' = [resp EXCEPT ![c] = "ok"]
  /\ UNCHANGED <<disk, globals, mainV, jobid, printV, cli, sent, got, history>>

\* Wrong variant: the number is taken from the shared counter, not from the
\* thread's own request.
AddJobLatest(c) ==
  /\ Goto(c, "add", "signal")
  /\ queue' = Append(queue, [id |-> nextjob - 1, req |-> c])
  /\ UNCHANGED <<disk, nextjob, reread, printer, mainV, jobid, printV,
                 clientV, history>>

\* add_job up to the unlock of joblock.
AddJob(c) ==
  /\ Goto(c, "add", "signal")
  /\ queue' = Append(queue, [id |-> jobid[c], req |-> c])
  /\ UNCHANGED <<disk, nextjob, reread, printer, mainV, jobid, printV,
                 clientV, history>>

\* Wrong variant: the signal is forgotten.
AddJobSilent(c) ==
  /\ Goto(c, "signal", "done")
  /\ UNCHANGED <<disk, globals, mainV, jobid, printV, clientV, history>>

\* pthread_cond_signal of add_job, after the unlock; then client_cleanup.
AddJobSignal(c) ==
  /\ Goto(c, "signal", "done")
  /\ SignalJobwait
  /\ UNCHANGED <<disk, globals, mainV, jobid, jp, fd, clientV, history>>

\* Wrong variant: the data file stays when the copy fails.
AfterErrorKeepData ==
  [err |-> "done", errD |-> "done", errR |-> "unlinkR"]

\* The error paths: the error response goes out first, then the files made
\* so far are unlinked, control file before data file.
AfterErrorResponse ==
  [err |-> "done", errD |-> "unlinkD", errR |-> "unlinkR"]

RespondError(c) ==
  /\ cpc[c] \in DOMAIN AfterErrorResponse
  /\ cpc' = [cpc EXCEPT ![c] = AfterErrorResponse[@]]
  /\ resp' = [resp EXCEPT ![c] = "err"]
  /\ UNCHANGED <<disk, globals, mainV, jobid, printV, cli, sent, got, history>>

ThreadUnlinkReq(c) ==
  /\ Goto(c, "unlinkR", "unlinkD")
  /\ reqFile' = [reqFile EXCEPT ![jobid[c]] = None]
  /\ UNCHANGED <<dataFile, jobFile, confFile, globals, mainV, jobid, printV,
                 clientV, history>>

ThreadUnlinkData(c) ==
  /\ Goto(c, "unlinkD", "done")
  /\ dataFile' = [dataFile EXCEPT ![jobid[c]] = None]
  /\ UNCHANGED <<reqFile, jobFile, confFile, globals, mainV, jobid, printV,
                 clientV, history>>

-----------------------------------------------------------------------------
(* printer_thread. *)

Step(from, to) == ppc = from /\ ppc' = to

\* pthread_cond_wait: joblock is released and the wait begins in one step.
WaitForJob ==
  /\ Step("get", "wait")
  /\ queue = <<>>
  /\ UNCHANGED <<disk, globals, mainV, threadV, jp, fd, clientV, history>>

\* POSIX lets pthread_cond_wait return without a signal.
SpuriousWakeup ==
  /\ Step("wait", "get")
  /\ UNCHANGED <<disk, globals, mainV, threadV, jp, fd, clientV, history>>

\* Wrong variant: the job is not unlinked from the list.
PickJobKeep ==
  /\ Step("get", "jobno")
  /\ queue # <<>>
  /\ jp' = Head(queue)
  /\ UNCHANGED <<disk, globals, mainV, threadV, fd, clientV, history>>

\* remove_job of the head of the list.
PickJob ==
  /\ Step("get", "jobno")
  /\ queue # <<>>
  /\ jp' = Head(queue)
  /\ queue' = Tail(queue)
  /\ UNCHANGED <<disk, nextjob, reread, printer, mainV, threadV, fd, clientV,
                 history>>

\* Wrong variant: one number too many is skipped.
UpdateJobnoAhead ==
  /\ Step("jobno", "conf")
  /\ jobFile' = nextjob + 1
  /\ UNCHANGED <<dataFile, reqFile, confFile, globals, mainV, threadV, jp, fd,
                 clientV, history>>

\* update_jobno: nextjob is read without joblock.
UpdateJobno ==
  /\ Step("jobno", "conf")
  /\ jobFile' = nextjob
  /\ UNCHANGED <<dataFile, reqFile, confFile, globals, mainV, threadV, jp, fd,
                 clientV, history>>

\* Wrong variant: the flag is cleared and the file not read again.
CheckConfigForget ==
  /\ Step("conf", "open")
  /\ reread' = FALSE
  /\ UNCHANGED <<disk, nextjob, queue, printer, mainV, threadV, jp, fd,
                 clientV, history>>

\* The check of reread under configlock; printer becomes NULL (0).
CheckConfig ==
  /\ ppc = "conf"
  /\ IF reread
       THEN /\ reread' = FALSE
            /\ printer' = 0
            /\ ppc' = "reload"
       ELSE /\ ppc' = "open"
            /\ UNCHANGED <<reread, printer>>
  /\ UNCHANGED <<disk, nextjob, queue, mainV, threadV, jp, fd, clientV,
                 history>>

\* init_printer, outside configlock.  Its exit(1) is a Crash.
ReloadConfig ==
  /\ Step("reload", "open")
  /\ printer' = confFile
  /\ UNCHANGED <<disk, nextjob, queue, reread, mainV, threadV, jp, fd,
                 clientV, history>>

OpenData ==
  /\ Step("open", "connect")
  /\ dataFile[jp.id] # None
  /\ fd' = dataFile[jp.id]
  /\ UNCHANGED <<disk, globals, mainV, threadV, jp, clientV, history>>

\* open() or fstat() failed, because the file is gone or for another reason:
\* the job is freed, the spool files stay.
CancelJob ==
  /\ Step("open", "get")
  /\ dropped' = dropped \cup {jp.req}
  /\ jp' = None
  /\ UNCHANGED <<disk, globals, mainV, threadV, fd, clientV, confirmed,
                 discarded, hupConf, crashes>>

ConnectPrinter ==
  /\ Step("connect", "send")
  /\ UNCHANGED <<disk, globals, mainV, threadV, jp, fd, clientV, history>>

\* Wrong variant: the files go before printer_status has been asked.
SendDocumentUnlink ==
  /\ Step("send", "unlinkD")
  /\ UNCHANGED <<disk, globals, mainV, threadV, jp, fd, clientV, history>>

SendDocument ==
  /\ Step("send", "status")
  /\ UNCHANGED <<disk, globals, mainV, threadV, jp, fd, clientV, history>>

\* printer_status returned 1.
StatusOk ==
  /\ Step("status", "unlinkD")
  /\ confirmed' = confirmed \cup {fd}
  /\ UNCHANGED <<disk, globals, mainV, threadV, jp, fd, clientV, discarded,
                 dropped, hupConf, crashes>>

\* printer_status does not return: its search for the end of the header stops
\* short of the data read so far, and reads no more (module PrinterStatus).
StatusSpins ==
  /\ ppc \in {"status", "spin"} /\ ppc' = "spin"
  /\ UNCHANGED <<disk, globals, mainV, threadV, jp, fd, clientV, history>>

\* Wrong variant: the name of the control file is made first.
UnlinkReqTwice ==
  /\ Step("unlinkD", "unlinkR")
  /\ reqFile' = [reqFile EXCEPT ![jp.id] = None]
  /\ UNCHANGED <<dataFile, jobFile, confFile, globals, mainV, threadV, jp, fd,
                 clientV, history>>

UnlinkData ==
  /\ Step("unlinkD", "unlinkR")
  /\ dataFile' = [dataFile EXCEPT ![jp.id] = None]
  /\ UNCHANGED <<reqFile, jobFile, confFile, globals, mainV, threadV, jp, fd,
                 clientV, history>>

\* The control file goes last; then free(jp) and close(fd).
UnlinkReq ==
  /\ Step("unlinkR", "get")
  /\ reqFile' = [reqFile EXCEPT ![jp.id] = None]
  /\ jp' = None
  /\ fd' = None
  /\ UNCHANGED <<dataFile, jobFile, confFile, globals, mainV, threadV,
                 clientV, history>>

\* No connection, a failed write or read, or printer_status returned 0.
DeferJob ==
  /\ ppc \in {"connect", "send", "status"}
  /\ ppc' = "defer"
  /\ fd' = None
  /\ UNCHANGED <<disk, globals, mainV, threadV, jp, clientV, history>>

\* Wrong variants: the job is lost, or goes to the tail of the list.
ReplaceJobLost ==
  /\ Step("defer", "sleep")
  /\ jp' = None
  /\ UNCHANGED <<disk, globals, mainV, threadV, fd, clientV, history>>

ReplaceJobTail ==
  /\ Step("defer", "sleep")
  /\ queue' = Append(queue, jp)
  /\ jp' = None
  /\ UNCHANGED <<disk, nextjob, reread, printer, mainV, threadV, fd, clientV,
                 history>>

\* replace_job: back on the head of the list.
ReplaceJob ==
  /\ Step("defer", "sleep")
  /\ queue' = <<jp>> \o queue
  /\ jp' = None
  /\ UNCHANGED <<disk, nextjob, reread, printer, mainV, threadV, fd, clientV,
                 history>>

\* nanosleep of one minute is over.
Retry ==
  /\ Step("sleep", "get")
  /\ UNCHANGED <<disk, globals, mainV, threadV, jp, fd, clientV, history>>

-----------------------------------------------------------------------------
(* signal_thread, the administrator, and the death of the daemon. *)

EditConfig ==
  /\ confFile < MaxConf
  /\ confFile' = confFile + 1
  /\ UNCHANGED <<dataFile, reqFile, jobFile, globals, mainV, threadV, printV,
                 clientV, history>>

\* SIGHUP.  (It changes nothing when it repeats an earlier one.)
Hangup ==
  /\ mpc # "off"
  /\ hupConf < confFile
  /\ reread' = TRUE
  /\ hupConf' = confFile
  /\ UNCHANGED <<disk, nextjob, queue, printer, mainV, threadV, printV,
                 clientV, confirmed, discarded, dropped, crashes>>

\* SIGTERM (kill_workers and exit), log_sys or log_quit in any thread, the
\* exit(1) of init_printer, or a kill: all threads stop where they are.  A
\* client that has no response on its socket yet will not get one.
Crash ==
  /\ mpc # "off" /\ crashes < MaxCrash
  /\ crashes' = crashes + 1
  /\ nextjob' = 1 /\ queue' = <<>> /\ reread' = FALSE /\ printer' = 0
  /\ mpc' = "off" /\ toScan' = {} /\ mjob' = 0
  /\ cpc' = [c \in Clients |-> IF cli[c] = "idle" THEN "none" ELSE "done"]
  /\ ppc' = "off" /\ jp' = None /\ fd' = None
  /\ cli' = [c \in Clients |->
       IF cli[c] = "connected" /\ resp[c] = "none" THEN "lost" ELSE cli[c]]
  /\ UNCHANGED <<disk, jobid, sent, got, resp, confirmed, discarded, dropped,
                 hupConf>>

-----------------------------------------------------------------------------
(* The print command: main and submit_file. *)

\* connect_retry succeeded: the daemon listens before it scans its spool.
ClientConnect(c) ==
  /\ mpc # "off"
  /\ cli[c] = "idle"
  /\ cli' = [cli EXCEPT ![c] = "connected"]
  /\ UNCHANGED <<disk, globals, mainV, threadV, printV, sent, got, resp,
                 history>>

\* writen() of the header, then of each buffer of the file.
ClientSend(c) ==
  /\ cli[c] = "connected" /\ sent[c] < Chunks + 1
  /\ sent' = [sent EXCEPT ![c] = @ + 1]
  /\ UNCHANGED <<disk, globals, mainV, threadV, printV, cli, got, resp,
                 history>>

\* readn() of the response, once the whole file is sent.
ClientReceive(c) ==
  /\ cli[c] = "connected" /\ sent[c] = Chunks + 1
  /\ resp[c] # "none"
  /\ cli' = [cli EXCEPT ![c] = IF resp[c] = "ok" THEN "accepted"
                                                 ELSE "rejected"]
  /\ UNCHANGED <<disk, globals, mainV, threadV, printV, sent, got, resp,
                 history>>

\* err_sys, err_quit, a broken pipe, or a kill: the socket is closed.
ClientDie(c) ==
  /\ cli[c] = "connected"
  /\ cli' = [cli EXCEPT ![c] = "died"]
  /\ UNCHANGED <<disk, globals, mainV, threadV, printV, sent, got, resp,
                 history>>

-----------------------------------------------------------------------------
Main ==
  \/ Start \/ ScanSignal \/ ScanUnlinkData \/ ScanDone
  \/ \E i \in JobIds : ScanQueue(i) \/ ScanDiscard(i) \/ ScanSkip(i)
  \/ \E c \in Clients : Accept(c)

ClientThread(c) ==
  \/ ReadHeader(c) \/ HeaderFails(c) \/ GetNewJobno(c)
  \/ CreatData(c) \/ CreatDataFails(c)
  \/ CopyChunk(c) \/ CopyFails(c) \/ CopyEnds(c)
  \/ CreatReq(c) \/ CreatReqFails(c) \/ WriteReq(c) \/ WriteReqFails(c)
  \/ Respond(c) \/ AddJob(c) \/ AddJobSignal(c)
  \/ RespondError(c) \/ ThreadUnlinkReq(c) \/ ThreadUnlinkData(c)

\* Every step of printer_thread but the spurious wakeup.
PrinterThread ==
  \/ WaitForJob \/ PickJob \/ UpdateJobno \/ CheckConfig \/ ReloadConfig
  \/ OpenData \/ CancelJob \/ ConnectPrinter \/ SendDocument \/ StatusOk \/ StatusSpins
  \/ UnlinkData \/ UnlinkReq \/ DeferJob \/ ReplaceJob \/ Retry

PrintCommand(c) ==
  ClientConnect(c) \/ ClientSend(c) \/ ClientReceive(c) \/ ClientDie(c)

Next ==
  \/ Main
  \/ PrinterThread \/ SpuriousWakeup
  \/ EditConfig \/ Hangup \/ Crash
  \/ \E c \in Clients : ClientThread(c) \/ PrintCommand(c)

Spec == Init /\ [][Next]_vars

\* The scheduler runs every thread that can run; nothing is assumed of the
\* clients, of spurious wakeups or of the administrator.  The printer is
\* assumed to answer again and again: a step of the conversation with it that
\* is attempted infinitely often succeeds infinitely often.
Fairness ==
  /\ WF_vars(Main)
  /\ WF_vars(PrinterThread)
  /\ \A c \in Clients : WF_vars(ClientThread(c))
  /\ SF_vars(ConnectPrinter) /\ SF_vars(SendDocument) /\ SF_vars(StatusOk)

FairSpec == Spec /\ Fairness

-----------------------------------------------------------------------------
(* Properties. *)

\* Another client was given the same job number as c.
Reissued(c) ==
  jobid[c] # 0 /\ \E d \in Clients \ {c} : jobid[d] = jobid[c]

Accepted(c) == resp[c] = "ok"

Job(c) == [id |-> jobid[c], req |-> c]

Member(q, j) == \E k \in 1..Len(q) : q[k] = j

InQueue(c) == Member(queue, Job(c))

\* An acknowledged job that is not printed has its files on disk.
UnprintedOnDisk ==
  \A c \in Clients :
    Accepted(c) /\ ~Reissued(c) /\ c \notin confirmed \cup discarded
      => dataFile[jobid[c]] = c /\ reqFile[jobid[c]] = c

\* The document of an acknowledged job has its control file.
DataHasControl ==
  \A c \in Clients :
    Accepted(c) /\ ~Reissued(c) /\ c \notin discarded /\ dataFile[jobid[c]] = c
      => reqFile[jobid[c]] = c

\* A job the daemon has acknowledged stays on disk, control file and data
\* file, until the printer has reported it printed, whatever dies when
\* (client_thread writes both files before its response, printer_thread
\* unlinks them after printer_status).  And its document is never left
\* without its control file, printed or not: no later start of the daemon
\* would find it.  The two exceptions are a job number given out twice and a
\* control file build_qonstart could not read.
AcceptedIsDurable == UnprintedOnDisk /\ DataHasControl

\* While the daemon runs, an acknowledged job is never forgotten: its thread
\* is about to queue it, it is in the list, printer_thread holds it, or
\* build_qonstart has yet to come to it.
AcceptedIsScheduled ==
  \A c \in Clients :
    /\ mpc # "off" /\ Accepted(c) /\ ~Reissued(c)
    /\ c \notin confirmed \cup discarded \cup dropped
    => \/ cpc[c] = "add" \/ InQueue(c) \/ jp = Job(c)
       \/ jobid[c] \in toScan

\* Jobs whose request is not in R are in list q once.
Distinct(q, R) ==
  \A k, l \in 1..Len(q) : q[k] = q[l] /\ q[k].req \notin R => k = l

\* No job is in the list twice, or in the list while printer_thread works on
\* it (add_job, remove_job, replace_job and build_qonstart together).
QueuedOnce ==
  /\ Distinct(queue, {c \in Clients : Reissued(c)})
  /\ jp # None /\ Member(queue, jp) => Reissued(jp.req)

\* printer_thread does not sleep on jobwait with a job in the list unless
\* the thread that added it has still to signal: add_job signals after it has
\* released joblock, and no wakeup is lost for that.
NoLostWakeup ==
  ppc = "wait" /\ queue # <<>> =>
    mpc = "signal" \/ \E c \in Clients : cpc[c] = "signal"

\* What printer_thread sends for a job is the document of the client whose
\* request the job carries.
PrintsOwnDocument ==
  fd # None /\ ~Reissued(jp.req) => fd = jp.req

\* As long as the daemon has not died, every file in the spool directory is
\* some thread's business: the error paths of client_thread and the success
\* path of printer_thread leave nothing behind.
FilesHaveOwner ==
  crashes = 0 =>
    \A i \in JobIds :
      /\ dataFile[i] # None =>
           \E c \in Clients :
             /\ jobid[c] = i
             /\ \/ cpc[c] \in ThreadPlaces \ {"none", "done"}
                \/ InQueue(c) \/ jp = Job(c) \/ c \in dropped
      /\ reqFile[i] # None =>
           \E c \in Clients :
             /\ jobid[c] = i
             /\ \/ cpc[c] \in {"writeR", "respond", "add", "errR", "unlinkR"}
                \/ InQueue(c) \/ jp = Job(c) \/ c \in dropped

\* A SIGHUP is never lost, also one that comes while init_printer runs
\* outside configlock: the printer address in use is as new as the last
\* SIGHUP, or a re-read is due.  And no job is sent to a NULL printer.
ConfigIsCurrent ==
  /\ mpc # "off" => reread \/ ppc = "reload" \/ hupConf <= printer
  /\ ppc \in {"open", "connect", "send", "status"} => printer # 0

\* printer_thread serves the list first come, first served, retries
\* included: PrintQueue's pending list is the job in hand followed by the
\* list.
PendingJobs == (IF jp = None THEN <<>> ELSE <<jp>>) \o queue
Fifo == INSTANCE PrintQueue WITH pending <- PendingJobs, Items <- Jobs
ServesInOrder == Fifo!Spec

\* Every acknowledged job is printed in the end, unless it is canceled
\* because its file cannot be opened, or printer_thread hangs in
\* printer_status from some time on.
AcceptedIsPrinted ==
  \A c \in Clients :
    \/ Accepted(c) ~> c \in confirmed \cup discarded \cup dropped \/ Reissued(c)
    \/ <>[](ppc = "spin")

\* Every print command that connects gets a response, or dies, or its daemon
\* does.
ClientIsAnswered ==
  \A c \in Clients :
    cli[c] = "connected" ~> resp[c] # "none" \/ cli[c] \in {"died", "lost"}

-----------------------------------------------------------------------------
(* The inductive invariant behind the safety properties.                    *)

Numbered == {"creatD", "read", "creatR", "writeR", "respond", "add",
             "signal", "errD", "errR", "unlinkR", "unlinkD"}
Storing == {"read", "creatR", "writeR", "respond"}
HoldsJob == {"jobno", "conf", "reload", "open", "connect", "send", "status",
             "spin", "unlinkD", "unlinkR", "defer"}
HoldsFile == {"connect", "send", "status", "spin", "unlinkD", "unlinkR"}

\* Each thread's local variables agree with its place, and client threads
\* run only after build_qonstart.
LocalsOK ==
  /\ jp # None <=> ppc \in HoldsJob
  /\ fd # None <=> ppc \in HoldsFile
  /\ mpc = "unlinkD" => mjob # 0 /\ reqFile[mjob] = None
  /\ mpc = "off" => queue = <<>> /\ ppc = "off"
  /\ mpc \in {"off", "accept"} => toScan = {}
  /\ \A c \in Clients : cpc[c] \notin {"none", "done"} => mpc = "accept"

ThreadsOK ==
  \A c \in Clients :
    /\ cli[c] = "idle" => cpc[c] = "none"
    /\ cpc[c] \in Numbered => jobid[c] # 0
    /\ cpc[c] \in {"none", "header", "number"} => jobid[c] = 0
    /\ Accepted(c) => jobid[c] # 0 /\ cpc[c] \in {"add", "signal", "done"}

\* A file belongs to a client with that job number.
FilesOK ==
  \A i \in JobIds :
    /\ dataFile[i] \in Clients => jobid[dataFile[i]] = i
    /\ reqFile[i] \in Clients => jobid[reqFile[i]] = i

\* The files of a job still being stored are there.
StoringOK ==
  \A c \in Clients : ~Reissued(c) =>
    /\ cpc[c] \in Storing => dataFile[jobid[c]] = c
    /\ cpc[c] = "respond" => reqFile[jobid[c]] = c

\* A job in the list or in hand is its client's, whose thread has added it
\* or is gone, and build_qonstart is through with its control file.
JobOK(j) ==
  /\ jobid[j.req] = j.id
  /\ cpc[j.req] \in {"signal", "done"}
  /\ j.id \notin toScan

JobsOK == \A j \in Jobs : j = jp \/ Member(queue, j) => JobOK(j)

\* Files are unlinked only for a job that was printed.
UnlinkOK ==
  ppc \in {"unlinkD", "unlinkR"} /\ ~Reissued(jp.req) => jp.req \in confirmed

IInv ==
  /\ TypeOK /\ LocalsOK /\ ThreadsOK /\ FilesOK /\ StoringOK /\ JobsOK
  /\ PrintsOwnDocument /\ UnlinkOK
  /\ UnprintedOnDisk /\ AcceptedIsScheduled /\ QueuedOnce
  /\ NoLostWakeup

\* Behind DataHasControl: when printer_thread comes to a control file, the
\* data file is gone.
ControlOK ==
  /\ DataHasControl
  /\ ppc = "unlinkR" /\ ~Reissued(jp.req) => dataFile[jp.id] # jp.req

\* Behind ConfigIsCurrent: a SIGHUP is never ahead of the file it announces,
\* and printer is NULL only while init_printer runs again.
ConfigOK ==
  /\ hupConf <= confFile
  /\ mpc # "off" => reread \/ ppc = "reload" \/ hupConf <= printer
  /\ mpc # "off" /\ ppc # "reload" => printer # 0

\* Behind FilesHaveOwner: until the daemon dies build_qonstart finds nothing,
\* job numbers are handed out once, and a file is there only between the
\* call that made it and the one that will unlink it.
KeepsData == {"read", "creatR", "writeR", "respond", "add", "errD", "errR",
              "unlinkR", "unlinkD"}
KeepsReq == {"writeR", "respond", "add", "errR", "unlinkR"}
Kept(c) == InQueue(c) \/ jp = Job(c) \/ c \in dropped

FirstScan == crashes = 0 => toScan = {} /\ mpc \in {"off", "scan", "accept"}

FirstSpool ==
  crashes = 0 /\ mpc = "off" =>
    /\ jobFile = 0
    /\ \A c \in Clients : jobid[c] = 0
    /\ \A i \in JobIds : dataFile[i] = None /\ reqFile[i] = None

FirstNumbers ==
  crashes = 0 => \A c \in Clients : jobid[c] < nextjob /\ ~Reissued(c)

FirstFiles ==
  crashes = 0 =>
    /\ ppc = "unlinkR" => dataFile[jp.id] = None
    /\ \A i \in JobIds :
         /\ dataFile[i] # None =>
              \E c \in Clients :
                jobid[c] = i /\ (cpc[c] \in KeepsData \/ Kept(c))
         /\ reqFile[i] # None =>
              \E c \in Clients :
                jobid[c] = i /\ (cpc[c] \in KeepsReq \/ Kept(c))

FirstLife == FirstScan /\ FirstSpool /\ FirstNumbers /\ FirstFiles

\* Clients differ only in name.
Symmetry == Permutations(Clients)
=============================================================================
