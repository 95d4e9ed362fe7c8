# Specifications of the minions repository

The repository is a collection of programs: the source trees of two textbooks
(`c/edu/apue.3e`, `c/edu/unpv13e`), a few tools (`memo`, `udpping`, `projgen`,
an OpenVPN installer, a matrix program) and many small demonstrations.  Two of
its parts are systems of several processes or threads over shared files, the
print spooler and the database library; they have the most detailed modules and
most of the proofs.  The other parts with a state of their own are clients and
servers, programs with timers and signal handlers, examples of threads, and
libraries and scripts whose calls build on each other.

## Overview

| part | modules | checked by |
|---|---|---|
| `apue.3e/printer`: printd, print | `PrintSpool`, `PrintQueue`; proofs in `PrintSpoolSteps`, `PrintSpoolProofs` | `spool_crash`, `spool_live` |
| printd: worker list | `PrintWorkers` | `kill_workers` |
| printd: printer's answer | `PrinterStatus` | `threads`, `printer_status` |
| `apue.3e/db` | `Db`, `DbMap`, `DbOpen`; proofs in `DbFacts`, `DbTypes`, `DbRecords`, `DbProofs`, `RaceProofs` | `db`, `threads` (`DbOpen`), `db_open` |
| `apue.3e/ipc2`: open server | `OpenServer` | `servers` |
| `unpv13e/server` | `WebServers` | `servers` |
| `unpv13e`: `str_cli`, echo servers | `StrCli`, `EchoServers` | `threads` |
| `unpv13e`: web clients | `WebClient` | `threads` |
| `unpv13e/sigio` | `SigioQueue`; proofs in `RaceProofs` | `threads` |
| `apue.3e/threads`, `threadctl`, `ipc2/pollmsg.c`; `unpv13e/threads` | `FooTable` (proofs in `FooTableProofs`), `JobQueue` (proofs in `RaceProofs`), `ThreadQueues`, `ThreadTools` | `threads` |
| `apue.3e/signals`, `daemons`, `proc/system.c` | `Signals` | `threads` |
| `apue.3e/ipc1`, `proc/tellwait*.c`, `advio/deadlock.c`, `daemons/single.c`, `exercises/pendlock.c`: programs of several processes | `Processes` | `threads` |
| `unpv13e/sock`, `ping`, `icmpd`, `traceroute` | `Sock`, `Ping`, `Icmpd`, `Traceroute` | `network`, `traceroute_others` |
| `unpv13e/advio`, `bcast`, `mcast`, `rtt`, `udpcksum`: timed waits | `UdpTimers` | `network` |
| `python/udpping` | `UdpPing` | `network` |
| `unpv13e/libgai`, `libfree` | `GetAddrInfo`, `InetText` | `libraries`, `inet_pton` |
| `unpv13e`: the versions of `readline` | `Readline` | `libraries` |
| `apue.3e/exercises/fmemopen.c` | `MemStream` | `libraries` |
| `objc/memo`, `bash/openvpn-install`, `bash/projgen`, `ruby/mymatrix.rb` | `Memo`, `VpnInstall`, `ProjGen`, `Matrix` | `libraries` |

`PROJECT.json` lists every part with its sources and status, the lines each
definition models, and every hazard with the line where it bites.

A wrong variant of an action (`...Unlocked`, `...Lost` and so on, marked "Wrong
variant") is not part of any specification: it is what the action would be with
a plausible mistake, and TLC finds the property it is listed with violated when
it takes the action's place.

## The print spooler

### `PrintSpool`

`printd.c` has a main thread, one `client_thread` per connection, a
`printer_thread` and a `signal_thread`; `print.c` is the other end of a
connection.  The module has one program counter per thread: `mpc` (main and
`build_qonstart`), `cpc[c]`, `ppc`, and `cli[c]` for the print command.

| variables | code |
|---|---|
| `dataFile`, `reqFile` | the data and control files of the spool directory, by job number |
| `jobFile`, `confFile` | the job ID file and the configuration file |
| `nextjob`, `queue`, `reread`, `printer` | `nextjob`, `jobhead`, `reread`, `printer` |
| `toScan`, `mjob` | the directory entries `build_qonstart` has left, the one in hand |
| `jobid[c]` | the number `get_newjobno` gave the client's job |
| `jp`, `fd` | `printer_thread`'s job, and what its open data file holds |
| `sent`, `got`, `resp` | messages written and read on the socket, the response |
| `confirmed`, `discarded`, `dropped`, `hupConf`, `crashes` | history |

Critical sections under `joblock` and `configlock` touch no file or socket and
are one step.  Every file and every socket call is a step of its own, so that
the process may die between any two (`Crash`), which empties all variables but
the files; `Start` is main up to `build_qonstart`.  A read may meet the data,
the end of the file or the timeout; each file call may fail.

A document is the client itself and a number of chunks; names, sizes, options
and the IPP and HTTP layout are left out.  Also left out: failures of `malloc`,
`pthread_create` and `accept`, and the wrap-around of the job number.  The list
of worker threads and the parsing of the printer's answer have modules of their
own (`PrintWorkers`, `PrinterStatus`, below); here `printer_status` only has its
verdict, or does not return at all (`StatusSpins`): its search for the end of
the header may stop two bytes short of the data and read no more.

`PrintQueue` is what the job list promises: first come, first served.
`PrintSpool` implements it with the job in hand at the front
(`PendingJobs`), retries included.

### Runs

| run | instance | shows |
|---|---|---|
| `spool_crash` | 2 clients, 2 numbers, documents without data, 1 death | acknowledged jobs are durable and scheduled, queued once, wake the printer thread, print their own document; a document is never on disk without its control file; error paths leave no file behind; `ServesInOrder` (refinement of `PrintQueue`) |
| `spool_live` | 1 client, 1 chunk, 1 death, 2 configurations | acknowledged jobs are printed, those found by `build_qonstart` too; clients are answered; no SIGHUP is lost |

Two clients are enough for two threads to meet in every critical section and for
a job to be retried while another waits; two numbers and one death for a number
to be given out again.  One data message separates an empty, a truncated and a
complete document; `spool_crash` does without, since its properties look at
files and numbers only and are proved for every number of data messages.  The
clients are alike, so `spool_crash` uses their symmetry.  `MaxJobId`, `MaxCrash`
and `MaxConf` are the named bounds.

`AcceptedIsPrinted` excepts behaviours in which `printer_status` hangs from some
time on: then `printer_thread` waits in it for good and no job is printed.  This
is what the code does with an answer that reads cut in the wrong place, and no
fairness may rule it out; `ClientIsAnswered` holds all the same.

Fairness: every thread keeps running (weak fairness of `Main`,
`PrinterThread` and each `ClientThread(c)`; the timeouts of `tread` and
`treadn` are among a thread's own steps), and the printer, tried for ever once
a minute, takes a connection and a document again and again if it is tried
again and again (strong fairness of `ConnectPrinter`, `SendDocument`,
`StatusOk`).  The last one speaks of a `printer_status` that returns; whether it
returns is left open.  Nothing is assumed of clients, signals or deaths.

### Proofs

`PrintSpoolSteps` and `PrintSpoolProofs` prove, for any set of clients, any
number of job numbers, chunks, deaths and configurations, `Spec => []P` for
every safety invariant of the runs: `TypeOK`, `AcceptedIsDurable`,
`AcceptedIsScheduled`, `QueuedOnce`, `NoLostWakeup`, `PrintsOwnDocument`,
`FilesHaveOwner` and `ConfigIsCurrent`; and `Spec => ServesInOrder`, the
refinement of `PrintQueue`, with one lemma for each action that changes the
list.  The assumptions are that the bounds are natural numbers and that `None`
and `Partial` are not clients or jobs.

None of these is inductive alone.  The inductive invariant `IInv` adds:
`LocalsOK` (a thread's locals agree with its place; client threads run only
after `build_qonstart`), `ThreadsOK` (an acknowledged client has a number and
is past its response), `FilesOK` (a file belongs to a client with that
number), `StoringOK` (the files of a job being stored are there), `JobsOK` (a
job in the list or in hand is its client's, the thread has added it, and
`build_qonstart` will not come to it again) and `UnlinkOK` (files are unlinked
only for a printed job).  Durability, for example, needs `UnlinkOK` for
`printer_thread`'s unlinks, `StoringOK` for the moment of the response, and
`FilesOK` for the error paths of other threads.  Each conjunct has a lemma
with one case per action; what `add_job`, `remove_job` and `replace_job` do to
a list is in lemmas about `Append`, `Tail` and concatenation.

`FilesHaveOwner` speaks of the daemon's first life only, and needs a second
invariant, `FirstLife`: the first scan of the spool directory finds nothing, no
number is given out twice, and a file that exists is kept by a thread that will
still unlink it or by a job that has not been printed.  `ConfigIsCurrent` is
inductive together with `IInv`.

## The database library

### `Db`

Several processes share an index and a data file under `fcntl` record locks.
`idx` is the sequence of index records (chain pointer, key, lengths, data
record), `head` the table of chain heads with the free list, `dat` the data
file.  A file offset is the number of a record; `pos[p]` is the record at the
process's index file offset, 0 when the offset is in the table or inside a
record.  `db[p]` has the fields of the `DB` structure that matter between
steps.  `writer` and `readers` are the locks: one per chain, the free list, and
the ends of the two files.

An action is what a process does between two points where another one can get
in.  The loops of `_db_find_and_lock` and `_db_findfree` are one step with the
lock that precedes them: only the holder of a list's write lock changes the
list.  Every write of a delete (`DeleteData`, `DeleteIdx`, `DeleteFree`,
`DeleteChain`) and of a store is a step, and so are the seek and the write of
an append.  `db_nextrec` reads the index record and the data record in two
steps.

Assumed: one `write`, `writev` or `read` of a record is atomic; lengths and
offsets are within the limits that `err_dump` guards; `sprintf` of `idxbuf`
into itself (undefined in C) leaves the text in place, as it does in the builds
the makefiles make; a read at an offset that is not the start of a record finds
no valid length or no newline (`NextrecAstray`) and ends the process.
Processes do not die inside a call otherwise: the code has no recovery.  A key
of blanks only, which the code takes for an empty record, is not among the
keys.

`DbMap` is what the library promises: a map on which each call takes effect at
one point between call and return; `Linearizable` says `Db` implements it,
`kv` being updated where a scan or a later search first sees the change
(`DeleteChain`, `AppendIdxWrite`, `ReuseIdx`, `Overwrite`).

### `DbOpen`

`db_open` creates and empties the two files with `open(2)` before it locks
anything; under the lock of the whole index file it writes the table if the
file is empty.  The flags are any combination of `O_CREAT` and `O_TRUNC`, either
open may fail, and a process may end anywhere.  `idx` is absent, empty, with its
table, or "stray": not empty, and without a table.  `recs` are the records the
table leads to.  A `db_store` is the append of a new record in the steps that
read and change the index file: another process's `open(2)` may empty the file
between its two writes, which then make it grow again.

### Runs

| run | instance | shows |
|---|---|---|
| `db` | one process scans, fetches and stores, one stores and deletes; 3 keys, 2 of them on one chain; 2 lengths; 2 records | lists whole, data unshared, chains current, `Linearizable`; a scan returns a record that stays exactly once, and nothing that is not there, also when the process's own calls move its offset; the processes never all wait |
| `threads` | `DbOpen`: 2 processes, any flags | `InitialisesOnce`: writing the table never removes a record |
| `db_open` | the same | `InitialisesAtomically` fails, see below |

Two records with three keys on two chains give a chain of length two, a
deletion from its end and its front, a free record of the right and of the
wrong length, reuse by the other chain, and two processes on different chains
that meet at the free list and at the ends of the files.  Longer lists, more
processes, and processes that use all calls are left to the proofs, which cover
every property of the run but `CallsReturn`.
Calls are unlimited; `MaxRecs` bounds the records in the file (a store in
progress is counted).

Fairness in `db`: a process inside the library goes on when it can (weak
fairness).  Which waiting process gets a lock is left open, so what is checked
is that some call returns, not that each does.

### Proofs of `Db`

`DbFacts`, `DbTypes`, `DbRecords` and `DbProofs` prove, for any number of
processes, keys, values, chains and records, the safety properties
of the run `db`: `DataUnshared`, `ChainsAreCurrent`, `ListsAreWhole` and
`ScanIsComplete` as invariants, and `Spec => Linearizable`.  The assumptions
are `DbAssumption` and `CallAssumption`: the markers (`None`, `Blank`, the
names of the locks) are no keys, values, processes, chains or calls, and the
processes are finitely many.

The inductive invariant `IInv` has twelve conjuncts:

* `TypeOK`; `CallInv`, `LockInv`: the place of a process says which call it is
  in, whether it has its answer and which locks it holds, and a write lock
  excludes all others;
* `RoomInv`: the file has room for the stores in progress;
* `FileInv`: a place of the data file belongs to one index record, and a key is
  in one record;
* `RecordInv`, `ApartInv`: the record a process has in hand is what it read
  under its locks (`ptroff`, `ptrval`, `datoff` are still right when they are
  used), and no two processes have the same empty record or the same new data;
* `MapInv`, `MapsInv`: the files hold the map `kv` but for the change a process
  has begun, and the process knows what the map holds for its key;
* `ChainInv`, `FreeInv`: every list is whole but for the record that is being
  linked or unlinked;
* `ScanInv`: a scan has returned the records in place before its offset, and
  none after it.

No smaller part is enough.  That the lists stay whole depends on `ptrval`
being the chain's head when the record is linked (`RecordInv`), which depends on
the chain's lock (`LockInv`); that a record taken from the free list is in
nobody else's hands is `ApartInv`; and the map can only be read off the chains
when these are whole.

A list is described by the walk over it: `ListOf(h, f, S)` says that following
`f` from `h` meets each member of `S` once and then ends.  What the code's
loops find, and what pushing and removing a record do to a list, are lemmas
about `ListOf`; they need induction over the length of a walk, which is done by
the least counterexample (`LeastNat`, from the well-founded order of the
naturals) because the library's induction rule cannot be instantiated.  The
recursive function `Walk` is shown to compute the walk (`WalkSteps`,
`WalkList`).

For each action a lemma in `DbFacts` (`DeleteIdxDoes`, `FreeUnlinkDoes`, ...)
says what it writes; `Quiet` steps write no file.  Each conjunct of `IInv` has a
lemma with the actions that can disturb it as cases, split into what the process
does to itself and to the others.  `FilesAreMap` then goes through the actions
once more: a call takes effect at the step that fixes its answer (a search that
ends it, a read of the data, the write that changes `kv`), and every other step
leaves the map and the answers as they are.

### Proofs of `DbOpen`

`RaceProofs` proves for any number of processes and records, and any flags, that
writing the table never removes a record (`InitialisesOnce`).  The inductive
invariant `OpenInv`: a process between `LockIdx` and `UnlockIdx` holds the lock
of the whole file; while it is held nobody is inside `db_store`, whose chain
locks it excludes; hence a process that is about to write the table, having
found the file empty, finds no record; and every variable has its type, which
includes that records are only where there is a table.

## Many programs in one run

`MCServers`, `MCThreads`, `MCNetwork` and `MCLibraries` each hold several
independent programs.  `prog` is the program of the behaviour; the components
are `INSTANCE`s whose variables share the pool `v1`, `v2`, ...; the variables a
program does not have stay 0.  No program sees another: the state space is the
disjoint union of theirs, and a property is a conjunction of `prog = ... =>`
parts, each defined and commented in the module of its program.  Fairness is
stated once for all programs (`Runs(name, step)`), each conjunct listing one
process or thread of every program; since `prog` never changes, this is each
program's own fairness.  `FooTable`, `JobQueue`, `SigioQueue` and `DbOpen`, about which
theorems are proved, are extended instead and keep their own variables.  Programs end, so
these runs do not check for deadlock; what must not stop is a liveness property.

### `servers`

`OpenServer` has the client table `client[]`, `pollfd[]` packed beside it
(`loop.poll.c`) or the descriptor set (`loop.select.c`), and the version that
forks a server per client (`opend.fe`).  One action per step of the loop: wait,
accept, read and serve one descriptor, drop a client; `client_add`,
`client_del`, `cli_args`, `handle_request` and `send_fd` keep their names.  A
request is good, refused, or too long for one read.  Instance: two clients with
two requests each, and one client with long lines.

`WebServers` has the thirteen designs `serv00` to `serv09` with their accept
locks (fcntl, mutex), the table of children and the pipes of `serv05`, the ring
of `serv08`, SIGCHLD and SIGINT.  Instance: two workers with two clients, and
one worker with three clients and a ring of two, where the ring is full and
every child is busy.

* `OpenServerSafe`: the tables agree whenever the server waits; a request is
  served with its client's uid (except by the poll loop once a client has left,
  see below); an answer is that of the last request.
* `WebServersSafe`: children taken for free are free and counted right, each
  connection goes to one worker, the ring holds each accepted connection once,
  the accept lock is with a worker that accepts, an interrupted parent has
  waited for all children, and the counters printed are right.
* `EveryoneServed`: clients are answered, connections of clients that left are
  closed, `serv01` leaves no zombie.

Fairness: weak for the server and every worker, for a client's reading and
closing; strong for taking an accept lock, which the kernel and the mutex grant
to a waiter again and again.

### `threads`

`StrCli` has twelve versions of `str_cli` against an echo server that may die;
lines are counted, since both directions are first in, first out, and the
non-blocking version keeps its four pointers into two buffers of two lines.
`EchoServers` has the select and poll loops with `client[]`, `maxi` and
`nready`, and the forking servers with both SIGCHLD handlers (signals are not
queued).  `WebClient` has the counters and flags of `web.c` and `web01.c` to
`web03.c`.  `FooTable` has every lock and unlock of the three `foo_` modules.
`JobQueue` has the pointers of the list beside the sequence it stands for.
`ThreadQueues` and `ThreadTools` have the condition variables, the barrier, the
timed wait and the three `getenv`s; a wait may return by itself.  `SigioQueue`
has the ring and the handler, which runs between any two steps of the main loop
that do not block SIGIO.  `PrinterStatus` has a stream of tokens, header and
body, that the printer delivers in any pieces, and the code's `i`, `datsz` and
`nr`; `readmore` stores at `i`, over what is there.  `PrintWorkers`, which
`kill_workers` checks by itself, has the entries of the list as pointers, with
freed ones.

`Signals` and `Processes` have a program as the sequence of its system calls and
of the tests between them, and actions for what each call does.  `Signals` adds
what the kernel keeps for a process: the stack with the handlers that have
interrupted it, the mask, pending signals, dispositions and the timer, on a
platform where `setjmp` saves the mask and `read` is restarted and on one where
not; a signal may come before every call.  `Processes` adds pipes, record locks
with the kernel's deadlock detection, and the ends of processes; `popen` and
`pclose` have their table and the descriptors of every child.

* `EchoSafe`: every line comes back and is printed before the client returns,
  "server terminated prematurely" is true, the FIN follows the last line,
  no buffer loses or doubles a line; `client[]` holds every connection once,
  and the handler that calls `wait` finds a zombie.
* `SignalsSafe`: no handler of a blocked signal runs inside the region, and no
  signal that came there is lost; jumps land in a frame that is still there;
  `abort` aborts with the streams flushed; `system` shields its caller and gives
  the mask and the handlers back; `sigtstp` stops with the terminal reset; a
  daemon has no terminal and survives SIGHUP.  `TELL_WAIT` puts parent and child
  in turn, the kernel refuses one of two crossed locks, one of two daemons runs,
  the coprocess answers in order, and a child of `popen` holds no end of another
  stream.
* `FooTableSafe`: nothing freed is used, counts are the references that exist,
  the hash chain has each linked object once.
* `HandOversSafe`: counters, buffers and messages arrive once and in order; the
  merge sorts; the function is called once and not early; a caller of `getenv`
  keeps its value; the web client's counters agree with its connections and it
  fetches each file once.
* `StatusJudged`: `printer_status` returns 1 exactly when the printer said so
  for this job, if the answer comes in one read, or header and body in one read
  each; `EverythingFinishes` adds that it returns then.  Other cuts are the
  subject of `printer_status`.
* `ListIsQueue`, `SigioSafe`, `InitialisesOnce`: see the proofs.
* `NothingOverlooked`: `nready` counted down to 0 leaves no descriptor out;
  `job_find` returns the first job of its thread.
* `EverythingFinishes`: clients return, lines are echoed, calls of `foo_rele`
  and its like return, what was queued is handled, a web client ends unless
  `main` looks at a flag at the wrong moment (`TooEarly`), searches and timeouts end,
  no zombie stays with `waitpid` in a loop; a program that waits with an alarm,
  for a signal or for a child ends, and `pclose` returns, except in the waits
  that `Excused` (`Signals`) and `Settled` (`Processes`) name: a signal that came
  before the call that waits for it, `add2stdio`'s full buffering, and the like.

Fairness: weak for each thread, process and handler; strong where a thread
waits for a mutex or for an output that takes data again and again.  In
`Signals` the process and the kernel together go on; signals from outside need
not come.

Bounds: three lines and buffers of two (full, partly written and empty
buffers); three clients for two slots ("too many"); two threads with two
objects (a second object on the chain); three jobs (first, middle, last); a ring
of three and seven datagrams (wrap-around and overflow); up to three signals
from outside (before, during and after a wait); two streams of `popen` among five
descriptors.

### `network`

`Sock` is the whole `sock` program: a command line is a set of option letters,
the peer sends, reads and closes when it likes; 24 sets of options reach every
loop.  `Ping` has the main loop of `bsdping.c` step by step, with its handlers
between any two of them, the bit table `rcvd_tbl` with two sequence numbers for up to
three probes, so that the numbers go round, the options `-q` and `-v`, and the
record-route walk, and the book's `ping` for IPv4 and IPv6.  `Icmpd` has the
daemon's select rounds and three clients for two slots, one with a bad socket.
`Traceroute` has two hops, two probes and a stray ICMP message of another
program.  `UdpTimers` has thirteen clients, each with two requests, one
retransmission, and an alarm that goes off between any two steps. `UdpPing` has
three probes.  Networks lose, delay, duplicate and reorder.

* `SockSafe`: data goes to the peer, except from a UDP client with `-u -o` that
  has not received anything yet (see below), and never elsewhere once it went
  there; what is printed is what came, in order and
  completely, the options are on the socket, CRLF conversion and `writev`
  chunks are right.
* `PingSafe`: replies and repeats are counted once, summaries never show more
  than came (but for a repeat in progress) and `ping -c` ends when answered,
  each as long as the numbers have not gone round; times
  are right with their borrow, the walk over the options stays in the header;
  the statistics of `udpping` agree with the datagrams that came, and an answer
  is its own probe's until a timeout, a duplicate or a stranger's datagram.
* `IcmpSafe`: a registered client gets its own errors only, a select round
  ends when all descriptors were looked at, every connection has its slot; a
  line of `traceroute` names the router that many hops away, and nothing is
  probed beyond the destination.
* `TimersSafe`: no alarm is left for the next request, `dg_send_recv` returns
  this request's answer and gives up only without one (or when the alarm comes
  between the answer and `alarm(0)`), and jumps to nowhere need an alarm before
  the first `sigsetjmp`.
* `EverythingEnds`: every wait ends and every error is delivered, except in
  the races that the modules name (an alarm before `recvfrom`, for instance).

Fairness: weak for the program, each client, and a timer that has been set.
Nothing is assumed of the network.

### `libraries`

Calls and runs follow one another; what is checked is what one leaves for the
next.  `GetAddrInfo` makes any calls one after the other with every combination of
host, service, family, type and flags.  `InetText` parses and prints texts and
addresses of five words, made of pieces that keep and break every rule.
`Matrix` works on exact fractions marked Integer or Float, with 88 matrices of
up to three rows.  `MemStream` drives five calls on a buffer of three bytes
beside a file.  `Readline` has the six versions of `readline` with the programs
that call them, and a `read` that delivers any part, is interrupted or fails.
`Memo` runs three times, killed at any point.  `VpnInstall`
runs three times with two names, interrupted and rebooted between any two
steps.  `ProjGen` runs twice.

* `LibcSafe`: one structure per address and type, clean errors, answers that do
  not depend on earlier calls; addresses parse back, the parser takes
  every valid text, with its value unless it is full and has a double colon, and
  no invalid one unless it ends in a colon; stores stay in their buffers (for
  `inet_ntop4` in those of at least `INET_ADDRSTRLEN` bytes), checksums verify;
  a memory stream reads like a file and stays in its buffer; every version of
  `readline` returns all bytes in lines, whatever pieces `read` delivers, and no
  thread gets another one's bytes.
* `ToolsSafe`: what the VPN script said it revoked stays out, and what it added
  gets in, with a name and a password once `passwd_auth.sh` was run; the CRL is
  current, a removal undoes everything, each unless a run was cut off where the
  module says so (`Lasting` lists the places after which a repeated removal
  leaves something behind, between the two NAT rules for instance);
  the terminal is given back, the location is remembered, one row is picked,
  the argument vector is whole; a finished project has the
  template's name nowhere, every path has its directory, no temporary directory
  is left once the trap is set.
* `MatrixRight`: every stage, the decomposition, determinant, solution and
  inverse are right; pivoting fails only for a singular matrix.

### Proofs

`RaceProofs` proves `SigioSafe` for every ring size: the ring holds, in
order, exactly the datagrams read and not yet sent; they are echoed in the
order they came; the histogram's index stays in its array; the loop never
sleeps on a datagram whose signal was used up.  The inductive invariant adds
`Phases`, which says where the handler may run and what `nread` is there; it is
needed because `iget` moves before `nqueue` does, so that the number of unsent
datagrams (`Unsent`) depends on the main loop's place.

It proves `ListIsQueue` for every set of jobs and threads: both
directions of the doubly linked list are the sequence that insert, append and
remove promise.  With `QueueTypeOK` it is inductive; the work is in the four
cases of a removal.  `FindsFirst` adds that `job_find` returns the first job of
its thread, by the invariant `Searching`: a search is at a place of the queue,
no job before it is its own, and no writer gets in while anybody searches.

It proves `FooTableSafe` (nothing freed is used, counts are the references that
exist, the chain has each linked object once) for any finite set of threads and
any objects, for the three versions.  A
reference is a pair of a thread and a number (`References`), so that the count
is the cardinality of a set that each step extends or shrinks by one element;
the one that `foo_rele` has not subtracted yet is in it, which is why the object
survives while `mutex2.c` lets its lock go.  The inductive invariant `FooInv`
adds where each thread may be (`Place`): what is being linked is linked by one
thread, and what `foo_find` has found stays in the chain because the finder has
`hashlock`.  The constants' assumptions are the premise `ConstantsOK`.

## Known disagreements

Five runs check what a comment in the code says, and TLC finds that the code
does something else.

* `traceroute_others`: the `break` of `recv_v6.c:53` is outside its `if`, so that
  a time exceeded message about another program's datagram ends the wait, with
  `ret` unset; the comment at line 76 says `recvfrom` is called again.
  `IcmpSafe` therefore speaks of traces without such a message for IPv6.
* `db_open`: `InitialisesAtomically` is the comment at `db.c:135-139` ("... so
  that we can stat it, check its size, and initialize it, atomically").  An
  `open(2)` that empties the file between two writes of a `db_store` leaves a
  file that is neither empty nor has a table, and `db_open` returns it.
* `printer_status`: `JudgedByAnswer` is the comment at `printd.c:885-887` (header
  and response "can be returned in multiple read attempts").  `readmore`'s
  callers count bytes twice and it stores over what was read, so that an answer
  in pieces is judged by other bytes than its own.
* `kill_workers`: `KillsAll` is the comment at `printd.c:552` ("Cancel (kill) all
  outstanding workers.").  `add_worker` never moves the head of the list, so that
  of workers that overlap only the first is found.
* `inet_pton`: `PtonAsDocumented` is the comment at `inet_pton.c:131-134`.  A
  colon at the end of a text is accepted (`::1:`), and in an address that has all
  its groups `::` is not "silently ignored": the groups after it become zero.

The following follow at once from the code, and the properties name them as
exceptions.  For most of them the repository does not say what should happen
instead, or the code is an example of the mistake.

* printd: the job ID file lags behind `nextjob`, so a restarted daemon gives out
  numbers of jobs that wait in the spool directory; a document cut short by a
  timeout or a dead client is acknowledged; `printer_status` may never return.
* db: `db_nextrec` depends on an offset the other calls on the handle move;
  `O_CREAT` without `O_TRUNC` makes a database without a table.
* sock: `loop_udp` has a local `servaddr` (`loopudp.c:22`) that hides the one the
  client fills in, so that with `-u -o` data read before the first datagram came
  goes to an address nobody has set, or `sendto` fails.
* open server: `loop.poll.c` packs `pollfd[]` and not `client[]`, so that after a
  client has left a request may be served with another client's uid.
* `str_cli`: `strcliselect01.c` returns with answers under way;
  `strclithread2.c` may call the server's normal end premature.
* threads: `example01.c` loses increments (its comment at line 31 says the value
  "should increase monotonically"), `web02.c` and `web03.c` may join, with the
  mutex held, a thread that waits for it, `getenv1.c` has one buffer for all
  callers, `pollmsg2.c` relies on waits that do not return by themselves.
* timers: the `alarm` clients lose an alarm that comes before `recvfrom`;
  `dg_send_recv` and `dgclibcast5.c` jump through an unset buffer when it comes
  before the first `sigsetjmp`.
* libraries: `inet_ntop4` stores its zero byte one past a buffer that is just as
  long as the text, which none of its callers here has; libfree's `getaddrinfo` remembers
  `RES_USE_INET6`.

## Only model-checked

All liveness properties (`AcceptedIsPrinted`, `ClientIsAnswered`, `CallsReturn`,
`EveryoneServed`, `EverythingFinishes`, `EverythingEnds`): fairness and `ENABLED`
are out of the prover's reach.  The components of the four group runs, but for
`JobQueue`, `SigioQueue`, `FooTable` and `DbOpen`: the other programs are small and finite
by nature (a fixed number of descriptors, options, hops or tries), and their
properties are conjunctions over many versions of a program.  `InetText`,
`Matrix`, `GetAddrInfo`, `MemStream` and `Readline` compute, with `RECURSIVE`
operators or folds over bytes; they are compared with reference definitions over
the bounded inputs above.

## Not modelled

* Failures the code does not handle: a process that dies inside a database
  call, `malloc` in `printd`'s threads.
* The wrap-around of `nextjob` after 2^31 jobs.
* Text formats: IPP and HTTP headers, option values, help and error texts.
* `lib/rtt.c`, which is not in the repository: `UdpTimers` only uses that its
  timer is started, expires and is given up after a number of times.
* The remaining textbook examples: one system or library call each, raw packet
  and routing message layouts, and what the kernel returns for them.
* macOS and iOS demonstrations, project templates, scripts that only run other
  programs: their state is in frameworks and programs outside the repository.
