----------------------------- MODULE Processes ------------------------------
(***************************************************************************)
(* Programs of apue that are more than one process. As in Signals, what a  *)
(* process does is the sequence of its calls; the kernel has pipes, record *)
(* locks with deadlock detection, and the ends of processes.               *)
(*   tellwait1, tellwait2   parent and child print, without and with       *)
(*                          TELL_WAIT (ipc1/tellwait.c)                    *)
(*   devzero                they count in turn in shared memory            *)
(*   deadlock               each locks the byte the other waits for        *)
(*   pipe4, pipe4stdio      the coprocess add2, and add2stdio as add2      *)
(*   single                 two daemons call already_running               *)
(*   pendlock               two readers, a writer, and the parent          *)
(* popen and pclose keep a table of their own.                             *)
(***************************************************************************)
EXTENDS Integers, Sequences, SequencesExt, FiniteSets

CONSTANTS NLOOPS,     \* devzero's limit
          Lines,      \* pipe4's input
          MaxFd,      \* popen's descriptors are 0..MaxFd - 1
          MaxOpens    \* calls of popen

VARIABLES use,        \* the program
          pc, st,     \* per process the next call, and "no", "run" or how it ended
          i,          \* devzero: the value each process expects; pipe4: lines read
          pipe,       \* the pipes, with the bytes or lines in them
          mem,        \* devzero: the shared counter; single: what the pid file says
          lock,       \* per byte the readers, or the writer, of its lock
          out,        \* what was printed; popen: the children whose own end was closed
          buf,        \* add2stdio: output not flushed
          fd,         \* popen: the descriptors of the caller (0) and of the children
          childpid,   \* popen: the table
          err         \* popen: what went wrong

vars == <<use, pc, st, i, pipe, mem, lock, out, buf, fd, childpid, err>>

Parent == 1
Child == 2
Pids == 1..4

-----------------------------------------------------------------------------
(* The calls, and the programs made of them *)

call(o, x) == [op |-> o, arg |-> x]
write(p, c) == [op |-> "write", arg |-> p, byte |-> c]
read(p) == call("read", p)
lockw(b) == call("lockw", b)
fork(p) == call("fork", p)
exit == call("exit", "0")

\* ipc1/tellwait.c: pfd1 is pipe 1, pfd2 pipe 2, and nobody closes an end.
TELL_CHILD == write(1, "p")
WAIT_PARENT == read(1)
TELL_PARENT == write(2, "c")
WAIT_CHILD == read(2)

\* One byte of charatatime; two bytes are printed by each.
putc(c) == call("putc", c)
tellwait1 == [p \in {Parent, Child} |->
                IF p = Parent THEN <<fork(Child), putc("p"), putc("p"), exit>>
                              ELSE <<putc("c"), putc("c"), exit>>]
TellTooSoon == [p \in {Parent, Child} |->
                IF p = Parent THEN <<fork(Child), putc("p"), TELL_CHILD, putc("p"), exit>>
                              ELSE <<WAIT_PARENT, putc("c"), putc("c"), exit>>]
tellwait2 == [p \in {Parent, Child} |->
                IF p = Parent THEN <<fork(Child), putc("p"), putc("p"), TELL_CHILD, exit>>
                              ELSE <<WAIT_PARENT, putc("c"), putc("c"), exit>>]

\* devzero: update, and the loops.
update == call("update", 0)
loop(limit, to) == [op |-> "loop", arg |-> limit, to |-> to]
DevzeroNoWait == [p \in {Parent, Child} |->
              IF p = Parent THEN <<fork(Child), loop(NLOOPS, 6), update, TELL_CHILD, call("goto", 2), exit>>
                            ELSE <<loop(NLOOPS + 1, 6), WAIT_PARENT, update, TELL_PARENT, call("goto", 1), exit>>]
devzero == [p \in {Parent, Child} |->
              IF p = Parent THEN <<fork(Child), loop(NLOOPS, 7), update, TELL_CHILD, WAIT_CHILD, call("goto", 2), exit>>
                            ELSE <<loop(NLOOPS + 1, 6), WAIT_PARENT, update, TELL_PARENT, call("goto", 1), exit>>]

\* deadlock: lockabyte is writew_lock.
lockabyte(b) == lockw(b)
DeadlockSameOrder == [p \in {Parent, Child} |->
               IF p = Parent THEN <<fork(Child), lockabyte(0), lockabyte(1), exit>>
                             ELSE <<lockabyte(0), lockabyte(1), exit>>]
deadlock == [p \in {Parent, Child} |->
               IF p = Parent THEN <<fork(Child), lockabyte(1), TELL_CHILD, WAIT_CHILD, lockabyte(0), exit>>
                             ELSE <<lockabyte(0), TELL_PARENT, WAIT_PARENT, lockabyte(1), exit>>]

\* pipe4: a line goes to the coprocess and its answer is printed.
pipe4 == <<fork(Child), call("fgets", 6), call("send", 1), call("answer", 2), call("goto", 2), exit>>
Add2Twice == <<call("exec", 0), call("getline", 6), call("reply", 2), call("reply", 2), call("goto", 2), exit>>
add2 == <<call("exec", 0), call("getline", 5), call("reply", 2), call("goto", 2), exit>>
add2stdio == <<call("exec", 0), call("getline", 5), call("printf", 2), call("goto", 2),
               call("flush", 2), exit>>

\* single: already_running with lockfile, and a daemon that ends some time.
SingleNoCheck == <<call("setlk", 2), call("truncate", 0), call("writepid", 0), call("work", 0), exit>>
already_running == <<call("setlk", 5), call("truncate", 0), call("writepid", 0), call("work", 0), exit>>

\* pendlock: children 2 and 3 read-lock, child 4 wants the write lock, the
\* parent reads-locks too and sends the signals. signal_intr: no restart.
pendlock == [p \in Pids |->
               CASE p = Parent -> <<fork(2), fork(3), fork(4), call("rdlock", 0), call("kill", 2),
                                    call("kill", 3), call("kill", 4), exit>>
                 [] p \in {2, 3} -> <<call("rdlock", 1), call("pause", 0), exit>>
                 [] p = 4 -> <<call("trywrlock", 0), lockw(0), call("pause", 0), exit>>]

Script(p) ==
    CASE use = "tellwait1" -> tellwait1[p] [] use = "tellwait2" -> tellwait2[p]
      [] use = "devzero" -> devzero[p] [] use = "deadlock" -> deadlock[p]
      [] use \in {"pipe4", "pipe4stdio"} /\ p = Parent -> pipe4
      [] use = "pipe4" -> add2 [] use = "pipe4stdio" -> add2stdio
      [] use = "single" -> already_running [] use = "pendlock" -> pendlock[p]

-----------------------------------------------------------------------------
Fds == 0..MaxFd
Closed == <<>>
Free == [w |-> 0, r |-> {}]

Init ==
    /\ use \in {"tellwait1", "tellwait2", "devzero", "deadlock", "pipe4", "pipe4stdio", "single",
                "pendlock", "popen"}
    /\ pc = [p \in Pids |-> 1]
    /\ st = [p \in Pids |-> IF p = 1 \/ (use = "single" /\ p = 2) THEN "run" ELSE "no"]
    /\ i = [p \in Pids |-> IF use = "devzero" /\ p = Child THEN 1 ELSE 0]
    /\ pipe = [k \in {1, 2} |-> <<>>]
    /\ mem = 0 /\ lock = [b \in {0, 1} |-> Free]
    /\ out = <<>> /\ buf = <<>> /\ err = {}
    /\ \E open \in IF use = "popen" THEN SUBSET {0, 1} ELSE {{}} :
          fd = [q \in 0..MaxOpens |-> [f \in Fds |-> IF q = 0 /\ f \in open THEN <<0, "tty">> ELSE Closed]]
    /\ childpid = [f \in 0..MaxFd - 1 |-> 0]

-----------------------------------------------------------------------------
(* The kernel: what the calls do *)

Now(p) == Script(p)[pc[p]]
At(p, o) == use # "popen" /\ st[p] = "run" /\ Now(p).op = o
Goto(p, k) == pc' = [pc EXCEPT ![p] = k]
Step(p) == Goto(p, pc[p] + 1)
Ended(p) == st[p] \notin {"no", "run"}
Without(p) == [b \in DOMAIN lock |-> [w |-> IF lock[b].w = p THEN 0 ELSE lock[b].w, r |-> lock[b].r \ {p}]]
Ends(p, how) == st' = [st EXCEPT ![p] = how] /\ lock' = Without(p) /\ UNCHANGED pc

Fork(p) ==
    /\ At(p, "fork")
    /\ \/ st' = [st EXCEPT ![Now(p).arg] = "run"] /\ Step(p) /\ UNCHANGED lock
       \/ Ends(p, "error")
    /\ UNCHANGED <<use, i, pipe, mem, out, buf, fd, childpid, err>>

Exec(p) ==
    /\ At(p, "exec")
    /\ \/ Step(p) /\ UNCHANGED <<st, lock>>
       \/ Ends(p, "error")
    /\ UNCHANGED <<use, i, pipe, mem, out, buf, fd, childpid, err>>

Exit(p) ==
    /\ At(p, "exit") /\ Ends(p, "0")
    /\ UNCHANGED <<use, i, pipe, mem, out, buf, fd, childpid, err>>

\* The byte read must be the one the other process writes.
Write(p) ==
    /\ At(p, "write") /\ Step(p)
    /\ pipe' = [pipe EXCEPT ![Now(p).arg] = Append(@, Now(p).byte)]
    /\ UNCHANGED <<use, st, i, mem, lock, out, buf, fd, childpid, err>>
Read(p) ==
    /\ At(p, "read") /\ pipe[Now(p).arg] # <<>>
    /\ pipe' = [pipe EXCEPT ![Now(p).arg] = Tail(@)]
    /\ IF Head(pipe[Now(p).arg]) = (IF p = Parent THEN "c" ELSE "p")
         THEN Step(p) /\ UNCHANGED <<st, lock>> ELSE Ends(p, "quit")
    /\ UNCHANGED <<use, i, mem, out, buf, fd, childpid, err>>

Putc(p) ==
    /\ At(p, "putc") /\ Step(p) /\ out' = Append(out, Now(p).arg)
    /\ UNCHANGED <<use, st, i, pipe, mem, lock, buf, fd, childpid, err>>

Loop(p) ==
    /\ At(p, "loop") /\ Goto(p, IF i[p] < Now(p).arg THEN pc[p] + 1 ELSE Now(p).to)
    /\ UNCHANGED <<use, st, i, pipe, mem, lock, out, buf, fd, childpid, err>>
Update(p) ==
    /\ At(p, "update") /\ mem' = mem + 1 /\ i' = [i EXCEPT ![p] = @ + 2]
    /\ IF mem = i[p] THEN Step(p) /\ UNCHANGED <<st, lock>> ELSE Ends(p, "quit")
    /\ UNCHANGED <<use, pipe, out, buf, fd, childpid, err>>
GotoCall(p) ==
    /\ At(p, "goto") /\ Goto(p, Now(p).arg)
    /\ UNCHANGED <<use, st, i, pipe, mem, lock, out, buf, fd, childpid, err>>

\* Record locks: F_SETLKW waits, and fails when the holder waits for us.
Holders(b, p) == ({lock[b].w} \cup lock[b].r) \ {0, p}
Lockw(p) ==
    /\ At(p, "lockw")
    /\ \/ Holders(Now(p).arg, p) = {} /\ Step(p)
          /\ lock' = [lock EXCEPT ![Now(p).arg] = [w |-> p, r |-> {}]] /\ UNCHANGED st
       \/ /\ \E q \in Holders(Now(p).arg, p) : At(q, "lockw") /\ p \in Holders(Now(q).arg, q)
          /\ Ends(p, "error")
    /\ UNCHANGED <<use, i, pipe, mem, out, buf, fd, childpid, err>>
Rdlock(p) ==
    /\ At(p, "rdlock")
    /\ IF lock[0].w \in {0, p}
         THEN lock' = [lock EXCEPT ![0].r = @ \cup {p}] /\ Step(p) /\ UNCHANGED st
         ELSE IF Now(p).arg = 1 THEN Ends(p, "error") ELSE Step(p) /\ UNCHANGED <<st, lock>>
    /\ UNCHANGED <<use, i, pipe, mem, out, buf, fd, childpid, err>>
TryWrlock(p) ==
    /\ At(p, "trywrlock") /\ Step(p)
    /\ lock' = IF Holders(0, p) = {} THEN [lock EXCEPT ![0] = [w |-> p, r |-> {}]] ELSE lock
    /\ UNCHANGED <<use, st, i, pipe, mem, out, buf, fd, childpid, err>>

\* pendlock's SIGINT: it ends pause, fails F_SETLKW, and is lost elsewhere.
Kill(p) ==
    /\ At(p, "kill")
    /\ LET q       == Now(p).arg
           paused  == ~Ended(q) /\ Now(q).op = "pause"
           blocked == ~Ended(q) /\ Now(q).op = "lockw" /\ Holders(0, q) # {}
       IN  /\ pc' = [pc EXCEPT ![p] = @ + 1, ![q] = IF paused THEN @ + 1 ELSE @]
           /\ st' = [st EXCEPT ![q] = IF blocked THEN "error" ELSE @]
           /\ lock' = IF blocked THEN Without(q) ELSE lock
           /\ i' = [i EXCEPT ![q] = IF paused \/ blocked THEN @ ELSE 1]
    /\ UNCHANGED <<use, pipe, mem, out, buf, fd, childpid, err>>

\* already_running.
Setlk(p) ==
    /\ At(p, "setlk")
    /\ IF Holders(0, p) = {}
         THEN lock' = [lock EXCEPT ![0].w = p] /\ Step(p)
         ELSE UNCHANGED lock /\ Goto(p, Now(p).arg)
    /\ UNCHANGED <<use, st, i, pipe, mem, out, buf, fd, childpid, err>>
PidFile(p) ==
    /\ use = "single" /\ st[p] = "run" /\ Now(p).op \in {"truncate", "writepid", "work"} /\ Step(p)
    /\ mem' = CASE Now(p).op = "truncate" -> 0 [] Now(p).op = "writepid" -> p [] OTHER -> mem
    /\ UNCHANGED <<use, st, i, pipe, lock, out, buf, fd, childpid, err>>

\* The coprocess. SIGPIPE, or the end of file, tells that it has ended.
Sum(line) == IF line = "bad" THEN "invalid args" ELSE line
Pipe4(p) ==
    /\ \/ /\ At(p, "fgets") /\ UNCHANGED <<pipe, out, st, lock>>
          /\ IF i[p] < Len(Lines) THEN i' = [i EXCEPT ![p] = @ + 1] /\ Step(p)
                                  ELSE UNCHANGED i /\ Goto(p, Now(p).arg)
       \/ /\ At(p, "send") /\ UNCHANGED <<i, out>>
          /\ IF Ended(Child) THEN Ends(p, "1") /\ UNCHANGED pipe
             ELSE pipe' = [pipe EXCEPT ![1] = Append(@, Lines[i[p]])] /\ Step(p) /\ UNCHANGED <<st, lock>>
       \/ /\ At(p, "answer") /\ UNCHANGED <<i, st, lock>>
          /\ \/ pipe[2] # <<>> /\ out' = Append(out, Head(pipe[2])) /\ Step(p)
                /\ pipe' = [pipe EXCEPT ![2] = Tail(@)]
             \/ pipe[2] = <<>> /\ Ended(Child) /\ Goto(p, 6) /\ UNCHANGED <<out, pipe>>
    /\ UNCHANGED <<use, mem, buf, fd, childpid, err>>
Coprocess(p) ==
    /\ \/ /\ At(p, "getline")
          /\ \/ pipe[1] # <<>> /\ mem' = Head(pipe[1]) /\ Step(p)
                /\ pipe' = [pipe EXCEPT ![1] = Tail(@)]
             \/ pipe[1] = <<>> /\ Ended(Parent) /\ Goto(p, Now(p).arg) /\ UNCHANGED <<mem, pipe>>
          /\ UNCHANGED buf
       \/ At(p, "reply") /\ Step(p) /\ pipe' = [pipe EXCEPT ![2] = Append(@, Sum(mem))] /\ UNCHANGED <<mem, buf>>
       \/ At(p, "printf") /\ Step(p) /\ buf' = Append(buf, Sum(mem)) /\ UNCHANGED <<mem, pipe>>
       \/ At(p, "flush") /\ Step(p) /\ pipe' = [pipe EXCEPT ![2] = @ \o buf] /\ buf' = <<>> /\ UNCHANGED mem
    /\ UNCHANGED <<use, st, i, lock, out, fd, childpid, err>>

-----------------------------------------------------------------------------
(* popen and pclose. A descriptor holds an end of a pipe, <<k, "r">> or
   <<k, "w">>; the child of pipe k is process k. *)

Waits == i[Parent]    \* the child pclose waits for
FreeFds == {f \in Fds : fd[0][f] = Closed}
Lowest(S) == CHOOSE f \in S : \A h \in S : f <= h

Std(type) == IF type = "r" THEN 1 ELSE 0
ChildTableOpen(k, type, pfd) ==
    LET std == Std(type)
        end == IF type = "r" THEN <<k, "w">> ELSE <<k, "r">>
    IN  [f \in Fds |-> CASE f = std -> end
                         [] f \in {pfd[1], pfd[2]} -> Closed
                         [] OTHER -> fd[0][f]]

\* The child's descriptors: its end of the pipe becomes descriptor 0 or 1, and
\* then the descriptors of the table are closed.
ChildTable(k, type, pfd) ==
    LET std == Std(type)
        end == IF type = "r" THEN <<k, "w">> ELSE <<k, "r">>
    IN  [f \in Fds |-> CASE f < MaxFd /\ childpid[f] > 0 -> Closed
                         [] f = std -> end
                         [] f \in {pfd[1], pfd[2]} -> Closed
                         [] OTHER -> fd[0][f]]

popen(k, type) ==
    /\ use = "popen" /\ Waits = 0 /\ st[k + 1] = "no" /\ (k = 1 \/ st[k] # "no")
    /\ \/ err' = err \cup {"pipe"} /\ UNCHANGED <<fd, st, childpid, out>>
       \/ /\ Cardinality(FreeFds) > 1
          /\ LET a    == Lowest(FreeFds)
                 b    == Lowest(FreeFds \ {a})
                 f    == IF type = "r" THEN a ELSE b       \* the end the caller keeps
                 mine == IF type = "r" THEN <<k, "r">> ELSE <<k, "w">>
             IN  \/ b >= MaxFd /\ err' = err \cup {"EMFILE"} /\ UNCHANGED <<fd, st, childpid, out>>
                 \/ /\ b < MaxFd /\ err' = err \cup {"fork"}
                    /\ fd' = [fd EXCEPT ![0][a] = <<k, "r">>, ![0][b] = <<k, "w">>]
                    /\ st' = [st EXCEPT ![k + 1] = "failed"] /\ UNCHANGED <<childpid, out>>
                 \/ /\ b < MaxFd
                    /\ fd' = [fd EXCEPT ![0][f] = mine, ![k] = ChildTable(k, type, <<a, b>>)]
                    /\ st' = [st EXCEPT ![k + 1] = "run"]
                    /\ out' = IF childpid[Std(type)] > 0 THEN Append(out, k) ELSE out
                    /\ \/ UNCHANGED err /\ childpid' = [childpid EXCEPT ![f] = k]
                       \/ err' = err \cup {"fdopen"} /\ UNCHANGED childpid
    /\ UNCHANGED <<use, pc, i, pipe, mem, lock, buf>>

\* pclose of what popen returned: fclose, then the wait, which is
\* PcloseReturns; if fclose cannot flush, pclose returns without a wait.
pclose(f) ==
    /\ use = "popen" /\ Waits = 0 /\ childpid[f] > 0
    /\ UNCHANGED i \/ i' = [i EXCEPT ![Parent] = childpid[f]]
    /\ childpid' = [childpid EXCEPT ![f] = 0]
    /\ fd' = [fd EXCEPT ![0][f] = Closed]
    /\ UNCHANGED <<use, pc, st, pipe, mem, lock, out, buf, err>>
PcloseReturns ==
    /\ use = "popen" /\ Waits # 0 /\ Ended(Waits + 1)
    /\ i' = [i EXCEPT ![Parent] = 0]
    /\ UNCHANGED <<use, pc, st, pipe, mem, lock, out, buf, fd, childpid, err>>

\* A command ends at the end of its input, and one that writes by itself.
Open(q) == q = 0 \/ st[q + 1] = "run"
HasEnd(q, k, x) == Open(q) /\ \E f \in Fds : fd[q][f] = <<k, x>>
CommandEnds(k) ==
    /\ use = "popen" /\ st[k + 1] = "run"
    /\ fd[k][0] = <<k, "r">> => \A q \in 0..MaxOpens : ~HasEnd(q, k, "w")
    /\ st' = [st EXCEPT ![k + 1] = "0"]
    /\ UNCHANGED <<use, pc, i, pipe, mem, lock, out, buf, fd, childpid, err>>

-----------------------------------------------------------------------------
Runs(p) ==
    Fork(p) \/ Exec(p) \/ Exit(p) \/ Write(p) \/ Read(p) \/ Putc(p) \/ Loop(p) \/ Update(p)
    \/ GotoCall(p) \/ Lockw(p) \/ Rdlock(p) \/ TryWrlock(p) \/ Kill(p) \/ Setlk(p) \/ PidFile(p)
    \/ Pipe4(p) \/ Coprocess(p)
Caller == \E k \in 1..MaxOpens, type \in {"r", "w"} : popen(k, type)
Closes == \E f \in 0..MaxFd - 1 : pclose(f)
Commands == PcloseReturns \/ \E k \in 1..MaxOpens : CommandEnds(k)
Next == (\E p \in Pids : Runs(p)) \/ Caller \/ Closes \/ Commands

\* Every process runs on, and every command ends when it can.
Fairness == (\A p \in Pids : WF_vars(Runs(p))) /\ WF_vars(PcloseReturns)
            /\ \A k \in 1..MaxOpens : WF_vars(CommandEnds(k))
Spec == Init /\ [][Next]_vars /\ Fairness

-----------------------------------------------------------------------------
TypeOK ==
    /\ st \in [Pids -> {"no", "run", "failed", "0", "1", "error", "quit"}]
    /\ \A b \in {0, 1} : lock[b].w \in 0..4 /\ lock[b].r \subseteq Pids
    /\ childpid \in [0..MaxFd - 1 -> 0..MaxOpens] /\ Waits \in Nat

\* TELL and WAIT put the processes in turn: in tellwait2 the parent's output is
\* first and whole; in devzero nobody finds the counter at another value than
\* the one expected.
TakesTurns ==
    /\ use = "tellwait2" => IsPrefix(out, <<"p", "p", "c", "c">>)
    /\ use = "devzero" => \A p \in Pids : st[p] # "quit"

\* The lock deadlock waits for is refused to one process and then given to
\* the other; of two daemons one runs, and the pid file names it.
LocksDecide ==
    /\ use = "deadlock" /\ Ended(Parent) /\ Ended(Child) =>
          {st[Parent], st[Child]} = {"0", "error"}
    /\ use = "single" =>
          /\ ~\E p, q \in {1, 2} : p # q /\ pc[p] \in 2..4 /\ pc[q] \in 2..4 /\ ~Ended(p) /\ ~Ended(q)
          /\ \A p \in {1, 2} : pc[p] = 4 /\ ~Ended(p) => mem = p

\* pipe4 prints the answers in the order of the lines, and one for each unless
\* the coprocess ended early; of add2stdio it prints nothing.
AnswersInOrder ==
    use \in {"pipe4", "pipe4stdio"} =>
       /\ IsPrefix(out, [k \in 1..Len(Lines) |-> Sum(Lines[k])])
       /\ st[Parent] = "0" /\ st[Child] # "error" => Len(out) = Len(Lines)
       /\ use = "pipe4stdio" => out = <<>>

\* A command of popen has its end of the pipe as descriptor 0 or 1, unless the
\* caller's own descriptor of that number was a stream of popen; no other
\* command holds an end of a stream the caller can close; and the caller's
\* descriptors are its own, its streams', and after a failure the pipe's.
EndsInPlace ==
    use = "popen" =>
       /\ \A k \in 1..MaxOpens : st[k + 1] = "run" =>
             \/ fd[k][0] = <<k, "r">> \/ fd[k][1] = <<k, "w">>
             \/ \E x \in 1..Len(out) : out[x] = k
       /\ \A k, q \in 1..MaxOpens, f \in 0..MaxFd - 1 :
             childpid[f] = k /\ q # k => ~HasEnd(q, k, "w")
       /\ err \cap {"fork", "fdopen"} = {} =>
             \A f \in 0..MaxFd - 1 : fd[0][f] # Closed /\ fd[0][f][2] # "tty" =>
                childpid[f] = fd[0][f][1]

\* Everybody ends, and pclose returns, except: add2stdio and pipe4 wait for
\* each other; in pendlock some child pauses for ever when a fork failed or a
\* signal came before the child paused.
Settled ==
    \/ use \in {"popen", "pipe4stdio"}
    \/ \A p \in Pids : st[p] # "run"
    \/ use = "pendlock" /\ (st[Parent] = "error" \/ \E p \in Pids : i[p] = 1)
Closing == use = "popen" /\ Waits # 0
AllEnd == <>[]Settled /\ (Closing ~> ~Closing)
=============================================================================
