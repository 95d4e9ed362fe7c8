------------------------------ MODULE Signals -------------------------------
(***************************************************************************)
(* Programs of apue that are about signals. A function is the sequence of  *)
(* its system calls and of the tests between them; the machine that runs   *)
(* it holds what the kernel holds for a process: the stack with the        *)
(* handlers that interrupted it, the mask, the pending signals, the        *)
(* dispositions and the timer. A signal can arrive before every call, and  *)
(* nothing runs while one can be delivered.                                *)
(*   sleep1, tsleep2, read1, read2      waiting with an alarm              *)
(*   critical, suspend1, suspend2, mask the mask, and jumping out          *)
(*   abort, systest1, systest2          functions of the C library         *)
(*   sigtstp, child                     job control, a child's end         *)
(*   reread, reread2                    daemons                            *)
(***************************************************************************)
EXTENDS Integers, Sequences, SequencesExt, FiniteSets

CONSTANTS Uses,       \* the programs that may run
          MaxSent     \* how many signals arrive from outside

VARIABLES use,        \* the program
          stack,      \* frames: function, next call, is it waiting in it, mask to restore
          mask, pend, disp,
          timer,      \* is an alarm set
          state,      \* "run", "stopped", or what the process ended with
          v,          \* the program's variables
          jmp,        \* what setjmp saved
          child,      \* the child process
          g,          \* what happened so far that the properties speak of
          sent,
          bsd         \* the platform: setjmp saves the mask, read is restarted

vars == <<use, stack, mask, pend, disp, timer, state, v, jmp, child, g, sent, bsd>>

Sigs == {"ALRM", "INT", "QUIT", "USR1", "ABRT", "TSTP", "CHLD", "HUP", "TERM"}

-----------------------------------------------------------------------------
(* The calls *)

sigaction(s, h, old) == [op |-> "sigaction", sig |-> s, to |-> h, old |-> old]
signal(s, h) == sigaction(s, h, "old")
reset(s, old) == [op |-> "reset", sig |-> s, old |-> old]
alarm(on) == [op |-> "alarm", on |-> on]
pause == [op |-> "pause"]
read == [op |-> "read"]
block(set) == [op |-> "block", set |-> set]
unblock(set) == [op |-> "unblock", set |-> set]
setmask(set) == [op |-> "setmask", set |-> set]
restoremask == [op |-> "restoremask"]
sigpending(s) == [op |-> "sigpending", sig |-> s]
sigsuspend(set) == [op |-> "sigsuspend", set |-> set]
sigwait == [op |-> "sigwait"]
setjmp(m) == [op |-> "setjmp", mask |-> m]
longjmp == [op |-> "longjmp"]
kill(s) == [op |-> "kill", sig |-> s]
fork == [op |-> "fork"]
forkexit == [op |-> "forkexit"]
wait == [op |-> "wait"]
set(x, val) == [op |-> "set", var |-> x, val |-> val]
may(x, vals) == [op |-> "may", var |-> x, vals |-> vals]
if(x, val, to) == [op |-> "if", var |-> x, val |-> val, to |-> to]
goto(to) == [op |-> "goto", to |-> to]
call(f) == [op |-> "call", fn |-> f]
return == [op |-> "return"]
exit(status) == [op |-> "exit", status |-> status]

-----------------------------------------------------------------------------
(* The programs. The handler that only returns or prints is wake. *)

wake == <<return>>
jump == <<longjmp>>

sleep1 == <<signal("ALRM", "wake"), alarm(TRUE), pause, alarm(FALSE), exit("0")>>

Sleep2LateJmp == <<signal("ALRM", "jump"), alarm(TRUE), setjmp(FALSE), if("jumped", "yes", 6),
                   pause, alarm(FALSE), return>>
sleep2 == <<signal("ALRM", "jump"), setjmp(FALSE), if("jumped", "yes", 6), alarm(TRUE),
            pause, alarm(FALSE), return>>
tsleep2 == <<signal("INT", "wake"), call("sleep2"), exit("0")>>

read1 == <<signal("ALRM", "wake"), alarm(TRUE), read, if("n", "eintr", 7), alarm(FALSE),
           exit("0"), exit("error")>>

Read2NoJump == <<signal("ALRM", "wake"), setjmp(FALSE), if("jumped", "yes", 9), alarm(TRUE),
                 read, if("n", "eintr", 9), alarm(FALSE), exit("0"), exit("error")>>
read2 == <<signal("ALRM", "jump"), setjmp(FALSE), if("jumped", "yes", 9), alarm(TRUE),
           read, if("n", "eintr", 9), alarm(FALSE), exit("0"), exit("error")>>

sig_quit == <<set("caught", "yes"), signal("QUIT", "DFL"), return>>
CriticalOpen == <<signal("QUIT", "sig_quit"), block({}), sigpending("QUIT"),
                  restoremask, exit("0")>>
critical == <<signal("QUIT", "sig_quit"), block({"QUIT"}), sigpending("QUIT"),
              restoremask, exit("0")>>

Suspend1Pause == <<signal("INT", "wake"), block({"INT"}), setmask({"USR1"}), pause,
                   restoremask, exit("0")>>
suspend1 == <<signal("INT", "wake"), block({"INT"}), sigsuspend({"USR1"}),
              restoremask, exit("0")>>

sig_int2 == <<set("flag", "1"), return>>
suspend2 == <<signal("INT", "wake"), signal("QUIT", "sig_int2"), block({"QUIT"}),
              if("flag", "1", 7), sigsuspend({}), goto(4), set("flag", "0"),
              restoremask, exit("0")>>

SigUsr1Rash == <<alarm(TRUE), set("flag", "0"), longjmp, return>>
sig_usr1 == <<if("flag", "0", 5), alarm(TRUE), set("flag", "0"), longjmp, return>>
MaskMain == <<signal("USR1", "sig_usr1"), signal("ALRM", "wake"), setjmp(TRUE),
              if("jumped", "yes", 8), set("flag", "1"), pause, goto(6), exit("0")>>

AbortOnce == <<sigaction("ABRT", "ask", "old"), if("old", "handler", 6), if("old", "DFL", 5),
               signal("ABRT", "DFL"), set("flushed", "yes"),
               setmask(Sigs \ {"ABRT"}), kill("ABRT"), exit("1")>>
AbortUnflushed == <<sigaction("ABRT", "ask", "old"), if("old", "handler", 5), if("old", "DFL", 5),
                    signal("ABRT", "DFL"), setmask(Sigs \ {"ABRT"}), kill("ABRT"),
                    set("flushed", "yes"), signal("ABRT", "DFL"), setmask(Sigs \ {"ABRT"}),
                    kill("ABRT"), exit("1")>>
abort == <<sigaction("ABRT", "ask", "old"), if("old", "handler", 6), if("old", "DFL", 5),
           signal("ABRT", "DFL"), set("flushed", "yes"),
           setmask(Sigs \ {"ABRT"}), kill("ABRT"),
           set("flushed", "yes"), signal("ABRT", "DFL"), setmask(Sigs \ {"ABRT"}),
           kill("ABRT"), exit("1")>>

\* proc/system.c, and signals/system.c; the child's calls are ChildExecs.
system0 == <<fork, if("pid", "-1", 4), wait, return>>
SystemUnignored == <<block({"CHLD"}), fork, if("pid", "-1", 5), wait, restoremask, return>>
SystemForgets == <<sigaction("INT", "IGN", "intr"), sigaction("QUIT", "IGN", "quit"),
                   block({"CHLD"}), fork, if("pid", "-1", 9), wait, reset("INT", "intr"),
                   reset("QUIT", "quit"), restoremask, return>>
system == <<sigaction("INT", "IGN", "intr"), sigaction("QUIT", "IGN", "quit"),
            block({"CHLD"}), fork, if("pid", "-1", 7), wait, reset("INT", "intr"),
            reset("QUIT", "quit"), restoremask, return>>
systest1 == <<call("system0"), if("pid", "-1", 8), call("system0"), if("pid", "-1", 8),
              call("system0"), if("pid", "-1", 8), exit("0"), exit("error")>>
systest2 == <<signal("INT", "wake"), signal("CHLD", "wake"), call("system"),
              if("pid", "-1", 6), exit("0"), exit("error")>>

TstpKeepsTty == <<unblock({"TSTP"}), signal("TSTP", "DFL"), kill("TSTP"),
                  signal("TSTP", "sig_tstp"), set("tty", "raw"), return>>
sig_tstp == <<set("tty", "reset"), unblock({"TSTP"}), signal("TSTP", "DFL"), kill("TSTP"),
              signal("TSTP", "sig_tstp"), set("tty", "raw"), return>>
sigtstp == <<signal("TSTP", "IGN"), if("old", "DFL", 4), goto(5), signal("TSTP", "sig_tstp"),
             read, if("n", "data", 5), if("n", "eintr", 9), exit("0"), exit("error")>>

sig_cld == <<signal("CHLD", "sig_cld"), wait, return>>
child_main == <<signal("CHLD", "sig_cld"), fork, pause, exit("0")>>

DaemonizeOneFork == <<set("umask", "0"), forkexit, set("leader", "yes"), set("tty", "none"),
                      signal("HUP", "IGN"), set("cwd", "/"), may("fds", {"null", "bad"}),
                      if("fds", "bad", 10), return, exit("error")>>
daemonize == <<set("umask", "0"), forkexit, set("leader", "yes"), set("tty", "none"),
               signal("HUP", "IGN"), forkexit, set("cwd", "/"), may("fds", {"null", "bad"}),
               if("fds", "bad", 11), return, exit("error")>>

thr_fn == <<sigwait, if("signo", "HUP", 4), if("signo", "TERM", 6),
            set("reread", "yes"), goto(1), exit("0")>>
RereadUnblocked == <<call("daemonize"), may("running", {"no", "yes"}), if("running", "yes", 7),
                     signal("HUP", "DFL"), block({"TERM"}), call("thr_fn"), exit("error")>>
reread == <<call("daemonize"), may("running", {"no", "yes"}), if("running", "yes", 7),
            signal("HUP", "DFL"), block(Sigs), call("thr_fn"), exit("error")>>

sigterm == <<exit("0")>>
sighup == <<set("rereading", "yes"), set("reread", "yes"), set("rereading", "no"), return>>
reread2 == <<call("daemonize"), may("running", {"no", "yes"}), if("running", "yes", 8),
             signal("TERM", "sigterm"), signal("HUP", "sighup"), pause, goto(6), exit("error")>>

\* The functions by name.
Code(f) == CASE f = "wake" -> wake [] f = "jump" -> jump
             [] f = "sleep1" -> sleep1 [] f = "sleep2" -> sleep2
             [] f = "tsleep2" -> tsleep2 [] f = "read1" -> read1
             [] f = "read2" -> read2 [] f = "sig_quit" -> sig_quit
             [] f = "critical" -> critical [] f = "suspend1" -> suspend1
             [] f = "sig_int2" -> sig_int2 [] f = "suspend2" -> suspend2
             [] f = "sig_usr1" -> sig_usr1 [] f = "mask" -> MaskMain
             [] f = "abort" -> abort [] f = "handler" -> wake
             [] f = "system0" -> system0 [] f = "system" -> system
             [] f = "systest1" -> systest1 [] f = "systest2" -> systest2
             [] f = "sig_tstp" -> sig_tstp [] f = "sigtstp" -> sigtstp
             [] f = "sig_cld" -> sig_cld [] f = "child" -> child_main
             [] f = "daemonize" -> daemonize [] f = "thr_fn" -> thr_fn
             [] f = "reread" -> reread [] f = "sigterm" -> sigterm
             [] f = "sighup" -> sighup [] f = "reread2" -> reread2

NoSaMask(h) == {}

\* sa_mask of reread2's handlers; signal() has none.
sa_mask(h) == CASE h = "sigterm" -> {"HUP"} [] h = "sighup" -> {"TERM"} [] OTHER -> {}

\* What arrives from outside.
Arrives == CASE use \in {"tsleep2", "systest1", "suspend1", "abort"} -> {"INT"}
             [] use = "systest2" -> {"INT", "QUIT"}
             [] use = "critical" -> {"QUIT"}
             [] use = "suspend2" -> {"INT", "QUIT"}
             [] use = "mask" -> {"USR1"}
             [] use = "sigtstp" -> {"TSTP", "CONT"}
             [] use \in {"reread", "reread2"} -> {"HUP", "TERM"}
             [] OTHER -> {}

Init ==
    /\ use \in Uses
    /\ stack = <<[fn |-> use, at |-> 1, in |-> FALSE, mask |-> {}, keep |-> {}]>>
    /\ mask \in {{}} \cup (IF use = "abort" THEN {{"ABRT"}} ELSE {})
    /\ \E d \in CASE use = "abort" -> {"IGN", "DFL", "handler"}
                  [] use = "sigtstp" -> {"IGN", "DFL"} [] OTHER -> {"DFL"} :
          disp = [s \in Sigs |-> IF s \in {"ABRT", "TSTP"} THEN d ELSE "DFL"]
    /\ pend = {} /\ timer = FALSE /\ state = "run" /\ sent = 0
    /\ v = [old |-> "", intr |-> "", quit |-> "", jumped |-> "no", n |-> "", flag |-> "0",
            caught |-> "no", pending |-> "no", pid |-> "", flushed |-> "no", tty |-> "raw",
            leader |-> "no", cwd |-> "", umask |-> "", fds |-> "", running |-> "", signo |-> "",
            reread |-> "no", rereading |-> "no", saved |-> {}]
    /\ jmp = [depth |-> 0, at |-> 0, mask |-> {}]
    /\ child = [st |-> "none", status |-> ""]
    /\ g = [early |-> FALSE, nested |-> FALSE, cut |-> {}, wild |-> FALSE, got |-> ""]
    /\ bsd \in IF use \in {"tsleep2", "read1", "read2", "sigtstp"} THEN BOOLEAN ELSE {TRUE}

-----------------------------------------------------------------------------
(* The kernel *)

Top == Last(stack)
Now == Code(Top.fn)[Top.at]
Ready == state = "run" /\ pend \ mask = {}
At(op) == Ready /\ Now.op = op
Waiting(op) == state = "run" /\ Now.op = op /\ Top.in
Move(k) == stack' = [stack EXCEPT ![Len(stack)].at = k, ![Len(stack)].in = FALSE]
Step == Move(Top.at + 1)

\* A signal that is ignored and not blocked leaves no trace.
Post(s) == IF s \notin mask /\ (disp[s] = "IGN" \/ (disp[s] = "DFL" /\ s = "CHLD"))
             THEN pend ELSE pend \cup {s}

Send(s) ==
    /\ sent < MaxSent /\ state \in {"run", "stopped"} /\ s \in Arrives
    /\ sent' = sent + 1
    /\ IF s = "CONT"
         THEN pend' = pend \ {"TSTP"} /\ state' = "run"
         ELSE pend' = Post(s) /\ UNCHANGED state
    /\ UNCHANGED <<use, stack, mask, disp, timer, v, jmp, child, g, bsd>>

Expire ==
    /\ timer /\ state \in {"run", "stopped"}
    /\ timer' = FALSE /\ pend' = Post("ALRM")
    /\ UNCHANGED <<use, stack, mask, disp, state, v, jmp, child, g, sent, bsd>>

\* The child of fork: it restores what system changed, and runs the command.
ChildExecs ==
    /\ child.st = "forked" /\ child' = [child EXCEPT !.st = "runs"]
    /\ UNCHANGED <<use, stack, mask, pend, disp, timer, state, v, jmp, g, sent, bsd>>
ChildExits ==
    /\ child.st = "runs" /\ state = "run"
    /\ child' \in [st : {"zombie"}, status : {"done", "killed"}]
    /\ pend' = Post("CHLD")
    /\ UNCHANGED <<use, stack, mask, disp, timer, state, v, jmp, g, sent, bsd>>

\* A signal is delivered: it ends or stops the process, or its handler starts
\* and ends the call the process waits in.
Default(s) ==
    /\ state' = CASE s = "TSTP" -> "stopped" [] s = "CHLD" -> state [] OTHER -> s
    /\ UNCHANGED <<stack, mask, v, g>>
Handler(s) ==
    LET op    == Now.op
        after == CASE Top.in /\ op \in {"pause", "sigsuspend"} -> Top.at + 1
                   [] Top.in /\ op = "read" /\ ~bsd -> Top.at + 1
                   [] OTHER -> Top.at
        back  == IF Top.in /\ op = "sigsuspend" THEN Top.keep ELSE mask
    IN  /\ stack' = Append([stack EXCEPT ![Len(stack)].at = after, ![Len(stack)].in = FALSE],
                           [fn |-> disp[s], at |-> 1, in |-> FALSE, mask |-> back, keep |-> {}])
        /\ mask' = mask \cup {s} \cup sa_mask(disp[s])
        /\ v' = IF Top.in /\ op = "read" /\ ~bsd THEN [v EXCEPT !.n = "eintr"] ELSE v
        /\ g' = [g EXCEPT !.early = @ \/ (s \in {"ALRM", "CHLD"} /\ ~Top.in),
                          !.nested = @ \/ \E i \in 1..Len(stack) : stack[i].fn = disp[s],
                          !.got = IF Top.in THEN s ELSE @]
        /\ UNCHANGED state
Deliver(s) ==
    /\ state = "run" /\ s \in pend \ mask
    /\ pend' = pend \ {s}
    /\ CASE disp[s] = "IGN" -> UNCHANGED <<stack, mask, v, g, state>>
         [] disp[s] = "DFL" -> Default(s)
         [] OTHER -> Handler(s)
    /\ UNCHANGED <<use, disp, timer, jmp, child, sent, bsd>>

-----------------------------------------------------------------------------
(* What the calls do *)

Sigaction ==
    /\ At("sigaction") /\ Step
    /\ v' = [v EXCEPT ![Now.old] = disp[Now.sig]]
    /\ disp' = IF Now.to = "ask" THEN disp ELSE [disp EXCEPT ![Now.sig] = Now.to]
    /\ UNCHANGED <<use, mask, pend, timer, state, jmp, child, g, sent, bsd>>

Reset ==
    /\ At("reset") /\ Step
    /\ disp' = [disp EXCEPT ![Now.sig] = v[Now.old]]
    /\ UNCHANGED <<use, mask, pend, timer, state, v, jmp, child, g, sent, bsd>>

Alarm ==
    /\ At("alarm") /\ Step /\ timer' = Now.on
    /\ UNCHANGED <<use, mask, pend, disp, state, v, jmp, child, g, sent, bsd>>

Mask ==
    /\ state = "run" /\ pend \ mask = {} /\ Now.op \in {"block", "unblock", "setmask", "restoremask"}
    /\ Step
    /\ mask' = CASE Now.op = "block" -> mask \cup Now.set
                 [] Now.op = "unblock" -> mask \ Now.set
                 [] Now.op = "setmask" -> Now.set
                 [] Now.op = "restoremask" -> v.saved
    /\ v' = IF Now.op = "block" THEN [v EXCEPT !.saved = mask] ELSE v
    /\ UNCHANGED <<use, pend, disp, timer, state, jmp, child, g, sent, bsd>>

Sigpending ==
    /\ At("sigpending") /\ Step
    /\ v' = [v EXCEPT !.pending = IF Now.sig \in pend THEN "yes" ELSE "no"]
    /\ UNCHANGED <<use, mask, pend, disp, timer, state, jmp, child, g, sent, bsd>>

\* The process waits; only sigsuspend changes the mask in the same step.
Enter ==
    /\ Ready /\ Now.op \in {"pause", "read", "wait", "sigsuspend"} /\ ~Top.in
    /\ stack' = [stack EXCEPT ![Len(stack)].in = TRUE, ![Len(stack)].keep = mask]
    /\ mask' = IF Now.op = "sigsuspend" THEN Now.set ELSE mask
    /\ UNCHANGED <<use, pend, disp, timer, state, v, jmp, child, g, sent, bsd>>

\* Data, or the end of file.
Input ==
    /\ Waiting("read") /\ pend \ mask = {} /\ Step
    /\ v' \in {[v EXCEPT !.n = x] : x \in {"data", "eof"}}
    /\ UNCHANGED <<use, mask, pend, disp, timer, state, jmp, child, g, sent, bsd>>

Wait ==
    /\ Waiting("wait") /\ pend \ mask = {} /\ child.st = "zombie" /\ Step
    /\ child' = [child EXCEPT !.st = "reaped"]
    /\ UNCHANGED <<use, mask, pend, disp, timer, state, v, jmp, g, sent, bsd>>

Sigwait ==
    /\ At("sigwait") /\ Step
    /\ \E s \in pend : v' = [v EXCEPT !.signo = s] /\ pend' = pend \ {s}
    /\ UNCHANGED <<use, mask, disp, timer, state, jmp, child, g, sent, bsd>>

Setjmp ==
    /\ At("setjmp") /\ Step
    /\ jmp' = [depth |-> Len(stack), at |-> Top.at + 1,
               mask |-> IF Now.mask \/ bsd THEN mask ELSE {"none"}]
    /\ UNCHANGED <<use, mask, pend, disp, timer, state, v, child, g, sent, bsd>>

\* The frames above setjmp's are gone; the one on top is the handler that jumps.
Longjmp ==
    /\ At("longjmp")
    /\ IF jmp.depth = 0
         THEN /\ state' = "wild" /\ g' = [g EXCEPT !.wild = TRUE]
              /\ UNCHANGED <<stack, mask, v>>
         ELSE /\ stack' = [SubSeq(stack, 1, jmp.depth) EXCEPT ![jmp.depth].at = jmp.at,
                                                              ![jmp.depth].in = FALSE]
              /\ mask' = IF jmp.mask = {"none"} THEN mask ELSE jmp.mask
              /\ v' = [v EXCEPT !.jumped = "yes"]
              /\ g' = [g EXCEPT !.cut = @ \cup {stack[i].fn : i \in jmp.depth + 1..Len(stack) - 1}]
              /\ UNCHANGED state
    /\ UNCHANGED <<use, pend, disp, timer, jmp, child, sent, bsd>>

Kill ==
    /\ At("kill") /\ Step /\ pend' = Post(Now.sig)
    /\ UNCHANGED <<use, mask, disp, timer, state, v, jmp, child, g, sent, bsd>>

Fork ==
    /\ At("fork") /\ Step
    /\ \/ v' = [v EXCEPT !.pid = "-1"] /\ UNCHANGED child
       \/ v' = [v EXCEPT !.pid = "child"] /\ child' = [st |-> "forked", status |-> ""]
    /\ UNCHANGED <<use, mask, pend, disp, timer, state, jmp, g, sent, bsd>>

\* The parent exits and the child, never a session leader, goes on.
Forkexit ==
    /\ At("forkexit")
    /\ \/ Step /\ v' = [v EXCEPT !.leader = "no"] /\ pend' = {} /\ UNCHANGED state
       \/ state' = "error" /\ UNCHANGED <<stack, v, pend>>
    /\ UNCHANGED <<use, mask, disp, timer, jmp, child, g, sent, bsd>>

Local ==
    /\ Ready /\ Now.op \in {"set", "may", "if", "goto"}
    /\ \/ Now.op = "set" /\ Step /\ v' = [v EXCEPT ![Now.var] = Now.val]
       \/ Now.op = "may" /\ Step /\ \E x \in Now.vals : v' = [v EXCEPT ![Now.var] = x]
       \/ Now.op = "if" /\ UNCHANGED v /\ IF v[Now.var] = Now.val THEN Move(Now.to) ELSE Step
       \/ Now.op = "goto" /\ UNCHANGED v /\ Move(Now.to)
    /\ UNCHANGED <<use, mask, pend, disp, timer, state, jmp, child, g, sent, bsd>>

Call ==
    /\ At("call")
    /\ stack' = Append([stack EXCEPT ![Len(stack)].at = @ + 1],
                       [fn |-> Now.fn, at |-> 1, in |-> FALSE, mask |-> {"none"}, keep |-> {}])
    /\ UNCHANGED <<use, mask, pend, disp, timer, state, v, jmp, child, g, sent, bsd>>

\* A function returns; a handler's return restores the mask.
Return ==
    /\ At("return") /\ stack' = Front(stack)
    /\ mask' = IF Top.mask = {"none"} THEN mask ELSE Top.mask
    /\ UNCHANGED <<use, pend, disp, timer, state, v, jmp, child, g, sent, bsd>>

Exit ==
    /\ At("exit") /\ state' = Now.status
    /\ UNCHANGED <<use, stack, mask, pend, disp, timer, v, jmp, child, g, sent, bsd>>

Program == Sigaction \/ Reset \/ Alarm \/ Mask \/ Sigpending \/ Enter \/ Wait \/ Sigwait \/ Setjmp
           \/ Longjmp \/ Kill \/ Fork \/ Forkexit \/ Local \/ Call \/ Return \/ Exit
Kernel == Expire \/ ChildExecs \/ ChildExits \/ \E s \in Sigs : Deliver(s)
Next == Program \/ Kernel \/ Input \/ \E s \in Sigs \cup {"CONT"} : Send(s)

\* The process runs, timers expire, signals are delivered and children end;
\* nothing from outside has to come.
Fairness == WF_vars(Program \/ Kernel)
Spec == Init /\ [][Next]_vars /\ Fairness

-----------------------------------------------------------------------------
Ended == state \notin {"run", "stopped"}
OnStack(f) == \E i \in 1..Len(stack) : stack[i].fn = f
Main == stack[1]

TypeOK ==
    /\ state \in Sigs \cup {"run", "stopped", "0", "1", "error", "wild"}
    /\ mask \subseteq Sigs /\ pend \subseteq Sigs /\ Len(stack) > 0

\* A program that waits with an alarm, for a signal or for a child ends. The
\* waits that may last: sleep1, read1 and child when the signal came before
\* the call that waits for it; read1 where read is restarted; child when fork
\* failed; suspend1, suspend2, mask, sigtstp and the daemons as long as nothing
\* comes from outside.
Excused ==
    \/ use \in {"sleep1", "read1", "child"} /\ Top.in /\ g.early
    \/ use = "read1" /\ Top.in /\ bsd
    \/ use = "child" /\ Top.in /\ v.pid = "-1"
    \/ use = "suspend1" /\ Main.at = 3 /\ Top.in
    \/ use = "suspend2" /\ Main.at \in 4..6 /\ v.flag = "0" /\ "QUIT" \notin pend
    \/ use = "mask" /\ Main.at = 6
    \/ use \in {"sigtstp", "reread", "reread2"}
WaitsEnd == <>[](Ended \/ Excused)

\* What the masks promise: in critical, suspend1 and suspend2 no handler of the
\* blocked signal starts between sigprocmask and the call that lets it in; the
\* SIGQUIT that critical found pending is caught before it exits; a SIGINT or
\* SIGQUIT that comes in the critical region ends the sigsuspend after it.
RegionsHold ==
    /\ use = "critical" =>
          /\ Main.at \in {3, 4} => Len(stack) = 1
          /\ state = "0" /\ v.pending = "yes" => v.caught = "yes"
    /\ use = "suspend1" /\ Main.at = 3 => Len(stack) = 1
    /\ use = "suspend1" /\ state = "0" => g.got = "INT"
    /\ use = "suspend2" /\ Main.at \in {4, 5, 7, 8} => ~OnStack("sig_int2")

\* A jump goes to a frame that is there; the handlers it leaves unfinished are
\* those sleep2 interrupts.
JumpsLand == ~g.wild /\ (use # "tsleep2" => g.cut = {})

\* abort ends the process by SIGABRT with the streams flushed, whatever the
\* disposition and the mask were ("this should never be executed" is so).
AbortAborts ==
    use = "abort" => state \in {"run", "INT", "ABRT"} /\ (state = "ABRT" => v.flushed = "yes")

\* system: no signal meant for the command ends the caller or runs one of its
\* handlers while the command runs, and on its return the caller has its mask
\* and its dispositions, and the child is reaped.
SystemKeeps ==
    use = "systest2" =>
       /\ OnStack("system") /\ child.st \in {"forked", "runs", "zombie"} => Last(stack).fn = "system" /\ ~Ended
       /\ Len(stack) = 1 /\ Main.at = 4 =>
             /\ mask = {} /\ disp["INT"] = "wake" /\ disp["QUIT"] = "DFL"
             /\ child.st \in {"none", "reaped"}

\* sigtstp stops only with the terminal reset, unless a second SIGTSTP came
\* while the handler ran.
StopsClean ==
    use = "sigtstp" =>
       /\ state = "stopped" /\ v.old # "" /\ ~g.nested => v.tty = "reset"
       /\ Len(stack) = 1 => v.tty = "raw"

\* A daemon leads no session and has no terminal once it is one; SIGHUP does
\* not end it, except in reread between the default action and the blocking;
\* SIGTERM does not cut a reread short.
DaemonsLast ==
    use \in {"reread", "reread2"} =>
       /\ Main.at > 1 /\ Len(stack) = 1 => v.leader = "no" /\ v.tty = "none" /\ v.fds = "null"
       /\ state = "HUP" => \/ Top.fn = "daemonize" /\ Top.at <= 5
                           \/ Main.at = 1 \/ (use = "reread" /\ Main.at = 5)
       /\ state = "0" => v.rereading = "no"
=============================================================================
