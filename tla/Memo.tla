-------------------------------- MODULE Memo --------------------------------
(***************************************************************************)
(* memo, the note finder of src/objc/memo: a run reads or sets up its      *)
(* configuration (MemoConfig.m), parses its command line (memo.m, with     *)
(* base/argv-array.c) and runs a builtin; "find" puts the terminal into    *)
(* cbreak mode (base/apue/ttymodes.c) and lets the user walk the matching  *)
(* files.  The disk and the terminal outlive a run, which may be killed at *)
(* any point.  A location, a word and a URL are values; a URL is a record  *)
(* that says whether it is a folder.                                       *)
(***************************************************************************)
EXTENDS Naturals, Sequences, TLC

CONSTANTS Commands,  \* the command lines users type
          Answers,   \* the lines typed at the set-up prompt
          Found,     \* the lists of URLs a search can return
          Disks,     \* what .memo and its config may be before the first run
          MaxRuns    \* bound on the runs

VARIABLES pc, disk, config, argv, args, tty, save, ttystate, urls, cursor,
          ended, runs, found, chosen

vars == <<pc, disk, config, argv, args, tty, save, ttystate, urls, cursor,
          ended, runs, found, chosen>>

\* args is the struct argv_array: the argument vector the builtin is called with.
\* found and chosen are history: the terminal's mode when the run began, and the
\* location the configuration file on the disk was set up with.
NULL == "NULL"
argv_array_init == [argv |-> <<NULL>>, argc |-> 0, alloc |-> 0]
Unread == [location |-> "unread"]
Nil == [location |-> "nil"]

Builtins == {"add", "find", "help", "home"}
Dashed == [w \in {"memo-add", "memo-find", "memo-nope"} |->
             CASE w = "memo-add" -> "add" [] w = "memo-find" -> "find" [] OTHER -> "nope"]
PagerFlags == {"-p", "--paginate", "-P", "--no-pager"}
Undashed == [w \in {"--help", "--version"} |-> IF w = "--help" THEN "help" ELSE "version"]
Flags == PagerFlags \cup DOMAIN Undashed \cup {"-x", "--other"}

Init ==
  /\ pc = "idle" /\ disk \in Disks /\ config = Unread /\ argv = <<>> /\ args = argv_array_init
  /\ tty \in {"cooked", "none"} /\ save = "none" /\ ttystate = "RESET"
  /\ urls = <<>> /\ cursor = 0 /\ ended = "" /\ runs = 0 /\ found = tty
  /\ chosen = IF disk.conf \in {"none", "dir", "bad"} THEN "none" ELSE disk.conf

\* A process starts: its memory is new, its terminal is as the last run left it.
main ==
  /\ pc = "idle" /\ runs < MaxRuns /\ runs' = runs + 1
  /\ \E c \in Commands : argv' = c
  /\ pc' = "sharedConfig" /\ config' = Unread /\ args' = argv_array_init /\ ended' = ""
  /\ found' = tty /\ save' = "none" /\ ttystate' = "RESET" /\ urls' = <<>> /\ cursor' = 0
  /\ UNCHANGED <<disk, tty, chosen>>

\* What the settings file decodes to: anything but the dictionary that was written
\* makes an error or an exception, and no configuration at all.
MemoConfigFromData(content) ==
  IF content = "bad" THEN Nil ELSE [location |-> content]

MemoConfigToData(c) == c.location

Exit(how) == pc' = "idle" /\ ended' = how

die == Exit("die")

\* The configuration exists: it is read, well or badly.
ReadConfig ==
  /\ pc = "sharedConfig" /\ disk.conf \notin {"none", "dir"}
  /\ config' = MemoConfigFromData(disk.conf) /\ pc' = "cmd_main"
  /\ UNCHANGED <<disk, argv, args, tty, save, ttystate, urls, cursor, ended, runs, found,
                 chosen>>

\* It does not: the user is asked, an empty line standing for the default, and no
\* line at all ending the program.
AskLocation ==
  /\ pc = "sharedConfig" /\ disk.conf \in {"none", "dir"}
  /\ \/ \E a \in Answers :
          /\ config' = [location |-> IF a = "" THEN "~/memo" ELSE a]
          /\ pc' = "createDirectory" /\ UNCHANGED ended
     \/ Exit("getline") /\ UNCHANGED config
  /\ UNCHANGED <<disk, argv, args, tty, save, ttystate, urls, cursor, runs, found, chosen>>

createDirectory ==
  /\ pc = "createDirectory"
  /\ \/ disk.dir = "dir" /\ pc' = "createFile" /\ UNCHANGED <<disk, ended>>
     \/ disk.dir = "none" /\ disk' = [disk EXCEPT !.dir = "dir"]
        /\ pc' = "createFile" /\ UNCHANGED ended
     \/ disk.dir # "dir" /\ Exit("mkdir") /\ UNCHANGED disk
  /\ UNCHANGED <<config, argv, args, tty, save, ttystate, urls, cursor, runs, found, chosen>>

DefaultWritten ==
  /\ pc = "createFile"
  /\ \/ disk.conf # "dir" /\ disk' = [disk EXCEPT !.conf = "~/memo"]
        /\ chosen' = config.location /\ pc' = "cmd_main" /\ UNCHANGED ended
     \/ Exit("create") /\ UNCHANGED <<disk, chosen>>
  /\ UNCHANGED <<config, argv, args, tty, save, ttystate, urls, cursor, runs, found>>

createFile ==
  /\ pc = "createFile"
  /\ \/ disk.conf # "dir" /\ disk' = [disk EXCEPT !.conf = MemoConfigToData(config)]
        /\ chosen' = config.location /\ pc' = "cmd_main" /\ UNCHANGED ended
     \/ Exit("create") /\ UNCHANGED <<disk, chosen>>
  /\ UNCHANGED <<config, argv, args, tty, save, ttystate, urls, cursor, runs, found>>

sharedConfig == ReadConfig \/ AskLocation \/ createDirectory \/ createFile

\* cmd_main: "memo-xxxx" goes straight to the builtin; otherwise the flags are
\* taken off and --help and --version become commands.
cmd_main ==
  /\ pc = "cmd_main"
  /\ \/ argv[1] \in DOMAIN Dashed /\ argv' = [argv EXCEPT ![1] = Dashed[@]]
        /\ pc' = "handle_builtin" /\ UNCHANGED ended
     \/ argv[1] \notin DOMAIN Dashed /\ argv' = Tail(argv)
        /\ pc' = "handle_options" /\ UNCHANGED ended
  /\ UNCHANGED <<disk, config, args, tty, save, ttystate, urls, cursor, runs, found, chosen>>

handle_options ==
  /\ pc = "handle_options"
  /\ \/ argv # <<>> /\ argv[1] \in PagerFlags /\ argv' = Tail(argv) /\ UNCHANGED <<pc, ended>>
     \/ argv # <<>> /\ argv[1] \in Flags \ (PagerFlags \cup DOMAIN Undashed)
        /\ Exit("usage") /\ UNCHANGED argv
     \/ argv = <<>> /\ Exit("usage") /\ UNCHANGED argv
     \/ argv # <<>> /\ argv[1] \notin Flags \ DOMAIN Undashed
        /\ argv' = [argv EXCEPT ![1] = IF @ \in DOMAIN Undashed THEN Undashed[@] ELSE @]
        /\ pc' = "handle_builtin" /\ UNCHANGED ended
  /\ UNCHANGED <<disk, config, args, tty, save, ttystate, urls, cursor, runs, found, chosen>>

alloc_nr(x) == ((x + 16) * 3) \div 2

NoRoomForNull(a, word) ==
  LET nr == a.argc + 1
  IN  [argv  |-> SubSeq(a.argv, 1, a.argc) \o <<word, NULL>>,
       argc  |-> a.argc + 1,
       alloc |-> IF nr <= a.alloc THEN a.alloc ELSE nr]

\* The array grows so that the new word and the NULL after it fit.
argv_array_push(a, word) ==
  LET nr == a.argc + 2
  IN  [argv  |-> SubSeq(a.argv, 1, a.argc) \o <<word, NULL>>,
       argc  |-> a.argc + 1,
       alloc |-> IF nr <= a.alloc THEN a.alloc
                 ELSE IF alloc_nr(a.alloc) < nr THEN nr ELSE alloc_nr(a.alloc)]

argv_array_push_all[i \in Nat, words \in Seq(STRING)] ==
  IF i = 0 THEN argv_array_init
  ELSE LET a == argv_array_push(argv_array_push_all[i - 1, words], words[i])
       IN  IF i = 1 THEN argv_array_push(a, "--exclude-guides") ELSE a

\* "memo cmd --help" becomes "memo help cmd" in a new vector.  A name that is no
\* builtin comes back to the caller, which gives up.
handle_builtin ==
  /\ pc = "handle_builtin"
  /\ IF Len(argv) > 1 /\ argv[2] = "--help"
     THEN LET new == <<"help", argv[1]>> \o SubSeq(argv, 3, Len(argv))
          IN  /\ args' = argv_array_push_all[Len(new), new]
              /\ pc' = "help" /\ UNCHANGED ended
     ELSE /\ args' = [argv |-> Append(argv, NULL), argc |-> Len(argv), alloc |-> Len(argv) + 1]
          /\ IF argv[1] \in Builtins THEN pc' = argv[1] /\ UNCHANGED ended
             ELSE Exit("cannot run")
  /\ UNCHANGED <<disk, config, argv, tty, save, ttystate, urls, cursor, runs, found, chosen>>

\* run_builtin checks standard output after the command has returned.
run_builtin == \E how \in {"return", "write failure"} : Exit(how)

cmd_add ==
  /\ pc = "add" /\ run_builtin
  /\ UNCHANGED <<disk, config, argv, args, tty, save, ttystate, urls, cursor, runs, found,
                 chosen>>

cmd_help ==
  /\ pc = "help" /\ run_builtin
  /\ UNCHANGED <<disk, config, argv, args, tty, save, ttystate, urls, cursor, runs, found,
                 chosen>>

cmd_home ==
  /\ pc = "home" /\ run_builtin
  /\ UNCHANGED <<disk, config, argv, args, tty, save, ttystate, urls, cursor, runs, found,
                 chosen>>

\* tcsetattr may change everything, nothing, or some of it and still say 0; the
\* caller cmd_find does not look at what tty_cbreak returns.
tty_cbreak ==
  /\ pc = "find"
  /\ IF tty = "none" THEN pc' = "search" /\ UNCHANGED <<tty, save, ttystate>>
     ELSE /\ save' = tty
          /\ \/ tty' = "cbreak" /\ ttystate' = "CBREAK" /\ pc' = "search"
             \/ UNCHANGED <<tty, ttystate>> /\ pc' = "search"
             \/ tty' = "partial" /\ UNCHANGED ttystate /\ pc' = "verify"
  /\ UNCHANGED <<disk, config, argv, args, urls, cursor, ended, runs, found, chosen>>

\* Only some of the changes were made: the original settings are restored.
Verify ==
  /\ pc = "verify" /\ tty' = save /\ pc' = "search"
  /\ UNCHANGED <<disk, config, argv, args, save, ttystate, urls, cursor, ended, runs, found,
                 chosen>>

match(url, items) == \E i \in 2..items.argc : items.argv[i] \in url.words

\* The search ends in die() when nothing matches, and in an exception when there
\* is no location to search.
Search ==
  /\ pc = "search"
  /\ \/ /\ config # Nil
        /\ \E l \in Found :
             LET hits == SelectSeq(l, LAMBDA url : match(url, args))
             IN  /\ urls' = hits /\ cursor' = 0
                 /\ IF hits = <<>> THEN die ELSE pc' = "keys" /\ UNCHANGED ended
     \/ /\ config = Nil /\ (die \/ Exit("exception")) /\ UNCHANGED <<urls, cursor>>
  /\ UNCHANGED <<disk, config, argv, args, tty, save, ttystate, runs, found, chosen>>

\* The row updateCursor paints in red; none when the cursor is outside the list.
updateCursor(items, index) == {i \in 1..Len(items) : i - 1 = index}

CursorDown ==
  /\ pc = "keys" /\ cursor' = (cursor + 1) % Len(urls)
  /\ UNCHANGED <<pc, disk, config, argv, args, tty, save, ttystate, urls, ended, runs, found,
                 chosen>>

UpFromLength ==
  /\ pc = "keys" /\ cursor' = IF cursor = 0 THEN Len(urls) ELSE cursor - 1
  /\ UNCHANGED <<pc, disk, config, argv, args, tty, save, ttystate, urls, ended, runs, found,
                 chosen>>

CursorUp ==
  /\ pc = "keys" /\ cursor' = (IF cursor = 0 THEN Len(urls) ELSE cursor) - 1
  /\ UNCHANGED <<pc, disk, config, argv, args, tty, save, ttystate, urls, ended, runs, found,
                 chosen>>

\* 'c' and newline replace the program by cat or vim on the picked file, or die
\* when there is none to execute; on a folder they do nothing.
Pick ==
  /\ pc = "keys" /\ ~urls[cursor + 1].folder
  /\ (Exit("exec") \/ die)
  /\ UNCHANGED <<disk, config, argv, args, tty, save, ttystate, urls, cursor, runs, found,
                 chosen>>

\* Any other key, and the end of input.
UnknownKey ==
  /\ pc = "keys" /\ die
  /\ UNCHANGED <<disk, config, argv, args, tty, save, ttystate, urls, cursor, runs, found,
                 chosen>>

ForgetfulReset ==
  /\ pc = "keys" /\ UNCHANGED <<tty, ttystate>> /\ run_builtin
  /\ UNCHANGED <<disk, config, argv, args, save, urls, cursor, runs, found, chosen>>

\* 'q' leaves the loop; tty_reset then restores what tty_cbreak saved.
tty_reset ==
  /\ pc = "keys"
  /\ IF ttystate = "RESET" THEN UNCHANGED <<tty, ttystate>>
     ELSE tty' = save /\ ttystate' = "RESET"
  /\ run_builtin
  /\ UNCHANGED <<disk, config, argv, args, save, urls, cursor, runs, found, chosen>>

\* The process is killed.
Interrupt ==
  /\ pc # "idle" /\ Exit("killed")
  /\ UNCHANGED <<disk, config, argv, args, tty, save, ttystate, urls, cursor, runs, found,
                 chosen>>

Next ==
  \/ main \/ sharedConfig \/ cmd_main \/ handle_options \/ handle_builtin
  \/ cmd_add \/ cmd_help \/ cmd_home
  \/ tty_cbreak \/ Verify \/ Search \/ CursorDown \/ CursorUp \/ Pick \/ UnknownKey \/ tty_reset
  \/ Interrupt

Spec == Init /\ [][Next]_vars

(* Properties *)

\* A run that ends by returning from its builtin leaves the terminal in the mode
\* it found, and so does one whose tty_cbreak changed only part of it
\* (ttymodes.c:54-63); find ending by die(), exec or a signal does not.
TtyGivenBack ==
  /\ pc = "idle" /\ ended \in {"return", "write failure", "usage", "cannot run"} => tty = found
  /\ pc \in {"search", "keys"} => tty \in {found, "cbreak"}

\* Every run that gets past sharedConfig uses the location that was entered when
\* the file now on the disk was set up: killed set-ups, failed ones and later
\* runs never leave a run with another one (MemoConfig.m:85-176).
LocationRemembered ==
  pc \notin {"idle", "sharedConfig", "createDirectory", "createFile"} /\ config # Nil
    => config.location = chosen /\ disk.conf = chosen

\* However the keys are pressed, exactly one row is highlighted, and a file that
\* is opened is on that row (find.m:77-119).
OneRowPicked ==
  pc = "keys" => \E i \in 1..Len(urls) : updateCursor(urls, cursor) = {i}

\* The vector a builtin gets ends in NULL inside its allocation, holds no other
\* NULL, and "cmd --help" runs help with cmd as the word after its first option
\* (memo.m:95-110, argv-array.c:20-28).
ArgvWhole ==
  pc \in Builtins =>
    /\ Len(args.argv) = args.argc + 1 /\ args.argc + 1 <= args.alloc
    /\ \A i \in 1..Len(args.argv) : args.argv[i] = NULL <=> i = args.argc + 1
    /\ args.argv[1] = pc
    /\ Len(argv) > 1 /\ argv[2] = "--help" => pc = "help" /\ args.argv[3] = argv[1]
=============================================================================
