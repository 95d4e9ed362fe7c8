------------------------------ MODULE ProjGen -------------------------------
(***************************************************************************)
(* bash/projgen/projgen.sh: copies a project template into the current     *)
(* directory and replaces the template's name in the contents and in the   *)
(* names of its files.  A path is a sequence of names; "T" stands for a    *)
(* name with PROJECTGENTEMPLATE in it, which becomes the project's name.   *)
(* The user may interrupt a run and run the script again.                  *)
(***************************************************************************)
EXTENDS Integers, Sequences, FiniteSets, SequencesExt

CONSTANTS Lines,     \* command lines, sequences of words
          Template,  \* the template's paths
          MaxRuns

VARIABLES pc, opts,
          fs,        \* path -> does its content name the template?
          todo,      \* what walkdir printed and is not handled yet
          tmp,       \* temporary directories left in /tmp
          clean,     \* history: the directory had no leftover when this run began
          early,     \* history: runs interrupted before the trap is set
          runs

vars == <<pc, opts, fs, todo, tmp, clean, early, runs>>

New == opts.name
Paths == DOMAIN fs
Dirname(p) == SubSeq(p, 1, Len(p) - 1)
Base(p) == p[Len(p)]
Under(p) == {q \in Paths : IsPrefix(p, q)}
IsDir(p) == \E q \in Paths : q # p /\ IsPrefix(p, q)

-----------------------------------------------------------------------------
(* The options.                                                            *)

Known == {"-h", "--help", "--version", "-n", "--name", "--lang", "--platform", "--type", "-v",
          "--verbose", "-l", "--log", "-q", "--quiet", "-s", "--strict", "-d", "--debug", "--force"}

\* A word is a record: an option, a cluster -ab, --foo=bar, --, or anything else.
Split(line) ==
    FlattenSeq([i \in 1..Len(line) |->
        CASE line[i].is = "cluster" -> [k \in 1..Len(line[i].w) |-> line[i].w[k]]
          [] line[i].is = "assign" -> line[i].w
          [] line[i].is = "end" -> <<"--endopts">>
          [] OTHER -> line[i].w])

IsOption(w) == w \in Known \cup {"--endopts", "-x"}
Defaults == [name |-> "demo", lang |-> "objc", platform |-> "macos", type |-> "", stop |-> FALSE]

\* The second loop: an option that is not known calls die, which is not
\* defined yet: the shell complains and goes on.
ReadOptions(words) ==
    LET arg(i) == IF i + 1 <= Len(words) THEN words[i + 1] ELSE ""
        or(v, d) == IF v = "" THEN d ELSE v
        at[i \in 1..Len(words) + 2] ==      \* the options from word i on, over those before
            IF i > Len(words) \/ ~IsOption(words[IF i > Len(words) THEN 1 ELSE i]) THEN <<>>
            ELSE CASE words[i] \in {"-n", "--name"} -> <<<<"name", or(arg(i), "demo")>>>> \o at[i + 2]
                   [] words[i] = "--lang" -> <<<<"lang", or(arg(i), "objc")>>>> \o at[i + 2]
                   [] words[i] = "--platform" -> <<<<"platform", or(arg(i), "macos")>>>> \o at[i + 2]
                   [] words[i] = "--type" -> <<<<"type", arg(i)>>>> \o at[i + 2]
                   [] words[i] \in {"-h", "--help", "--version"} -> <<<<"stop", TRUE>>>>
                   [] words[i] = "--endopts" -> <<>>
                   [] OTHER -> at[i + 1]
    IN  FoldLeft(LAMBDA o, s : [o EXCEPT ![s[1]] = s[2]], Defaults, at[1])

-----------------------------------------------------------------------------
Init ==
    /\ pc = "idle" /\ opts = Defaults
    /\ fs = [p \in {<<>>} |-> FALSE] /\ todo = {} /\ tmp = 0 /\ clean = TRUE
    /\ early = 0 /\ runs = 0

\* The temporary directory comes before the options, and both before the trap.
Start(line) ==
    /\ pc = "idle" /\ runs < MaxRuns /\ runs' = runs + 1
    /\ opts' = ReadOptions(Split(line))
    /\ tmp' = tmp + 1 /\ pc' = "options"
    /\ UNCHANGED <<fs, todo, clean, early>>
SetTrap ==
    /\ pc = "options"
    /\ clean' = (<<"T">> \notin Paths /\ <<New>> \notin Paths)
    /\ pc' = IF opts.stop THEN "safeExit" ELSE "mainScript"
    /\ UNCHANGED <<opts, fs, todo, tmp, early, runs>>
InterruptEarly ==
    /\ pc = "options" /\ pc' = "idle" /\ early' = early + 1
    /\ UNCHANGED <<opts, fs, todo, tmp, clean, runs>>

safeExit ==
    /\ pc \in {"safeExit", "done"} /\ tmp' = tmp - 1 /\ pc' = "idle"
    /\ UNCHANGED <<opts, fs, todo, clean, early, runs>>

TrapKeepsTmp ==
    /\ pc \in {"mainScript", "copied", "rename"} /\ pc' = "idle" /\ todo' = {}
    /\ UNCHANGED <<opts, fs, tmp, clean, early, runs>>

\* A failed command (errexit), INT or TERM: trapCleanup, die, safeExit.
trapCleanup ==
    /\ pc \in {"mainScript", "copied", "rename"} /\ tmp' = tmp - 1 /\ pc' = "idle" /\ todo' = {}
    /\ UNCHANGED <<opts, fs, clean, early, runs>>

Supported == /\ opts.lang \in {"objc", "swift", "c", "cpp"} /\ opts.platform \in {"macos", "ios"}
TypeOf == IF opts.type # "" THEN opts.type ELSE IF opts.platform = "macos" THEN "cocoa" ELSE "singleview"
HasTemplate ==
    /\ opts.platform = "macos"
    /\ \/ opts.lang = "objc" /\ TypeOf \in {"cmd", "cocoa", "external"}
       \/ opts.lang = "swift" /\ TypeOf \in {"cmd", "cocoa"}

\* cp -a puts the template into a directory of that name, if there is one.
mainScript ==
    /\ pc = "mainScript"
    /\ IF ~Supported THEN pc' = "safeExit" /\ UNCHANGED <<fs, tmp>>
       ELSE IF ~HasTemplate THEN pc' = "idle" /\ tmp' = tmp - 1 /\ UNCHANGED fs
       ELSE LET at == IF <<"T">> \in Paths THEN <<"T">> ELSE <<>>
                new == {at \o p : p \in Template}
            IN  /\ fs' = [p \in Paths \cup new |-> IF p \in new THEN TRUE ELSE fs[p]]
                /\ pc' = "copied" /\ UNCHANGED tmp
    /\ UNCHANGED <<opts, todo, clean, early, runs>>

\* sed over every file that names the template, then the walk.
SedContents ==
    /\ pc = "copied"
    /\ fs' = [p \in Paths |-> IF IsPrefix(<<"T">>, p) THEN FALSE ELSE fs[p]]
    /\ todo' = Under(<<"T">>) /\ pc' = "rename"
    /\ UNCHANGED <<opts, tmp, clean, early, runs>>

WalkFromTheTop(p) == p \in todo /\ \A q \in todo : IsPrefix(q, p) => p = q

\* walkdir prints what is in a directory before the directory.
walkdir(p) == p \in todo /\ \A q \in todo : IsPrefix(p, q) => p = q

\* mv: over a file, into a directory, and an error if that holds the name.
Renamed(p) ==
    LET to == Append(Dirname(p), New)
    IN  IF IsDir(to) THEN Append(to, Base(p)) ELSE to
MoveAlone(p) ==
    /\ pc = "rename" /\ walkdir(p)
    /\ todo' = todo \ {p}
    /\ IF Base(p) # "T" THEN UNCHANGED fs
       ELSE LET new == Append(Dirname(p), New)
            IN  fs' = [q \in (Paths \ {p}) \cup {new} |-> IF q = new THEN fs[p] ELSE fs[q]]
    /\ pc' = IF todo' = {} THEN "done" ELSE pc
    /\ UNCHANGED <<opts, tmp, clean, early, runs>>

Move(p) ==
    /\ pc = "rename" /\ walkdir(p)
    /\ Base(p) = "T" => ~IsDir(Renamed(p))
    /\ todo' = todo \ {p}
    /\ IF Base(p) # "T" THEN UNCHANGED fs
       ELSE LET moved(q) == Renamed(p) \o SubSeq(q, Len(p) + 1, Len(q))
                old(q) == CHOOSE r \in Under(p) : moved(r) = q
                new == {moved(q) : q \in Under(p)}
            IN  fs' = [q \in (Paths \ Under(p)) \cup new |-> IF q \in new THEN fs[old(q)] ELSE fs[q]]
    /\ pc' = IF todo' = {} THEN "done" ELSE pc
    /\ UNCHANGED <<opts, tmp, clean, early, runs>>
MoveFails ==
    /\ pc = "rename" /\ \E p \in todo : walkdir(p) /\ Base(p) = "T" /\ IsDir(Renamed(p))
    /\ tmp' = tmp - 1 /\ pc' = "idle" /\ todo' = {}
    /\ UNCHANGED <<opts, fs, clean, early, runs>>

Next ==
    \/ \E l \in Lines : Start(l)
    \/ SetTrap \/ InterruptEarly \/ safeExit \/ trapCleanup \/ mainScript \/ SedContents \/ MoveFails
    \/ \E p \in todo : Move(p)

Step == SetTrap \/ safeExit \/ mainScript \/ SedContents \/ MoveFails \/ \E p \in todo : Move(p)

Spec == Init /\ [][Next]_vars /\ WF_vars(Step)

-----------------------------------------------------------------------------
\* A run that comes to its end has replaced the template's name everywhere,
\* in the contents and in every name of every path, and has kept the tree:
\* the names are changed from the leaves up, so that no path walkdir printed
\* goes stale.  A second run in the same directory with the same name moves
\* the project into the one that is there.
ProjectRenamed ==
    pc = "done" /\ clean =>
        /\ <<"T">> \notin Paths
        /\ Under(<<New>>) = {[i \in 1..Len(p) |-> IF p[i] = "T" THEN New ELSE p[i]] : p \in Template}
        /\ \A p \in Under(<<New>>) : ~fs[p]

\* Every path has its directory, whenever the script is interrupted.
NoDangling == \A p \in Paths : p # <<>> => Dirname(p) \in Paths

\* The temporary directory goes with the run, however it ends, but for a run
\* interrupted between the mkdir and the trap.
TmpRemoved == tmp = early + IF pc = "idle" THEN 0 ELSE 1

\* Every run ends.
InRun == pc # "idle"
RunEnds == InRun ~> ~InRun
=============================================================================
