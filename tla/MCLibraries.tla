---------------------------- MODULE MCLibraries ----------------------------
(***************************************************************************)
(* The sequential programs and libraries, one of which runs in a           *)
(* behaviour: getaddrinfo, the OpenVPN installer, memo, the matrix         *)
(* program, the conversions of addresses, fmemopen, projgen and readline.  *)
(* Their variables share v1 to v18.                                        *)
(***************************************************************************)
EXTENDS Integers, Sequences

VARIABLE prog  \* the program that runs
VARIABLES v1, v2, v3, v4, v5, v6, v7, v8, v9, v10, v11, v12, v13, v14, v15,
          v16, v17, v18

pool == <<v1, v2, v3, v4, v5, v6, v7, v8, v9, v10, v11, v12, v13, v14, v15,
          v16, v17, v18>>
vars == <<prog, pool>>

\* ProjGen: command lines and the template's paths.
Word(k, s) == [is |-> k, w |-> s]
Lines ==
    {<<>>, <<Word("word", <<"-n">>), Word("word", <<"app">>)>>,
     <<Word("assign", <<"--lang", "swift">>), Word("cluster", <<"-q", "-x">>), Word("assign", <<"--type", "cmd">>)>>,
     <<Word("word", <<"--lang">>), Word("word", <<"perl">>)>>,
     <<Word("word", <<"--platform">>), Word("word", <<"ios">>)>>,
     <<Word("end", <<>>), Word("word", <<"-h">>)>>, <<Word("word", <<"-h">>)>>}
Template == {<<"T">>, <<"T", "T">>, <<"T", "T", "f">>, <<"T", "p">>, <<"T", "p", "T">>}

\* Readline: what peers send; 10 is the newline, 11 a letter.
Streams == {<<>>, <<2>>, <<2, 10, 3>>, <<2, 2, 10>>, <<1, 11, 11, 2, 10>>, <<2, 10, 1, 1, 10>>}

\* Memo: command lines, answers, the files found, and what is on the disk.
Commands == {<<"memo">>, <<"memo", "find", "k">>, <<"memo-find", "k">>, <<"memo", "--help">>,
             <<"memo", "-p", "find", "--help", "k">>, <<"memo", "-P", "home">>, <<"memo", "-x">>,
             <<"memo", "nope">>, <<"memo-nope">>, <<"memo", "--version">>, <<"memo-add", "--help">>,
             <<"memo", "add">>, <<"memo", "find">>}
Url(folder, words) == [folder |-> folder, words |-> words]
Found == {<<>>, <<Url(FALSE, {"k"})>>,
          <<Url(TRUE, {"k"}), Url(FALSE, {"z"}), Url(FALSE, {"k"}), Url(FALSE, {"k"})>>}
Disk(dir, conf) == [dir |-> dir, conf |-> conf]
Disks == {Disk("none", "none"), Disk("file", "none"), Disk("dir", "dir"), Disk("dir", "bad"),
          Disk("dir", "~/o"), Disk("dir", "none")}

\* Matrix: matrices of 1, 2 and 3 rows, square and not, regular and singular.
Small == {-1, 0, 2}
Matrices == {<<<<a, b>>, <<c, d>>>> : a, b, c, d \in Small}
            \cup {<<<<2>>>>, <<<<2, 6, 4>>, <<5, 7, 9>>>>, <<<<1, 2>>, <<3, 4>>, <<0, 1>>>>,
                  <<<<2, 3, 3>>, <<3, 4, 2>>, <<-2, -2, 3>>>>, <<<<0, 1, 2>>, <<1, 0, 1>>, <<2, 1, 0>>>>,
                  <<<<1, 2, 1>>, <<2, 4, 0>>, <<1, 1, 1>>>>, <<<<1, 1, 0>>, <<1, 1, 2>>, <<0, 3, 1>>>>}
Vectors == {<<3>>, <<1, 2>>, <<0, -1>>, <<9, 9, 2>>, <<1, 0, 0>>}
Operands == {<<<<1, 2>>, <<3, 4>>>>, <<<<1>>>>, <<<<1, 0, 2>>, <<0, 1, 1>>>>}

\* InetText: texts put together from digits, groups, colons (16) and a quad,
\* so that every rule of the grammar is kept and broken.
Pieces == {<<1>>, <<15, 15, 15, 15>>, <<1, 0, 0, 0, 0>>, <<16>>, <<16, 16>>, <<18>>}
Groups(n) == UNION {[1..k -> {1, 16}] : k \in 0..n}
Quad == <<1, 17, 2, 17, 3, 17, 4>>
Texts == {a \o b \o c : a, b, c \in Pieces} \cup Groups(10)
         \cup {a \o Quad \o b : a \in Groups(7), b \in Groups(1)}
         \cup UNION {[1..n -> {1, 9, 17}] : n \in 0..7}
         \cup {<<1>> \o s \o <<17, 1, 17, 1>> : s \in [1..3 -> {5, 2, 6, 17}]}
Packets == [1..3 -> {0, 1, 255, 32768, 65280, 65535}]

Ga == INSTANCE GetAddrInfo
    WITH lib <- v1, pc <- v2, host <- v3, serv <- v4, hints <- v5,
         search <- v6, nsearch <- v7, list <- v8, loose <- v9, res6 <- v10,
         err <- v11, wild <- v12, Libs <- {"libgai", "libfree"},
         Hosts <- {"", "1.2.3.4", "1::2", "two", "both", "nosuch", "/local"},
         Servs <- {"", "80", "both", "udponly", "nosuch", "/path"},
         Families <- {"UNSPEC", "INET", "INET6", "LOCAL", "bad"},
         Socktypes <- {"0", "STREAM", "DGRAM", "RAW"},
         Flags <- {{}, {"PASSIVE"}, {"CANON"}, {"bad"}}
Vp == INSTANCE VpnInstall
    WITH script <- v1, fw <- v2, reject <- v3, admin <- v4, pc <- v5,
         client <- v6, cert <- v7, pki <- v8, etc <- v9, run <- v10,
         perm <- v11, sysctl <- v12, forward <- v13, ovpn <- v14,
         added <- v15, revoked <- v16, cut <- v17, runs <- v18,
         Names <- {"client", "bob"}, Passwords <- {"password", "pw2"},
         MaxRuns <- 3, MaxCerts <- 3
Me == INSTANCE Memo
    WITH pc <- v1, disk <- v2, config <- v3, argv <- v4, args <- v5,
         tty <- v6, save <- v7, ttystate <- v8, urls <- v9, cursor <- v10,
         ended <- v11, runs <- v12, found <- v13, chosen <- v14,
         Commands <- Commands, Answers <- {"", "~/n"}, Found <- Found,
         Disks <- Disks, MaxRuns <- 3
Mx == INSTANCE Matrix
    WITH op <- v1, pc <- v2, mat <- v3, vec <- v4, p <- v5, k <- v6,
         ans <- v7, orig <- v8, origv <- v9, Matrices <- Matrices,
         Vectors <- Vectors, Operands <- Operands
It == INSTANCE InetText
    WITH op <- v1, arg <- v2, size <- v3, res <- v4, W <- 5, Texts <- Texts,
         Addresses6 <- [1..5 -> {0, 1, 255, 65535}],
         Addresses4 <- [1..4 -> {0, 9, 10, 255}],
         Sizes <- {0, 2, 7, 8, 11, 16, 46}, Packets <- Packets
Ms == INSTANCE MemStream
    WITH ms <- v1, buf <- v2, mybuf <- v3, ms_file <- v4, result <- v5,
         ops <- v6, Size <- 3, Bytes <- {5, 6}, MaxOps <- 5
Pg == INSTANCE ProjGen
    WITH pc <- v1, opts <- v2, fs <- v3, todo <- v4, tmp <- v5, clean <- v6,
         early <- v7, runs <- v8, Lines <- Lines, Template <- Template,
         MaxRuns <- 2
Rl == INSTANCE Readline
    WITH prg <- v1, stream <- v2, left <- v3, buf <- v4, n <- v5, line <- v6,
         pc <- v7, ret <- v8, out <- v9, round <- v10, tsd <- v11,
         wrote <- v12, errs <- v13, MAXLINE <- 4, MAXN <- 12, Rounds <- 2,
         Streams <- Streams, MaxErrs <- 1

-----------------------------------------------------------------------------
\* The variables a program does not have keep one value.
Init ==
    \/ prog = "GetAddrInfo" /\ Ga!Init /\ v13 = 0 /\ v14 = 0 /\ v15 = 0 /\
       v16 = 0 /\ v17 = 0 /\ v18 = 0
    \/ prog = "VpnInstall" /\ Vp!Init
    \/ prog = "Memo" /\ Me!Init /\ v15 = 0 /\ v16 = 0 /\ v17 = 0 /\ v18 = 0
    \/ prog = "Matrix" /\ Mx!Init /\ v10 = 0 /\ v11 = 0 /\ v12 = 0 /\ v13 = 0
       /\ v14 = 0 /\ v15 = 0 /\ v16 = 0 /\ v17 = 0 /\ v18 = 0
    \/ prog = "InetText" /\ It!Init /\ v5 = 0 /\ v6 = 0 /\ v7 = 0 /\ v8 = 0
       /\ v9 = 0 /\ v10 = 0 /\ v11 = 0 /\ v12 = 0 /\ v13 = 0 /\ v14 = 0 /\
       v15 = 0 /\ v16 = 0 /\ v17 = 0 /\ v18 = 0
    \/ prog = "MemStream" /\ Ms!Init /\ v7 = 0 /\ v8 = 0 /\ v9 = 0 /\ v10 = 0
       /\ v11 = 0 /\ v12 = 0 /\ v13 = 0 /\ v14 = 0 /\ v15 = 0 /\ v16 = 0 /\
       v17 = 0 /\ v18 = 0
    \/ prog = "ProjGen" /\ Pg!Init /\ v9 = 0 /\ v10 = 0 /\ v11 = 0 /\ v12 = 0
       /\ v13 = 0 /\ v14 = 0 /\ v15 = 0 /\ v16 = 0 /\ v17 = 0 /\ v18 = 0
    \/ prog = "Readline" /\ Rl!Init /\ v14 = 0 /\ v15 = 0 /\ v16 = 0 /\ v17 =
       0 /\ v18 = 0
Next ==
    \/ prog = "GetAddrInfo" /\ Ga!Next /\ UNCHANGED <<prog, v13, v14, v15, v16,
       v17, v18>>
    \/ prog = "VpnInstall" /\ Vp!Next /\ UNCHANGED <<prog>>
    \/ prog = "Memo" /\ Me!Next /\ UNCHANGED <<prog, v15, v16, v17, v18>>
    \/ prog = "Matrix" /\ Mx!Next /\ UNCHANGED <<prog, v10, v11, v12, v13, v14,
       v15, v16, v17, v18>>
    \/ prog = "InetText" /\ It!Next /\ UNCHANGED <<prog, v5, v6, v7, v8, v9,
       v10, v11, v12, v13, v14, v15, v16, v17, v18>>
    \/ prog = "MemStream" /\ Ms!Next /\ UNCHANGED <<prog, v7, v8, v9, v10, v11,
       v12, v13, v14, v15, v16, v17, v18>>
    \/ prog = "ProjGen" /\ Pg!Next /\ UNCHANGED <<prog, v9, v10, v11, v12, v13,
       v14, v15, v16, v17, v18>>
    \/ prog = "Readline" /\ Rl!Next /\ UNCHANGED <<prog, v14, v15, v16, v17,
       v18>>

Spec == Init /\ [][Next]_vars

-----------------------------------------------------------------------------
\* The functions written again for the C library keep its promises.
\* GetAddrInfo: one structure for each address and socket type, with that
\* type's port (ga_port.c, getaddrinfo.c); the canonical name comes with the
\* first structure only; a failed call keeps no list; the leaks and wild
\* frees that remain are named; the answer of libgai does not depend on
\* earlier calls (RES_USE_INET6).  InetText: a printed address parses back to
\* itself; inet_pton6 takes every valid address, reads it as the words it
\* stands for, and refuses other texts (PtonRight has the two cases in which
\* it does not); nothing is stored outside tmp or the caller's buffer, which
\* for inet_ntop4 must be one for any dotted quad; inet_aton reads what
\* inet_pton4 accepts as the same address; a packet with its checksum sums to
\* zero; a name that fits, or that libgai cuts, is a string.
\* MemStream: position, data and null bytes stay inside the buffer; what is
\* read is what a file would hold; the buffer of a stream for writing is a
\* string after a write.  Readline: however they arrive, the bytes handed out
\* and the ones in a buffer are those of the caller's own stream; the value
\* returned is the length of the line, but for the two cases where it is one
\* more; a line fits and ends at its first newline, where it is full, or with
\* its stream; a web server answers the request on every line, in order; a
\* thread has a buffer of its own while it reads and none when it is done.
LibcSafe ==
    /\ prog = "GetAddrInfo" => /\ Ga!OnePerAddressAndType /\ Ga!CanonOnFirst
                               /\ Ga!ErrorsAreClean /\ Ga!NoMemoryOfCalls
    /\ prog = "InetText" => /\ It!RoundTrip /\ It!ParsesTheGrammar
                            /\ It!InsideBuffers /\ It!AtonAgrees
                            /\ It!ChecksumVerifies /\ It!NamesTerminated
    /\ prog = "MemStream" => /\ Ms!InsideBuffer /\ Ms!ReadsLikeFile
                             /\ Ms!Terminated
    /\ prog = "Readline" => /\ Rl!NothingLost /\ Rl!CountIsLength
                            /\ Rl!LinesAreLines /\ Rl!AnswersRequests
                            /\ Rl!EveryThreadsCopy

\* inet_pton6 returns 1 for the valid addresses and 0 for all other texts, and
\* ignores a double colon in a full address, as the comment before it says.
PtonRight == prog = "InetText" => It!PtonAsDocumented

\* The tools keep their promises after any sequence of runs, interrupts and
\* reboots.  VpnInstall: the CRL the server reads is that of index.txt unless
\* a revocation was cut off; a certificate the script said was revoked never
\* gets in again; a client the script said was added gets in unless a run was
\* cut off, with a password once passwd_auth.sh was run; a password the script
\* added is accepted if the name had none before; after a removal, in one
\* attempt or several, no rule or setting of the installer is left unless a
\* run was cut off at one of three named steps.
\* Memo: find gives the terminal back when it returns; every run uses the
\* location the user chose; the cursor is always on one row of the list; the
\* vector of a builtin is whole and terminated inside its allocation.
\* ProjGen: nothing in a finished project has the template's name; every path
\* has its directory; no temporary directory is left once the trap is set.
ToolsSafe ==
    /\ prog = "VpnInstall" => /\ Vp!CrlIsCurrent /\ Vp!RevokedStaysOut
                              /\ Vp!AddedIsAdmitted /\ Vp!PasswordWorks
                              /\ Vp!RemovedIsUndone
    /\ prog = "Memo" => /\ Me!TtyGivenBack /\ Me!LocationRemembered
                        /\ Me!OneRowPicked /\ Me!ArgvWhole
    /\ prog = "ProjGen" => /\ Pg!ProjectRenamed /\ Pg!NoDangling
                           /\ Pg!TmpRemoved

\* The matrix program computes what it says.  Matrix: every stage of the
\* elimination keeps A = L U of what is done; A' = L U, and with pivots no
\* element of L exceeds one; det is the sum over permutations; sol solves A x
\* = y; inv is the inverse from both sides; pivoting fails only for a
\* singular matrix.
MatrixRight ==
    prog = "Matrix" => /\ Mx!StageIsRight /\ Mx!DecompositionIsRight
                       /\ Mx!DetIsRight /\ Mx!SolutionIsRight
                       /\ Mx!InverseIsRight /\ Mx!PivotingSucceeds
=============================================================================
