---------------------------- MODULE GetAddrInfo -----------------------------
(***************************************************************************)
(* getaddrinfo as written twice in unpv13e: libgai (getaddrinfo.c and      *)
(* ga_*.c) and libfree/getaddrinfo.c.  One caller makes one call after the *)
(* other; what outlives a call is the resolver's option RES_USE_INET6.     *)
(* Names and services are small sets that tell the cases of the code       *)
(* apart; the resolver and /etc/services are external.                     *)
(***************************************************************************)
EXTENDS Integers, Sequences, FiniteSets, SequencesExt

CONSTANTS Libs, Hosts, Servs, Families, Socktypes, Flags

VARIABLES lib, pc,
          host, serv, hints,   \* the arguments; hints has flags, family, socktype
          search,              \* libgai: what is left to look up; libfree: one entry
          nsearch,
          list,                \* the addrinfo structures, in order
          loose,               \* memory that is allocated and not in the list
          res6,                \* RES_USE_INET6
          err,                 \* what the call returned, "none" before the first
          wild                 \* freeaddrinfo was given a pointer never set

vars == <<lib, pc, host, serv, hints, search, nsearch, list, loose, res6, err, wild>>

-----------------------------------------------------------------------------
(* The resolver and the services file, from how the code uses them.        *)

Literal(h) == IF h \in {"1.2.3.4", "0.0.0.0"} THEN "INET"
              ELSE IF h \in {"1::2", "0::0", "0::1"} THEN "INET6" ELSE "no"
A(h)    == IF h \in {"two", "both", "localhost"} THEN IF h = "two" THEN <<"a1", "a2">> ELSE <<"a1">> ELSE <<>>
AAAA(h) == IF h \in {"both", "six"} THEN <<"s1">> ELSE <<>>
Mapped(s) == [i \in 1..Len(s) |-> <<"mapped", s[i]>>]

\* gethostbyname: with RES_USE_INET6 all answers have 16 bytes.
gethostbyname(h, inet6) ==
    IF inet6 THEN [family |-> "INET6", addrs |-> IF AAAA(h) # <<>> THEN AAAA(h) ELSE Mapped(A(h))]
    ELSE [family |-> "INET", addrs |-> A(h)]
gethostbyname2(h, f) == [family |-> f, addrs |-> IF f = "INET" THEN A(h) ELSE AAAA(h)]

HasService(s, type) == (s = "both" /\ type \in {"STREAM", "DGRAM"}) \/ (s = "udponly" /\ type = "DGRAM")

-----------------------------------------------------------------------------
Idle == /\ pc' = "idle" /\ search' = <<>> /\ nsearch' = 0

BadKeepsList(e, headset) ==
    /\ Idle /\ err' = e /\ wild' = (wild \/ ~headset)
    /\ UNCHANGED <<lib, host, serv, hints, list, loose>>

\* The label bad: free the list and return the error.
Bad(e, headset) ==
    /\ Idle /\ list' = <<>> /\ err' = e
    /\ wild' = (wild \/ ~headset)
    /\ UNCHANGED <<lib, host, serv, hints, loose>>

NoHints == [flags |-> {}, family |-> "UNSPEC", socktype |-> "0"]

Init ==
    /\ lib \in Libs /\ pc = "idle"
    /\ host = "" /\ serv = "" /\ hints = NoHints
    /\ search = <<>> /\ nsearch = 0 /\ list = <<>> /\ loose = 0 /\ res6 = FALSE
    /\ err = "none" /\ wild = FALSE

Call(h, s, f, fam, t) ==
    /\ host' = h /\ serv' = s /\ hints' = [flags |-> f, family |-> fam, socktype |-> t]
    /\ pc' = "check"
    /\ UNCHANGED <<lib, search, nsearch, list, loose, res6, err, wild>>

\* The checks, "" when all is well: libgai asks for a name before it looks at
\* the family, libfree after.
CheckFamily ==
    IF hints.family = "bad" THEN "FAMILY"
    ELSE IF hints.family = "LOCAL" /\ hints.socktype = "RAW" THEN "SOCKTYPE" ELSE ""
NoNames == IF host = "" /\ serv = "" THEN "NONAME" ELSE ""

ga_echeck ==
    IF "bad" \in hints.flags THEN "BADFLAGS"
    ELSE IF NoNames # "" THEN NoNames ELSE CheckFamily

getaddrinfo_check ==
    IF "bad" \in hints.flags THEN "BADFLAGS"
    ELSE IF CheckFamily # "" THEN CheckFamily ELSE NoNames

Entry(h, f) == [host |-> h, family |-> f]

\* The lookups: the wildcard for a passive open, the local host without a
\* name, IPv6 before IPv4 when no family is given.
ga_nsearch ==
    LET fams == IF hints.family = "UNSPEC" THEN <<"INET6", "INET">>
                ELSE IF hints.family \in {"INET", "INET6"} THEN <<hints.family>> ELSE <<>>
        name(f) == IF host # "" THEN host
                   ELSE IF "PASSIVE" \in hints.flags THEN IF f = "INET" THEN "0.0.0.0" ELSE "0::0"
                   ELSE IF f = "INET" THEN "localhost" ELSE "0::1"
    IN  [i \in 1..Len(fams) |-> Entry(name(fams[i]), fams[i])]

\* libgai: checks, the Unix domain, and the array of lookups, which is empty
\* for AF_LOCAL without "/local": err_quit ends the program.
CheckGai ==
    /\ lib = "libgai" /\ pc = "check"
    /\ IF ga_echeck # "" THEN Bad(ga_echeck, TRUE)
       ELSE IF host = "/local" /\ serv = "/path" THEN
            pc' = "unix" /\ UNCHANGED <<lib, host, serv, hints, search, nsearch, list, loose, err, wild>>
       ELSE /\ search' = ga_nsearch /\ nsearch' = Len(ga_nsearch)
            /\ pc' = IF ga_nsearch = <<>> THEN "quit" ELSE "host"
            /\ UNCHANGED <<lib, host, serv, hints, list, loose, err, wild>>
    /\ UNCHANGED res6

\* A structure filled in from the hints; without a type it is open for every
\* one (AI_CLONE).
ga_aistruct(f, a) ==
    [family |-> f, addr |-> a, socktype |-> hints.socktype, clone |-> (hints.socktype = "0"),
     port |-> 0, canon |-> FALSE]

StickyInet6(s) == res6 \/ (nsearch = 1 /\ s.family = "INET6")

\* The option of the resolver is set or cleared before every lookup.
UseInet6(s) == nsearch = 1 /\ s.family = "INET6"

\* libgai's loop: literals, then the resolver; not finding is an error only
\* when there is one lookup.  The name is copied with the first answer and
\* any allocation may fail.
HostGai(enough) ==
    /\ lib = "libgai" /\ pc = "host" /\ search # <<>>
    /\ LET s    == Head(search)
           lit  == Literal(s.host)
           wantcanon == host # "" /\ "CANON" \in hints.flags
           ans  == IF nsearch = 2 THEN gethostbyname2(s.host, s.family)
                   ELSE gethostbyname(s.host, UseInet6(s))
           more == [i \in 1..Len(ans.addrs) |-> ga_aistruct(ans.family, ans.addrs[i])]
           copies == IF wantcanon /\ loose = 0 THEN 1 ELSE 0
       IN  /\ res6' = IF lit # "no" THEN res6 ELSE UseInet6(s)
           /\ IF lit # "no" /\ hints.family \notin {"UNSPEC", lit} THEN Bad("ADDRFAMILY", TRUE)
              ELSE IF lit # "no" /\ s.family # lit
              THEN search' = Tail(search) /\ UNCHANGED <<lib, pc, host, serv, hints, nsearch, list, loose, err, wild>>
              ELSE IF lit = "no" /\ ans.addrs = <<>> /\ nsearch = 2
              THEN search' = Tail(search) /\ UNCHANGED <<lib, pc, host, serv, hints, nsearch, list, loose, err, wild>>
              ELSE IF lit = "no" /\ ans.addrs = <<>> THEN Bad("NONAME", TRUE)
              ELSE IF ~enough
              THEN /\ Idle /\ list' = <<>> /\ err' = "MEMORY"
                   /\ loose' \in loose..IF lit = "no" THEN loose + copies ELSE loose
                   /\ UNCHANGED <<lib, host, serv, hints, wild>>
              ELSE /\ list' = list \o IF lit # "no" THEN <<ga_aistruct(lit, s.host)>> ELSE more
                   /\ loose' = IF lit = "no" THEN loose + copies ELSE loose
                   /\ search' = Tail(search)
                   /\ UNCHANGED <<lib, pc, host, serv, hints, nsearch, err, wild>>

\* After the lookups the name goes into the first structure: the one saved
\* earlier, or a copy made here.
CanonGai(enough) ==
    /\ lib = "libgai" /\ pc = "host" /\ search = <<>>
    /\ IF list = <<>> THEN Bad("NONAME", TRUE)
       ELSE IF ~enough /\ host # "" /\ "CANON" \in hints.flags /\ loose = 0 THEN Bad("MEMORY", TRUE)
       ELSE /\ pc' = "serv"
            /\ list' = IF host # "" /\ "CANON" \in hints.flags THEN [list EXCEPT ![1].canon = TRUE] ELSE list
            /\ loose' = 0
            /\ UNCHANGED <<lib, host, serv, hints, search, nsearch, err, wild>>
    /\ UNCHANGED res6

\* ga_unix: a stream and a datagram entry when no type is given.  Errors
\* return without freeing what there is.
ga_unix(enough) ==
    /\ pc = "unix"
    /\ IF hints.family \notin {"UNSPEC", "LOCAL"} THEN Idle /\ err' = "ADDRFAMILY" /\ UNCHANGED <<list, loose>>
       ELSE IF ~enough THEN Idle /\ err' = "MEMORY" /\ loose' \in 0..4 /\ UNCHANGED list
       ELSE LET types == IF hints.socktype = "0" THEN <<"STREAM", "DGRAM">> ELSE <<hints.socktype>>
                es == [i \in 1..Len(types) |-> [ga_aistruct("LOCAL", "/path") EXCEPT
                         !.socktype = types[i], !.clone = FALSE, !.port = serv,
                         !.canon = (i = 1 /\ "CANON" \in hints.flags)]]
            IN  list' = es /\ Idle /\ err' = "0" /\ UNCHANGED loose
    /\ UNCHANGED <<lib, host, serv, hints, res6, wild>>

-----------------------------------------------------------------------------
\* libfree: the checks come before aihead has a value, so that their errors
\* free whatever it holds; a literal decides an open family.
CheckFree ==
    /\ lib = "libfree" /\ pc = "check"
    /\ LET nohost == host = ""
           pass == nohost /\ "PASSIVE" \in hints.flags
           name == IF ~nohost THEN host ELSE IF ~pass THEN "localhost"
                   ELSE IF hints.family = "INET" THEN "0.0.0.0"
                   ELSE IF hints.family = "INET6" THEN "0::0" ELSE ""
           fam == IF ~nohost /\ hints.family = "UNSPEC" /\ Literal(host) # "no" THEN Literal(host)
                  ELSE hints.family
       IN  IF getaddrinfo_check # "" THEN Bad(getaddrinfo_check, FALSE)
           ELSE IF pass /\ (hints.family = "UNSPEC" \/ (hints.family = "LOCAL" /\ serv # "/path"))
           THEN Bad("ADDRFAMILY", FALSE)
           ELSE IF host = "/local" \/ serv = "/path"
           THEN /\ pc' = "local" /\ hints' = [hints EXCEPT !.family = fam]
                /\ UNCHANGED <<lib, host, serv, search, nsearch, list, loose, err, wild>>
           ELSE /\ pc' = "host" /\ search' = <<Entry(name, fam)>> /\ nsearch' = 1
                /\ hints' = [hints EXCEPT !.family = fam]
                /\ UNCHANGED <<lib, host, serv, list, loose, err, wild>>
    /\ UNCHANGED res6

\* getaddrinfo_host: RES_USE_INET6 is set for AF_INET6 and never cleared.
getaddrinfo_host(s) ==
    LET lit == Literal(s.host)
        six == res6 \/ s.family = "INET6"
    IN  IF lit # "no" THEN [family |-> lit, addrs |-> <<s.host>>, res6 |-> res6]
        ELSE LET ans == gethostbyname(s.host, six)
             IN  [family |-> ans.family, addrs |-> ans.addrs, res6 |-> six]

\* The structures, in line.
Structures(ans) ==
    [i \in 1..Len(ans.addrs) |->
        [family |-> ans.family, addr |-> ans.addrs[i], socktype |-> hints.socktype,
         clone |-> (hints.socktype = "0"), port |-> 0,
         canon |-> (i = 1 /\ "CANON" \in hints.flags)]]

HostFree(enough) ==
    /\ lib = "libfree" /\ pc = "host"
    /\ LET s   == Head(search)
           ans == getaddrinfo_host(s)
       IN  /\ res6' = ans.res6
           /\ IF ans.addrs = <<>> THEN Bad("NONAME", FALSE)
              ELSE IF s.family \notin {"UNSPEC", ans.family} THEN Bad("ADDRFAMILY", FALSE)
              ELSE IF ~enough THEN Bad("MEMORY", TRUE)
              ELSE /\ list' = Structures(ans)
                   /\ pc' = "serv" /\ search' = <<>>
                   /\ UNCHANGED <<lib, host, serv, hints, nsearch, loose, err, wild>>

\* addrinfo_local: the first failure of memory returns NULL, which is the
\* value of success, and the second leaves the structure behind.
addrinfo_local(fail) ==
    /\ pc = "local" /\ Idle
    /\ IF hints.socktype = "0" THEN err' = "SOCKTYPE" /\ UNCHANGED <<list, loose>>
       ELSE IF fail = 1 THEN err' = "0" /\ UNCHANGED <<list, loose>>
       ELSE IF fail = 2 THEN err' = "MEMORY" /\ loose' = 1 /\ UNCHANGED list
       ELSE err' = "0" /\ UNCHANGED loose /\ list' = <<[family |-> "LOCAL", addr |-> "/path", socktype |-> hints.socktype,
                                                   clone |-> FALSE, port |-> serv, canon |-> FALSE]>>
    /\ UNCHANGED <<lib, host, serv, hints, res6, wild>>

-----------------------------------------------------------------------------
CloneWithName(e, type, port) == [e EXCEPT !.clone = FALSE, !.socktype = type, !.port = port]

ga_clone(e, type, port) == [e EXCEPT !.clone = FALSE, !.canon = FALSE, !.socktype = type, !.port = port]

PortWithoutClone(l, port, type) ==
    [i \in 1..Len(l) |-> IF l[i].clone \/ l[i].socktype = type
                         THEN [l[i] EXCEPT !.socktype = type, !.port = port] ELSE l[i]]

\* ga_port: an entry open for every type takes this one, or is cloned if it
\* has one; others match or are skipped.
ga_port(l, port, type) ==
    LET one(e) == IF e.clone /\ e.socktype # "0" THEN <<e, ga_clone(e, type, port)>>
                  ELSE IF e.clone \/ e.socktype = type
                  THEN <<[e EXCEPT !.socktype = type, !.port = port]>>
                  ELSE <<e>>
    IN  FlattenSeq([i \in 1..Len(l) |-> one(l[i])])

getaddrinfo_clone(e, type, port) ==
    [family |-> e.family, addr |-> e.addr, socktype |-> type, clone |-> FALSE, port |-> port,
     canon |-> FALSE]

getaddrinfo_port(l, port, type) ==
    LET setsport(e) == [e EXCEPT !.socktype = type, !.port = port]
        one(e) == IF ~e.clone /\ e.socktype # type THEN <<e>>
                  ELSE IF e.clone /\ e.socktype # "0" THEN <<e, getaddrinfo_clone(e, type, port)>>
                  ELSE <<setsport(e)>>
    IN  FlattenSeq([i \in 1..Len(l) |-> one(l[i])])

PortOf(s, t) == IF s = "80" THEN 80 ELSE IF t = "STREAM" THEN 13 ELSE 14

Asked == IF hints.socktype = "0" THEN <<"STREAM", "DGRAM">> ELSE <<hints.socktype>>
Named == SelectSeq(Asked, LAMBDA t : HasService(serv, t))

\* A number is for every type in libgai; in libfree only with a type, else it
\* is looked up as a name.
ServTypes ==
    IF serv = "80" /\ (lib = "libgai" \/ hints.socktype # "0") THEN Asked ELSE Named

\* No service, or the end of getaddrinfo after filled has been made of the list.
Return(filled) ==
    /\ Idle /\ err' = "0" /\ list' = filled
    /\ UNCHANGED <<lib, host, serv, hints, loose, wild>>

\* The structures of every type have the port; a clone takes memory.
Fill(enough, filled) ==
    IF serv = "" THEN Return(list)
    ELSE IF ServTypes = <<>> THEN Bad(IF hints.socktype = "0" THEN "NONAME" ELSE "SERVICE", TRUE)
    ELSE IF ~enough /\ Len(ServTypes) = 2 THEN Bad("MEMORY", TRUE)
    ELSE Return(filled)

ga_serv(enough) ==
    /\ lib = "libgai" /\ pc = "serv"
    /\ Fill(enough, FoldLeft(LAMBDA l, t : ga_port(l, PortOf(serv, t), t), list, ServTypes))
    /\ UNCHANGED res6

getaddrinfo_serv(enough) ==
    /\ lib = "libfree" /\ pc = "serv"
    /\ Fill(enough, FoldLeft(LAMBDA l, t : getaddrinfo_port(l, PortOf(serv, t), t), list, ServTypes))
    /\ UNCHANGED res6

\* The caller has looked at the result and frees it.
freeaddrinfo ==
    /\ pc = "idle" /\ err # "none" /\ list' = <<>>
    /\ host' = "" /\ serv' = "" /\ hints' = NoHints /\ err' = "none" /\ wild' = FALSE /\ loose' = 0
    /\ UNCHANGED <<lib, pc, search, nsearch, res6>>

Next ==
    \/ /\ pc = "idle" /\ err = "none"
       /\ \E h \in Hosts, s \in Servs, f \in Flags, fam \in Families, t \in Socktypes : Call(h, s, f, fam, t)
    \/ CheckGai \/ CheckFree \/ freeaddrinfo
    \/ \E e \in BOOLEAN : HostGai(e) \/ CanonGai(e) \/ HostFree(e) \/ ga_unix(e) \/ ga_serv(e) \/ getaddrinfo_serv(e)
    \/ \E k \in 0..2 : addrinfo_local(k)

Spec == Init /\ [][Next]_vars

-----------------------------------------------------------------------------
Returned == pc = "idle" /\ err # "none"

\* The comment over ga_port: with no socket type there is one structure for
\* each address and each type of the service, with that type's port, and with
\* a type there is one for each address.
OnePerAddressAndType ==
    Returned /\ err = "0" /\ serv \notin {"", "/path"} /\ host # "/local" /\ list # <<>> =>
        LET addrs == {<<list[i].family, list[i].addr>> : i \in 1..Len(list)}
        IN  /\ Len(list) = Cardinality(addrs) * Len(ServTypes)
            /\ \A a \in addrs, k \in 1..Len(ServTypes) : \E i \in 1..Len(list) :
                  /\ <<list[i].family, list[i].addr>> = a /\ list[i].socktype = ServTypes[k]
                  /\ list[i].port = PortOf(serv, ServTypes[k])

\* The name asked for comes with the first structure and only there.
CanonOnFirst ==
    Returned /\ err = "0" /\ list # <<>> =>
        \A i \in 1..Len(list) : list[i].canon => i = 1 /\ "CANON" \in hints.flags

\* A call that fails keeps no memory and frees none it does not own.  libgai
\* keeps the canonical name and the Unix domain entries; libfree's errors
\* come before its list pointer is set.
ErrorsAreClean ==
    Returned /\ err # "0" =>
        /\ list = <<>>
        /\ wild => lib = "libfree"
        /\ loose > 0 => \/ lib = "libgai" /\ ("CANON" \in hints.flags \/ host = "/local")
                        \/ lib = "libfree" /\ (host = "/local" \/ serv = "/path")

\* The answer does not depend on earlier calls: a name with an IPv4 address is
\* found for AF_INET.  libfree forgets this once a call asked for AF_INET6.
NoMemoryOfCalls ==
    /\ Returned /\ err = "ADDRFAMILY" /\ hints.family = "INET" /\ A(host) # <<>> /\ serv # "/path"
          => lib = "libfree" /\ res6
    /\ Returned /\ err = "0" /\ hints.family = "INET" => \A i \in 1..Len(list) : list[i].family # "INET6"
=============================================================================
