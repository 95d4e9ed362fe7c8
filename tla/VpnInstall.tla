----------------------------- MODULE VpnInstall -----------------------------
(***************************************************************************)
(* bash/openvpn-install: the installer that is run again to add a client,  *)
(* to revoke one or to remove everything (openvpn-install.sh), and its     *)
(* variant with passwords (psw-openvpn-install.sh, checkpsw.sh,            *)
(* passwd_auth.sh).  The user may interrupt a run between any two steps    *)
(* and reboot the machine between runs.  easy-rsa, iptables and firewalld  *)
(* are external and modelled from how the scripts use them; a certificate  *)
(* is the number of its line in index.txt.                                 *)
(***************************************************************************)
EXTENDS Integers, Sequences, FiniteSets, SequencesExt

CONSTANTS Names, Passwords, MaxRuns, MaxCerts

VARIABLES script, fw, reject, admin, \* which script; firewalld?  REJECT rules?  own rules?
          pc, client,                \* the running script, and CLIENT
          cert,                      \* what revoke was told, or whether remove has found IP
          pki,                       \* easy-rsa/pki: ca, index.txt and crl.pem
          etc,                       \* /etc/openvpn
          run, perm,                 \* rules in the kernel and kept for the next boot
          sysctl, forward,           \* the file in sysctl.d, and the kernel's setting
          ovpn,                      \* ~/<name>.ovpn: ca and certificate, or nothing
          added, revoked,            \* what the scripts have said
          cut, runs                  \* steps at which a run was interrupted; number of runs

machine == <<pki, etc, run, perm, sysctl, forward, ovpn>>
facts   == <<script, fw, reject, admin>>
said    == <<added, revoked>>
vars    == <<facts, pc, client, cert, machine, said, cut, runs>>

NoFile == [ca |-> 0, cert |-> 0]
NoEtc  == [conf |-> FALSE, common |-> FALSE, ca |-> 0, crl |-> {}, hascrl |-> FALSE,
           owner |-> "root", auth |-> "", remote |-> "", psw |-> <<>>, pwauth |-> FALSE]
NoRules == [nat |-> 0, accept |-> 0, state |-> 0]
NoPki  == [ca |-> 0, index |-> <<>>, crl |-> {}]
Own    == [NoRules EXCEPT !.state = admin]

Init ==
    /\ script \in {"openvpn", "psw"} /\ fw \in BOOLEAN /\ reject \in BOOLEAN /\ admin \in {0, 1}
    /\ pc = "idle" /\ client = "" /\ cert = 0
    /\ pki = NoPki /\ etc = NoEtc /\ run = Own /\ perm = NoRules /\ sysctl = FALSE /\ forward = FALSE
    /\ ovpn = [n \in Names |-> NoFile]
    /\ added = {} /\ revoked = {} /\ cut = {} /\ runs = 0

Goto(l) == pc' = l
Exit == Goto("idle") /\ client' = "" /\ cert' = 0

\* The certificate of a name that index.txt lists as valid, 0 if there is none.
Valid(n) == LET S == {k \in 1..Len(pki.index) : pki.index[k] = <<n, "V">>}
            IN  IF S = {} THEN 0 ELSE CHOOSE k \in S : \A m \in S : m <= k

\* newclient: the template, the CA and the client's certificate ...
newclient(n) ==
    ovpn' = [ovpn EXCEPT ![n] = IF ~etc.common THEN NoFile ELSE [ca |-> pki.ca, cert |-> Valid(n)]]

\* ... which the variant with passwords leaves out.
PswNewclient(n) ==
    ovpn' = [ovpn EXCEPT ![n] = IF ~etc.common THEN NoFile ELSE [ca |-> pki.ca, cert |-> 0]]

-----------------------------------------------------------------------------
\* The script starts: the menu if server.conf is there, else the questions.
StartRun(s, n) ==
    /\ script = s /\ pc = "idle" /\ runs < MaxRuns /\ runs' = runs + 1
    /\ client' = n
    /\ Goto(IF etc.conf THEN "menu" ELSE "packages")
    /\ UNCHANGED <<facts, cert, machine, said, cut>>
Start(n) == StartRun("openvpn", n)
PswStart(n) == StartRun("psw", n)

\* Packages and easy-rsa.  A second installation leaves the old pki in place
\* (mv puts the new directory into the old one).
Packages(s) ==
    /\ script = s /\ pc = "packages" /\ Goto("ca")
    /\ UNCHANGED <<facts, client, cert, machine, said, cut, runs>>
InstallPackages == Packages("openvpn")
PswPackages == Packages("psw")

\* init-pki asks before it wipes an old pki; a CA that exists is kept, as is
\* the server's certificate, which is line 1 of index.txt.
InstallCa(wipe) ==
    /\ pc = "ca" /\ Goto("client")
    /\ pki' = IF pki.ca = 0 \/ wipe
              THEN [ca |-> runs, index |-> <<<<"server", "V">>>>, crl |-> {}] ELSE pki
    /\ UNCHANGED <<facts, client, cert, etc, run, perm, sysctl, forward, ovpn, said, cut, runs>>

build_client_full(n) ==
    IF Valid(n) # 0 \/ Len(pki.index) > MaxCerts THEN pki.index
    ELSE Append(pki.index, <<n, "V">>)
EmptyCrl(index) == {}
gen_crl(index) == {k \in 1..Len(index) : index[k][2] = "R"}

InstallClientRootCrl ==
    /\ pc = "client" /\ script = "openvpn" /\ Goto("conf")
    /\ LET index == build_client_full(client)
       IN  /\ pki' = [pki EXCEPT !.index = index, !.crl = gen_crl(index)]
           /\ etc' = [etc EXCEPT !.ca = pki.ca, !.crl = gen_crl(index), !.hascrl = TRUE]
    /\ UNCHANGED <<facts, client, cert, run, perm, sysctl, forward, ovpn, said, cut, runs>>

\* The client's certificate, the CRL, the copies in /etc/openvpn and the
\* CRL's owner.
InstallClient ==
    /\ pc = "client" /\ script = "openvpn" /\ Goto("conf")
    /\ LET index == build_client_full(client)
       IN  /\ pki' = [pki EXCEPT !.index = index, !.crl = gen_crl(index)]
           /\ etc' = [etc EXCEPT !.ca = pki.ca, !.crl = gen_crl(index), !.hascrl = TRUE,
                                 !.owner = "nobody"]
    /\ UNCHANGED <<facts, client, cert, run, perm, sysctl, forward, ovpn, said, cut, runs>>

\* Without a client's certificate and with a first password; it is crl.pe
\* that is given to nobody, not crl.pem.
PswClient ==
    /\ pc = "client" /\ script = "psw" /\ Goto("conf")
    /\ pki' = [pki EXCEPT !.crl = gen_crl(pki.index)]
    /\ etc' = [etc EXCEPT !.ca = pki.ca, !.crl = gen_crl(pki.index), !.hascrl = TRUE,
                          !.owner = "root", !.psw = <<<<"client", "password">>>>]
    /\ UNCHANGED <<facts, client, cert, run, perm, sysctl, forward, ovpn, said, cut, runs>>

\* server.conf.
InstallConf ==
    /\ pc = "conf" /\ script = "openvpn" /\ Goto("forward")
    /\ etc' = [etc EXCEPT !.conf = TRUE, !.auth = "SHA512"]
    /\ UNCHANGED <<facts, client, cert, pki, run, perm, sysctl, forward, ovpn, said, cut, runs>>

\* The variant has auth in a comment and changes nothing else of the machine.
PswConf ==
    /\ pc = "conf" /\ script = "psw" /\ Goto("common")
    /\ etc' = [etc EXCEPT !.conf = TRUE, !.auth = "SHA1"]
    /\ UNCHANGED <<facts, client, cert, pki, run, perm, sysctl, forward, ovpn, said, cut, runs>>

InstallForward ==
    /\ pc = "forward" /\ sysctl' = TRUE /\ forward' = TRUE /\ Goto("rules")
    /\ UNCHANGED <<facts, client, cert, pki, etc, run, perm, ovpn, said, cut, runs>>

\* The rules in four steps: firewalld opens the port and trusts the network,
\* now and for later, then does NAT; iptables does NAT, now and in rc.local,
\* and accepts if there are REJECT rules.  firewalld keeps a rule once.
Set(r, f) == [r EXCEPT ![f] = 1]
Add(r, f) == [r EXCEPT ![f] = @ + 1]
InstallRules ==
    /\ \/ pc = "rules" /\ fw /\ run' = Set(run, "accept") /\ UNCHANGED perm /\ Goto("rules2")
       \/ pc = "rules2" /\ fw /\ perm' = Set(perm, "accept") /\ UNCHANGED run /\ Goto("rules3")
       \/ pc = "rules3" /\ fw /\ run' = Set(run, "nat") /\ UNCHANGED perm /\ Goto("rules4")
       \/ pc = "rules4" /\ fw /\ perm' = Set(perm, "nat") /\ UNCHANGED run /\ Goto("common")
       \/ pc = "rules" /\ ~fw /\ run' = Add(run, "nat") /\ UNCHANGED perm /\ Goto("rules2")
       \/ /\ pc = "rules2" /\ ~fw /\ perm' = Add(perm, "nat") /\ UNCHANGED run
          /\ Goto(IF reject THEN "rules3" ELSE "common")
       \/ /\ pc = "rules3" /\ ~fw /\ run' = Add(Add(run, "accept"), "state") /\ UNCHANGED perm
          /\ Goto("rules4")
       \/ /\ pc = "rules4" /\ ~fw /\ perm' = Add(Add(perm, "accept"), "state") /\ UNCHANGED run
          /\ Goto("common")
    /\ UNCHANGED <<facts, client, cert, pki, etc, sysctl, forward, ovpn, said, cut, runs>>

\* The service is restarted and client-common.txt written, with the public
\* address if the server is behind NAT; the variant asks for it and forgets it.
WriteCommon(remote) ==
    /\ etc' = [etc EXCEPT !.common = TRUE, !.remote = remote] /\ Goto("newclient")
    /\ UNCHANGED <<facts, client, cert, pki, run, perm, sysctl, forward, ovpn, said, cut, runs>>
InstallCommon == script = "openvpn" /\ pc = "common" /\ WriteCommon("public")
PswCommon == script = "psw" /\ pc = "common" /\ WriteCommon("interface")

NewClient ==
    /\ pc = "newclient" /\ script = "openvpn" /\ newclient(client)
    /\ added' = added \cup {client}
    /\ Exit
    /\ UNCHANGED <<facts, pki, etc, run, perm, sysctl, forward, revoked, cut, runs>>

PswFile ==
    /\ pc = "newclient" /\ script = "psw" /\ PswNewclient(client)
    /\ Exit
    /\ UNCHANGED <<facts, pki, etc, run, perm, sysctl, forward, said, cut, runs>>

-----------------------------------------------------------------------------
\* 1) Add a new user: its certificate ...
MenuAdd ==
    /\ pc = "menu" /\ script = "openvpn" /\ Goto("newclient")
    /\ pki' = [pki EXCEPT !.index = build_client_full(client)]
    /\ UNCHANGED <<facts, client, cert, etc, run, perm, sysctl, forward, ovpn, said, cut, runs>>

PswOverwrite(pw) ==
    /\ pc = "menu" /\ script = "psw" /\ Goto("newclient")
    /\ etc' = [etc EXCEPT !.psw = <<<<client, pw>>>>]
    /\ added' = added \cup {<<client, pw>>}
    /\ UNCHANGED <<facts, client, cert, pki, run, perm, sysctl, forward, ovpn, revoked, cut, runs>>

\* ... or its line of psw-file.
PswAdd(pw) ==
    /\ pc = "menu" /\ script = "psw" /\ Goto("newclient")
    /\ etc' = [etc EXCEPT !.psw = Append(@, <<client, pw>>)]
    /\ added' = added \cup {<<client, pw>>}
    /\ UNCHANGED <<facts, client, cert, pki, run, perm, sysctl, forward, ovpn, revoked, cut, runs>>

\* 2) Revoke: the valid lines after the first are numbered; an empty answer
\* prints them all and easyrsa takes the first, a wrong number prints none.
Listed == SelectSeq([k \in 1..Len(pki.index) |-> k], LAMBDA k : k > 1 /\ pki.index[k][2] = "V")
MenuRevoke(number) ==
    /\ pc = "menu" /\ script = "openvpn"
    /\ IF Listed = <<>> THEN Exit /\ UNCHANGED pki
       ELSE LET k == IF number = 0 THEN Listed[1]
                     ELSE IF number <= Len(Listed) THEN Listed[number] ELSE 0
            IN  /\ cert' = k /\ Goto("crl") /\ UNCHANGED client
                /\ pki' = IF k = 0 THEN pki ELSE [pki EXCEPT !.index[k] = <<@[1], "R">>]
    /\ UNCHANGED <<facts, etc, run, perm, sysctl, forward, ovpn, said, cut, runs>>

RevokeOldCrl ==
    /\ \/ /\ pc = "crl" /\ Goto("crlrm") /\ UNCHANGED <<pki, etc, client, cert, revoked, added>>
       \/ /\ pc = "crlrm" /\ etc' = [etc EXCEPT !.hascrl = FALSE, !.crl = {}] /\ Goto("crlcp")
          /\ UNCHANGED <<pki, client, cert, revoked, added>>
       \/ /\ pc = "crlcp" /\ etc' = [etc EXCEPT !.hascrl = TRUE, !.crl = pki.crl, !.owner = "nobody"]
          /\ revoked' = IF cert = 0 THEN revoked ELSE revoked \cup {[ca |-> pki.ca, cert |-> cert]}
          /\ added' = IF cert = 0 THEN added ELSE added \ {pki.index[cert][1]}
          /\ Exit /\ UNCHANGED pki
    /\ UNCHANGED <<facts, run, perm, sysctl, forward, ovpn, cut, runs>>

\* gen-crl; rm -f crl.pem; cp and chown, and the message.
RevokeCrl ==
    /\ \/ /\ pc = "crl" /\ pki' = [pki EXCEPT !.crl = gen_crl(pki.index)] /\ Goto("crlrm")
          /\ UNCHANGED <<etc, client, cert, revoked, added>>
       \/ /\ pc = "crlrm" /\ etc' = [etc EXCEPT !.hascrl = FALSE, !.crl = {}] /\ Goto("crlcp")
          /\ UNCHANGED <<pki, client, cert, revoked, added>>
       \/ /\ pc = "crlcp" /\ etc' = [etc EXCEPT !.hascrl = TRUE, !.crl = pki.crl, !.owner = "nobody"]
          /\ revoked' = IF cert = 0 THEN revoked ELSE revoked \cup {[ca |-> pki.ca, cert |-> cert]}
          /\ added' = IF cert = 0 THEN added ELSE added \ {pki.index[cert][1]}
          /\ Exit /\ UNCHANGED pki
    /\ UNCHANGED <<facts, run, perm, sysctl, forward, ovpn, cut, runs>>

\* 3) Remove: looks for the NAT rule, with firewalld among the rules in force,
\* else in rc.local, where IP is no use when the rule is there twice ...
MenuRemove ==
    /\ pc = "menu" /\ script = "openvpn" /\ Goto("remove")
    /\ cert' = IF fw THEN run.nat ELSE IF perm.nat = 1 THEN 1 ELSE 0
    /\ UNCHANGED <<facts, client, machine, said, cut, runs>>

\* ... and deletes the rules in four steps, the NAT rule only with its IP, and
\* with iptables the accepting ones, now and later, if any rule accepts now.
Less(r, f) == [r EXCEPT ![f] = IF @ > 0 THEN @ - 1 ELSE 0]
None(r, f) == [r EXCEPT ![f] = 0]
ForIP(r, s) == IF cert = 0 THEN r ELSE s
RemoveRules ==
    /\ \/ pc = "remove" /\ fw /\ run' = None(run, "accept") /\ UNCHANGED perm /\ Goto("remove2")
       \/ pc = "remove2" /\ fw /\ perm' = None(perm, "accept") /\ UNCHANGED run /\ Goto("remove3")
       \/ pc = "remove3" /\ fw /\ run' = ForIP(run, None(run, "nat")) /\ UNCHANGED perm /\ Goto("remove4")
       \/ pc = "remove4" /\ fw /\ perm' = ForIP(perm, None(perm, "nat")) /\ UNCHANGED run /\ Goto("purge")
       \/ pc = "remove" /\ ~fw /\ run' = ForIP(run, Less(run, "nat")) /\ UNCHANGED perm /\ Goto("remove2")
       \/ pc = "remove2" /\ ~fw /\ perm' = None(perm, "nat") /\ UNCHANGED run /\ Goto("remove3")
       \/ /\ pc = "remove3" /\ ~fw /\ UNCHANGED perm
          /\ IF run.accept + run.state > 0
             THEN run' = Less(Less(run, "accept"), "state") /\ Goto("remove4")
             ELSE UNCHANGED run /\ Goto("purge")
       \/ /\ pc = "remove4" /\ ~fw /\ perm' = None(None(perm, "accept"), "state") /\ UNCHANGED run
          /\ Goto("purge")
    /\ UNCHANGED <<facts, client, cert, pki, etc, sysctl, forward, ovpn, said, cut, runs>>

\* The package and /etc/openvpn ...
Purge ==
    /\ pc = "purge" /\ etc' = NoEtc /\ pki' = NoPki /\ Goto("sysctl")
    /\ UNCHANGED <<facts, client, cert, run, perm, sysctl, forward, ovpn, said, cut, runs>>

PurgeKeepsSysctl ==
    /\ pc = "sysctl" /\ added' = {} /\ revoked' = {} /\ Exit
    /\ UNCHANGED <<facts, pki, etc, run, perm, sysctl, forward, ovpn, cut, runs>>

\* ... the sysctl file, and the message; the kernel's setting stays.
PurgeSysctl ==
    /\ pc = "sysctl" /\ sysctl' = FALSE
    /\ added' = {} /\ revoked' = {} /\ Exit
    /\ UNCHANGED <<facts, pki, etc, run, perm, forward, ovpn, cut, runs>>

\* Remove SD-WAN.
PswRemove ==
    /\ pc = "menu" /\ script = "psw" /\ etc' = NoEtc /\ pki' = NoPki
    /\ added' = {} /\ Exit
    /\ UNCHANGED <<facts, run, perm, sysctl, forward, ovpn, revoked, cut, runs>>

\* passwd_auth.sh adds checkpsw.sh and two users to a server with certificates;
\* a second time it would add the same lines again.
passwd_auth ==
    /\ pc = "idle" /\ etc.conf /\ script = "openvpn" /\ ~etc.pwauth
    /\ etc' = [etc EXCEPT !.pwauth = TRUE, !.psw = @ \o <<<<"user1", "pass1">>, <<"user2", "pass2">>>>]
    /\ UNCHANGED <<facts, pc, client, cert, pki, run, perm, sysctl, forward, ovpn, said, cut, runs>>

Interrupt ==
    /\ pc \notin {"idle", "menu"} /\ cut' = cut \cup {pc} /\ Exit
    /\ UNCHANGED <<facts, machine, said, runs>>

MenuExit ==
    /\ pc = "menu" /\ Exit
    /\ UNCHANGED <<facts, machine, said, cut, runs>>

Reboot ==
    /\ pc = "idle" /\ runs < MaxRuns
    /\ run' = [perm EXCEPT !.state = @ + admin] /\ forward' = sysctl
    /\ UNCHANGED <<facts, pc, client, cert, pki, etc, perm, sysctl, ovpn, said, cut, runs>>

Next ==
    \/ \E n \in Names : Start(n) \/ PswStart(n)
    \/ PswPackages \/ PswClient \/ PswConf \/ PswCommon \/ PswFile \/ PswRemove
    \/ InstallPackages \/ InstallClient \/ InstallConf \/ InstallForward \/ InstallRules
    \/ InstallCommon \/ NewClient \/ MenuAdd \/ RevokeCrl \/ MenuRemove \/ RemoveRules
    \/ Purge \/ PurgeSysctl \/ passwd_auth
    \/ Interrupt \/ MenuExit \/ Reboot
    \/ \E b \in BOOLEAN : InstallCa(b)
    \/ \E p \in Passwords : PswAdd(p)
    \/ \E k \in 0..MaxCerts : MenuRevoke(k)

Spec == Init /\ [][Next]_vars

-----------------------------------------------------------------------------
\* checkpsw.sh: the first line with the name decides.
checkpsw(user, pw) ==
    LET mine == SelectSeq(etc.psw, LAMBDA l : l[1] = user)
    IN  mine # <<>> /\ mine[1][2] = pw

\* Does the server let this file in, with this name and password?  The
\* client's file says SHA512; after passwd_auth.sh, or with the variant, the
\* server runs checkpsw.sh, and the file alone has no name to send.
NoLogin == <<"", "">>
Admits(f, login) ==
    /\ etc.conf /\ etc.hascrl /\ etc.owner = "nobody" /\ etc.auth = "SHA512" /\ etc.remote = "public"
    /\ f.ca = etc.ca /\ f.ca # 0 /\ f.cert # 0 /\ f.cert \notin etc.crl
    /\ etc.pwauth => checkpsw(login[1], login[2])

\* A certificate the script said was revoked never gets in again, whatever is
\* interrupted, removed, installed or named the same later, and whatever name
\* and password of psw-file comes with it.
RevokedStaysOut == \A f \in revoked : \A login \in {NoLogin} \cup Range(etc.psw) : ~Admits(f, login)

\* A client the script said was added, and did not say was revoked, gets in
\* when no script runs: with its file alone as long as passwd_auth.sh was not
\* run, and after that with a name and a password which passwd_auth.sh added.
\* A revocation that was cut off may leave no CRL or a certificate that is
\* invalid and not said to be, and a cut installation no template for the
\* client's file.
AddedIsAdmitted ==
    pc = "idle" /\ script = "openvpn" /\ cut = {} =>
        \A n \in added : Admits(ovpn[n], IF etc.pwauth THEN <<"user1", "pass1">> ELSE NoLogin)

\* The CRL the server reads is that of index.txt, when no revocation was cut
\* off: the menu does not list a revoked client a second time.
CrlIsCurrent ==
    pc = "idle" /\ etc.conf /\ cut \cap {"crl", "crlrm", "crlcp"} = {} => etc.crl = gen_crl(pki.index)

\* A password the script added opens the door, if the name had none before.
PasswordWorks ==
    script = "psw" => \A a \in added :
        checkpsw(a[1], a[2]) \/ \E b \in added \cup {<<"client", "password">>} : b # a /\ b[1] = a[1]

\* Where a run that is cut off leaves something a later removal does not find:
\* the NAT rule in one place of two, or the accepting rules in rc.local alone,
\* and the sysctl file when /etc/openvpn is gone.
Lasting == {"remove4", "sysctl"} \cup IF fw THEN {} ELSE {"rules2"}

\* After "OpenVPN removed!" no rule and no setting for the next boot is left,
\* and of the kernel's rules the administrator's own, also when runs before it
\* were cut off anywhere else and the removal was made in several attempts.
\* With iptables each attempt deletes a rule like the installer's, which is
\* the administrator's if the installer's own is not there.
RemovedIsUndone ==
    pc = "idle" /\ ~etc.conf /\ cut \cap Lasting = {} =>
        /\ perm = NoRules /\ ~sysctl /\ run.nat = 0 /\ run.accept = 0
        /\ run.state = admin \/ (run.state = 0 /\ ~fw /\ (~reject \/ cut # {}))
=============================================================================
