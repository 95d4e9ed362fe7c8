------------------------------ MODULE InetText ------------------------------
(***************************************************************************)
(* The conversions of unpv13e/libfree between addresses and text, the      *)
(* names getnameinfo returns, and the Internet checksum with what          *)
(* udpcksum does with it.  A character is its value as a hexadecimal       *)
(* digit, or Colon, Dot or Other.  An address of IPv6 has W 16-bit words   *)
(* (8 in the code), the last two of which may be written as an IPv4 one.   *)
(***************************************************************************)
EXTENDS Integers, Sequences, FiniteSets, SequencesExt

CONSTANTS W,          \* words of an IPv6 address
          Texts,      \* texts that are parsed
          Addresses6, Addresses4,  \* addresses that are printed: tuples of words, of bytes
          Sizes,      \* sizes of the buffers given
          Packets     \* words of datagrams

VARIABLES op, arg, size, res
vars == <<op, arg, size, res>>

Colon == 16
Dot == 17
Other == 18
Bytes6 == 2 * W
INET_ADDRSTRLEN == 16  \* "255.255.255.255" and its NUL

-----------------------------------------------------------------------------
(* Parsing.  "top" is the highest byte of tmp written; 0 is none.          *)

Pton4Start == [ok |-> TRUE, saw |-> FALSE, octets |-> 0, tmp |-> <<0>>, top |-> 1]
Pton4Char(s, ch) ==
    LET last == Len(s.tmp)
        new == s.tmp[last] * 10 + ch
    IN  IF ~s.ok THEN s
        ELSE IF ch <= 9 THEN
            IF new > 255 \/ (~s.saw /\ s.octets + 1 > 4) THEN [s EXCEPT !.ok = FALSE]
            ELSE [s EXCEPT !.tmp[last] = new, !.octets = IF s.saw THEN @ ELSE @ + 1, !.saw = TRUE]
        ELSE IF ch = Dot /\ s.saw /\ s.octets < 4 THEN
            [s EXCEPT !.tmp = Append(@, 0), !.saw = FALSE, !.top = last + 1]
        ELSE [s EXCEPT !.ok = FALSE]
Pton4End(s) == [ok |-> s.ok /\ s.octets >= 4, addr |-> s.tmp, top |-> s.top]
inet_pton4(src) == Pton4End(FoldLeft(Pton4Char, Pton4Start, src))

Pton6Start(i) == [ok |-> TRUE, stop |-> FALSE, tok |-> i, saw |-> FALSE, val |-> 0, tmp |-> <<>>, colonp |-> -1]
Store(s) ==
    IF Len(s.tmp) + 2 > Bytes6 THEN [s EXCEPT !.ok = FALSE]
    ELSE [s EXCEPT !.tmp = @ \o <<s.val \div 256, s.val % 256>>, !.saw = FALSE, !.val = 0]
ManyDoubles(s, i) == [s EXCEPT !.colonp = Len(s.tmp), !.tok = i + 1]

\* A colon without digits before it is the second of two, once.
DoubleColon(s, i) ==
    IF s.colonp # -1 THEN [s EXCEPT !.ok = FALSE]
    ELSE [s EXCEPT !.colonp = Len(s.tmp), !.tok = i + 1]
\* The rest from the last group on is a quad, and the end.
QuadAtEnd(s, v4) ==
    IF Len(s.tmp) + 4 <= Bytes6 /\ v4.ok
    THEN [s EXCEPT !.tmp = @ \o v4.addr, !.saw = FALSE, !.stop = TRUE]
    ELSE [s EXCEPT !.ok = FALSE]
Pton6Char(s, src, i) ==
    LET ch == src[i]
    IN  IF ~s.ok \/ s.stop THEN s
        ELSE IF ch < 16 THEN
            IF s.val * 16 + ch > 65535 THEN [s EXCEPT !.ok = FALSE]
            ELSE [s EXCEPT !.val = @ * 16 + ch, !.saw = TRUE]
        ELSE IF ch = Colon THEN
            IF s.saw THEN [Store(s) EXCEPT !.tok = i + 1]
            ELSE DoubleColon(s, i)
        ELSE IF ch = Dot THEN QuadAtEnd(s, inet_pton4(SubSeq(src, s.tok, Len(src))))
        ELSE [s EXCEPT !.ok = FALSE]
Pton6Last(s) == IF s.ok /\ s.saw THEN Store(s) ELSE s
Zeros(n) == [i \in 1..n |-> 0]
\* What follows the double colon is moved to the end, byte by byte, and each
\* byte is zeroed where it was: in a full address that is where it goes to.
Shifted(tmp, colonp) ==
    LET n == Len(tmp) - colonp
    IN  IF colonp = -1 THEN tmp
        ELSE IF Len(tmp) = Bytes6 THEN SubSeq(tmp, 1, colonp) \o Zeros(n)
        ELSE SubSeq(tmp, 1, colonp) \o Zeros(Bytes6 - Len(tmp)) \o SubSeq(tmp, colonp + 1, Len(tmp))
Pton6End(s, lead) ==
    LET addr == Shifted(s.tmp, s.colonp)
    IN  [ok |-> lead /\ s.ok /\ Len(addr) = Bytes6, addr |-> addr, top |-> Len(s.tmp)]
\* A leading colon must be one of two, and is skipped.
inet_pton6(src) ==
    LET skip == IF Len(src) > 0 /\ src[1] = Colon THEN 1 ELSE 0
        Char(s, i) == IF i <= skip THEN s ELSE Pton6Char(s, src, i)
    IN  Pton6End(Pton6Last(FoldLeftDomain(Char, Pton6Start(skip + 1), src)),
                 skip = 0 \/ (Len(src) > 1 /\ src[2] = Colon))

\* Any number of parts, and the bytes that are missing are zero at the end.
\* The sum is kept at its first value above 255: with fewer than 20 digits
\* the unsigned long cannot come back to a smaller one.
AtonChar(s, ch) ==
    IF ~s.ok THEN s
    ELSE IF ch <= 9 THEN [s EXCEPT !.acc = IF @ > 255 THEN @ ELSE @ * 10 + ch]
    ELSE IF ch = Dot /\ s.dots < 3 /\ s.acc <= 255 THEN
        [s EXCEPT !.dots = @ + 1, !.addr = Append(@, s.acc), !.acc = 0]
    ELSE [s EXCEPT !.ok = FALSE]
AtonEnd(s) == [ok |-> s.ok /\ s.acc <= 255,
               addr |-> Append(s.addr, s.acc) \o [i \in 1..3 - Len(s.addr) |-> 0]]
inet_aton(src) == AtonEnd(FoldLeft(AtonChar, [ok |-> TRUE, dots |-> 0, acc |-> 0, addr |-> <<>>], src))
PtonHostOrder(src) == [inet_aton(src) EXCEPT !.addr = Reverse(@)]

inet_pton_ipv4(src) == inet_aton(src)

-----------------------------------------------------------------------------
(* Printing.  "wrote" is how many bytes are stored at dst, the NUL too.    *)

Decimal(b) == (IF b >= 100 THEN <<b \div 100>> ELSE <<>>) \o (IF b >= 10 THEN <<(b \div 10) % 10>> ELSE <<>>)
              \o <<b % 10>>
Quad(a) == Decimal(a[1]) \o <<Dot>> \o Decimal(a[2]) \o <<Dot>> \o Decimal(a[3]) \o <<Dot>> \o Decimal(a[4])
Printed(text, fits) == [ok |-> fits, text |-> IF fits THEN text ELSE <<>>, wrote |-> IF fits THEN Len(text) + 1 ELSE 0]
Fitting(text, n) == Printed(text, ~(Len(text) > n))
inet_ntop4(a, n) == Fitting(Quad(a), n)
NtopNoNul(a, n) == Fitting(Quad(a), n)

inet_ntop_ipv4(a, n) == Fitting(Quad(a), n - 1)

Hex(w) == (IF w >= 4096 THEN <<w \div 4096>> ELSE <<>>) \o (IF w >= 256 THEN <<(w \div 256) % 16>> ELSE <<>>)
          \o (IF w >= 16 THEN <<(w \div 16) % 16>> ELSE <<>>) \o <<w % 16>>

\* The first of the longest runs of zero words, if it has two or more.
BestRun(words) ==
    LET Run(b, l) == b + l - 1 <= W /\ \A i \in b..b + l - 1 : words[i] = 0
        lens == {l \in 2..W : \E b \in 1..W : Run(b, l)}
        len == CHOOSE l \in lens : \A m \in lens : m <= l
    IN  IF lens = {} THEN [base |-> -1, len |-> 0]
        ELSE [base |-> CHOOSE b \in 1..W : Run(b, len) /\ \A c \in 1..b - 1 : ~Run(c, len), len |-> len]
EndsEarly(best) == best.base # -1 /\ best.base + best.len = W

\* Was it a trailing run?
EndsInRun(best) == best.base # -1 /\ best.base + best.len = W + 1
Text6(words, best) ==
    LET v4 == best.base = 1 /\ (best.len = W - 2 \/ (best.len = W - 3 /\ words[W - 2] = 65535))
        Word(i) ==
            IF best.base # -1 /\ i >= best.base /\ i < best.base + best.len
            THEN IF i = best.base THEN <<Colon>> ELSE <<>>
            ELSE (IF i # 1 THEN <<Colon>> ELSE <<>>) \o
                 IF v4 /\ i = W - 1
                 THEN Quad(<<words[i] \div 256, words[i] % 256, words[W] \div 256, words[W] % 256>>)
                 ELSE Hex(words[i])
    IN  FlattenSeq([i \in 1..(IF v4 THEN W - 1 ELSE W) |-> Word(i)])
        \o IF EndsInRun(best) THEN <<Colon>> ELSE <<>>
Ntop6(words) == Text6(words, BestRun(words))
inet_ntop6(words, n) == Fitting(Ntop6(words), n - 1)

-----------------------------------------------------------------------------
(* The name of an address, of one length longer than the number.           *)

\* strncpy of libfree, snprintf of libgai: bytes stored, and is there a NUL?
do_ipv46(known, len, n) ==
    IF n = 0 THEN [ok |-> TRUE, wrote |-> 0, nul |-> TRUE]
    ELSE IF known THEN [ok |-> TRUE, wrote |-> n, nul |-> len < n]
    ELSE [ok |-> FALSE, wrote |-> 0, nul |-> TRUE]
CopiedName(len, n) == [ok |-> TRUE, wrote |-> n, nul |-> len < n]

PrintedName(len, n) == [ok |-> TRUE, wrote |-> IF len < n THEN len + 1 ELSE n, nul |-> TRUE]
gn_ipv46(known, len, n, flags) ==
    LET num == inet_ntop4(<<10, 0, 0, 1>>, n)
    IN  IF n = 0 THEN [ok |-> TRUE, wrote |-> 0, nul |-> TRUE]
        ELSE IF "NUMERICHOST" \in flags \/ (~known /\ "NAMEREQD" \notin flags)
             THEN [ok |-> num.ok, wrote |-> num.wrote, nul |-> TRUE]
        ELSE IF known THEN PrintedName(len, n)
        ELSE [ok |-> FALSE, wrote |-> 0, nul |-> TRUE]

-----------------------------------------------------------------------------
(* The checksum: a 32-bit accumulator, folded twice.                       *)

Total(words) == FoldLeft(LAMBDA s, w : s + w, 0, words)
FoldOnce(sum) == (sum \div 65536) + (sum % 65536)

Fold16(sum) == LET once == (sum \div 65536) + (sum % 65536) IN once + (once \div 65536)
in_cksum(words) == 65535 - (Fold16(Total(words)) % 65536)
bsdping_in_cksum(words) == 65535 - (Fold16(Total(words)) % 65536)
\* The checksum is the first word; 0 would say that there is none.
udp_write(words, zerosum) ==
    LET sum == in_cksum(<<0>> \o words)
    IN  <<IF zerosum THEN 0 ELSE IF sum = 0 THEN 65535 ELSE sum>> \o words
udp_check(header) == in_cksum(header) = 0

-----------------------------------------------------------------------------
(* One call of each.                                                       *)

Init == op = "" /\ arg = <<>> /\ size = 0 /\ res = <<>>

Call(ops, args, sizes) ==
    /\ op = "" /\ op' \in ops /\ arg' \in args /\ size' \in sizes /\ UNCHANGED res
Calls ==
    \/ Call({"pton6", "pton4", "aton", "pton_ipv4"}, Texts, {0})
    \/ Call({"ntop6"}, Addresses6, Sizes)
    \/ Call({"ntop4", "ntop_ipv4"}, Addresses4, Sizes)
    \/ Call({"getnameinfo", "getnameinfo_free"},
            [known : BOOLEAN, len : 1..3, flags : SUBSET {"NUMERICHOST", "NAMEREQD"}], Sizes)
    \/ Call({"udp_write", "ping"}, Packets, {0})
Return(o, r) == op = o /\ res = <<>> /\ res' = <<r>> /\ UNCHANGED <<op, arg, size>>
Next ==
    \/ Calls
    \/ Return("pton6", inet_pton6(arg))
    \/ Return("pton4", inet_pton4(arg))
    \/ Return("aton", inet_aton(arg))
    \/ Return("pton_ipv4", inet_pton_ipv4(arg))
    \/ Return("ntop6", inet_ntop6(arg, size))
    \/ Return("ntop4", inet_ntop4(arg, size))
    \/ Return("ntop_ipv4", inet_ntop_ipv4(arg, size))
    \/ Return("getnameinfo", gn_ipv46(arg.known, arg.len, size, arg.flags))
    \/ Return("getnameinfo_free", do_ipv46(arg.known, arg.len, size))
    \/ Return("udp_write", udp_write(arg, FALSE))
    \/ Return("ping", <<bsdping_in_cksum(<<0>> \o arg)>> \o arg)
Spec == Init /\ [][Next]_vars

-----------------------------------------------------------------------------
Done(o) == op \in o /\ res # <<>>
Words(bytes) == [i \in 1..W |-> bytes[2 * i - 1] * 256 + bytes[2 * i]]

\* What is printed is parsed back to the same address, by either parser.
RoundTrip ==
    /\ Done({"ntop6"}) /\ res[1].ok => LET p == inet_pton6(res[1].text) IN p.ok /\ Words(p.addr) = arg
    /\ Done({"ntop4", "ntop_ipv4"}) /\ res[1].ok =>
           /\ inet_pton4(res[1].text).ok /\ inet_pton4(res[1].text).addr = arg
           /\ inet_aton(res[1].text) = [ok |-> TRUE, addr |-> arg]

\* The text of an IPv6 address by its grammar: groups of digits with single
\* colons between them, of which one may be a double one, and a quad at the
\* end.  As the comment says, a double colon may stand for no group at all.
Groups(src) ==
    LET Split(s, ch) == IF ch = Colon THEN Append(s, <<>>) ELSE Append(Front(s), Append(Last(s), ch))
    IN  FoldLeft(Split, <<<<>>>>, src)
IsGroup(g) ==
    /\ Len(g) > 0 /\ \A i \in 1..Len(g) : g[i] < 16
    /\ FoldLeft(LAMBDA v, d : IF v > 65535 THEN v ELSE v * 16 + d, 0, g) <= 65535
Valid6(src) ==
    LET g == Groups(src)
        n == Len(g)
        empty == {i \in 1..n : g[i] = <<>>}
        quad == n > 0 /\ inet_pton4(g[n]).ok
        words == n - Cardinality(empty) + IF quad THEN 1 ELSE 0
        double == \/ \E i \in 2..n - 1 : empty = {i}
                  \/ n > 2 /\ empty \in {{1, 2}, {n - 1, n}}
                  \/ n = 3 /\ empty = 1..3
    IN  /\ \A i \in 1..n : g[i] = <<>> \/ IsGroup(g[i]) \/ (i = n /\ quad)
        /\ IF empty = {} THEN words = W ELSE double /\ words <= W

\* The words that are written out in the text of a valid address, and the
\* ones it stands for: the double colon is for the zeros that are missing.
Written(groups) ==
    LET n == Len(groups)
        quad == inet_pton4(groups[n])
        Value(i) ==
            IF groups[i] = <<>> THEN <<>>
            ELSE IF i = n /\ quad.ok
                 THEN <<quad.addr[1] * 256 + quad.addr[2], quad.addr[3] * 256 + quad.addr[4]>>
            ELSE <<FoldLeft(LAMBDA v, d : v * 16 + d, 0, groups[i])>>
    IN  FlattenSeq([i \in 1..n |-> Value(i)])
Value6(src) ==
    LET words == Written(Groups(src))
        before == SelectInSeq(Groups(src), LAMBDA g : g = <<>>) - 1
    IN  IF Len(words) = W THEN words
        ELSE SubSeq(words, 1, before) \o Zeros(W - Len(words)) \o SubSeq(words, before + 1, Len(words))

\* All the groups are there, and a double colon besides.
FullWithDouble(src) == Len(Written(Groups(src))) = W /\ \E i \in 1..Len(Groups(src)) : Groups(src)[i] = <<>>

\* inet_pton6 takes every valid address and reads it as the words it stands
\* for, and refuses the other texts.  Left to PtonAsDocumented are an address
\* with all its groups and a double colon, and a text with a colon at its end.
ParsesTheGrammar ==
    Done({"pton6"}) =>
        /\ Valid6(arg) => res[1].ok
        /\ Valid6(arg) /\ ~FullWithDouble(arg) => Words(res[1].addr) = Value6(arg)
        /\ res[1].ok /\ Last(arg) # Colon => Valid6(arg)

\* inet_pton6 does what the comment at its head says: it returns 1 for a
\* valid address, else 0, and a double colon in a full address is ignored.
PtonAsDocumented ==
    Done({"pton6"}) =>
        /\ res[1].ok <=> Valid6(arg)
        /\ res[1].ok => Words(res[1].addr) = Value6(arg)

\* Nothing is stored outside tmp while parsing, nor past the end of the
\* caller's buffer while printing.  inet_ntop4 does not count its NUL, so that
\* its buffer must be one for any dotted quad.
InsideBuffers ==
    /\ Done({"pton6"}) => res[1].top <= Bytes6
    /\ Done({"pton4"}) => res[1].top <= 4
    /\ Done({"ntop6", "ntop_ipv4", "getnameinfo_free"}) => res[1].wrote <= size
    /\ Done({"ntop4", "getnameinfo"}) /\ size >= INET_ADDRSTRLEN => res[1].wrote <= size

\* What inet_pton4 accepts, inet_aton reads as the same address.
AtonAgrees == Done({"aton", "pton_ipv4"}) /\ inet_pton4(arg).ok => res[1] = [ok |-> TRUE, addr |-> inet_pton4(arg).addr]

\* A checksum put into the packet makes the checksum of the packet zero, and
\* is never the zero that means "none" in UDP.
ChecksumVerifies ==
    /\ Done({"udp_write"}) => udp_check(res[1]) /\ res[1][1] # 0
    /\ Done({"ping"}) => udp_check(res[1])

\* A name is a string when it fits, and in libgai when it was cut, too.
NamesTerminated ==
    /\ Done({"getnameinfo"}) => res[1].nul
    /\ Done({"getnameinfo_free"}) /\ arg.len < size => res[1].nul
=============================================================================
