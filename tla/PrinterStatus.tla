---------------------------- MODULE PrinterStatus ----------------------------
(***************************************************************************)
(* printer_status and readmore of printd: reading and judging the printer's*)
(* answer.  The answer is a stream of tokens, one unit of the buffer each: *)
(* a status line "100", "200" or "400", header text "h", the header "clen" *)
(* (Content-Length: len), a 'c' that begins something else "c", the        *)
(* newline, return and newline that end the header ("n", "r", "n"), and    *)
(* the body of len units: the IPP header, which is "ok", "failed", or      *)
(* "other" for the status of another job, then attributes "a".             *)
(* The printer may deliver it in any pieces, close, or fall silent until   *)
(* tread times out.  The buffer grows as needed and is not bounded.        *)
(* i, datsz, len and nr are the variables of the code.                     *)
(***************************************************************************)
EXTENDS Integers, Sequences

(* Bounds: what printers answer.  A header may hold other text; the body   *)
(* is the IPP header alone, has an attribute, or is longer than the header.*)
Header(x, y) == <<"200">> \o x \o <<"clen">> \o y \o <<"n", "r", "n">>
Body(t, n) == <<t>> \o [k \in 1..n |-> "a"]
Verdicts == {"ok", "failed", "other"}
Answers ==
  {[stream |-> g \o h \o Body(t, n), len |-> n + 1] :
     g \in {<<>>, <<"100">>}, t \in Verdicts, n \in 0..1,
     h \in {Header(<<>>, <<>>), Header(<<"c">>, <<>>), Header(<<>>, <<"h">>)}}
  \cup {[stream |-> Header(<<>>, <<>>) \o Body(t, 6), len |-> 7] : t \in Verdicts}
  \cup {[stream |-> x, len |-> 0] : x \in {<<"400", "h">>, <<"h">>}}

VARIABLES stream, \* what the printer sends
          len,    \* the length of its body
          pos,    \* tokens of it read so far
          cut,    \* history: how reads cut the stream: "well", "odd", "mixed"
          buf,    \* what has been stored in the buffer
          i, datsz,
          st,     \* step of printer_status
          success

vars == <<stream, len, pos, cut, buf, i, datsz, st, success>>

Init ==
  /\ \E a \in Answers : stream = a.stream /\ len = a.len
  /\ pos = 0 /\ cut = "well" /\ buf = <<>> /\ i = 0 /\ datsz = 0
  /\ st = "read" /\ success = FALSE

have == Len(buf)
Token(k) == buf[k + 1]

Codes == {"100", "200", "400"}

(* The stream: its body, the printer's verdict, and the place where the    *)
(* response proper begins.                                                 *)
BodyAt == Len(stream) - len
Verdict == len > 0 /\ stream[BodyAt + 1] = "ok"
Begins == IF stream[1] = "100" THEN 1 ELSE 0

(* tread() of n units to offset off of the buffer. *)
Receive(off, n) ==
  /\ n \in 1 .. Len(stream) - pos
  /\ buf' = SubSeq(buf, 1, off) \o SubSeq(stream, pos + 1, pos + n)
              \o SubSeq(buf, off + n + 1, have)
  /\ pos' = pos + n
  /\ cut' = CASE cut = "mixed" \/ (pos < Begins /\ Begins < pos + n) -> "mixed"
              [] pos + n \notin {Begins, BodyAt, Len(stream)} -> "odd"
              [] OTHER -> cut

(* tread at the head of the loop: into the start of the buffer. *)
Read ==
  /\ st = "read"
  /\ \E n \in 1 .. Len(stream) : Receive(0, n) /\ datsz' = n
  /\ st' = "code"
  /\ UNCHANGED <<stream, len, i, success>>

(* Time out, error or end of file. *)
ReadFails ==
  /\ st = "read" /\ st' = "done"
  /\ UNCHANGED <<stream, len, pos, cut, buf, i, datsz, success>>

(* The status line.  Without one, and after a 1xx, the loop reads again;   *)
(* a code that is no success ends it.                                      *)
StatusCode ==
  /\ st = "code"
  /\ st' = CASE Token(0) \notin Codes -> "read"
             [] Token(0) = "100" -> "read"
             [] Token(0) = "400" -> "done"
             [] Token(0) = "200" -> "clen"
  /\ i' = 1
  /\ UNCHANGED <<stream, len, pos, cut, buf, datsz, success>>

(* readmore at offset i returns the offset of the end of the data, and the *)
(* caller adds it to datsz.                                                *)
ReadMore(then) ==
  \/ /\ \E n \in 1 .. Len(stream) : Receive(i, n) /\ datsz' = datsz + (i + n)
     /\ st' = then
     /\ UNCHANGED <<stream, len, i, success>>
  \/ /\ st' = "done"
     /\ UNCHANGED <<stream, len, pos, cut, buf, i, datsz, success>>

(* A position of the buffer that was never written is read: what follows   *)
(* depends on what malloc left there, and is not followed.                 *)
Junk ==
  /\ \/ st \in {"clen", "cmore"} /\ i < datsz /\ i >= have
     \/ st = "end" /\ i < datsz - 2 /\ i + 2 >= have
     \/ st = "ipp" /\ i >= have
  /\ st' = "junk"
  /\ UNCHANGED <<stream, len, pos, cut, buf, i, datsz, success>>

(* Search for the next 'C' or 'c'. *)
FindC ==
  /\ st = "clen" /\ i < datsz /\ i < have
  /\ IF Token(i) \in {"c", "clen"}
     THEN st' = "cmore" /\ UNCHANGED i
     ELSE i' = i + 1 /\ UNCHANGED st
  /\ UNCHANGED <<stream, len, pos, cut, buf, datsz, success>>

MoreHeader ==
  /\ st \in {"clen", "cmore"} /\ i >= datsz
  /\ ReadMore("cmore")

(* Is it Content-Length? *)
CompareHeader ==
  /\ st = "cmore" /\ i < datsz /\ i < have
  /\ i' = i + 1
  /\ st' = IF Token(i) = "clen" THEN "after" ELSE "clen"
  /\ UNCHANGED <<stream, len, pos, cut, buf, datsz, success>>

AfterLength ==
  /\ st = "after"
  /\ IF i >= datsz THEN ReadMore("end")
     ELSE /\ st' = "end"
          /\ UNCHANGED <<stream, len, pos, cut, buf, i, datsz, success>>

(* The end of the header is looked for below datsz - 2.                    *)
FindEnd ==
  /\ st = "end" /\ i < datsz - 2 /\ i + 2 < have
  /\ IF Token(i) = "n" /\ Token(i + 1) = "r" /\ Token(i + 2) = "n"
     THEN i' = i + 3 /\ st' = "found"
     ELSE i' = i + 1 /\ UNCHANGED st
  /\ UNCHANGED <<stream, len, pos, cut, buf, datsz, success>>

(* At the bottom of the loop, whether the end was found or not.  While i   *)
(* is datsz - 2 or datsz - 1 nothing is read: the loop spins.              *)
MoreForEnd ==
  /\ st = "found" \/ (st = "end" /\ i >= datsz)
  /\ IF i >= datsz THEN ReadMore(IF st = "found" THEN "body" ELSE "end")
     ELSE /\ st' = "body"
          /\ UNCHANGED <<stream, len, pos, cut, buf, i, datsz, success>>

(* Wrong variant: a body that is all there is taken to be short.           *)
ReadBodyLate ==
  /\ st = "body"
  /\ IF datsz - i <= len THEN ReadMore("ipp")
     ELSE /\ st' = "ipp"
          /\ UNCHANGED <<stream, len, pos, cut, buf, i, datsz, success>>

(* A body that is short is read further, once, to where it began.          *)
ReadBody ==
  /\ st = "body"
  /\ IF datsz - i < len THEN ReadMore("ipp")
     ELSE /\ st' = "ipp"
          /\ UNCHANGED <<stream, len, pos, cut, buf, i, datsz, success>>

(* Wrong variant: the status is taken whatever job it is for.              *)
AnyJobsStatus ==
  /\ st = "ipp" /\ i < have
  /\ success' = (Token(i) # "failed")
  /\ st' = "done"
  /\ UNCHANGED <<stream, len, pos, cut, buf, i, datsz>>

(* The status and the job number of the IPP header; attributes in its      *)
(* place may read as any of them.                                          *)
IppStatus ==
  /\ st = "ipp" /\ i < have
  /\ IF Token(i) = "a" THEN success' \in BOOLEAN
     ELSE success' = (Token(i) = "ok")
  /\ st' = "done"
  /\ UNCHANGED <<stream, len, pos, cut, buf, i, datsz>>

Next == \/ Read \/ ReadFails \/ StatusCode \/ Junk \/ FindC \/ MoreHeader
        \/ CompareHeader \/ AfterLength \/ FindEnd \/ MoreForEnd \/ ReadBody
        \/ IppStatus

Spec == Init /\ [][Next]_vars /\ WF_vars(Next)

-----------------------------------------------------------------------------
(* printer_status returns 1 exactly when the printer has said, for this    *)
(* job, that the request succeeded: for a response that comes in one read, *)
(* or in one read for the header and one for the body; and never when the  *)
(* answer breaks off before its end.  (A response that shares a read with  *)
(* the 100 before it is thrown away with it: the cut is "mixed".)          *)
JudgedRight ==
  st = "done" /\ cut = "well" => (success <=> Verdict /\ pos = Len(stream))

(* It does so however the response is cut, as its comment says: the header *)
(* and the IPP response "can be returned in multiple read attempts.  Use   *)
(* the Content-Length specifier to determine how much to read."            *)
JudgedByAnswer ==
  st = "done" /\ pos = Len(stream) /\ cut # "mixed" => (success <=> Verdict)

(* It returns, when the response is cut well.                              *)
InGoodCut == st = "code" /\ cut = "well"
HasReturned == st = "done" \/ cut # "well"
GoodCutReturns == InGoodCut ~> HasReturned
=============================================================================
