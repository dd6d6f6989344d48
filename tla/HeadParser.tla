----------------------------- MODULE HeadParser -----------------------------
(***************************************************************************)
(* How the gateway turns the bytes of a request head into an HttpRequest:  *)
(* handleClient cuts the head in front of the empty line                   *)
(* (HandleClient.cpp:93-95) and parseHttpRequest reads it line by line     *)
(* (Http.cpp:69-113).                                                      *)
(*                                                                         *)
(* A head is a sequence of tokens: CRLF, or the whole text between two     *)
(* CRLFs, tagged with what the parser would find in it.  A text has one    *)
(* tag: one like "GET /a:b HTTP/1.1", which is a request line at the start *)
(* and a header line anywhere else, is tagged for the place it stands at.  *)
(*                                                                         *)
(* separatorKept is FALSE for the code as it is, head.substr(0, eoh); TRUE *)
(* is the same code with head.substr(0, eoh + 2), kept for comparison: it  *)
(* isolates that one expression as the cause of what the shipped cut does. *)
(***************************************************************************)
EXTENDS Naturals, Sequences, FiniteSets

CONSTANTS
  Names,       \* header names after trim and lower-casing, "" the empty one
  Values,      \* header values after trim
  LongValues,  \* those of more than 8192 bytes
  MaxFields,   \* the 100 of Http.cpp:108
  Heads,       \* the heads handleClient can have read when it stops reading
  CutOptions   \* {FALSE} the shipped cut; TRUE adds the repaired one

Token == [kind : {"crlf", "request", "junk", "field"}, name : Names, value : Values]

IsCrlf(token) == token.kind = "crlf"

\* Positions of "\r\n\r\n" in a head.
BlankLines(s) == {i \in 1 .. Len(s) - 1 : IsCrlf(s[i]) /\ IsCrlf(s[i + 1])}

ASSUME ConstantsAssumption ==
  /\ "" \in Names /\ "" \in Values
  /\ LongValues \subseteq Values
  /\ MaxFields \in Nat
  /\ CutOptions \subseteq BOOLEAN

\* Texts are whole lines, so no two of them are adjacent; and handleClient
\* leaves its read loop with headDone only when it found an empty line.
ASSUME HeadsAssumption ==
  \A s \in Heads :
    /\ s \in Seq(Token)
    /\ BlankLines(s) # {}
    /\ \A i \in 1 .. Len(s) - 1 : IsCrlf(s[i]) \/ IsCrlf(s[i + 1])

VARIABLES
  head,           \* what handleClient received
  separatorKept,  \* which cut is applied to it
  headPart,       \* the argument of parseHttpRequest
  pos,            \* the parser's position in headPart
  headers,        \* out.headers: a function from the names met so far
  pc              \* "cut", "request", "fields", "accepted", "rejected"

vars == <<head, separatorKept, headPart, pos, headers, pc>>
-----------------------------------------------------------------------------
\* s.find("\r\n", from): the position of the first CRLF at or after from.
FirstCrlf(s, from, i) ==
  /\ i \in from .. Len(s)
  /\ IsCrlf(s[i])
  /\ \A j \in from .. i - 1 : ~IsCrlf(s[j])

NoCrlf(s, from) == \A j \in from .. Len(s) : ~IsCrlf(s[j])

\* substr(0, eoh), or substr(0, eoh + 2) for the comparison.
MutCutAlwaysKeeps(kept, eoh) == eoh
CutLength(kept, eoh) == IF kept THEN eoh ELSE eoh - 1

IsRequestLine(line) == Len(line) = 1 /\ line[1].kind = "request"

\* Lines 103-107: a colon, a name in front of it, and a value not too long.
IsFieldLine(line) ==
  /\ Len(line) = 1
  /\ line[1].kind = "field"
  /\ line[1].name # ""
  /\ line[1].value \notin LongValues

\* out.headers[name] = value, in a std::map.
MutPutName(h, name, value) ==
  [n \in DOMAIN h \cup {name} |-> IF n = name THEN name ELSE h[n]]
MutPutFirstWins(h, name, value) ==
  [n \in DOMAIN h \cup {name} |-> IF n \in DOMAIN h THEN h[n] ELSE value]
Put(h, name, value) ==
  [n \in DOMAIN h \cup {name} |-> IF n = name THEN value ELSE h[n]]

\* Line 108 looks at the map before the insertion.
MutHasRoom(h) == Cardinality(DOMAIN h) < MaxFields
HasRoom(h) == Cardinality(DOMAIN h) <= MaxFields

\* Where the next line starts: eol + 2.
MutSamePlace(p, eol) == p
NextLine(p, eol) == eol + 1

\* The loop condition of line 98 and the break of line 101.
HeadEnds(s, p) == p <= Len(s) => IsCrlf(s[p])

Init ==
  /\ head \in Heads
  /\ separatorKept \in CutOptions
  /\ headPart = << >>
  /\ pos = 1
  /\ headers = << >>
  /\ pc = "cut"

CutHead ==
  /\ pc = "cut"
  /\ \E eoh \in BlankLines(head) :
       /\ \A j \in BlankLines(head) : eoh <= j
       /\ headPart' = SubSeq(head, 1, CutLength(separatorKept, eoh))
  /\ pc' = "request"
  /\ UNCHANGED <<head, separatorKept, pos, headers>>

Reject ==
  /\ pc' = "rejected"
  /\ UNCHANGED <<head, separatorKept, headPart, pos, headers>>

RequestLine ==
  /\ pc = "request"
  /\ \E eol \in 1 .. Len(headPart) :
       /\ FirstCrlf(headPart, 1, eol)
       /\ IsRequestLine(SubSeq(headPart, 1, eol - 1))
       /\ pos' = eol + 1
  /\ pc' = "fields"
  /\ UNCHANGED <<head, separatorKept, headPart, headers>>

BadRequestLine ==
  /\ pc = "request"
  /\ \/ NoCrlf(headPart, 1)
     \/ \E eol \in 1 .. Len(headPart) :
          /\ FirstCrlf(headPart, 1, eol)
          /\ ~IsRequestLine(SubSeq(headPart, 1, eol - 1))
  /\ Reject

HeaderLine ==
  /\ pc = "fields"
  /\ ~HeadEnds(headPart, pos)
  /\ \E eol \in pos .. Len(headPart) :
       LET line == SubSeq(headPart, pos, eol - 1)
       IN  /\ FirstCrlf(headPart, pos, eol)
           /\ IsFieldLine(line)
           /\ HasRoom(headers)
           /\ headers' = Put(headers, line[1].name, line[1].value)
           /\ pos' = NextLine(pos, eol)
  /\ UNCHANGED <<head, separatorKept, headPart, pc>>

BadHeaderLine ==
  /\ pc = "fields"
  /\ ~HeadEnds(headPart, pos)
  /\ \/ NoCrlf(headPart, pos)
     \/ \E eol \in pos .. Len(headPart) :
          /\ FirstCrlf(headPart, pos, eol)
          /\ ~(IsFieldLine(SubSeq(headPart, pos, eol - 1)) /\ HasRoom(headers))
  /\ Reject

EndOfHead ==
  /\ pc = "fields"
  /\ HeadEnds(headPart, pos)
  /\ pc' = "accepted"
  /\ UNCHANGED <<head, separatorKept, headPart, pos, headers>>

Next ==
  \/ CutHead
  \/ RequestLine \/ BadRequestLine
  \/ HeaderLine \/ BadHeaderLine
  \/ EndOfHead

\* parseHttpRequest is a plain function: its thread keeps running it.
Spec == Init /\ [][Next]_vars /\ WF_vars(Next)
-----------------------------------------------------------------------------
(* What the parser promises (Http.h:36): it reads the head in front of the *)
(* empty line and returns false on a bad format.                           *)

\* Where the first empty line is, and the texts in front of it after the first.
EmptyLineAt(s) == CHOOSE i \in BlankLines(s) : \A j \in BlankLines(s) : i <= j

FieldsOf(s) == {i \in 2 .. EmptyLineAt(s) : ~IsCrlf(s[i])}

NamesAt(s, places) == {s[i].name : i \in places}

\* A request line followed by header lines, none of them arriving when more
\* than MaxFields names are stored.  No line is empty: that would be a CRLF
\* at the start or an earlier empty line.
WellFormed(s) ==
  LET fields == FieldsOf(s)
  IN  /\ s[1].kind = "request"
      /\ \A i \in fields : IsFieldLine(<<s[i]>>)
      /\ Cardinality(NamesAt(s, {i \in fields : \E j \in fields : i < j})) <= MaxFields

IsLastWith(s, places, name, i) ==
  /\ i \in places /\ s[i].name = name
  /\ \A j \in places : s[j].name = name => j <= i

\* The value of the last line with each name.
LastValues(s) ==
  [name \in NamesAt(s, FieldsOf(s)) |->
     s[CHOOSE i \in FieldsOf(s) : IsLastWith(s, FieldsOf(s), name, i)].value]

Finished == pc \in {"accepted", "rejected"}

\* Every variable keeps its type.
TypeOK ==
  /\ head \in Seq(Token)
  /\ separatorKept \in CutOptions
  /\ headPart \in Seq(Token)
  /\ pos \in Nat
  /\ DOMAIN headers \subseteq Names
  /\ \A name \in DOMAIN headers : headers[name] \in Values
  /\ pc \in {"cut", "request", "fields", "accepted", "rejected"}

\* The cut of HandleClient.cpp:94 leaves the last line without its CRLF, and
\* Http.cpp:72 and :100 refuse a line without one: no head is ever accepted,
\* the well-formed ones of WellFormed included.  Http.h:36 promises "everything
\* before the empty line. Returns false on bad format."
ShippedCutRejectsAll == ~separatorKept => pc # "accepted"

\* With the last CRLF kept, the parser accepts exactly the well-formed heads:
\* neither the colon test, the limits nor the order of the tests loses one.
RepairedCutAcceptsWellFormed ==
  separatorKept /\ Finished => (pc = "accepted" <=> WellFormed(head))

\* An accepted head yields each name with the value of its last line, which is
\* what Content-Length and Authorization are read from (Http.cpp:109).
LastValueWins == pc = "accepted" => headers = LastValues(head)

\* The loop of Http.cpp:98-111 always moves on: the parser returns.
ParserReturns == <>Finished
=============================================================================
