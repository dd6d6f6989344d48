-------------------------- MODULE HeadParserProofs --------------------------
(***************************************************************************)
(* The parser keeps its types, and with the cut the code ships it accepts  *)
(* no head; with the last CRLF kept it accepts exactly the well-formed     *)
(* heads, and what it stores of them is the last value of every name: for  *)
(* every set of heads, names, values and limits.                           *)
(***************************************************************************)
EXTENDS HeadParser, SequenceTheorems, FiniteSetTheorems, WellFoundedInduction, TLAPS

\* No two CRLFs in a row, and none at the end: what is in front of the first
\* "\r\n\r\n" has neither.
NoEmptyLine(s) ==
  /\ \A i \in 1 .. Len(s) - 1 : ~(IsCrlf(s[i]) /\ IsCrlf(s[i + 1]))
  /\ Len(s) > 0 => ~IsCrlf(s[Len(s)])

\* The inductive invariant.  A parser that read the shipped cut always stands
\* right behind a CRLF, hence in front of a text whose CRLF may be missing,
\* and never at the end of the head.
Inv ==
  /\ TypeOK
  /\ ~separatorKept /\ pc # "cut" => NoEmptyLine(headPart)
  /\ ~separatorKept /\ pc = "fields" =>
       /\ pos \in 2 .. Len(headPart) + 1
       /\ IsCrlf(headPart[pos - 1])
  /\ pos >= 1
  /\ ShippedCutRejectsAll

\* Http.cpp:98 and :101 cannot end the loop on what the shipped cut leaves.
LEMMA NeverAtEnd ==
  ASSUME Inv, ~separatorKept, pc = "fields"
  PROVE  ~HeadEnds(headPart, pos)
<1>1. Len(headPart) \in Nat
  BY LenProperties DEF Inv, TypeOK
<1>2. pos - 1 # Len(headPart)
  BY <1>1 DEF Inv, NoEmptyLine
<1>3. pos \in 1 .. Len(headPart) /\ pos - 1 \in 1 .. Len(headPart) - 1
  BY <1>1, <1>2 DEF Inv
<1>4. ~IsCrlf(headPart[pos])
  BY <1>3 DEF Inv, NoEmptyLine
<1> QED  BY <1>3, <1>4 DEF HeadEnds

\* The text in front of the first empty line.
LEMMA CutText ==
  ASSUME NEW s \in Seq(Token), NEW eoh \in BlankLines(s),
         \A j \in BlankLines(s) : eoh <= j
  PROVE  NoEmptyLine(SubSeq(s, 1, eoh - 1))
<1> DEFINE t == SubSeq(s, 1, eoh - 1)
<1>1. Len(s) \in Nat /\ eoh \in 1 .. Len(s) - 1
  BY LenProperties DEF BlankLines
<1>2. Len(t) = eoh - 1 /\ \A i \in 1 .. eoh - 1 : t[i] = s[i]
  BY <1>1
<1>3. ASSUME NEW i \in 1 .. eoh - 1  PROVE ~(IsCrlf(s[i]) /\ IsCrlf(s[i + 1]))
  BY <1>1 DEF BlankLines
<1>4. IsCrlf(s[eoh])
  BY DEF BlankLines
<1>5. \A i \in 1 .. Len(t) - 1 : ~(IsCrlf(t[i]) /\ IsCrlf(t[i + 1]))
  BY <1>1, <1>2, <1>3
<1>6. Len(t) > 0 => ~IsCrlf(t[Len(t)])
  BY <1>1, <1>2, <1>3, <1>4
<1> QED  BY <1>5, <1>6 DEF NoEmptyLine

\* A cut is a sequence of tokens.
LEMMA CutType ==
  ASSUME NEW s \in Seq(Token), NEW eoh \in BlankLines(s), NEW kept \in BOOLEAN
  PROVE  SubSeq(s, 1, CutLength(kept, eoh)) \in Seq(Token)
<1>1. Len(s) \in Nat /\ eoh \in 1 .. Len(s) - 1
  BY LenProperties DEF BlankLines
<1>2. CutLength(kept, eoh) \in 0 .. Len(s)
  BY <1>1 DEF CutLength
<1> QED  BY <1>1, <1>2

\* Storing a header keeps the map's type.
LEMMA PutType ==
  ASSUME NEW h, NEW name \in Names, NEW value \in Values,
         DOMAIN h \subseteq Names, \A n \in DOMAIN h : h[n] \in Values
  PROVE  /\ DOMAIN Put(h, name, value) \subseteq Names
         /\ \A n \in DOMAIN Put(h, name, value) : Put(h, name, value)[n] \in Values
BY DEF Put

\* The text of a line of one token is that token.
LEMMA LineToken ==
  ASSUME NEW s \in Seq(Token), NEW p \in Nat \ {0}, NEW e \in p .. Len(s),
         Len(SubSeq(s, p, e - 1)) = 1
  PROVE  SubSeq(s, p, e - 1)[1] \in Token
<1>1. Len(s) \in Nat /\ e \in Int
  BY LenProperties
<1>2. e = p + 1 /\ SubSeq(s, p, e - 1)[1] = s[p]
  BY <1>1
<1> QED  BY <1>1, <1>2, ElementOfSeq

LEMMA InitInv == Init => Inv
<1> SUFFICES ASSUME Init  PROVE Inv
  OBVIOUS
<1>1. DOMAIN headers = {}
  BY DEF Init
<1>2. headPart \in Seq(Token)
  BY DEF Init
<1>3. head \in Seq(Token)
  BY HeadsAssumption DEF Init
<1>4. TypeOK
  BY <1>1, <1>2, <1>3 DEF Init, TypeOK
<1> QED  BY <1>4 DEF Init, Inv, ShippedCutRejectsAll

\* Every step of the parser keeps the invariant.
LEMMA StepInv == Inv /\ [Next]_vars => Inv'
<1> SUFFICES ASSUME Inv, [Next]_vars  PROVE Inv'
  OBVIOUS
<1> USE DEF Inv
<1>1. CASE CutHead
  <2> USE <1>1
  <2>1. PICK eoh \in BlankLines(head) :
          /\ \A j \in BlankLines(head) : eoh <= j
          /\ headPart' = SubSeq(head, 1, CutLength(separatorKept, eoh))
    BY DEF CutHead
  <2>2. headPart' \in Seq(Token)
    BY <2>1, CutType, ConstantsAssumption DEF TypeOK
  <2>3. ~separatorKept => NoEmptyLine(headPart')
    BY <2>1, CutText DEF TypeOK, CutLength
  <2> QED  BY <2>2, <2>3 DEF CutHead, TypeOK, ShippedCutRejectsAll
<1>2. CASE RequestLine
  <2> USE <1>2
  <2>1. PICK eol \in 1 .. Len(headPart) : FirstCrlf(headPart, 1, eol) /\ pos' = eol + 1
    BY DEF RequestLine
  <2>2. IsCrlf(headPart[eol]) /\ eol \in Nat /\ eol >= 1 /\ Len(headPart) \in Nat
    BY <2>1, LenProperties DEF FirstCrlf, TypeOK
  <2> QED  BY <2>1, <2>2 DEF RequestLine, TypeOK, ShippedCutRejectsAll
<1>3. CASE HeaderLine
  <2> USE <1>3
  <2>1. PICK eol \in pos .. Len(headPart) :
          LET line == SubSeq(headPart, pos, eol - 1)
          IN  /\ FirstCrlf(headPart, pos, eol)
              /\ IsFieldLine(line)
              /\ headers' = Put(headers, line[1].name, line[1].value)
              /\ pos' = NextLine(pos, eol)
    BY DEF HeaderLine
  <2> DEFINE line == SubSeq(headPart, pos, eol - 1)
  <2>2. IsCrlf(headPart[eol]) /\ Len(headPart) \in Nat /\ pos \in Nat /\ pos >= 1
    BY <2>1, LenProperties DEF FirstCrlf, TypeOK
  <2>3. line[1] \in Token
    <3>1. headPart \in Seq(Token) /\ pos \in Nat \ {0}
      BY <2>2 DEF TypeOK
    <3>2. Len(SubSeq(headPart, pos, eol - 1)) = 1
      BY <2>1 DEF IsFieldLine
    <3> QED  BY ONLY <3>1, <3>2, eol \in pos .. Len(headPart), LineToken
  <2>4. line[1].name \in Names /\ line[1].value \in Values
    BY <2>3 DEF Token
  <2>5. /\ DOMAIN headers' \subseteq Names
        /\ \A n \in DOMAIN headers' : headers'[n] \in Values
    BY <2>1, <2>4, PutType DEF TypeOK
  <2>6. pos' = eol + 1 /\ eol \in Nat /\ eol >= 1
    BY <2>1, <2>2 DEF NextLine
  <2>7. TypeOK'
    <3>1. UNCHANGED <<head, separatorKept, headPart, pc>> /\ pos' \in Nat
      BY <2>6 DEF HeaderLine
    <3> QED  BY <2>5, <3>1 DEF TypeOK
  <2> QED  BY <2>2, <2>6, <2>7 DEF HeaderLine, ShippedCutRejectsAll
<1>4. CASE EndOfHead
  <2>1. separatorKept
    BY <1>4, NeverAtEnd, ConstantsAssumption DEF EndOfHead, TypeOK
  <2> QED  BY <1>4, <2>1 DEF EndOfHead, TypeOK, ShippedCutRejectsAll
<1>5. CASE Reject /\ pc # "cut"
  BY <1>5 DEF Reject, TypeOK, ShippedCutRejectsAll
<1>6. CASE UNCHANGED vars
  BY <1>6 DEF vars, TypeOK, ShippedCutRejectsAll
<1>7. BadRequestLine \/ BadHeaderLine => Reject /\ pc # "cut"
  BY DEF BadRequestLine, BadHeaderLine
<1> QED  BY <1>1, <1>2, <1>3, <1>4, <1>5, <1>6, <1>7 DEF Next

\* Type correctness of the parser's state, for every set of heads.
THEOREM TypeCorrect == Spec => []TypeOK
<1>1. Inv => TypeOK
  BY DEF Inv
<1> QED  BY InitInv, StepInv, <1>1, PTL DEF Spec

\* With substr(0, eoh) of HandleClient.cpp:94 no request head whatsoever gets
\* past parseHttpRequest: the 400 of HandleClient.cpp:98-104 is the only answer.
THEOREM ShippedCutRejects == Spec => []ShippedCutRejectsAll
<1>1. Inv => ShippedCutRejectsAll
  BY DEF Inv
<1> QED  BY InitInv, StepInv, <1>1, PTL DEF Spec
-----------------------------------------------------------------------------
(* The repaired cut.                                                       *)

\* A set of numbers has a least element.
LEMMA Least ==
  ASSUME NEW T, T \subseteq Nat, T # {}
  PROVE  \E m \in T : \A y \in T : m <= y
<1>1. IsWellFoundedOn(OpToRel(<, Nat), Nat)
  BY NatLessThanWellFounded
<1>2. PICK m \in T : \A y \in T : ~(<<y, m>> \in OpToRel(<, Nat))
  BY <1>1, WFMin, Zenon
<1>3. \A y \in T : y < m => <<y, m>> \in OpToRel(<, Nat)
  BY DEF OpToRel
<1>4. \A y \in T : ~(y < m)
  BY <1>2, <1>3, Zenon
<1> QED  BY <1>4

\* Up to the empty line, texts and CRLFs alternate.
Alternates(s, e) ==
  /\ s \in Seq(Token) /\ Len(s) \in Nat
  /\ e \in 1 .. Len(s) - 1
  /\ IsCrlf(s[e])
  /\ \A i \in 1 .. e - 1 : IsCrlf(s[i]) <=> ~IsCrlf(s[i + 1])

LEMMA HeadShape ==
  ASSUME NEW s \in Heads
  PROVE  /\ Alternates(s, EmptyLineAt(s))
         /\ \A i \in BlankLines(s) : (\A j \in BlankLines(s) : i <= j) => i = EmptyLineAt(s)
<1>1. /\ s \in Seq(Token) /\ Len(s) \in Nat
      /\ BlankLines(s) # {}
      /\ \A i \in 1 .. Len(s) - 1 : IsCrlf(s[i]) \/ IsCrlf(s[i + 1])
  BY HeadsAssumption, LenProperties
<1>2. BlankLines(s) \subseteq Nat
  BY <1>1 DEF BlankLines
<1>3. \E i \in BlankLines(s) : \A j \in BlankLines(s) : i <= j
  BY <1>1, <1>2, Least
<1> DEFINE e == EmptyLineAt(s)
<1>4. e \in BlankLines(s) /\ \A j \in BlankLines(s) : e <= j
  BY <1>3 DEF EmptyLineAt
<1>5. e \in 1 .. Len(s) - 1 /\ IsCrlf(s[e])
  BY <1>4 DEF BlankLines
<1> HIDE DEF e
<1>6. ASSUME NEW i \in 1 .. e - 1  PROVE IsCrlf(s[i]) <=> ~IsCrlf(s[i + 1])
  <2>1. i \in 1 .. Len(s) - 1 /\ ~(e <= i)
    BY <1>1, <1>5
  <2>2. i \notin BlankLines(s)
    BY <1>4, <2>1
  <2>3. ~(IsCrlf(s[i]) /\ IsCrlf(s[i + 1]))
    BY <2>1, <2>2 DEF BlankLines
  <2> QED  BY <1>1, <2>1, <2>3, Zenon
<1>7. Alternates(s, e)
  BY <1>1, <1>5, <1>6 DEF Alternates
<1>8. ASSUME NEW i \in BlankLines(s), \A j \in BlankLines(s) : i <= j  PROVE i = e
  BY <1>2, <1>4, <1>8
<1> QED  BY <1>7, <1>8 DEF e

LEMMA OneElement ==
  ASSUME NEW S, NEW u \in Seq(S), Len(u) = 1
  PROVE  u = <<u[1]>>
<1>1. u[1] \in S
  <2>1. 1 \in 1 .. Len(u)
    OBVIOUS
  <2> QED  BY <2>1, ElementOfSeq
<1>2. <<u[1]>> \in Seq(S) /\ Len(<<u[1]>>) = 1 /\ <<u[1]>>[1] = u[1]
  BY <1>1
<1>3. \A i \in 1 .. 1 : u[i] = <<u[1]>>[i]
  BY <1>2
<1> QED  BY <1>2, <1>3, SeqEqual

\* In what the repaired cut leaves, the line that starts at a text is that text.
LEMMA LineAt ==
  ASSUME NEW s, NEW e, Alternates(s, e), NEW p \in 1 .. e, ~IsCrlf(s[p]),
         NEW t, t = SubSeq(s, 1, e)
  PROVE  /\ p + 1 \in p .. Len(t) /\ FirstCrlf(t, p, p + 1) /\ ~NoCrlf(t, p)
         /\ \A eol \in p .. Len(t) : FirstCrlf(t, p, eol) => eol = p + 1
         /\ SubSeq(t, p, p) = <<s[p]>>
<1> USE DEF Alternates
<1>1. Len(t) = e /\ \A i \in 1 .. e : t[i] = s[i]
  <2>1. e \in 0 .. Len(s)
    OBVIOUS
  <2> QED  BY <2>1
<1>2. p # e
  OBVIOUS
<1>3. p + 1 \in 1 .. e /\ IsCrlf(s[p + 1])
  BY <1>2
<1>4. ~IsCrlf(t[p]) /\ IsCrlf(t[p + 1])
  BY <1>1, <1>3
<1>5. FirstCrlf(t, p, p + 1)
  BY <1>1, <1>3, <1>4 DEF FirstCrlf
<1>6. ~NoCrlf(t, p)
  BY <1>1, <1>3, <1>4 DEF NoCrlf
<1>7. ASSUME NEW eol \in p .. Len(t), FirstCrlf(t, p, eol)  PROVE eol = p + 1
  <2>1. eol # p
    BY <1>4, <1>7 DEF FirstCrlf
  <2>2. ~(p + 1 < eol)
    BY <1>1, <1>3, <1>4, <1>7 DEF FirstCrlf
  <2> QED  BY <1>1, <2>1, <2>2
<1>8. t \in Seq(Token)
  BY <1>1
<1>9. SubSeq(t, p, p) = <<s[p]>>
  <2>1. SubSeq(t, p, p) \in Seq(Token) /\ Len(SubSeq(t, p, p)) = 1
    BY <1>1, <1>8
  <2>2. SubSeq(t, p, p)[1] = t[p]
    BY <1>1, <1>8
  <2>3. SubSeq(t, p, p) = <<t[p]>>
    BY <2>1, <2>2, OneElement
  <2> QED  BY <1>1, <2>3
<1> QED  BY <1>1, <1>3, <1>5, <1>6, <1>7, <1>9

-----------------------------------------------------------------------------
(* What the parser has read of a head.                                     *)

FieldsBefore(s, p) == {i \in FieldsOf(s) : i < p}

\* Those that are not the last: their names are what HasRoom counts when the
\* last one arrives.
Earlier(places) == {i \in places : \E j \in places : i < j}

\* The map holds the last value of every name among these lines.
HoldsLast(s, places, h) ==
  /\ DOMAIN h = NamesAt(s, places)
  /\ h = [n \in DOMAIN h |-> h[n]]
  /\ \A n \in DOMAIN h : \E i \in places : IsLastWith(s, places, n, i) /\ h[n] = s[i].value

ReadUpTo(s, p, h) ==
  LET fields == FieldsBefore(s, p)
  IN  /\ s[1].kind = "request"
      /\ p \in 3 .. EmptyLineAt(s) + 1
      /\ IsCrlf(s[p - 1])
      /\ \A i \in fields : IsFieldLine(<<s[i]>>)
      /\ Cardinality(NamesAt(s, Earlier(fields))) <= MaxFields
      /\ HoldsLast(s, fields, h)

\* The inductive invariant of the repaired parser.
RepairedInv ==
  separatorKept =>
    /\ pc # "cut" => headPart = SubSeq(head, 1, EmptyLineAt(head))
    /\ pc \in {"cut", "request"} => DOMAIN headers = {} /\ headers = [n \in {} |-> n]
    /\ pc \in {"fields", "accepted"} => ReadUpTo(head, pos, headers)
    /\ pc = "accepted" => pos = EmptyLineAt(head) + 1
    /\ pc = "rejected" => ~WellFormed(head)

LEMMA LimitIsNatural == MaxFields \in Nat
BY ConstantsAssumption, Zenon

LEMMA NamesAreFinite ==
  ASSUME NEW s \in Heads, NEW places, places \subseteq FieldsOf(s)
  PROVE  IsFiniteSet(NamesAt(s, places))
<1>1. EmptyLineAt(s) \in Nat
  BY HeadShape DEF Alternates
<1>2. FieldsOf(s) \subseteq 1 .. EmptyLineAt(s)
  BY <1>1 DEF FieldsOf
<1>3. IsFiniteSet(1 .. EmptyLineAt(s))
  BY <1>1, FS_Interval
<1>4. IsFiniteSet(places)
  BY <1>2, <1>3, FS_Subset
<1> DEFINE f == [i \in places |-> s[i].name]
<1>5. f \in Surjection(places, NamesAt(s, places))
  BY DEF Surjection, NamesAt
<1> QED  BY <1>4, <1>5, FS_Surjection

LEMMA FewerNames ==
  ASSUME NEW s \in Heads, NEW S, S \subseteq FieldsOf(s), NEW T, T \subseteq S
  PROVE  /\ Cardinality(NamesAt(s, T)) \in Nat /\ Cardinality(NamesAt(s, S)) \in Nat
         /\ Cardinality(NamesAt(s, T)) <= Cardinality(NamesAt(s, S))
<1>1. IsFiniteSet(NamesAt(s, S)) /\ IsFiniteSet(NamesAt(s, T))
  BY NamesAreFinite
<1>2. NamesAt(s, T) \subseteq NamesAt(s, S)
  BY DEF NamesAt
<1>3. Cardinality(NamesAt(s, T)) <= Cardinality(NamesAt(s, S))
  BY <1>1, <1>2, FS_Subset
<1> QED  BY <1>1, <1>3, FS_CardinalityType

\* A line behind all others takes over its name and leaves the others.
LEMMA PutLast ==
  ASSUME NEW s, NEW places, places \subseteq Nat, NEW h, HoldsLast(s, places, h),
         NEW p \in Nat, \A i \in places : i < p
  PROVE  /\ HoldsLast(s, places \cup {p}, Put(h, s[p].name, s[p].value))
         /\ Earlier(places \cup {p}) = places
<1> DEFINE name == s[p].name
           all == places \cup {p}
           g == Put(h, name, s[p].value)
<1>1. DOMAIN g = NamesAt(s, all) /\ g = [n \in DOMAIN g |-> g[n]]
  BY DEF Put, HoldsLast, NamesAt
<1>2. g[name] = s[p].value /\ \A n \in DOMAIN h : n # name => g[n] = h[n]
  BY DEF Put
<1>3. \A j \in all : j <= p
  OBVIOUS
<1>4. IsLastWith(s, all, name, p)
  BY <1>3 DEF IsLastWith
<1>5. ASSUME NEW n \in DOMAIN g
      PROVE  \E i \in all : IsLastWith(s, all, n, i) /\ g[n] = s[i].value
  <2>1. CASE n = name
    BY <1>2, <1>4, <2>1
  <2>2. CASE n # name
    <3>1. n \in DOMAIN h
      BY <2>2 DEF Put
    <3>2. PICK i \in places : IsLastWith(s, places, n, i) /\ h[n] = s[i].value
      BY <3>1 DEF HoldsLast
    <3>3. IsLastWith(s, all, n, i)
      BY <2>2, <3>2 DEF IsLastWith
    <3> QED  BY <1>2, <2>2, <3>1, <3>2, <3>3
  <2> QED  BY <2>1, <2>2
<1>6. HoldsLast(s, all, g)
  <2> HIDE DEF g, all
  <2> QED  BY <1>1, <1>5 DEF HoldsLast
<1>7. Earlier(all) = places
  <2>1. \A i \in places : \E j \in all : i < j
    OBVIOUS
  <2>2. \A j \in all : ~(p < j)
    OBVIOUS
  <2> QED  BY <2>1, <2>2, Zenon DEF Earlier
<1> QED  BY <1>6, <1>7

\* What the map holds when every line is read is the reference's answer.
LEMMA HoldsAll ==
  ASSUME NEW s \in Heads, NEW h, HoldsLast(s, FieldsOf(s), h)
  PROVE  h = LastValues(s)
<1> DEFINE fields == FieldsOf(s)
           the(n) == CHOOSE i \in fields : IsLastWith(s, fields, n, i)
<1>1. EmptyLineAt(s) \in Nat
  BY HeadShape DEF Alternates
<1>2. fields \subseteq Nat
  BY <1>1 DEF FieldsOf
<1>3. ASSUME NEW n \in DOMAIN h  PROVE h[n] = s[the(n)].value
  <2>1. PICK i \in fields : IsLastWith(s, fields, n, i) /\ h[n] = s[i].value
    BY DEF HoldsLast
  <2>2. the(n) \in fields /\ IsLastWith(s, fields, n, the(n))
    BY <2>1
  <2>3. i = the(n)
    <3> HIDE DEF the
    <3>1. i <= the(n) /\ the(n) <= i
      BY <2>1, <2>2 DEF IsLastWith
    <3> QED  BY <1>2, <2>1, <2>2, <3>1
  <2> QED  BY <2>1, <2>3
<1>4. DOMAIN h = NamesAt(s, fields) /\ h = [n \in DOMAIN h |-> h[n]]
  BY DEF HoldsLast
<1> QED  BY <1>3, <1>4 DEF LastValues

\* The lines read before a text at p are joined by it.
LEMMA NextField ==
  ASSUME NEW s \in Heads, NEW p \in 2 .. EmptyLineAt(s), ~IsCrlf(s[p])
  PROVE  /\ p \in FieldsOf(s) /\ p \in Nat /\ p + 1 \in 3 .. EmptyLineAt(s)
         /\ IsCrlf(s[p + 1])
         /\ FieldsBefore(s, p) \subseteq Nat /\ \A i \in FieldsBefore(s, p) : i < p
         /\ FieldsBefore(s, p + 2) = FieldsBefore(s, p) \cup {p}
<1>1. Alternates(s, EmptyLineAt(s))
  BY HeadShape
<1>2. p \in FieldsOf(s) /\ p \in Nat
  BY <1>1 DEF FieldsOf, Alternates
<1>3. p # EmptyLineAt(s)
  BY <1>1 DEF Alternates
<1>4. p + 1 \in 3 .. EmptyLineAt(s) /\ IsCrlf(s[p + 1])
  BY <1>1, <1>3 DEF Alternates
<1>5. p + 1 \notin FieldsOf(s)
  BY <1>4 DEF FieldsOf
<1>6. FieldsOf(s) \subseteq Nat
  BY <1>1 DEF FieldsOf, Alternates
<1>7. \A i \in Nat : i < p + 2 <=> (i < p \/ i = p \/ i = p + 1)
  BY <1>2
<1>8. FieldsBefore(s, p + 2) = FieldsBefore(s, p) \cup {p}
  BY <1>2, <1>5, <1>6, <1>7 DEF FieldsBefore
<1> QED  BY <1>2, <1>4, <1>6, <1>8 DEF FieldsBefore

\* A request line is stored as read when a CRLF follows it.
LEMMA RequestRead ==
  ASSUME NEW s \in Heads, s[1].kind = "request",
         NEW h, DOMAIN h = {}, h = [n \in {} |-> n]
  PROVE  ReadUpTo(s, 3, h)
<1>1. Alternates(s, EmptyLineAt(s))
  BY HeadShape
<1>2. ~IsCrlf(s[1])
  BY DEF IsCrlf
<1>3. 1 # EmptyLineAt(s)
  BY <1>1, <1>2 DEF Alternates
<1>4. IsCrlf(s[2]) /\ 3 \in 3 .. EmptyLineAt(s) + 1
  BY <1>1, <1>2, <1>3 DEF Alternates
<1>5. FieldsBefore(s, 3) = {}
  BY <1>1, <1>4 DEF FieldsBefore, FieldsOf, Alternates
<1>6. Cardinality(NamesAt(s, Earlier({}))) <= MaxFields
  <2>1. NamesAt(s, Earlier({})) = {}
    BY DEF NamesAt, Earlier
  <2>2. Cardinality({}) = 0
    BY FS_EmptySet
  <2>3. Cardinality(NamesAt(s, Earlier({}))) = 0
    BY <2>1, <2>2, Zenon
  <2> QED  BY <2>3, LimitIsNatural
<1>7. HoldsLast(s, {}, h)
  BY DEF HoldsLast, NamesAt
<1>8. IsCrlf(s[3 - 1])
  BY <1>4
<1>9. \A i \in {} : IsFieldLine(<<s[i]>>)
  OBVIOUS
<1> QED  BY <1>4, <1>5, <1>6, <1>7, <1>8, <1>9, Zenon DEF ReadUpTo

\* So is a header line the parser accepts.
LEMMA FieldRead ==
  ASSUME NEW s \in Heads, NEW p, NEW h, ReadUpTo(s, p, h),
         p <= EmptyLineAt(s), ~IsCrlf(s[p]),
         IsFieldLine(<<s[p]>>), HasRoom(h)
  PROVE  ReadUpTo(s, p + 2, Put(h, s[p].name, s[p].value))
<1> DEFINE fields == FieldsBefore(s, p)
<1>1. p \in 2 .. EmptyLineAt(s) /\ EmptyLineAt(s) \in Nat
  BY HeadShape DEF ReadUpTo, Alternates
<1>2. /\ p \in Nat /\ p + 1 \in 3 .. EmptyLineAt(s)
      /\ IsCrlf(s[p + 1])
      /\ fields \subseteq Nat /\ \A i \in fields : i < p
      /\ FieldsBefore(s, p + 2) = fields \cup {p}
  BY <1>1, NextField
<1>3. HoldsLast(s, fields, h) /\ \A i \in fields : IsFieldLine(<<s[i]>>)
  BY DEF ReadUpTo
<1> HIDE DEF fields
<1>4. /\ HoldsLast(s, fields \cup {p}, Put(h, s[p].name, s[p].value))
      /\ Earlier(fields \cup {p}) = fields
  BY <1>2, <1>3, PutLast
<1>5. Cardinality(NamesAt(s, fields)) <= MaxFields
  BY <1>3 DEF HoldsLast, HasRoom
<1>6. \A i \in fields \cup {p} : IsFieldLine(<<s[i]>>)
  BY <1>3
<1>7. p + 2 \in 3 .. EmptyLineAt(s) + 1 /\ (p + 2) - 1 = p + 1
  BY <1>1, <1>2
<1>8. s[1].kind = "request"
  BY DEF ReadUpTo
<1> QED  BY <1>2, <1>4, <1>5, <1>6, <1>7, <1>8 DEF ReadUpTo

\* A header line the parser refuses is one the reference refuses.
LEMMA FieldRefused ==
  ASSUME NEW s \in Heads, NEW p, NEW h, ReadUpTo(s, p, h),
         p <= EmptyLineAt(s), ~IsCrlf(s[p]),
         ~(IsFieldLine(<<s[p]>>) /\ HasRoom(h))
  PROVE  ~WellFormed(s)
<1> DEFINE fields == FieldsBefore(s, p)
<1>1. p \in 2 .. EmptyLineAt(s) /\ EmptyLineAt(s) \in Nat
  BY HeadShape DEF ReadUpTo, Alternates
<1>2. p \in FieldsOf(s) /\ \A i \in fields : i < p
  BY <1>1, NextField
<1>3. CASE ~IsFieldLine(<<s[p]>>)
  BY <1>2, <1>3 DEF WellFormed
<1>4. CASE ~HasRoom(h)
  <2>1. fields \subseteq Earlier(FieldsOf(s)) /\ Earlier(FieldsOf(s)) \subseteq FieldsOf(s)
    BY <1>2 DEF FieldsBefore, Earlier
  <2>2. /\ Cardinality(NamesAt(s, fields)) \in Nat
        /\ Cardinality(NamesAt(s, Earlier(FieldsOf(s)))) \in Nat
        /\ Cardinality(NamesAt(s, fields)) <= Cardinality(NamesAt(s, Earlier(FieldsOf(s))))
    <3> HIDE DEF fields
    <3> QED  BY <2>1, FewerNames
  <2>3. ~(Cardinality(NamesAt(s, fields)) <= MaxFields)
    BY <1>4 DEF HasRoom, ReadUpTo, HoldsLast
  <2> HIDE DEF fields
  <2>4. ~(Cardinality(NamesAt(s, Earlier(FieldsOf(s)))) <= MaxFields)
    BY <2>2, <2>3, LimitIsNatural
  <2> QED  BY <2>4 DEF WellFormed, Earlier
<1> QED  BY <1>3, <1>4

\* The parser ends where the head does, with a well-formed head read.
LEMMA AllRead ==
  ASSUME NEW s \in Heads, NEW p, NEW h, ReadUpTo(s, p, h),
         p <= EmptyLineAt(s) => IsCrlf(s[p])
  PROVE  /\ p = EmptyLineAt(s) + 1
         /\ WellFormed(s)
         /\ HoldsLast(s, FieldsOf(s), h)
<1>1. Alternates(s, EmptyLineAt(s))
  BY HeadShape
<1>2. p \in 3 .. EmptyLineAt(s) + 1 /\ EmptyLineAt(s) \in Nat /\ IsCrlf(s[p - 1])
  BY <1>1 DEF ReadUpTo, Alternates
<1>3. ASSUME p <= EmptyLineAt(s)  PROVE FALSE
  <2>1. p - 1 \in 1 .. EmptyLineAt(s) - 1 /\ (p - 1) + 1 = p
    BY <1>2, <1>3
  <2> QED  BY <1>1, <1>2, <1>3, <2>1 DEF Alternates
<1>4. p = EmptyLineAt(s) + 1
  BY <1>2, <1>3
<1>5. FieldsBefore(s, p) = FieldsOf(s)
  BY <1>2, <1>4 DEF FieldsBefore, FieldsOf
<1>6. WellFormed(s)
  BY <1>5 DEF ReadUpTo, WellFormed, Earlier
<1> QED  BY <1>4, <1>5, <1>6 DEF ReadUpTo

LEMMA InitRepaired == Init => RepairedInv
BY DEF Init, RepairedInv

\* Every step of the parser keeps the invariant of the repaired cut.
LEMMA StepRepaired == Inv /\ head \in Heads /\ RepairedInv /\ [Next]_vars => RepairedInv'
<1> SUFFICES ASSUME Inv, head \in Heads, RepairedInv, [Next]_vars, separatorKept'
             PROVE  RepairedInv'
  BY DEF RepairedInv
<1>1. separatorKept /\ head' = head /\ separatorKept' = separatorKept
  BY DEF Next, CutHead, RequestLine, BadRequestLine, HeaderLine, BadHeaderLine, EndOfHead,
         Reject, vars
<1> DEFINE e == EmptyLineAt(head)
<1>2. Alternates(head, e) /\ e \in Nat \ {0}
  BY HeadShape DEF Alternates
<1>3. pc # "cut" => headPart = SubSeq(head, 1, e) /\ Len(headPart) = e
                    /\ \A i \in 1 .. e : headPart[i] = head[i]
  <2>1. e \in 0 .. Len(head)
    BY <1>2 DEF Alternates
  <2>2. /\ Len(SubSeq(head, 1, e)) = e
        /\ \A i \in 1 .. e : SubSeq(head, 1, e)[i] = head[i]
    BY <1>2, <2>1 DEF Alternates
  <2>3. pc # "cut" => headPart = SubSeq(head, 1, e)
    BY <1>1, Zenon DEF RepairedInv
  <2> QED  BY <2>2, <2>3
<1> HIDE DEF e
<1>4. CASE CutHead
  <2>1. PICK i \in BlankLines(head) :
          /\ \A j \in BlankLines(head) : i <= j
          /\ headPart' = SubSeq(head, 1, CutLength(separatorKept, i))
    BY <1>4 DEF CutHead
  <2>2. i = e
    BY <2>1, HeadShape DEF e
  <2>3. headPart' = SubSeq(head, 1, e)
    BY <1>1, <2>1, <2>2 DEF CutLength
  <2>4. DOMAIN headers = {} /\ headers = [n \in {} |-> n]
    BY <1>1, <1>4 DEF CutHead, RepairedInv
  <2> QED  BY <1>1, <1>4, <2>3, <2>4 DEF CutHead, RepairedInv, e
<1>5. CASE RequestLine
  <2>1. PICK eol \in 1 .. Len(headPart) :
          /\ FirstCrlf(headPart, 1, eol)
          /\ IsRequestLine(SubSeq(headPart, 1, eol - 1))
          /\ pos' = eol + 1
    BY <1>5 DEF RequestLine
  <2>2. pc = "request" /\ pc' = "fields" /\ headPart' = headPart /\ headers' = headers
    BY <1>5 DEF RequestLine
  <2>3. ~IsCrlf(head[1])
    <3> SUFFICES ASSUME IsCrlf(head[1])  PROVE FALSE
      OBVIOUS
    <3>1. IsCrlf(headPart[1])
      BY <1>2, <1>3, <2>2
    <3>2. eol = 1
      BY <1>2, <1>3, <2>1, <2>2, <3>1 DEF FirstCrlf
    <3>3. Len(SubSeq(headPart, 1, 0)) = 0
      BY <1>2, <1>3, <2>2 DEF Inv, TypeOK
    <3> QED  BY <2>1, <3>2, <3>3 DEF IsRequestLine
  <2>4. eol = 2 /\ SubSeq(headPart, 1, eol - 1) = <<head[1]>>
    <3>1. headPart = SubSeq(head, 1, e) /\ 1 \in 1 .. e
      BY <1>2, <1>3, <2>2
    <3>2. /\ \A i \in 1 .. Len(headPart) : FirstCrlf(headPart, 1, i) => i = 1 + 1
          /\ SubSeq(headPart, 1, 1) = <<head[1]>>
      BY ONLY <1>2, <2>3, <3>1, LineAt
    <3>3. eol = 2 /\ eol - 1 = 1
      BY <2>1, <3>2
    <3> QED  BY <3>2, <3>3
  <2>5. head[1].kind = "request"
    <3>1. IsRequestLine(<<head[1]>>)
      BY <2>1, <2>4
    <3> QED  BY <3>1 DEF IsRequestLine
  <2>6. DOMAIN headers = {} /\ headers = [n \in {} |-> n]
    BY <1>1, <2>2 DEF RepairedInv
  <2>7. ReadUpTo(head, 3, headers)
    BY <2>5, <2>6, RequestRead
  <2> QED  BY <1>1, <1>3, <2>1, <2>2, <2>4, <2>7 DEF RepairedInv, e
<1>6. CASE BadRequestLine
  <2>1. pc = "request" /\ pc' = "rejected" /\ headPart' = headPart
    BY <1>6 DEF BadRequestLine, Reject
  <2>2. ASSUME WellFormed(head)  PROVE FALSE
    <3>1. head[1].kind = "request" /\ ~IsCrlf(head[1])
      BY <2>2 DEF WellFormed, IsCrlf
    <3>2. headPart = SubSeq(head, 1, e) /\ 1 \in 1 .. e
      BY <1>2, <1>3, <2>1
    <3>3. /\ ~NoCrlf(headPart, 1)
          /\ \A i \in 1 .. Len(headPart) : FirstCrlf(headPart, 1, i) => i = 1 + 1
          /\ SubSeq(headPart, 1, 1) = <<head[1]>>
      BY ONLY <1>2, <3>1, <3>2, LineAt
    <3>4. IsRequestLine(<<head[1]>>)
      BY <3>1 DEF IsRequestLine
    <3>5. PICK eol \in 1 .. Len(headPart) :
            /\ FirstCrlf(headPart, 1, eol)
            /\ ~IsRequestLine(SubSeq(headPart, 1, eol - 1))
      BY <1>6, <3>3 DEF BadRequestLine
    <3>6. eol - 1 = 1
      BY <3>3, <3>5
    <3> QED  BY <3>3, <3>4, <3>5, <3>6
  <2> QED  BY <1>1, <1>3, <2>1, <2>2 DEF RepairedInv, e
<1>7. ASSUME pc = "fields"
      PROVE  /\ ReadUpTo(head, pos, headers) /\ Len(headPart) = e
             /\ HeadEnds(headPart, pos) <=> (pos <= e => IsCrlf(head[pos]))
             /\ ~HeadEnds(headPart, pos) =>
                  /\ pos <= e /\ ~IsCrlf(head[pos])
                  /\ ~NoCrlf(headPart, pos)
                  /\ \A eol \in pos .. Len(headPart) : FirstCrlf(headPart, pos, eol) => eol = pos + 1
                  /\ SubSeq(headPart, pos, pos) = <<head[pos]>>
  <2>1. ReadUpTo(head, pos, headers) /\ headPart = SubSeq(head, 1, e) /\ Len(headPart) = e
    BY <1>1, <1>3, <1>7 DEF RepairedInv
  <2>2. pos \in 3 .. e + 1
    BY <2>1 DEF ReadUpTo, e
  <2>3. HeadEnds(headPart, pos) <=> (pos <= e => IsCrlf(head[pos]))
    BY <1>2, <1>3, <1>7, <2>2 DEF HeadEnds
  <2>4. ASSUME ~HeadEnds(headPart, pos)
        PROVE  /\ pos <= e /\ ~IsCrlf(head[pos])
               /\ ~NoCrlf(headPart, pos)
               /\ \A eol \in pos .. Len(headPart) : FirstCrlf(headPart, pos, eol) => eol = pos + 1
               /\ SubSeq(headPart, pos, pos) = <<head[pos]>>
    <3>1. pos \in 1 .. e /\ pos <= e /\ ~IsCrlf(head[pos])
      BY <1>2, <2>2, <2>3, <2>4
    <3> QED  BY <1>2, <2>1, <3>1, LineAt
  <2> QED  BY <2>1, <2>3, <2>4
<1>8. CASE HeaderLine
  <2>1. pc = "fields" /\ pc' = "fields" /\ headPart' = headPart /\ ~HeadEnds(headPart, pos)
    BY <1>8 DEF HeaderLine
  <2>2. PICK eol \in pos .. Len(headPart) :
          LET line == SubSeq(headPart, pos, eol - 1)
          IN  /\ FirstCrlf(headPart, pos, eol)
              /\ IsFieldLine(line)
              /\ HasRoom(headers)
              /\ headers' = Put(headers, line[1].name, line[1].value)
              /\ pos' = NextLine(pos, eol)
    BY <1>8 DEF HeaderLine
  <2>3. eol = pos + 1 /\ pos \in Nat
    BY <1>7, <2>1, <2>2 DEF Inv, TypeOK
  <2>4. SubSeq(headPart, pos, eol - 1) = <<head[pos]>>
    <3>1. eol - 1 = pos
      BY <2>3
    <3> QED  BY <1>7, <2>1, <3>1
  <2>5. /\ IsFieldLine(<<head[pos]>>) /\ HasRoom(headers)
        /\ headers' = Put(headers, head[pos].name, head[pos].value)
        /\ pos' = pos + 2
    <3>1. <<head[pos]>>[1] = head[pos]
      OBVIOUS
    <3>2. pos' = pos + 2
      BY <2>2, <2>3 DEF NextLine
    <3> QED  BY <2>2, <2>4, <3>1, <3>2, Zenon
  <2>6. ReadUpTo(head, pos', headers')
    BY <1>7, <2>1, <2>5, FieldRead DEF e
  <2> QED  BY <1>1, <1>3, <2>1, <2>6 DEF RepairedInv, e
<1>9. CASE BadHeaderLine
  <2>1. pc = "fields" /\ pc' = "rejected" /\ headPart' = headPart /\ ~HeadEnds(headPart, pos)
    BY <1>9 DEF BadHeaderLine, Reject
  <2>2. PICK eol \in pos .. Len(headPart) :
          /\ FirstCrlf(headPart, pos, eol)
          /\ ~(IsFieldLine(SubSeq(headPart, pos, eol - 1)) /\ HasRoom(headers))
    BY <1>7, <1>9, <2>1 DEF BadHeaderLine
  <2>3. eol - 1 = pos
    BY <1>7, <2>1, <2>2 DEF Inv, TypeOK
  <2>4. ~(IsFieldLine(<<head[pos]>>) /\ HasRoom(headers))
    BY <1>7, <2>1, <2>2, <2>3
  <2>5. ~WellFormed(head)
    BY <1>7, <2>1, <2>4, FieldRefused DEF e
  <2> QED  BY <1>1, <1>3, <2>1, <2>5 DEF RepairedInv, e
<1>10. CASE EndOfHead
  <2>1. /\ pc = "fields" /\ pc' = "accepted" /\ headPart' = headPart
        /\ pos' = pos /\ headers' = headers /\ HeadEnds(headPart, pos)
    BY <1>10 DEF EndOfHead
  <2>2. ReadUpTo(head, pos, headers) /\ (pos <= e => IsCrlf(head[pos]))
    BY <1>7, <2>1
  <2>3. pos = e + 1
    BY <2>2, AllRead DEF e
  <2> QED  BY <1>1, <1>3, <2>1, <2>2, <2>3 DEF RepairedInv, e
<1>11. CASE UNCHANGED vars
  BY <1>1, <1>11 DEF RepairedInv, vars
<1> QED  BY <1>4, <1>5, <1>6, <1>8, <1>9, <1>10, <1>11 DEF Next

LEMMA ParserInv == Spec => [](Inv /\ head \in Heads /\ RepairedInv)
<1>1. Init => head \in Heads
  BY DEF Init
<1>2. head \in Heads /\ [Next]_vars => (head \in Heads)'
  BY DEF Next, CutHead, RequestLine, BadRequestLine, HeaderLine, BadHeaderLine, EndOfHead,
         Reject, vars
<1> QED  BY InitInv, StepInv, InitRepaired, StepRepaired, <1>1, <1>2, PTL DEF Spec

\* What an accepted parse has read is the whole of a well-formed head.
LEMMA Accepted ==
  ASSUME head \in Heads, RepairedInv, separatorKept, pc = "accepted"
  PROVE  WellFormed(head) /\ HoldsLast(head, FieldsOf(head), headers)
<1>1. ReadUpTo(head, pos, headers) /\ pos = EmptyLineAt(head) + 1
  BY DEF RepairedInv
<1>2. ~(pos <= EmptyLineAt(head))
  BY <1>1, HeadShape DEF Alternates
<1> QED  BY <1>1, <1>2, AllRead

\* With substr(0, eoh + 2) in HandleClient.cpp:94 parseHttpRequest accepts
\* exactly the well-formed heads, however many lines they have.
THEOREM RepairedCutAccepts == Spec => []RepairedCutAcceptsWellFormed
<1>1. Inv /\ head \in Heads /\ RepairedInv => RepairedCutAcceptsWellFormed
  BY Accepted DEF RepairedInv, RepairedCutAcceptsWellFormed, Finished
<1> QED  BY ParserInv, <1>1, PTL

\* Http.cpp:109: what the gateway later reads from the map is the value of the
\* last header line with that name.
THEOREM LastValueIsKept == Spec => []LastValueWins
<1>1. ASSUME Inv, head \in Heads, RepairedInv, pc = "accepted"
      PROVE  headers = LastValues(head)
  <2>1. separatorKept
    BY <1>1 DEF Inv, ShippedCutRejectsAll
  <2> QED  BY <1>1, <2>1, Accepted, HoldsAll
<1>2. Inv /\ head \in Heads /\ RepairedInv => LastValueWins
  BY <1>1 DEF LastValueWins
<1> QED  BY ParserInv, <1>2, PTL
=============================================================================
