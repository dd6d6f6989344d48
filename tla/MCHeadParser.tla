---------------------------- MODULE MCHeadParser ----------------------------
(* Heads of up to MaxLines lines over a few telling texts, followed by     *)
(* nothing, by another empty line or by the first line of a next request.  *)
EXTENDS HeadParser

CONSTANT MaxLines

Text(kind, name, value) == [kind |-> kind, name |-> name, value |-> value]

Crlf == Text("crlf", "", "")

MCNames == {"", "a", "b", "c"}
MCValues == {"", "v", "w", "long"}

Texts ==
  {Text("request", "", ""), Text("junk", "", ""), Text("field", "", "v"),
   Text("field", "a", "v"), Text("field", "a", "w"), Text("field", "a", "long"),
   Text("field", "b", ""), Text("field", "c", "v")}

Lines == UNION {[1 .. n -> Texts] : n \in 0 .. MaxLines}

\* Every line ends in a CRLF, and one more makes the empty line.
Ended(lines) ==
  [i \in 1 .. 2 * Len(lines) |-> IF i % 2 = 1 THEN lines[(i + 1) \div 2] ELSE Crlf]

Followers == {<< >>, <<Crlf>>, <<Text("request", "", ""), Crlf>>}

\* With no line at all, the head starts with an empty line.
EmptyLine(lines) == IF lines = << >> THEN <<Crlf, Crlf>> ELSE <<Crlf>>

MCHeads == {Ended(lines) \o EmptyLine(lines) \o rest : lines \in Lines, rest \in Followers}

MCShippedOnly == {FALSE}
=============================================================================
