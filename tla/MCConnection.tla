---------------------------- MODULE MCConnection ----------------------------
(* Requests of every telling size with one route, and of one size with     *)
(* every telling route, token and scope.                                   *)
EXTENDS Connection

Claim(form, items) == [form |-> form, items |-> items]

GoodToken ==
  [decodes |-> TRUE, signed |-> TRUE, exp |-> 2, issuer |-> "iss",
   roles |-> NoClaim, permissions |-> Claim("array", {<<"users", "read">>})]

Plain ==
  [headLen |-> 2, parses |-> TRUE, chunked |-> FALSE, length |-> NoLength, sent |-> 2,
   method |-> "GET", path |-> <<"api", "users", "5">>, tokenSize |-> 1, token |-> GoodToken]

\* Up to one whole read beyond the head cap, and beyond the length cap.
Sized ==
  {[Plain EXCEPT !.headLen = h, !.length = l, !.sent = h - 1 + extra] :
     h \in 1 .. HeaderCap + Buf, l \in {NoLength, BadLength} \cup 0 .. LengthCap + 1,
     extra \in 0 .. MaxBody + Buf + 1}

Malformed ==
  {[Plain EXCEPT !.parses = p, !.chunked = c] : p \in BOOLEAN, c \in BOOLEAN}

Paths ==
  {<<"">>, <<"health">>, <<"health", "">>, <<"api">>, <<"api", "">>, <<"api", "users">>,
   <<"api", "users", "5">>, <<"api", "users", "", "5">>, <<"api", "quests", "1">>,
   <<"api", "courses", "">>, <<"api", "tests">>, <<"api", "admin">>, <<"apis", "users">>}

Permissions ==
  {NoClaim, Claim("other", {}), Claim("array", {}),
   Claim("string", {<<"users", "read">>}),
   Claim("array", {<<"users", "write">>, <<"tests", "read">>}),
   Claim("array", {<<"user", "list", "read">>}),
   Claim("array", {<<"user">>, <<"quest", "">>}),
   Claim("array", {<<"quests", "read">>, <<"tests", "write">>})}

Roles == {NoClaim, Claim("string", {"admin"}), Claim("array", {"teacher"}),
          Claim("array", {"teacher", "admin"})}

Routed ==
  {[Plain EXCEPT !.method = m, !.path = p, !.token.roles = r, !.token.permissions = q] :
     m \in {"GET", "POST", "HEAD"}, p \in Paths, r \in Roles, q \in Permissions}

Tokens ==
  {[Plain EXCEPT !.tokenSize = z,
                 !.token = [GoodToken EXCEPT !.decodes = d, !.signed = s, !.exp = e,
                                             !.issuer = i]] :
     z \in 0 .. MaxToken + 1, d \in BOOLEAN, s \in BOOLEAN, e \in 0 .. 3,
     i \in {"", "iss", "other"}}

MCRequests == Sized \cup Malformed \cup Routed \cup Tokens

\* courses is not configured, quests inherits from tests.
MCUpstreams ==
  [a \in Areas |-> CASE a = "users" -> "http://users"
                     [] a = "tests" -> "http://tests"
                     [] a = "attempts" -> "http://attempts"
                     [] OTHER -> ""]
=============================================================================
