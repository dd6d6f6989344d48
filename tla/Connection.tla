----------------------------- MODULE Connection -----------------------------
(***************************************************************************)
(* handleClient (HandleClient.cpp:61-250): one connection, from its first  *)
(* recv to the answer and the close.  Data is counted, not spelled out: a  *)
(* request is a head of headLen bytes, empty line included, followed by    *)
(* what the client sends after it, and recv returns it in any pieces of at *)
(* most Buf bytes.                                                         *)
(*                                                                         *)
(* Whether parseHttpRequest accepts the head is part of the request here   *)
(* (parses); module HeadParser says when it does.                          *)
(***************************************************************************)
EXTENDS Integers, Router, Token

CONSTANTS
  Requests,    \* what the client may send, see below
  Buf,         \* the 4096 bytes of buf
  HeaderCap,   \* kMaxHeaderBytes
  MaxBody,     \* cfg.maxBodyBytes
  LengthCap,   \* the 64 MiB of parseContentLength
  MaxToken,    \* the 8192 bytes of line 195
  Upstreams,   \* cfg.upstreams: the base URL of each area, or Empty
  Issuer,      \* cfg.jwtIssuer, NoIssuer when it is not enforced
  Times        \* the readings of the system clock

\* Content-Length: absent, not a number, or a number.
NoLength == -1
BadLength == -2

\* A request: headLen, whether its head parses, whether it has a
\* Transfer-Encoding, its length, the bytes sent in all, method and path, the
\* size of the bearer token (0 for none), and the token of module Token.

ASSUME SizesAssumption ==
  /\ Buf \in Nat \ {0}
  /\ HeaderCap \in Nat \ {0}
  /\ MaxBody \in Nat /\ LengthCap \in Nat /\ MaxBody <= LengthCap
  /\ MaxToken \in Nat
  /\ Times \subseteq Int

ASSUME RequestsAssumption ==
  \A r \in Requests :
    /\ r.headLen \in Nat \ {0} /\ r.sent \in Nat
    /\ r.length \in Nat \cup {NoLength, BadLength}
    /\ r.token.exp \in Nat

\* A path and a permission are sequences of texts; a claim that is neither a list
\* nor a string has no strings in it.
ASSUME TextsAssumption ==
  \A r \in Requests :
    /\ r.path \in Seq(STRING) /\ r.token.permissions.items \subseteq Seq(STRING)
    /\ \A claim \in {r.token.roles, r.token.permissions} :
         claim.form \notin {"array", "string"} => claim.items = {}

VARIABLES
  req,        \* the request
  pc,         \* the section of handleClient that comes next
  received,   \* the bytes recv has returned so far
  head,       \* head.size()
  body,       \* req.body.size()
  auth,       \* what verifyJwt returned
  clock,      \* history: when verifyJwt had the token verified, and checked exp
  answer,     \* the status and code of the answer, "none" before it
  forwarded   \* what forwardRequest was called with

vars == <<req, pc, received, head, body, auth, clock, answer, forwarded>>

NoAuth == Failure("none")

\* verifyJwt has not been called.
NotRead == [verify |-> 0, check |-> 0]

Nothing == [base |-> Empty, path |-> << >>, body |-> 0]

Init ==
  /\ req \in Requests
  /\ pc = "head"
  /\ received = 0
  /\ head = 0
  /\ body = 0
  /\ auth = NoAuth
  /\ clock = NotRead
  /\ answer = "none"
  /\ forwarded = Nothing

\* reply(...), close_socket, return.
Answer(code) ==
  /\ answer' = code
  /\ pc' = "closed"

\* close_socket, return: nobody to answer.
Drop ==
  /\ pc' = "closed"
  /\ UNCHANGED <<req, received, head, body, auth, clock, answer, forwarded>>

\* recv returns n bytes of what the client has sent.
Piece(n) ==
  /\ n \in 1 .. Buf
  /\ received + n <= req.sent
  /\ received' = received + n
-----------------------------------------------------------------------------
(* 1. The head, lines 67-105.                                              *)

\* The loop condition of line 72.
MutHeadRoomIncluding == head <= HeaderCap
MutHeadRoomForBuf == head + Buf <= HeaderCap
HeadRoom == head < HeaderCap

\* Line 80: the empty line is in head.
MutHeadDone(size) == size >= req.headLen - 1
HeadDone(size) == size >= req.headLen

\* Lines 72-84: one turn of the loop.  It ends with headDone once the empty
\* line is in head; what came with it is the leftover of line 95.
ReadHead(n) ==
  /\ pc = "head"
  /\ HeadRoom
  /\ Piece(n)
  /\ head' = head + n
  /\ pc' = IF HeadDone(head + n) THEN "parse" ELSE "head"
  /\ UNCHANGED <<req, body, auth, clock, answer, forwarded>>

\* recv returns 0 or fails, in the middle of the head; a timeout is a failure.
MutRetryForEver ==
  /\ pc = "head"
  /\ HeadRoom
  /\ UNCHANGED vars
HeadCutOff ==
  /\ pc = "head"
  /\ HeadRoom
  /\ Drop

\* Lines 85-91.
HeadTooLarge ==
  /\ pc = "head"
  /\ ~HeadRoom
  /\ Answer("413_headers_too_large")
  /\ UNCHANGED <<req, received, head, body, auth, clock, forwarded>>

\* parseContentLength, lines 36-47, and the header that is not there.
BadContentLength == req.length = BadLength \/ req.length > LengthCap

DeclaredLength == IF req.length = NoLength THEN 0 ELSE req.length

\* Line 123.
BodyTooLarge == DeclaredLength > MaxBody

\* Lines 97-104 and 107-130.
BadRequest ==
  /\ pc = "parse"
  /\ ~req.parses \/ req.chunked \/ BadContentLength
  /\ Answer("400_bad_request")
  /\ UNCHANGED <<req, received, head, body, auth, clock, forwarded>>

DeclaredTooLarge ==
  /\ pc = "parse"
  /\ req.parses /\ ~req.chunked /\ ~BadContentLength
  /\ BodyTooLarge
  /\ Answer("413_body_too_large")
  /\ UNCHANGED <<req, received, head, body, auth, clock, forwarded>>

AcceptHead ==
  /\ pc = "parse"
  /\ req.parses /\ ~req.chunked /\ ~BadContentLength
  /\ ~BodyTooLarge
  /\ body' = head - req.headLen
  /\ pc' = "body"
  /\ UNCHANGED <<req, received, head, auth, clock, answer, forwarded>>
-----------------------------------------------------------------------------
(* 2. The body, lines 131-147.                                             *)

\* Line 139: what has come so far, the bytes behind the body included.
MutOverrunAtLimit(size) == size >= MaxBody
Overrun(size) == size > MaxBody

\* Lines 138-144.
ReadBody(n) ==
  /\ pc = "body"
  /\ body < DeclaredLength
  /\ Piece(n)
  /\ body' = body + n
  /\ IF Overrun(body + n)
       THEN Answer("413_body_too_large")
       ELSE UNCHANGED <<pc, answer>>
  /\ UNCHANGED <<req, head, auth, clock, forwarded>>

\* Lines 133-137.
BodyCutOff ==
  /\ pc = "body"
  /\ body < DeclaredLength
  /\ Drop

\* Lines 146-147: resize cuts off what the client sent ahead.
MutCutBody(size) == size
CutBody(size) == IF size > DeclaredLength THEN DeclaredLength ELSE size

EndOfBody ==
  /\ pc = "body"
  /\ body >= DeclaredLength
  /\ body' = CutBody(body)
  /\ pc' = "limit"
  /\ UNCHANGED <<req, received, head, auth, clock, answer, forwarded>>
-----------------------------------------------------------------------------
(* 3. to 6. The decisions, lines 151-249.                                  *)

\* Lines 152-158; the verdict is RateLimiter's.
LimitAllows ==
  /\ pc = "limit"
  /\ pc' = "route"
  /\ UNCHANGED <<req, received, head, body, auth, clock, answer, forwarded>>

MutLimitDeniesGoesOn ==
  /\ pc = "limit"
  /\ answer' = "429_rate_limited"
  /\ pc' = "route"
  /\ UNCHANGED <<req, received, head, body, auth, clock, forwarded>>
LimitDenies ==
  /\ pc = "limit"
  /\ Answer("429_rate_limited")
  /\ UNCHANGED <<req, received, head, body, auth, clock, forwarded>>

Route == MatchRoute(req.method, req.path, Upstreams)

\* Lines 161-191.
RouteAnswers ==
  /\ pc = "route"
  /\ \/ Route.kind = "health" /\ Answer("200_ok")
     \/ Route.kind = "not_found" /\ Answer("404_not_found")
     \/ Route.kind = "method_not_allowed" /\ Answer("405_method_not_allowed")
  /\ UNCHANGED <<req, received, head, body, auth, clock, forwarded>>

RouteToApi ==
  /\ pc = "route"
  /\ Route.kind = "api"
  /\ pc' = "auth"
  /\ UNCHANGED <<req, received, head, body, auth, clock, answer, forwarded>>

\* Line 195: no bearer token, or one that is too long.
NoBearer == req.tokenSize = 0 \/ req.tokenSize > MaxToken

\* Lines 194-207.  verifyJwt reads system_clock twice; it moves in between, and
\* may be set back.
Authenticate ==
  /\ pc = "auth"
  /\ \/ NoBearer /\ auth' = NoAuth /\ UNCHANGED clock
     \/ /\ ~NoBearer
        /\ clock' \in [verify : Times, check : Times]
        /\ auth' = VerifyJwt(req.token, Issuer, clock'.verify, clock'.check)
  /\ IF auth'.ok
       THEN pc' = "scope" /\ UNCHANGED answer
       ELSE Answer("401_unauthorized")
  /\ UNCHANGED <<req, received, head, body, forwarded>>

\* Lines 211-218.
Granted == HasScope(auth.roles, auth.permissions, Route.area, Route.scope)

CheckScope ==
  /\ pc = "scope"
  /\ IF Granted
       THEN pc' = "forward" /\ UNCHANGED answer
       ELSE Answer("403_forbidden")
  /\ UNCHANGED <<req, received, head, body, auth, clock, forwarded>>

\* Lines 221-227.
NotConfigured ==
  /\ pc = "forward"
  /\ Route.base = Empty
  /\ Answer("502_bad_gateway")
  /\ UNCHANGED <<req, received, head, body, auth, clock, forwarded>>

\* Lines 228-230: the call.
Forward ==
  /\ pc = "forward"
  /\ Route.base # Empty
  /\ forwarded' = [base |-> Route.base, path |-> Route.forward, body |-> body]
  /\ pc' = "upstream"
  /\ UNCHANGED <<req, received, head, body, auth, clock, answer>>

\* Lines 231-249: relayed, failed or timed out, as module Proxy has it.
UpstreamAnswers ==
  /\ pc = "upstream"
  /\ \E code \in {"relayed", "502_bad_gateway", "504_upstream_timeout"} : Answer(code)
  /\ UNCHANGED <<req, received, head, body, auth, clock, forwarded>>
-----------------------------------------------------------------------------
ReadStep ==
  \/ \E n \in 1 .. Buf : ReadHead(n) \/ ReadBody(n)
  \/ HeadCutOff \/ BodyCutOff

DecideStep ==
  \/ HeadTooLarge
  \/ BadRequest \/ DeclaredTooLarge \/ AcceptHead
  \/ EndOfBody
  \/ LimitAllows \/ LimitDenies
  \/ RouteAnswers \/ RouteToApi
  \/ Authenticate \/ CheckScope
  \/ NotConfigured \/ Forward \/ UpstreamAnswers

Next == ReadStep \/ DecideStep

\* The worker keeps running: every recv ends, with data or at the receive
\* timeout of main.cpp:145, and forwardRequest has timeouts of its own.
Spec == Init /\ [][Next]_vars /\ WF_vars(Next)
-----------------------------------------------------------------------------
Codes ==
  {"none", "200_ok", "400_bad_request", "401_unauthorized", "403_forbidden",
   "404_not_found", "405_method_not_allowed", "413_headers_too_large",
   "413_body_too_large", "429_rate_limited", "relayed", "502_bad_gateway",
   "504_upstream_timeout"}

\* Every variable keeps its type.
TypeOK ==
  /\ req.headLen \in Nat /\ req.sent \in Nat
  /\ pc \in {"head", "parse", "body", "limit", "route", "auth", "scope", "forward", "upstream", "closed"}
  /\ received \in Nat /\ head \in Nat /\ body \in Nat
  /\ auth.ok \in BOOLEAN
  /\ clock = NotRead \/ clock \in [verify : Times, check : Times]
  /\ answer \in Codes
  /\ forwarded.body \in Nat

\* A client cannot make the worker hold more than a cap and one read, however
\* it cuts and prolongs what it sends.
BuffersBounded ==
  /\ head < HeaderCap + Buf
  /\ body < MaxBody + Buf

\* No head within kMaxHeaderBytes is refused as too large, and none that is
\* larger by a whole read gets through.
HeadCapSound ==
  /\ answer = "413_headers_too_large" => req.headLen > HeaderCap
  /\ pc \notin {"head", "closed"} => req.headLen < HeaderCap + Buf

\* The upstream gets exactly the declared body, all of it received and none of
\* what the client sent behind it (line 147).
ForwardedBodyExact ==
  forwarded # Nothing =>
    /\ forwarded.body = DeclaredLength
    /\ req.headLen + forwarded.body <= received

\* A client that sends no more than the body it declares is judged by its
\* declaration alone, however its bytes are cut: if the head is read and has no
\* other fault, the answer is body_too_large for a length above MAX_BODY_BYTES
\* and up to the 64 MiB of parseContentLength, for no other, and bad_request
\* beyond (lines 43 and 117), where API_CONTRACT.md:22 says 413 as well; and
\* nothing above MAX_BODY_BYTES gets past the head.
HonestSenderFairlyJudged ==
  req.sent <= req.headLen + DeclaredLength =>
    /\ answer = "413_body_too_large" =>
         req.parses /\ ~req.chunked /\ req.length \in MaxBody + 1 .. LengthCap
    /\ answer \notin {"none", "413_headers_too_large"} /\ req.length > MaxBody =>
         answer = IF req.parses /\ ~req.chunked /\ req.length <= LengthCap
                    THEN "413_body_too_large" ELSE "400_bad_request"
    /\ pc \notin {"head", "parse", "closed"} => req.length <= MaxBody

\* What API_CONTRACT.md section 3 asks of a request before it reaches a module;
\* exp is compared with the clock at both readings of verifyJwt.
Entitled(area, method) ==
  /\ req.token.decodes /\ req.token.signed
  /\ req.token.exp # 0 => clock.verify <= req.token.exp /\ clock.check <= req.token.exp
  /\ Issuer # NoIssuer => req.token.issuer = Issuer
  /\ \/ "admin" \in req.token.roles.items
     \/ <<area, IF method = "GET" THEN "read" ELSE "write">> \in req.token.permissions.items
     \/ \E p \in req.token.permissions.items : p[1] = Singular(area) /\ Len(p) > 1

\* Only a vetted request reaches an upstream, the one that serves its area, and
\* without "/api/<area>" in front of its path.
ForwardedVetted ==
  forwarded # Nothing =>
    /\ req.parses /\ ~req.chunked
    /\ Entitled(req.path[2], req.method)
    /\ forwarded.base # Empty
    /\ forwarded.base # Upstreams[req.path[2]] =>
         /\ req.path[2] \in {"quests", "attempts", "answers"}
         /\ Upstreams[req.path[2]] = Empty /\ forwarded.base = Upstreams["tests"]
    /\ forwarded.path = <<Empty>> \/ <<"api", req.path[2]>> \o forwarded.path = req.path

\* A token that grants the scope is not refused for the form of its claims.
EntitledNotForbidden ==
  answer = "403_forbidden" => ~Entitled(req.path[2], req.method)

\* However the request is cut and whatever it says: one answer at most, given at
\* a stage that may give it, and one call to an upstream at most, behind the
\* limiter.
Promise == INSTANCE Service WITH
  said <- answer,
  stage <- CASE pc \in {"head", "parse", "body", "limit"} -> "reading"
             [] pc \in {"route", "auth", "scope", "forward"} -> "admitted"
             [] pc = "upstream" -> "asked"
             [] OTHER -> "over"
ServiceSpec == Promise!Spec

\* The worker always comes to the end of its connection, up to the sending of
\* the answer.
ConnectionEnds == <>(pc = "closed")

\* API_CONTRACT.md:22, body_too_large is the answer to a body larger than
\* MAX_BODY_BYTES: no other is told so.
OnlyLargeBodiesRefused ==
  answer = "413_body_too_large" => DeclaredLength > MaxBody
=============================================================================
