-------------------------- MODULE ConnectionProofs --------------------------
(***************************************************************************)
(* What handleClient counts and cuts is right for every buffer size, every *)
(* limit and every set of requests: the size properties of module          *)
(* Connection.                                                             *)
(***************************************************************************)
EXTENDS Connection, TLAPS

\* The sections that come after the body.
Decided == {"limit", "route", "auth", "scope", "forward"}

\* Nothing is answered before the connection is closed, and nothing has gone
\* upstream before the call.
Silent ==
  /\ pc # "closed" => answer = "none"
  /\ pc \notin {"upstream", "closed"} => forwarded = Nothing

\* The head grows with what is received and stays short of its empty line.
HeadReading == pc = "head" => received = head /\ head < req.headLen

\* The head is complete since the last read, and shorter than the cap and one read.
HeadRead ==
  pc = "parse" =>
    received = head /\ head \in req.headLen .. req.headLen + Buf - 1 /\ head < HeaderCap + Buf

\* What was received is the head and what stands for the body so far.
BodyReading ==
  pc = "body" =>
    /\ received = req.headLen + body
    /\ req.headLen < HeaderCap + Buf
    /\ DeclaredLength \in Nat /\ DeclaredLength <= MaxBody

\* The body is what was declared.
BodyRead ==
  pc \in Decided =>
    /\ body = DeclaredLength
    /\ req.headLen + body <= received
    /\ req.headLen < HeaderCap + Buf
    /\ DeclaredLength \in Nat /\ DeclaredLength <= MaxBody

\* The inductive invariant: the section of the code says what the sizes are.
Inv ==
  /\ TypeOK
  /\ req \in Requests
  /\ received <= req.sent
  /\ Silent
  /\ HeadReading /\ HeadRead /\ BodyReading /\ BodyRead
  /\ BuffersBounded /\ HeadCapSound
  /\ ForwardedBodyExact /\ HonestSenderFairlyJudged

\* A Content-Length that was not refused, or none, declares a number of bytes.
LEMMA DeclaredIsNat ==
  ASSUME req \in Requests, ~BadContentLength
  PROVE  DeclaredLength \in Nat
  BY RequestsAssumption DEF DeclaredLength, BadContentLength, NoLength, BadLength

\* The header is a number, and what is declared is not less than it says.
LEMMA LengthIsDeclared ==
  ASSUME req \in Requests
  PROVE  req.length \in Int /\ DeclaredLength \in Int /\ req.length <= DeclaredLength
  BY RequestsAssumption DEF DeclaredLength, NoLength, BadLength

\* Within the limit, anything but body_too_large is a fair answer.
LEMMA FairWithin ==
  ASSUME req \in Requests, req' = req, DeclaredLength <= MaxBody,
         answer' # "413_body_too_large"
  PROVE  HonestSenderFairlyJudged'
<1>1. req.length \in Int /\ req.length <= MaxBody
  BY LengthIsDeclared, SizesAssumption
<1> QED  BY <1>1, SizesAssumption DEF HonestSenderFairlyJudged

\* verifyJwt says yes or no.
LEMMA VerdictIsBoolean ==
  ASSUME NEW token, NEW issuer, NEW verifyAt, NEW checkAt
  PROVE  VerifyJwt(token, issuer, verifyAt, checkAt).ok \in BOOLEAN
  BY DEF VerifyJwt, Failure

LEMMA InitInv == Init => Inv
<1> SUFFICES ASSUME Init PROVE Inv
  OBVIOUS
<1>1. /\ req \in Requests /\ pc = "head" /\ answer = "none" /\ forwarded = Nothing
      /\ received = 0 /\ head = 0 /\ body = 0 /\ auth = NoAuth /\ clock = NotRead
  BY DEF Init
<1>2. req.headLen \in Nat \ {0} /\ req.sent \in Nat
  BY <1>1, RequestsAssumption
<1>3. auth.ok \in BOOLEAN /\ forwarded.body \in Nat
  BY <1>1 DEF NoAuth, Failure, Nothing
<1>4. TypeOK
  BY <1>1, <1>2, <1>3 DEF TypeOK, Codes
<1> QED
  BY <1>1, <1>2, <1>4, SizesAssumption
     DEF Inv, Silent, HeadReading, HeadRead, BodyReading, BodyRead, Decided,
         BuffersBounded, HeadCapSound, ForwardedBodyExact, HonestSenderFairlyJudged
-----------------------------------------------------------------------------
(* The steps that read: they are what the sizes depend on.                 *)

LEMMA ReadHeadInv ==
  ASSUME Inv, NEW n \in 1 .. Buf, ReadHead(n)
  PROVE  Inv'
<1> USE SizesAssumption
<1>1. n \in Nat /\ n <= Buf /\ received + n <= req.sent /\ head < HeaderCap
  BY DEF ReadHead, Piece, HeadRoom
<1>2. pc = "head" /\ received = head /\ head < req.headLen /\ head \in Nat
  BY DEF Inv, ReadHead, HeadReading, TypeOK
<1>3. UNCHANGED <<req, body, auth, clock, answer, forwarded>>
  BY DEF ReadHead
<1>4. received' = head + n /\ head' = head + n
  BY <1>2 DEF ReadHead, Piece
<1>5. pc' \in {"head", "parse"} /\ (pc' = "parse" <=> head + n >= req.headLen)
  BY DEF ReadHead, HeadDone
<1>6. req.headLen \in Nat
  BY DEF Inv, TypeOK
<1>7. TypeOK'
  BY <1>1, <1>2, <1>3, <1>4, <1>5, <1>6 DEF Inv, TypeOK, ReadHead
<1>8. Silent' /\ req' \in Requests /\ received' <= req'.sent
  BY <1>1, <1>2, <1>3, <1>4 DEF Inv, Silent
<1>9. HeadReading' /\ HeadRead' /\ BodyReading' /\ BodyRead'
  BY <1>1, <1>2, <1>3, <1>4, <1>5, <1>6
     DEF HeadReading, HeadRead, BodyReading, BodyRead, Decided
<1>10. BuffersBounded' /\ HeadCapSound'
  BY <1>1, <1>2, <1>3, <1>4, <1>5, <1>6 DEF Inv, Silent, BuffersBounded, HeadCapSound
<1>11. ForwardedBodyExact' /\ HonestSenderFairlyJudged'
  BY <1>2, <1>3, <1>5
     DEF Inv, Silent, ForwardedBodyExact, HonestSenderFairlyJudged, DeclaredLength, Nothing
<1> QED
  BY <1>7, <1>8, <1>9, <1>10, <1>11 DEF Inv

\* A client that sends no more than it declared never overruns the limit here.
LEMMA ReadBodyInv ==
  ASSUME Inv, NEW n \in 1 .. Buf, ReadBody(n)
  PROVE  Inv'
<1> USE SizesAssumption
<1>1. n \in Nat /\ n <= Buf /\ received + n <= req.sent /\ body < DeclaredLength
  BY DEF ReadBody, Piece, Answer, Overrun
<1>2. pc = "body" /\ received = req.headLen + body /\ DeclaredLength \in Nat /\ DeclaredLength <= MaxBody
      /\ req.headLen < HeaderCap + Buf /\ body \in Nat /\ received \in Nat
  BY DEF Inv, ReadBody, BodyReading, TypeOK
<1>3. UNCHANGED <<req, head, auth, clock, forwarded>>
  BY DEF ReadBody
<1>4. received' = received + n /\ body' = body + n
  BY DEF ReadBody, Piece
<1>5. \/ body + n <= MaxBody /\ pc' = "body" /\ answer' = answer
      \/ body + n > MaxBody /\ pc' = "closed" /\ answer' = "413_body_too_large"
  <2>1. CASE body + n > MaxBody
    BY <2>1 DEF ReadBody, Overrun, Answer
  <2>2. CASE ~(body + n > MaxBody)
    BY <1>1, <1>2, <2>2 DEF ReadBody, Overrun
  <2> QED
    BY <2>1, <2>2
<1>6. req \in Requests /\ req.headLen \in Nat /\ req.sent \in Nat /\ req.length \in Int
  BY RequestsAssumption DEF Inv, NoLength, BadLength
<1>7. DeclaredLength \in Int /\ DeclaredLength' = DeclaredLength
  BY <1>3, <1>6 DEF DeclaredLength
<1>8. answer = "none" /\ forwarded = Nothing
  BY <1>2 DEF Inv, Silent
<1>9. TypeOK'
  BY <1>1, <1>2, <1>3, <1>4, <1>5 DEF Inv, TypeOK, Codes
<1>10. Silent' /\ req' \in Requests /\ received' <= req'.sent
  BY <1>1, <1>3, <1>4, <1>5, <1>6, <1>8 DEF Silent
<1>11. HeadReading' /\ HeadRead' /\ BodyReading' /\ BodyRead'
  BY <1>1, <1>2, <1>3, <1>4, <1>5, <1>6, <1>7
     DEF HeadReading, HeadRead, BodyReading, BodyRead, Decided
<1>12. BuffersBounded'
  BY <1>1, <1>2, <1>3, <1>4, <1>7 DEF Inv, BuffersBounded
<1>13. HeadCapSound'
  BY <1>2, <1>3, <1>5, <1>8 DEF HeadCapSound
<1>14. ForwardedBodyExact'
  BY <1>3, <1>8 DEF ForwardedBodyExact, Nothing
<1>15. HonestSenderFairlyJudged'
  <2>1. CASE answer' # "413_body_too_large"
    BY <1>2, <1>3, <1>6, <2>1, FairWithin
  <2>2. CASE answer' = "413_body_too_large"
    <3>1. body + n > MaxBody
      BY <1>5, <1>8, <2>2
    <3>2. req.sent > req.headLen + DeclaredLength
      BY <1>1, <1>2, <1>6, <3>1, SizesAssumption
    <3> QED  BY <1>3, <1>6, <1>7, <3>2 DEF HonestSenderFairlyJudged
  <2> QED  BY <2>1, <2>2
<1> QED
  BY <1>9, <1>10, <1>11, <1>12, <1>13, <1>14, <1>15 DEF Inv

\* A connection that is dropped leaves its sizes as they are.
LEMMA DropInv == Inv /\ Drop => Inv'
  BY DEF Inv, Drop, TypeOK, Silent, HeadReading, HeadRead, BodyReading, BodyRead, Decided,
         BuffersBounded, HeadCapSound, ForwardedBodyExact, HonestSenderFairlyJudged,
         DeclaredLength
-----------------------------------------------------------------------------
(* The steps that decide.                                                  *)

LEMMA HeadTooLargeInv == Inv /\ HeadTooLarge => Inv'
<1> SUFFICES ASSUME Inv, HeadTooLarge PROVE Inv'
  OBVIOUS
<1>1. pc = "head" /\ head < req.headLen /\ head >= HeaderCap /\ head \in Nat
  BY SizesAssumption DEF Inv, TypeOK, HeadTooLarge, HeadRoom, HeadReading
<1>2. req.headLen > HeaderCap
  BY <1>1, SizesAssumption DEF Inv, TypeOK
<1> QED
  BY <1>1, <1>2
     DEF Inv, HeadTooLarge, Answer, TypeOK, Codes, Silent, HeadReading, HeadRead,
         BodyReading, BodyRead, Decided, BuffersBounded, HeadCapSound, ForwardedBodyExact,
         HonestSenderFairlyJudged, DeclaredLength, Nothing

LEMMA JudgeHeadInv == Inv /\ (BadRequest \/ DeclaredTooLarge) => Inv'
<1> SUFFICES ASSUME Inv, BadRequest \/ DeclaredTooLarge PROVE Inv'
  OBVIOUS
<1>1. pc = "parse" /\ pc' = "closed"
      /\ UNCHANGED <<req, received, head, body, auth, clock, forwarded>>
  BY DEF BadRequest, DeclaredTooLarge, Answer
<1>2. answer' \in {"400_bad_request", "413_body_too_large"}
  BY DEF BadRequest, DeclaredTooLarge, Answer
<1>3. HonestSenderFairlyJudged'
  <2>1. req.length \in Int /\ req' = req
    BY <1>1, LengthIsDeclared DEF Inv
  <2>2. CASE BadRequest
    <3>1. /\ answer' = "400_bad_request"
          /\ ~req.parses \/ req.chunked \/ req.length = BadLength \/ req.length > LengthCap
      BY <2>2 DEF BadRequest, BadContentLength, Answer
    <3> QED  BY <1>1, <2>1, <3>1, SizesAssumption DEF HonestSenderFairlyJudged, BadLength
  <2>3. CASE DeclaredTooLarge
    <3>1. /\ answer' = "413_body_too_large"
          /\ req.parses /\ ~req.chunked /\ ~(req.length > LengthCap) /\ DeclaredLength > MaxBody
      BY <2>3 DEF DeclaredTooLarge, BadContentLength, BodyTooLarge, Answer
    <3>2. req.length \in MaxBody + 1 .. LengthCap
      BY <2>1, <3>1, SizesAssumption DEF DeclaredLength, NoLength
    <3> QED  BY <1>1, <2>1, <3>1, <3>2, SizesAssumption DEF HonestSenderFairlyJudged
  <2> QED  BY <2>2, <2>3
<1> QED
  BY <1>1, <1>2, <1>3
     DEF Inv, TypeOK, Codes, Silent, HeadReading, HeadRead,
         BodyReading, BodyRead, Decided, BuffersBounded, HeadCapSound, ForwardedBodyExact,
         DeclaredLength, Nothing

LEMMA AcceptHeadInv == Inv /\ AcceptHead => Inv'
<1> SUFFICES ASSUME Inv, AcceptHead PROVE Inv'
  OBVIOUS
<1>1. pc = "parse" /\ pc' = "body" /\ body' = head - req.headLen
      /\ UNCHANGED <<req, received, head, auth, clock, answer, forwarded>>
  BY DEF AcceptHead
<1>2. received = head /\ head >= req.headLen /\ head < HeaderCap + Buf
      /\ head <= req.headLen + Buf - 1 /\ head \in Nat /\ req.headLen \in Nat
  BY <1>1 DEF Inv, TypeOK, HeadRead
<1>3. DeclaredLength \in Nat /\ DeclaredLength <= MaxBody /\ DeclaredLength' = DeclaredLength
  BY <1>1, DeclaredIsNat, SizesAssumption DEF Inv, AcceptHead, BodyTooLarge, DeclaredLength
<1>4. body' \in Nat /\ body' < Buf
  BY <1>1, <1>2, SizesAssumption
<1>5. answer = "none" /\ forwarded = Nothing
  BY <1>1 DEF Inv, Silent
<1>6. TypeOK' /\ Silent'
  BY <1>1, <1>4 DEF Inv, TypeOK, Silent
<1>7. HeadReading' /\ HeadRead' /\ BodyReading' /\ BodyRead'
  BY <1>1, <1>2, <1>3, SizesAssumption
     DEF HeadReading, HeadRead, BodyReading, BodyRead, Decided
<1>8. BuffersBounded' /\ HeadCapSound'
  BY <1>1, <1>2, <1>4, <1>5, SizesAssumption DEF Inv, BuffersBounded, HeadCapSound
<1>9. ForwardedBodyExact' /\ HonestSenderFairlyJudged'
  BY <1>1, <1>3, <1>5, FairWithin DEF Inv, ForwardedBodyExact, Nothing
<1> QED
  BY <1>1, <1>6, <1>7, <1>8, <1>9 DEF Inv

LEMMA EndOfBodyInv == Inv /\ EndOfBody => Inv'
<1> SUFFICES ASSUME Inv, EndOfBody PROVE Inv'
  OBVIOUS
<1>1. /\ pc = "body" /\ pc' = "limit" /\ body >= DeclaredLength /\ body' = CutBody(body)
      /\ UNCHANGED <<req, received, head, auth, clock, answer, forwarded>>
  BY DEF EndOfBody
<1>2. /\ received = req.headLen + body /\ req.headLen < HeaderCap + Buf
      /\ DeclaredLength \in Nat /\ DeclaredLength <= MaxBody
      /\ body \in Nat /\ req.headLen \in Nat
  BY <1>1 DEF Inv, TypeOK, BodyReading
<1>3. body' = DeclaredLength
  BY <1>1, <1>2 DEF CutBody
<1>4. DeclaredLength' = DeclaredLength
  BY <1>1 DEF DeclaredLength
<1>5. answer = "none" /\ forwarded = Nothing
  BY <1>1 DEF Inv, Silent
<1>6. TypeOK' /\ Silent'
  BY <1>1, <1>2, <1>3, <1>5 DEF Inv, TypeOK, Silent
<1>7. HeadReading' /\ HeadRead' /\ BodyReading' /\ BodyRead'
  BY <1>1, <1>2, <1>3, <1>4 DEF HeadReading, HeadRead, BodyReading, BodyRead, Decided
<1>8. BuffersBounded' /\ HeadCapSound'
  BY <1>1, <1>2, <1>3, <1>5, SizesAssumption DEF Inv, BuffersBounded, HeadCapSound
<1>9. ForwardedBodyExact' /\ HonestSenderFairlyJudged'
  BY <1>1, <1>2, <1>5, FairWithin DEF Inv, ForwardedBodyExact, Nothing
<1> QED
  BY <1>1, <1>6, <1>7, <1>8, <1>9 DEF Inv

\* A decision moves on to the next section or answers; the sizes stay.
LEMMA DecisionInv ==
  ASSUME Inv, pc \in Decided, auth'.ok \in BOOLEAN,
         clock' = NotRead \/ clock' \in [verify : Times, check : Times],
         UNCHANGED <<req, received, head, body, forwarded>>,
         \/ pc' \in Decided /\ answer' = answer
         \/ pc' = "closed" /\ answer' \in Codes \ {"413_headers_too_large", "413_body_too_large"}
  PROVE  Inv'
<1>1. answer = "none" /\ forwarded = Nothing
  BY DEF Inv, Silent, Decided
<1>2. DeclaredLength' = DeclaredLength
  BY DEF DeclaredLength
<1>3. TypeOK'
  BY <1>1 DEF Inv, TypeOK, Decided, Codes
<1>4. Silent' /\ HeadReading' /\ HeadRead' /\ BodyReading' /\ BodyRead'
  BY <1>1, <1>2 DEF Inv, Silent, HeadReading, HeadRead, BodyReading, BodyRead, Decided
<1>5. BuffersBounded' /\ HeadCapSound' /\ ForwardedBodyExact'
  BY <1>1, <1>2 DEF Inv, BodyRead, BuffersBounded, HeadCapSound, ForwardedBodyExact, Decided
<1>6. HonestSenderFairlyJudged'
  BY <1>1, FairWithin DEF Inv, BodyRead, Codes
<1> QED
  BY <1>3, <1>4, <1>5, <1>6 DEF Inv

LEMMA DecideInv ==
  Inv /\ (LimitAllows \/ LimitDenies \/ RouteAnswers \/ RouteToApi \/ Authenticate
          \/ CheckScope \/ NotConfigured) => Inv'
<1> SUFFICES ASSUME Inv,
                    LimitAllows \/ LimitDenies \/ RouteAnswers \/ RouteToApi
                      \/ Authenticate \/ CheckScope \/ NotConfigured
             PROVE  Inv'
  OBVIOUS
<1>1. auth.ok \in BOOLEAN /\ (clock = NotRead \/ clock \in [verify : Times, check : Times])
  BY DEF Inv, TypeOK
<1>2. CASE LimitAllows \/ LimitDenies
  BY <1>1, <1>2, DecisionInv DEF LimitAllows, LimitDenies, Answer, Decided, Codes
<1>3. CASE RouteAnswers \/ RouteToApi
  BY <1>1, <1>3, DecisionInv DEF RouteAnswers, RouteToApi, Answer, Decided, Codes
<1>4. CASE Authenticate
  <2>1. auth'.ok \in BOOLEAN
    <3>1. auth' = NoAuth \/ auth' = VerifyJwt(req.token, Issuer, clock'.verify, clock'.check)
      BY <1>4 DEF Authenticate
    <3>2. NoAuth.ok \in BOOLEAN
      BY DEF NoAuth, Failure
    <3> QED
      BY <3>1, <3>2, VerdictIsBoolean
  <2>2. clock' = NotRead \/ clock' \in [verify : Times, check : Times]
    BY <1>1, <1>4 DEF Authenticate
  <2> QED
    BY <1>4, <2>1, <2>2, DecisionInv DEF Authenticate, Answer, Decided, Codes
<1>5. CASE CheckScope \/ NotConfigured
  BY <1>1, <1>5, DecisionInv DEF CheckScope, NotConfigured, Answer, Decided, Codes
<1> QED
  BY <1>2, <1>3, <1>4, <1>5

\* What goes upstream is the body as the read loop left it.
LEMMA ForwardInv == Inv /\ Forward => Inv'
<1> SUFFICES ASSUME Inv, Forward PROVE Inv'
  OBVIOUS
<1>1. /\ pc = "forward" /\ pc' = "upstream"
      /\ UNCHANGED <<req, received, head, body, auth, clock, answer>>
  BY DEF Forward
<1>2. forwarded'.body = body
  BY DEF Forward
<1>3. /\ body = DeclaredLength /\ req.headLen + body <= received
      /\ DeclaredLength <= MaxBody /\ body \in Nat
  BY <1>1 DEF Inv, TypeOK, BodyRead, Decided
<1>4. DeclaredLength' = DeclaredLength
  BY <1>1 DEF DeclaredLength
<1>5. TypeOK'
  BY <1>1, <1>2, <1>3 DEF Inv, TypeOK, Codes
<1>6. Silent' /\ HeadReading' /\ HeadRead' /\ BodyReading' /\ BodyRead'
  BY <1>1 DEF Inv, Silent, HeadReading, HeadRead, BodyReading, BodyRead, Decided
<1>7. BuffersBounded' /\ HeadCapSound' /\ ForwardedBodyExact' /\ HonestSenderFairlyJudged'
  BY <1>1, <1>2, <1>3, <1>4
     DEF Inv, BuffersBounded, HeadCapSound, ForwardedBodyExact, HonestSenderFairlyJudged
<1> QED
  BY <1>1, <1>5, <1>6, <1>7 DEF Inv

\* What the upstream makes of it changes the answer alone.
LEMMA UpstreamAnswersInv == Inv /\ UpstreamAnswers => Inv'
<1> SUFFICES ASSUME Inv, UpstreamAnswers PROVE Inv'
  OBVIOUS
<1>1. /\ pc = "upstream" /\ pc' = "closed"
      /\ answer' \in {"relayed", "502_bad_gateway", "504_upstream_timeout"}
      /\ UNCHANGED <<req, received, head, body, auth, clock, forwarded>>
  BY DEF UpstreamAnswers, Answer
<1>2. DeclaredLength' = DeclaredLength
  BY <1>1 DEF DeclaredLength
<1>3. TypeOK'
  BY <1>1 DEF Inv, TypeOK, Codes
<1>4. Silent' /\ HeadReading' /\ HeadRead' /\ BodyReading' /\ BodyRead'
  BY <1>1 DEF Silent, HeadReading, HeadRead, BodyReading, BodyRead, Decided
<1>5. BuffersBounded' /\ HeadCapSound' /\ ForwardedBodyExact'
  BY <1>1, <1>2 DEF Inv, BuffersBounded, HeadCapSound, ForwardedBodyExact
<1>6. HonestSenderFairlyJudged'
  <2>1. req.length \in Int
    BY LengthIsDeclared DEF Inv
  <2>2. req.sent <= req.headLen + DeclaredLength => req.length <= MaxBody
    BY <1>1 DEF Inv, HonestSenderFairlyJudged
  <2> QED  BY <1>1, <1>2, <2>1, <2>2, SizesAssumption DEF HonestSenderFairlyJudged
<1> QED
  BY <1>1, <1>3, <1>4, <1>5, <1>6 DEF Inv
-----------------------------------------------------------------------------
LEMMA StutterInv == Inv /\ UNCHANGED vars => Inv'
  BY DEF vars, Inv, TypeOK, Silent, HeadReading, HeadRead, BodyReading, BodyRead, Decided,
         BuffersBounded, HeadCapSound, ForwardedBodyExact, HonestSenderFairlyJudged,
         DeclaredLength

LEMMA NextInv == Inv /\ [Next]_vars => Inv'
<1>1. Inv /\ ReadStep => Inv'
  BY ReadHeadInv, ReadBodyInv, DropInv DEF ReadStep, HeadCutOff, BodyCutOff
<1>2. Inv /\ DecideStep => Inv'
  BY HeadTooLargeInv, JudgeHeadInv, AcceptHeadInv, EndOfBodyInv, DecideInv, ForwardInv,
     UpstreamAnswersInv DEF DecideStep
<1> QED
  BY <1>1, <1>2, StutterInv DEF Next

LEMMA InvHolds == Spec => []Inv
  BY InitInv, NextInv, PTL DEF Spec

\* Every variable keeps its type, for all sizes and requests.
THEOREM TypeCorrect == Spec => []TypeOK
<1>1. Inv => TypeOK
  BY DEF Inv
<1> QED
  BY <1>1, InvHolds, PTL

\* However a client cuts and prolongs what it sends, the worker holds no more
\* than a cap and one read (HandleClient.cpp:72 and :139).
THEOREM BuffersStayBounded == Spec => []BuffersBounded
<1>1. Inv => BuffersBounded
  BY DEF Inv
<1> QED
  BY <1>1, InvHolds, PTL

\* No head within kMaxHeaderBytes is refused as too large, and what gets
\* through exceeds it by less than one read (HandleClient.cpp:72-91).
THEOREM HeadCapIsSound == Spec => []HeadCapSound
<1>1. Inv => HeadCapSound
  BY DEF Inv
<1> QED
  BY <1>1, InvHolds, PTL

\* The upstream gets the declared body, all of it received and nothing of what
\* was sent behind it (HandleClient.cpp:130-147).
THEOREM BodyIsExact == Spec => []ForwardedBodyExact
<1>1. Inv => ForwardedBodyExact
  BY DEF Inv
<1> QED
  BY <1>1, InvHolds, PTL

\* However its bytes are cut, a client that sends no more than it declares is told
\* body_too_large for a length above MAX_BODY_BYTES and up to 64 MiB in a head that
\* is read and has no other fault, for no other, and bad_request beyond
\* (HandleClient.cpp:43, :117, :123 and :139).
THEOREM HonestSenderJudged == Spec => []HonestSenderFairlyJudged
<1>1. Inv => HonestSenderFairlyJudged
  BY DEF Inv
<1> QED
  BY <1>1, InvHolds, PTL

\* handleClient implements the service: whatever a client sends, it gets one
\* answer at most, from a stage that may give it, and an upstream is called once
\* at most, behind the limiter (the early returns of HandleClient.cpp:61-250).
THEOREM ImplementsService == Spec => ServiceSpec
<1>1. Init => Promise!Init
  BY DEF Init, Promise!Init
<1>2. Inv /\ [Next]_vars => [Promise!Next]_(Promise!vars)
  <2> SUFFICES ASSUME Inv, [Next]_vars  PROVE [Promise!Next]_(Promise!vars)
    OBVIOUS
  <2> USE DEF Promise!Next, Promise!vars
  <2>1. /\ pc # "closed" => answer = "none"
        /\ pc \in {"head", "parse", "body", "limit", "route", "auth", "scope", "forward",
                  "upstream", "closed"}
    BY DEF Inv, Silent, TypeOK
  <2>2. CASE ReadStep
    BY <2>1, <2>2 DEF ReadStep, ReadHead, ReadBody, HeadCutOff, BodyCutOff, Drop, Answer,
                      Promise!Abandon, Promise!Refuse
  <2>3. CASE HeadTooLarge \/ BadRequest \/ DeclaredTooLarge \/ AcceptHead \/ EndOfBody
    BY <2>1, <2>3 DEF HeadTooLarge, BadRequest, DeclaredTooLarge, AcceptHead, EndOfBody, Answer,
                      Promise!Refuse
  <2>4. CASE LimitAllows \/ LimitDenies
    BY <2>1, <2>4 DEF LimitAllows, LimitDenies, Answer, Promise!Pass, Promise!Refuse
  <2>5. CASE RouteAnswers \/ RouteToApi \/ CheckScope \/ NotConfigured
    BY <2>1, <2>5 DEF RouteAnswers, RouteToApi, CheckScope, NotConfigured, Answer,
                      Promise!Decide
  <2>6. CASE Authenticate
    <3>1. /\ pc = "auth"
          /\ \/ pc' = "scope" /\ answer' = answer
             \/ pc' = "closed" /\ answer' = "401_unauthorized"
      BY <2>6 DEF Authenticate, Answer
    <3> QED  BY <2>1, <3>1 DEF Promise!Decide
  <2>7. CASE Forward \/ UpstreamAnswers
    BY <2>1, <2>7 DEF Forward, UpstreamAnswers, Answer, Promise!Ask, Promise!Report
  <2>8. CASE UNCHANGED vars
    BY <2>8 DEF vars
  <2> QED  BY <2>2, <2>3, <2>4, <2>5, <2>6, <2>7, <2>8 DEF Next, DecideStep
<1> QED
  BY <1>1, <1>2, InvHolds, PTL DEF Spec, ServiceSpec, Promise!Spec
=============================================================================
