------------------------ MODULE AuthorisationProofs ------------------------
(***************************************************************************)
(* For any requests, tokens, upstreams and readings of the clock: what     *)
(* reaches an upstream is entitled to it, and what is entitled to it is    *)
(* not told 403.  The decisions are made in five sections of handleClient; *)
(* the invariant carries what each of them found to the next.              *)
(***************************************************************************)
EXTENDS ConnectionProofs, SequenceTheorems

\* The part of Entitled that hasScope decides.
HoldsScope(area, method) ==
  \/ "admin" \in req.token.roles.items
  \/ <<area, IF method = "GET" THEN "read" ELSE "write">> \in req.token.permissions.items
  \/ \E p \in req.token.permissions.items : p[1] = Singular(area) /\ Len(p) > 1

\* The part that verifyJwt decides, at two readings of the clock.
IsValidAt(verifyAt, checkAt) ==
  /\ req.token.decodes /\ req.token.signed
  /\ req.token.exp # 0 => verifyAt <= req.token.exp /\ checkAt <= req.token.exp
  /\ Issuer # NoIssuer => req.token.issuer = Issuer

HoldsToken == IsValidAt(clock.verify, clock.check)

\* Behind the parser the head is well-formed, behind the router the path is one
\* of an area, behind verifyJwt the token was good at both readings of the clock,
\* and its lists have been read.
StagesOK ==
  /\ pc \in {"body", "upstream"} \cup Decided => req.parses /\ ~req.chunked
  /\ pc \in {"auth", "scope", "forward"} => Route.kind = "api"
  /\ pc \in {"scope", "forward"} =>
       /\ HoldsToken
       /\ auth.roles = req.token.roles.items
       /\ auth.permissions = req.token.permissions.items
  /\ pc = "forward" => Granted

\* The inductive invariant, on top of the one for the sizes.
AuthInv ==
  /\ Inv
  /\ StagesOK
  /\ ForwardedVetted
  /\ EntitledNotForbidden
-----------------------------------------------------------------------------
(* What the operators of Token and Router say.                             *)

\* extractStringList loses nothing of a claim.
LEMMA AllStringsRead ==
  ASSUME req \in Requests, NEW claim \in {req.token.roles, req.token.permissions}
  PROVE  ExtractStringList(claim) = claim.items
BY TextsAssumption DEF ExtractStringList

\* What verifyJwt accepts.
LEMMA AcceptedToken ==
  ASSUME req \in Requests, NEW verifyAt \in Times, NEW checkAt \in Times,
         NEW verdict, verdict = VerifyJwt(req.token, Issuer, verifyAt, checkAt),
         verdict.ok
  PROVE  /\ IsValidAt(verifyAt, checkAt)
         /\ verdict.roles = req.token.roles.items
         /\ verdict.permissions = req.token.permissions.items
<1>1. /\ req.token.decodes /\ JwtVerifies(req.token, verifyAt)
      /\ Issuer # NoIssuer => req.token.issuer = Issuer
      /\ ~Expired(req.token, checkAt)
      /\ verdict.roles = ExtractStringList(req.token.roles)
      /\ verdict.permissions = ExtractStringList(req.token.permissions)
  BY DEF VerifyJwt, Failure
<1>2. req.token.exp # 0 => verifyAt <= req.token.exp /\ checkAt <= req.token.exp
  <2> SUFFICES ASSUME req.token.exp # 0
               PROVE  verifyAt <= req.token.exp /\ checkAt <= req.token.exp
    OBVIOUS
  <2>1. verifyAt <= req.token.exp
    BY <1>1 DEF JwtVerifies
  <2>2. checkAt <= req.token.exp
    <3>1. ~(req.token.exp < checkAt)
      BY <1>1 DEF Expired
    <3>2. req.token.exp \in Int /\ checkAt \in Int
      BY RequestsAssumption, SizesAssumption
    <3> QED  BY <3>1, <3>2
  <2> QED  BY <2>1, <2>2
<1>3. IsValidAt(verifyAt, checkAt)
  BY <1>1, <1>2 DEF IsValidAt, JwtVerifies
<1> QED  BY <1>1, <1>3, AllStringsRead

\* What matchRoute says of a route to an upstream.
LEMMA ApiRoute ==
  ASSUME Route.kind = "api"
  PROVE  /\ IsApi(req.path) /\ IsAllowedMethod(req.method)
         /\ Route.area = req.path[2]
         /\ Route.base = UpstreamFor(Upstreams, req.path[2])
         /\ Route.forward = Remainder(req.path)
         /\ Route.scope = RequiredScope(req.method, req.path[2])
BY DEF Route, MatchRoute, PlainRoute

\* For the methods that pass the router, hasScope on the lists of the token is
\* what the contract asks.
LEMMA ScopeIsEntitlement ==
  ASSUME req \in Requests, Route.kind = "api",
         auth.roles = req.token.roles.items, auth.permissions = req.token.permissions.items
  PROVE  Granted <=> HoldsScope(req.path[2], req.method)
<1>1. Route.scope = <<req.path[2], IF req.method = "GET" THEN "read" ELSE "write">>
  BY ApiRoute DEF RequiredScope, IsReadMethod, IsAllowedMethod
<1>2. Route.area = req.path[2]
  BY ApiRoute
<1>3. \A p \in req.token.permissions.items : Len(p) \in Nat
  BY TextsAssumption, LenProperties
<1>4. \A p \in req.token.permissions.items :
        IsGranular(p, req.path[2]) <=> p[1] = Singular(req.path[2]) /\ Len(p) > 1
  BY <1>3 DEF IsGranular
<1> QED  BY <1>1, <1>2, <1>4 DEF Granted, HasScope, HoldsScope

\* Cutting "/api/<area>" off and putting it back.
LEMMA PathKept ==
  ASSUME NEW path \in Seq(STRING), IsApi(path)
  PROVE  Remainder(path) = <<Empty>> \/ <<"api", path[2]>> \o Remainder(path) = path
<1>1. Len(path) \in Nat /\ Len(path) >= 2 /\ path[1] = "api"
  BY LenProperties DEF IsApi
<1>2. CASE Len(path) > 2
  <2> DEFINE rest == SubSeq(path, 3, Len(path))
             start == <<"api", path[2]>>
  <2>1. rest \in Seq(STRING) /\ Len(rest) = Len(path) - 2
    BY <1>1, <1>2
  <2>2. \A i \in 1 .. Len(path) - 2 : rest[i] = path[i + 2]
    BY <1>1, <1>2
  <2>3. start \in Seq(STRING) /\ Len(start) = 2 /\ start[1] = "api" /\ start[2] = path[2]
    BY <1>1
  <2> HIDE DEF rest, start
  <2>4. /\ start \o rest \in Seq(STRING) /\ Len(start \o rest) = Len(path)
        /\ \A i \in 1 .. Len(path) :
             (start \o rest)[i] = IF i <= 2 THEN start[i] ELSE rest[i - 2]
    <3>1. Len(start) + Len(rest) = Len(path)
      BY <1>1, <2>1, <2>3
    <3>2. /\ start \o rest \in Seq(STRING) /\ Len(start \o rest) = Len(start) + Len(rest)
          /\ \A i \in 1 .. Len(start) + Len(rest) :
               (start \o rest)[i] = IF i <= Len(start) THEN start[i] ELSE rest[i - Len(start)]
      BY <2>1, <2>3, ConcatProperties
    <3> QED  BY <2>3, <3>1, <3>2
  <2>5. ASSUME NEW i \in 1 .. Len(path)  PROVE (start \o rest)[i] = path[i]
    <3>1. CASE i <= 2
      <4>1. i = 1 \/ i = 2
        BY <3>1
      <4> QED  BY <1>1, <2>3, <2>4, <4>1
    <3>2. CASE ~(i <= 2)
      <4>1. i - 2 \in 1 .. Len(path) - 2 /\ (i - 2) + 2 = i
        BY <1>1, <3>2
      <4>2. rest[i - 2] = path[(i - 2) + 2]
        BY <2>2, <4>1
      <4> QED  BY <2>4, <3>2, <4>1, <4>2
    <3> QED  BY <3>1, <3>2, Zenon
  <2>6. start \o rest = path
    BY <2>4, <2>5, SeqEqual
  <2> QED  BY <1>2, <2>6 DEF Remainder, rest, start
<1>3. CASE ~(Len(path) > 2)
  BY <1>3 DEF Remainder
<1> QED  BY <1>2, <1>3
-----------------------------------------------------------------------------
LEMMA AuthInit == Init => AuthInv
<1> SUFFICES ASSUME Init  PROVE AuthInv
  OBVIOUS
<1>1. pc = "head" /\ answer = "none" /\ forwarded = Nothing
  BY DEF Init
<1> QED  BY <1>1, InitInv DEF AuthInv, StagesOK, Decided, ForwardedVetted, EntitledNotForbidden

\* A step that neither forwards nor says 403 only has to keep the stages, and the
\* clock is read before anything was forwarded or said.
LEMMA AuthKept ==
  ASSUME AuthInv, Inv', StagesOK', req' = req, forwarded' = forwarded,
         answer' = answer \/ answer' # "403_forbidden",
         clock' = clock \/ (forwarded = Nothing /\ answer' # "403_forbidden")
  PROVE  AuthInv'
BY DEF AuthInv, ForwardedVetted, EntitledNotForbidden, Entitled

\* The steps up to the end of the body.
LEMMA ReadingAuth ==
  ASSUME AuthInv, Inv',
         \/ ReadStep \/ HeadTooLarge \/ BadRequest \/ DeclaredTooLarge
         \/ AcceptHead \/ EndOfBody \/ UNCHANGED vars
  PROVE  AuthInv'
<1>1. /\ req' = req /\ forwarded' = forwarded /\ clock' = clock
      /\ answer' = answer \/ answer' # "403_forbidden"
  BY DEF ReadStep, ReadHead, ReadBody, HeadCutOff, BodyCutOff, Drop, HeadTooLarge, BadRequest,
         DeclaredTooLarge, AcceptHead, EndOfBody, Answer, vars
<1>2. StagesOK'
  <2>1. CASE UNCHANGED vars
    BY <2>1 DEF vars, AuthInv, StagesOK, HoldsToken, IsValidAt, Route, Granted
  <2>2. CASE AcceptHead
    BY <2>2 DEF AcceptHead, StagesOK, Decided
  <2>3. CASE EndOfBody
    BY <2>3 DEF EndOfBody, AuthInv, StagesOK, Decided
  <2>4. ASSUME NEW n \in 1 .. Buf, ReadBody(n)  PROVE StagesOK'
    <3>1. pc = "body" /\ pc' \in {"body", "closed"} /\ req' = req
      BY <2>4 DEF ReadBody, Answer
    <3> QED  BY <3>1 DEF AuthInv, StagesOK, Decided
  <2>5. CASE \/ \E n \in 1 .. Buf : ReadHead(n)
             \/ HeadCutOff \/ BodyCutOff \/ HeadTooLarge \/ BadRequest \/ DeclaredTooLarge
    <3>1. pc' \in {"head", "parse", "closed"}
      BY <2>5 DEF ReadHead, HeadCutOff, BodyCutOff, Drop, HeadTooLarge, BadRequest,
                  DeclaredTooLarge, Answer
    <3> QED  BY <3>1 DEF StagesOK, Decided
  <2> QED  BY <2>1, <2>2, <2>3, <2>4, <2>5 DEF ReadStep
<1> QED  BY <1>1, <1>2, AuthKept

\* The limiter, the router and the token.
LEMMA DecidingAuth ==
  ASSUME AuthInv, Inv',
         \/ LimitAllows \/ LimitDenies \/ RouteAnswers \/ RouteToApi
         \/ Authenticate \/ NotConfigured \/ UpstreamAnswers
  PROVE  AuthInv'
<1>1. /\ req' = req /\ forwarded' = forwarded
      /\ answer' = answer \/ answer' # "403_forbidden"
      /\ Authenticate \/ clock' = clock
  BY DEF LimitAllows, LimitDenies, RouteAnswers, RouteToApi, Authenticate, NotConfigured,
         UpstreamAnswers, Answer
<1>2. Route' = Route
  BY <1>1 DEF Route
<1>3. StagesOK'
  <2>1. CASE LimitAllows \/ RouteToApi
    BY <1>1, <1>2, <2>1 DEF LimitAllows, RouteToApi, AuthInv, StagesOK, Decided
  <2>2. CASE LimitDenies \/ RouteAnswers \/ NotConfigured \/ UpstreamAnswers
    <3>1. pc' = "closed"
      BY <2>2 DEF LimitDenies, RouteAnswers, NotConfigured, UpstreamAnswers, Answer
    <3> QED  BY <3>1 DEF StagesOK, Decided
  <2>3. CASE Authenticate
    <3>1. \/ auth' = NoAuth
          \/ /\ clock'.verify \in Times /\ clock'.check \in Times
             /\ auth' = VerifyJwt(req.token, Issuer, clock'.verify, clock'.check)
      BY <2>3 DEF Authenticate
    <3>2. CASE auth'.ok
      <4>1. ~NoAuth.ok
        BY DEF NoAuth, Failure
      <4>2. /\ clock'.verify \in Times /\ clock'.check \in Times
            /\ auth' = VerifyJwt(req.token, Issuer, clock'.verify, clock'.check)
        BY <3>1, <3>2, <4>1
      <4>3. req \in Requests
        BY DEF AuthInv, Inv
      <4>4. /\ IsValidAt(clock'.verify, clock'.check)
            /\ auth'.roles = req.token.roles.items
            /\ auth'.permissions = req.token.permissions.items
        BY <3>2, <4>2, <4>3, AcceptedToken
      <4>5. pc' = "scope" /\ pc = "auth"
        BY <2>3, <3>2 DEF Authenticate
      <4>6. HoldsToken'
        BY <1>1, <4>4 DEF HoldsToken, IsValidAt
      <4> QED  BY <1>1, <1>2, <4>4, <4>5, <4>6 DEF AuthInv, StagesOK, Decided
    <3>3. CASE ~auth'.ok
      <4>1. pc' = "closed"
        BY <2>3, <3>3 DEF Authenticate, Answer
      <4> QED  BY <4>1 DEF StagesOK, Decided
    <3> QED  BY <3>2, <3>3
  <2> QED  BY <2>1, <2>2, <2>3
<1>4. Authenticate => forwarded = Nothing /\ answer' # "403_forbidden"
  <2> SUFFICES ASSUME Authenticate  PROVE forwarded = Nothing /\ answer' # "403_forbidden"
    OBVIOUS
  <2>1. pc = "auth" /\ answer' \in {answer, "401_unauthorized"}
    BY DEF Authenticate, Answer
  <2> QED  BY <2>1 DEF AuthInv, Inv, Silent
<1> QED  BY <1>1, <1>3, <1>4, AuthKept

\* A 403 is for a request that does not hold the scope.
LEMMA ScopeAuth ==
  ASSUME AuthInv, Inv', CheckScope
  PROVE  AuthInv'
<1>1. /\ pc = "scope" /\ UNCHANGED <<req, received, head, body, auth, clock, forwarded>>
      /\ \/ Granted /\ pc' = "forward" /\ answer' = answer
         \/ ~Granted /\ pc' = "closed" /\ answer' = "403_forbidden"
  BY DEF CheckScope, Answer
<1>2. /\ req \in Requests /\ req.parses /\ ~req.chunked /\ Route.kind = "api" /\ HoldsToken
      /\ auth.roles = req.token.roles.items
      /\ auth.permissions = req.token.permissions.items
  BY <1>1 DEF AuthInv, Inv, StagesOK, Decided
<1>3. /\ Route' = Route /\ Granted' = Granted /\ HoldsToken' = HoldsToken
  BY <1>1 DEF Route, Granted, HoldsToken, IsValidAt
<1>4. StagesOK'
  BY <1>1, <1>2, <1>3 DEF StagesOK, Decided
<1>5. CASE Granted
  BY <1>1, <1>4, <1>5, AuthKept
<1>6. CASE ~Granted
  <2>1. ~HoldsScope(req.path[2], req.method)
    BY <1>2, <1>6, ScopeIsEntitlement
  <2>2. ~Entitled(req.path[2], req.method)
    BY <2>1 DEF Entitled, HoldsScope
  <2>3. EntitledNotForbidden'
    BY <1>1, <2>2 DEF EntitledNotForbidden, Entitled
  <2>4. ForwardedVetted'
    BY <1>1 DEF AuthInv, ForwardedVetted, Entitled
  <2> QED  BY <1>4, <2>3, <2>4 DEF AuthInv
<1> QED  BY <1>5, <1>6

\* What is forwarded has passed all of them.
LEMMA ForwardAuth ==
  ASSUME AuthInv, Inv', Forward
  PROVE  AuthInv'
<1>1. /\ pc = "forward" /\ pc' = "upstream" /\ Route.base # Empty
      /\ forwarded' = [base |-> Route.base, path |-> Route.forward, body |-> body]
      /\ UNCHANGED <<req, received, head, body, auth, clock, answer>>
  BY DEF Forward
<1>2. /\ req \in Requests /\ req.parses /\ ~req.chunked /\ Route.kind = "api" /\ HoldsToken
      /\ Granted
      /\ auth.roles = req.token.roles.items
      /\ auth.permissions = req.token.permissions.items
  BY <1>1 DEF AuthInv, Inv, StagesOK, Decided
<1>3. Entitled(req.path[2], req.method)
  <2>1. HoldsScope(req.path[2], req.method)
    BY <1>2, ScopeIsEntitlement
  <2> QED  BY <1>2, <2>1 DEF Entitled, HoldsScope, HoldsToken, IsValidAt
<1>4. /\ Route.base = UpstreamFor(Upstreams, req.path[2])
      /\ Route.forward = Remainder(req.path) /\ IsApi(req.path)
  BY <1>2, ApiRoute
<1>5. Route.base # Upstreams[req.path[2]] =>
        /\ req.path[2] \in {"quests", "attempts", "answers"}
        /\ Upstreams[req.path[2]] = Empty /\ Route.base = Upstreams["tests"]
  BY <1>4 DEF UpstreamFor, Inheriting
<1>6. Route.forward = <<Empty>> \/ <<"api", req.path[2]>> \o Route.forward = req.path
  BY <1>2, <1>4, PathKept, TextsAssumption
<1>7. ForwardedVetted'
  <2>1. Entitled(req.path[2], req.method)'
    BY <1>1, <1>3 DEF Entitled
  <2>2. forwarded'.base = Route.base /\ forwarded'.path = Route.forward
    BY <1>1
  <2> QED  BY <1>1, <1>2, <1>5, <1>6, <2>1, <2>2 DEF ForwardedVetted
<1>8. EntitledNotForbidden'
  BY <1>1 DEF AuthInv, EntitledNotForbidden, Entitled
<1>9. StagesOK'
  BY <1>1, <1>2 DEF StagesOK, Decided
<1> QED  BY <1>7, <1>8, <1>9 DEF AuthInv

\* Every step keeps the invariant.
LEMMA AuthStep == AuthInv /\ [Next]_vars => AuthInv'
<1> SUFFICES ASSUME AuthInv, [Next]_vars  PROVE AuthInv'
  OBVIOUS
<1>1. Inv'
  BY NextInv DEF AuthInv
<1> QED  BY <1>1, ReadingAuth, DecidingAuth, ScopeAuth, ForwardAuth DEF Next, DecideStep

LEMMA AuthHolds == Spec => []AuthInv
  BY AuthInit, AuthStep, PTL DEF Spec

\* Only a request with a valid token that grants the scope reaches an upstream,
\* the one of its area, and without "/api/<area>" in front of its path
\* (HandleClient.cpp:161-230, Router.cpp:11-67, CheckToken.cpp:34-90).
THEOREM OnlyVettedForwarded == Spec => []ForwardedVetted
<1>1. AuthInv => ForwardedVetted
  BY DEF AuthInv
<1> QED  BY <1>1, AuthHolds, PTL

\* A 403 is never given to a request whose token grants the scope, in whatever
\* form its claims are (HandleClient.cpp:211-218).
THEOREM NoEntitledRequestForbidden == Spec => []EntitledNotForbidden
<1>1. AuthInv => EntitledNotForbidden
  BY DEF AuthInv
<1> QED  BY <1>1, AuthHolds, PTL
=============================================================================
