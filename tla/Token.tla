-------------------------------- MODULE Token --------------------------------
(***************************************************************************)
(* verifyJwt (CheckToken.cpp:12-90) on tokens as jwt-cpp decodes them.     *)
(*                                                                         *)
(* A token says whether jwt::decode and the claim getters accept it        *)
(* (decodes), whether its signature is an HS256 one under JWT_SECRET and   *)
(* its iat and nbf, where it has them, are past (signed), when it expires  *)
(* (0 for no exp claim), its issuer (NoIssuer for none or one that is no   *)
(* string), and its two list claims.  A list claim has a form: "absent",   *)
(* "array", "string" or "other"; its items are the strings in it.          *)
(***************************************************************************)
EXTENDS Naturals, FiniteSets

\* An issuer that is missing, or that JWT_ISSUER does not ask for.
NoIssuer == ""

NoClaim == [form |-> "absent", items |-> {}]

\* extractStringList: an array gives its strings, a string gives itself, and
\* anything else gives nothing.
MutExtractStringList(claim) == IF claim.form = "array" THEN claim.items ELSE {}
ExtractStringList(claim) ==
  IF claim.form \in {"array", "string"} THEN claim.items ELSE {}

\* verifier.verify of jwt-cpp: the algorithm, the signature and exp, at the
\* time it is called.
JwtVerifies(token, now) ==
  token.signed /\ (token.exp # 0 => now <= token.exp)

\* The second look at exp, lines 55-60, at a time of its own.
MutExpired(token, now) == FALSE
Expired(token, now) == token.exp # 0 /\ token.exp < now

Failure(why) == [ok |-> FALSE, error |-> why, roles |-> {}, permissions |-> {}]

\* The secret is never empty: loadConfig fails without one.
VerifyJwt(token, issuer, verifyAt, checkAt) ==
  IF ~token.decodes THEN Failure("decode_error")
  ELSE IF ~JwtVerifies(token, verifyAt) THEN Failure("verification_failed")
  ELSE IF Expired(token, checkAt) THEN Failure("token_expired")
  ELSE IF issuer # NoIssuer /\ token.issuer # issuer THEN Failure("issuer_mismatch")
  ELSE [ok |-> TRUE, error |-> "none",
        roles |-> ExtractStringList(token.roles),
        permissions |-> ExtractStringList(token.permissions)]
=============================================================================
