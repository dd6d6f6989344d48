------------------------------- MODULE Service -------------------------------
(***************************************************************************)
(* What the gateway promises of one connection: one request, one answer or *)
(* none, each answer only from the stage that may give it, and an upstream *)
(* module is asked at most once, after the rate limiter has let the        *)
(* request pass.                                                           *)
(***************************************************************************)

VARIABLES
  stage,  \* "reading", "admitted", "asked", "over"
  said    \* the answer, "none" before it or without one

vars == <<stage, said>>

Init == stage = "reading" /\ said = "none"

\* The client is gone; nobody is answered.
Abandon == stage = "reading" /\ stage' = "over" /\ UNCHANGED said

Refuse ==
  /\ stage = "reading"
  /\ said' \in {"400_bad_request", "413_headers_too_large", "413_body_too_large", "429_rate_limited"}
  /\ stage' = "over"

Pass == stage = "reading" /\ stage' = "admitted" /\ UNCHANGED said

Decide ==
  /\ stage = "admitted"
  /\ said' \in {"200_ok", "404_not_found", "405_method_not_allowed", "401_unauthorized",
                "403_forbidden", "502_bad_gateway"}
  /\ stage' = "over"

Ask == stage = "admitted" /\ stage' = "asked" /\ UNCHANGED said

Report ==
  /\ stage = "asked"
  /\ said' \in {"relayed", "502_bad_gateway", "504_upstream_timeout"}
  /\ stage' = "over"

Next == Abandon \/ Refuse \/ Pass \/ Decide \/ Ask \/ Report

Spec == Init /\ [][Next]_vars
=============================================================================
