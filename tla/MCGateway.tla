----------------------------- MODULE MCGateway -----------------------------
(* A gateway with two places and a limit of one request per window, or none. *)
EXTENDS Gateway

Setting(n) == [reads |-> TRUE, n |-> n]

Unset == [reads |-> FALSE, n |-> 0]

Limited ==
  [hasSecret |-> TRUE, urlsAreHttp |-> TRUE, port |-> Unset, upstreamTimeoutMs |-> Unset,
   recvTimeoutMs |-> Unset, maxBodyBytes |-> Unset, maxClients |-> Setting(2),
   rateLimitPerMin |-> Setting(1)]

MCEnvironments == {Limited, [Limited EXCEPT !.rateLimitPerMin = Setting(0)]}
=============================================================================
