------------------------------ MODULE MCServer ------------------------------
(* Environments that fail, that fall back, and two pools of two places.    *)
EXTENDS Server

Complete ==
  [hasSecret |-> TRUE, urlsAreHttp |-> TRUE, port |-> NoNumber, upstreamTimeoutMs |-> NoNumber,
   recvTimeoutMs |-> NoNumber, maxBodyBytes |-> NoNumber, maxClients |-> Reads(2),
   rateLimitPerMin |-> Reads(1)]

MCEnvironments ==
  {Complete,
   [Complete EXCEPT !.hasSecret = FALSE],
   [Complete EXCEPT !.urlsAreHttp = FALSE],
   [Complete EXCEPT !.maxClients = Reads(0), !.port = Reads(65536), !.upstreamTimeoutMs = Reads(0)],
   [Complete EXCEPT !.maxClients = Reads(4096), !.recvTimeoutMs = Reads(-1),
                    !.maxBodyBytes = Reads(2147483647)],
   [Complete EXCEPT !.port = Reads(1), !.upstreamTimeoutMs = Reads(100),
                    !.maxBodyBytes = Reads(16777216), !.rateLimitPerMin = Reads(-5)]}

Plain == {Complete}
=============================================================================
