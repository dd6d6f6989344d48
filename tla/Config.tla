------------------------------- MODULE Config -------------------------------
(***************************************************************************)
(* loadConfig (Config.h:67-103): what the gateway makes of its             *)
(* environment.  A setting is what std::stoi reads from its text.  Of the  *)
(* strings it matters whether there is a JWT_SECRET, and whether each URL  *)
(* that is set starts with http://.                                        *)
(***************************************************************************)
EXTENDS Integers

\* The text starts with a number that an int holds; what follows is ignored.
Reads(n) == [reads |-> TRUE, n |-> n]

\* Unset, empty, no number, or too large for an int.
NoNumber == [reads |-> FALSE, n |-> 0]

\* Lines 21-31.
EnvInt(setting, def, minV, maxV) ==
  IF setting.reads /\ setting.n >= minV /\ setting.n <= maxV THEN setting.n ELSE def

LoadConfig(env) ==
  [ok                |-> env.hasSecret /\ env.urlsAreHttp,
   port              |-> EnvInt(env.port, 1111, 1, 65535),
   upstreamTimeoutMs |-> EnvInt(env.upstreamTimeoutMs, 5000, 100, 120000),
   recvTimeoutMs     |-> EnvInt(env.recvTimeoutMs, 30000, 1000, 300000),
   maxBodyBytes      |-> EnvInt(env.maxBodyBytes, 1048576, 1024, 16777216),
   maxClients        |-> EnvInt(env.maxClients, 128, 1, 4096),
   rateLimitPerMin   |-> EnvInt(env.rateLimitPerMin, 100, 0, 100000)]

\* The settings of an environment.
Settings ==
  {"port", "upstreamTimeoutMs", "recvTimeoutMs", "maxBodyBytes", "maxClients", "rateLimitPerMin"}

IsEnvironment(env) ==
  /\ env.hasSecret \in BOOLEAN /\ env.urlsAreHttp \in BOOLEAN
  /\ \A s \in Settings : env[s].reads \in BOOLEAN /\ env[s].n \in Int
-----------------------------------------------------------------------------
\* What the other components rely on.  A timeout of 0 would be none for
\* SO_RCVTIMEO, a pool of 0 would refuse everybody, a body limit above the
\* 64 MiB of parseContentLength would not be reached, a port must be one.
Usable(cfg) ==
  /\ cfg.ok
  /\ 1 <= cfg.port /\ cfg.port <= 65535
  /\ cfg.upstreamTimeoutMs > 0 /\ cfg.recvTimeoutMs > 0
  /\ 0 < cfg.maxBodyBytes /\ cfg.maxBodyBytes <= 64 * 1024 * 1024
  /\ cfg.maxClients > 0
  /\ cfg.rateLimitPerMin >= 0
=============================================================================
