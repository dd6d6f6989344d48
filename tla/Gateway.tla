------------------------------- MODULE Gateway -------------------------------
(***************************************************************************)
(* The process as a whole: main (module Server), the one rate limiter that *)
(* all workers share (module RateLimiter) and, of each worker, the stages  *)
(* of handleClient (HandleClient.cpp:60-250) at which it waits for         *)
(* somebody else: its client, the mutex of the limiter, an upstream.  What *)
(* a stage decides is module Connection's; the addresses that              *)
(* forwardRequest tries one after the other, module Proxy's, count as one. *)
(***************************************************************************)
EXTENDS Integers, FiniteSets, Sequences

CONSTANTS
  Conns, None, Environments, MaxAddresses, Backlog, MaxPolls,  \* of Server
  Ips, NoIp, Window, PurgeAbove, StartNow, MaxNow              \* of RateLimiter

VARIABLES
  env, left, up, running, main, cs, queue, open, worker, active, polls, late,
  perMin, buckets, mutex, clock, pc, ip, now, seen, answer, ledger,
  stage,    \* of each connection: what its worker is about to do
  upstream  \* the connections whose worker has a socket to an upstream

Main == INSTANCE Server

\* Config.h:100 gives the limiter a limit in this range.
RateLimits == 0 .. 100000

Limiter == INSTANCE RateLimiter WITH
  Threads <- Conns, NoThread <- None, Limits <- RateLimits

ASSUME PartsAssumption == Main!ConstantsAssumption /\ Limiter!ConstantsAssumption

mainVars == <<env, left, up, running, main, cs, queue, open, worker, active, polls, late>>

limiterVars == <<perMin, buckets, mutex, clock, pc, ip, now, seen, answer, ledger>>

vars == <<mainVars, limiterVars, stage, upstream>>

Stages ==
  {"none", "reading", "limiting", "deciding", "forwarding", "asking", "answering", "leaving"}

\* The process runs.
Alive == main \notin Main!Over

Init ==
  /\ Main!Init
  /\ perMin = Main!Cfg.rateLimitPerMin
  /\ Limiter!Init
  /\ stage = [c \in Conns |-> "none"]
  /\ upstream = {}

GoesTo(c, s) == stage' = [stage EXCEPT ![c] = s]
-----------------------------------------------------------------------------
(* main, and what comes from outside.                                      *)

\* A new worker begins with handleClient.
MainThread ==
  /\ Main!StartUp \/ Main!MainLoop \/ Main!Shutdown
  /\ stage' = [c \in Conns |->
                 IF worker[c] = "none" /\ worker'[c] = "handling" THEN "reading" ELSE stage[c]]
  /\ UNCHANGED <<limiterVars, upstream>>

Outside ==
  /\ \/ Main!Signal
     \/ \E c \in Conns : Main!Connect(c)
     \/ \E i \in 1 .. Backlog : Main!GiveUp(i)
  /\ UNCHANGED <<limiterVars, stage, upstream>>

Tick ==
  /\ Alive
  /\ Limiter!Tick
  /\ UNCHANGED <<mainVars, stage, upstream>>
-----------------------------------------------------------------------------
(* The worker of c.                                                        *)

At(c, s) == Alive /\ stage[c] = s

\* HandleClient.cpp:67-147: a request, an error to report, or a client that is
\* gone.
Read(c) ==
  /\ At(c, "reading")
  /\ \E s \in {"limiting", "answering", "leaving"} : GoesTo(c, s)
  /\ UNCHANGED <<mainVars, limiterVars, upstream>>

\* HandleClient.cpp:152.
EnterLimiter(c) ==
  /\ At(c, "limiting")
  /\ \E a \in Ips : Limiter!Call(c, a)
  /\ UNCHANGED <<mainVars, stage, upstream>>

PassLimiter(c) ==
  /\ At(c, "limiting")
  /\ \E a \in Ips : Limiter!CallDisabled(c, a)
  /\ GoesTo(c, "deciding")
  /\ UNCHANGED <<mainVars, upstream>>

Lock(c) ==
  /\ At(c, "limiting")
  /\ Limiter!Lock(c)
  /\ UNCHANGED <<mainVars, stage, upstream>>

LeaveLimiter(c) ==
  /\ At(c, "limiting")
  /\ Limiter!Finish(c)
  /\ GoesTo(c, IF answer' = "allowed" THEN "deciding" ELSE "answering")
  /\ UNCHANGED <<mainVars, upstream>>

\* HandleClient.cpp:161-227.
Decide(c) ==
  /\ At(c, "deciding")
  /\ \E s \in {"forwarding", "answering"} : GoesTo(c, s)
  /\ UNCHANGED <<mainVars, limiterVars, upstream>>

\* forwardRequest comes to a socket, or returns without one.
OpenUpstream(c) ==
  /\ At(c, "forwarding")
  /\ upstream' = upstream \cup {c}
  /\ GoesTo(c, "asking")
  /\ UNCHANGED <<mainVars, limiterVars>>

NoUpstream(c) ==
  /\ At(c, "forwarding")
  /\ GoesTo(c, "answering")
  /\ UNCHANGED <<mainVars, limiterVars, upstream>>

\* forwardRequest closes its socket and returns.
MutCloseUpstream(c) ==
  /\ At(c, "asking")
  /\ GoesTo(c, "answering")
  /\ UNCHANGED <<mainVars, limiterVars, upstream>>
CloseUpstream(c) ==
  /\ At(c, "asking")
  /\ upstream' = upstream \ {c}
  /\ GoesTo(c, "answering")
  /\ UNCHANGED <<mainVars, limiterVars>>

\* reply, close_socket, return: handleClient has returned.  send has no
\* timeout.
Answer(c) ==
  /\ At(c, "answering")
  /\ Main!Handle(c)
  /\ GoesTo(c, "none")
  /\ UNCHANGED <<limiterVars, upstream>>

Leave(c) ==
  /\ At(c, "leaving")
  /\ Main!Handle(c)
  /\ GoesTo(c, "none")
  /\ UNCHANGED <<limiterVars, upstream>>

CountOut(c) ==
  /\ Main!CountOut(c)
  /\ UNCHANGED <<limiterVars, stage, upstream>>

\* A send to a client or an upstream that is gone may end the process.
BrokenPipe(c) ==
  /\ stage[c] \in {"asking", "answering"}
  /\ Main!BrokenPipe(c)
  /\ UNCHANGED <<limiterVars, stage, upstream>>
-----------------------------------------------------------------------------
\* What a worker does without waiting for the mutex or for the client to read.
Proceed(c) ==
  \/ Read(c)
  \/ EnterLimiter(c) \/ PassLimiter(c) \/ LeaveLimiter(c)
  \/ Decide(c)
  \/ OpenUpstream(c) \/ NoUpstream(c) \/ CloseUpstream(c)
  \/ Leave(c) \/ CountOut(c)

Next ==
  \/ MainThread \/ Outside \/ Tick
  \/ \E c \in Conns : Proceed(c) \/ Lock(c) \/ Answer(c) \/ BrokenPipe(c)

\* Every thread keeps running: recv and the calls to an upstream time out.  Of
\* the threads that wait for the mutex some one gets it; which, nobody says.
\* Nothing is assumed of Answer: a client need not read.
Spec ==
  /\ Init /\ [][Next]_vars
  /\ WF_vars(MainThread)
  /\ \A c \in Conns : WF_vars(Proceed(c))
  /\ WF_vars(\E c \in Conns : Lock(c))
-----------------------------------------------------------------------------
\* The parts agree: a worker handles its client from the first read to the end
\* of the answer, is in the limiter only at that stage, and holds an upstream
\* socket only while it asks.
TypeOK ==
  /\ Main!TypeOK /\ Limiter!TypeOK
  /\ stage \in [Conns -> Stages]
  /\ \A c \in Conns : stage[c] # "none" <=> worker[c] = "handling"
  /\ \A c \in Conns : pc[c] # "idle" => stage[c] = "limiting"
  /\ upstream = {c \in Conns : stage[c] = "asking"}

\* MAX_CLIENTS bounds the descriptors of the process: a client and an upstream
\* for each place, the client about to be refused, and the listener.
DescriptorsBounded ==
  Cardinality(open) + Cardinality(upstream) + Cardinality(up \ {"net"})
    <= 2 * Main!MaxClients + 2

\* main.cpp:159-163: a drain that ends before its polls are used up ends with
\* the limiter, which dies with main's frame, unused and unlocked, and with no
\* exchange under way.
EarlyStopReleasesAll ==
  main \in {"returned", "exited"} /\ polls < MaxPolls =>
    /\ mutex = None /\ \A c \in Conns : pc[c] = "idle" /\ stage[c] = "none"
    /\ upstream = {}

\* No client keeps the gateway waiting for it for ever.
ClientsRead == \A c \in Conns : []<>(stage[c] # "answering")

\* A full gateway gets a free place again, unless a client does not read: no
\* worker waits for ever, neither for the shared mutex nor for an upstream.
PlacesComeBack ==
  ClientsRead => (active >= Main!MaxClients ~> active < Main!MaxClients \/ ~Alive)
=============================================================================
