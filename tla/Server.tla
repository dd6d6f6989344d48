------------------------------- MODULE Server -------------------------------
(***************************************************************************)
(* main() (main.cpp:49-167): the start-up in steps that may each fail, the *)
(* accept loop, the detached worker threads it starts, the counter they    *)
(* share, the signal that stops it and the shutdown that follows.          *)
(*                                                                         *)
(* A worker is what the lambda of main.cpp:153-156 does: handleClient,     *)
(* which closes the client's socket on every way out, then fetch_sub.  It  *)
(* uses cfg, limiter and activeClients of main's frame until fetch_sub has *)
(* returned.                                                               *)
(***************************************************************************)
EXTENDS Config, FiniteSets, Sequences

CONSTANTS
  Conns,        \* client connections; one that is over may come back
  None,         \* no connection
  Environments, \* the environments the process may be started with
  MaxAddresses, \* bound: what getaddrinfo returns for BIND
  Backlog,      \* SOMAXCONN of listen()
  MaxPolls      \* the 100 polls of main.cpp:161

ASSUME ConstantsAssumption ==
  /\ IsFiniteSet(Conns) /\ None \notin Conns
  /\ \A e \in Environments : IsEnvironment(e)
  /\ MaxAddresses \in Nat \ {0}
  /\ Backlog \in Nat
  /\ MaxPolls \in Nat

VARIABLES
  env,      \* the environment, which nobody changes
  left,     \* the bind addresses from ai on
  up,       \* what main has set up and must give back
  running,  \* g_running
  main,     \* the statement of main() that comes next
  cs,       \* the connection it has accepted and not handed over
  queue,    \* the connections the listener has queued, oldest first
  open,     \* the client sockets of the process that are open
  worker,   \* of each connection: "none", "handling", "handled" its worker
  active,   \* activeClients
  polls,    \* i of main.cpp:161
  late      \* history: the workers started after the signal

vars == <<env, left, up, running, main, cs, queue, open, worker, active, polls, late>>

\* cfg of line 58, and its maxClients.
Cfg == LoadConfig(env)
MaxClients == Cfg.maxClients

Queued == {queue[i] : i \in DOMAIN queue}

\* The workers that still use main's frame: they have not counted themselves
\* out.
Counted == {c \in Conns : worker[c] # "none"}

Handling == {c \in Conns : worker[c] = "handling"}

StartingUp == {"config", "net", "resolve", "bind", "listen"}

Loop == {"check", "select", "accept", "admit", "timeout", "count", "spawn"}

\* return 0, return 1, and the ends that main does not choose.
Over == {"exited", "failed", "terminated"}

Init ==
  /\ env \in Environments
  /\ left = 0
  /\ up = {}
  /\ running = TRUE
  /\ main = "config"
  /\ cs = None
  /\ queue = << >>
  /\ open = {}
  /\ worker = [c \in Conns |-> "none"]
  /\ active = 0
  /\ polls = 0
  /\ late = 0
-----------------------------------------------------------------------------
(* The start-up, main.cpp:50-109.                                          *)

\* return 1 of lines 55, 67, 82 and 108.
Fail ==
  /\ main' = "failed"
  /\ up' = up \ {"net"}
  /\ UNCHANGED <<env, left, running, cs, queue, open, worker, active, polls, late>>

ConfigError == main = "config" /\ ~Cfg.ok /\ Fail

\* Lines 58-62; from here on a signal only clears g_running.
Configured ==
  /\ main = "config"
  /\ Cfg.ok
  /\ main' = "net"
  /\ UNCHANGED <<env, left, up, running, cs, queue, open, worker, active, polls, late>>

NetFails == main = "net" /\ Fail

NetUp ==
  /\ main = "net"
  /\ up' = {"net"}
  /\ main' = "resolve"
  /\ UNCHANGED <<env, left, running, cs, queue, open, worker, active, polls, late>>

BindUnresolved == main = "resolve" /\ Fail

BindResolved ==
  /\ main = "resolve"
  /\ left' \in 1 .. MaxAddresses
  /\ main' = "bind"
  /\ UNCHANGED <<env, up, running, cs, queue, open, worker, active, polls, late>>

\* Lines 84-86.
OpenSocket ==
  /\ main = "bind"
  /\ left > 0
  /\ up' = up \cup {"socket"}
  /\ main' = "listen"
  /\ UNCHANGED <<env, left, running, cs, queue, open, worker, active, polls, late>>

NoSocket ==
  /\ main = "bind"
  /\ left > 0
  /\ left' = left - 1
  /\ UNCHANGED <<env, up, running, main, cs, queue, open, worker, active, polls, late>>

\* Lines 93-97; the break leaves no address.
Listen ==
  /\ main = "listen"
  /\ left' = 0
  /\ up' = (up \ {"socket"}) \cup {"listener"}
  /\ main' = "check"
  /\ UNCHANGED <<env, running, cs, queue, open, worker, active, polls, late>>

\* Lines 98-100.
MutListenFailsOpen ==
  /\ main = "listen"
  /\ left' = left - 1
  /\ main' = "bind"
  /\ UNCHANGED <<env, up, running, cs, queue, open, worker, active, polls, late>>
ListenFails ==
  /\ main = "listen"
  /\ up' = up \ {"socket"}
  /\ left' = left - 1
  /\ main' = "bind"
  /\ UNCHANGED <<env, running, cs, queue, open, worker, active, polls, late>>

\* Lines 104-109.
NoListener == main = "bind" /\ left = 0 /\ Fail
-----------------------------------------------------------------------------
(* Outside the process.                                                    *)

\* onSignal, lines 21-22: SIGINT or SIGTERM at any moment; before line 61 it
\* ends the process.
Signal ==
  /\ running
  /\ main \notin Over
  /\ running' = FALSE
  /\ main' = IF main = "config" THEN "terminated" ELSE main
  /\ UNCHANGED <<env, left, up, cs, queue, open, worker, active, polls, late>>

\* The listener is open until line 160.
Connect(c) ==
  /\ "listener" \in up
  /\ c \notin Queued \cup open \cup Counted \cup {cs}
  /\ Len(queue) < Backlog
  /\ queue' = Append(queue, c)
  /\ UNCHANGED <<env, left, up, running, main, cs, open, worker, active, polls, late>>

\* A client gives up before it is accepted.
GiveUp(i) ==
  /\ i \in DOMAIN queue
  /\ queue' = SubSeq(queue, 1, i - 1) \o SubSeq(queue, i + 1, Len(queue))
  /\ UNCHANGED <<env, left, up, running, main, cs, open, worker, active, polls, late>>
-----------------------------------------------------------------------------
(* The accept loop, main.cpp:129-157.                                      *)

\* Line 129.
Check ==
  /\ main = "check"
  /\ main' = IF running THEN "select" ELSE "close"
  /\ UNCHANGED <<env, left, up, running, cs, queue, open, worker, active, polls, late>>

\* waitReadable, line 130: a connection is queued.
SelectReady ==
  /\ main = "select"
  /\ queue # << >>
  /\ main' = "accept"
  /\ UNCHANGED <<env, left, up, running, cs, queue, open, worker, active, polls, late>>

\* Nothing came in 500 ms, or a signal cut the wait short.
MutSelectForever ==
  /\ main = "select"
  /\ queue = << >>
  /\ UNCHANGED vars
SelectQuiet ==
  /\ main = "select"
  /\ queue = << >> \/ ~running
  /\ main' = "check"
  /\ UNCHANGED <<env, left, up, running, cs, queue, open, worker, active, polls, late>>

\* Line 133.
Accept ==
  /\ main = "accept"
  /\ queue # << >>
  /\ cs' = Head(queue)
  /\ queue' = Tail(queue)
  /\ open' = open \cup {cs'}
  /\ main' = "admit"
  /\ UNCHANGED <<env, left, up, running, worker, active, polls, late>>

\* Lines 134-139: no descriptor is left, or the client gave up after select
\* saw it, which Winsock reports as an error.  (Linux keeps such a connection
\* queued, and Accept returns it.)
AcceptFails ==
  /\ main = "accept"
  /\ main' = "check"
  /\ UNCHANGED <<env, left, up, running, cs, queue, open, worker, active, polls, late>>

\* Line 140.
MutFull == active > MaxClients
Full == active >= MaxClients

\* close_socket(cs); continue.
MutHangUp ==
  /\ cs' = None
  /\ main' = "check"
  /\ UNCHANGED <<env, left, up, running, queue, open, worker, active, polls, late>>
HangUp ==
  /\ open' = open \ {cs}
  /\ cs' = None
  /\ main' = "check"
  /\ UNCHANGED <<env, left, up, running, queue, worker, active, polls, late>>

\* Lines 140-144.
MutWaitForPlace ==
  /\ main = "admit"
  /\ Full
  /\ UNCHANGED vars
Refuse ==
  /\ main = "admit"
  /\ Full
  /\ HangUp

Admit ==
  /\ main = "admit"
  /\ ~Full
  /\ main' = "timeout"
  /\ UNCHANGED <<env, left, up, running, cs, queue, open, worker, active, polls, late>>

\* Lines 145-149: set_recv_timeout fails.
TimeoutFails ==
  /\ main = "timeout"
  /\ HangUp

SetTimeout ==
  /\ main = "timeout"
  /\ main' = "count"
  /\ UNCHANGED <<env, left, up, running, cs, queue, open, worker, active, polls, late>>

\* Line 152.
MutNoCount ==
  /\ main = "count"
  /\ main' = "spawn"
  /\ UNCHANGED <<env, left, up, running, cs, queue, open, worker, active, polls, late>>
Count ==
  /\ main = "count"
  /\ active' = active + 1
  /\ main' = "spawn"
  /\ UNCHANGED <<env, left, up, running, cs, queue, open, worker, polls, late>>

\* Lines 153-156: the thread exists and is detached.
MutSpawnAndSelect ==
  /\ main = "spawn"
  /\ worker' = [worker EXCEPT ![cs] = "handling"]
  /\ late' = IF running THEN late ELSE late + 1
  /\ cs' = None
  /\ main' = "select"
  /\ UNCHANGED <<env, left, up, running, queue, open, active, polls>>
Spawn ==
  /\ main = "spawn"
  /\ worker' = [worker EXCEPT ![cs] = "handling"]
  /\ late' = IF running THEN late ELSE late + 1
  /\ cs' = None
  /\ main' = "check"
  /\ UNCHANGED <<env, left, up, running, queue, open, active, polls>>

\* std::thread throws std::system_error when the system has no thread left;
\* nothing catches it, and std::terminate ends the process.
SpawnThrows ==
  /\ main = "spawn"
  /\ main' = "terminated"
  /\ UNCHANGED <<env, left, up, running, cs, queue, open, worker, active, polls, late>>
-----------------------------------------------------------------------------
(* The shutdown, main.cpp:159-166.                                         *)

\* Line 160: what the listener still has queued is reset.
CloseListener ==
  /\ main = "close"
  /\ up' = up \ {"listener"}
  /\ queue' = << >>
  /\ main' = "drain"
  /\ UNCHANGED <<env, left, running, cs, open, worker, active, polls, late>>

\* Lines 161-163.
MutNobodyLeft == active <= 1
NobodyLeft == active = 0

Patient == polls < MaxPolls

Poll ==
  /\ main = "drain"
  /\ Patient /\ ~NobodyLeft
  /\ polls' = polls + 1
  /\ UNCHANGED <<env, left, up, running, main, cs, queue, open, worker, active, late>>

\* The loop is over: net_cleanup, line 164, and return, line 166.  The locals
\* of main are destroyed; detached threads are still there until the runtime
\* has ended the process.
LeaveMain ==
  /\ main = "drain"
  /\ ~Patient \/ NobodyLeft
  /\ up' = up \ {"net"}
  /\ main' = "returned"
  /\ UNCHANGED <<env, left, running, cs, queue, open, worker, active, polls, late>>

Exit ==
  /\ main = "returned"
  /\ main' = "exited"
  /\ UNCHANGED <<env, left, up, running, cs, queue, open, worker, active, polls, late>>
-----------------------------------------------------------------------------
(* The workers, main.cpp:154-155.                                          *)

\* handleClient closes the socket and returns.
Handle(c) ==
  /\ main \notin Over
  /\ worker[c] = "handling"
  /\ open' = open \ {c}
  /\ worker' = [worker EXCEPT ![c] = "handled"]
  /\ UNCHANGED <<env, left, up, running, main, cs, queue, active, polls, late>>

\* activeClients.fetch_sub(1), and the thread is gone.
CountOut(c) ==
  /\ main \notin Over
  /\ worker[c] = "handled"
  /\ active' = active - 1
  /\ worker' = [worker EXCEPT ![c] = "none"]
  /\ UNCHANGED <<env, left, up, running, main, cs, queue, open, polls, late>>

\* A send, to a client or an upstream that closed its end, raises SIGPIPE where
\* there is one: send is called without MSG_NOSIGNAL (HandleClient.cpp:22,
\* Proxy.cpp:138) and lines 61-62 leave its default action, the end of the
\* process.  (As the first process of a container it is spared.)
BrokenPipe(c) ==
  /\ main \notin Over
  /\ worker[c] = "handling"
  /\ main' = "terminated"
  /\ UNCHANGED <<env, left, up, running, cs, queue, open, worker, active, polls, late>>
-----------------------------------------------------------------------------
StartUp ==
  \/ ConfigError \/ Configured
  \/ NetFails \/ NetUp
  \/ BindUnresolved \/ BindResolved
  \/ OpenSocket \/ NoSocket
  \/ Listen \/ ListenFails \/ NoListener

MainLoop ==
  \/ Check
  \/ SelectReady \/ SelectQuiet
  \/ Accept \/ AcceptFails
  \/ Refuse \/ Admit
  \/ SetTimeout \/ TimeoutFails
  \/ Count \/ Spawn \/ SpawnThrows

Shutdown == CloseListener \/ Poll \/ LeaveMain \/ Exit

Next ==
  \/ Signal
  \/ \E c \in Conns : Connect(c)
  \/ \E i \in 1 .. Backlog : GiveUp(i)
  \/ StartUp
  \/ MainLoop
  \/ Shutdown
  \/ \E c \in Conns : Handle(c) \/ CountOut(c) \/ BrokenPipe(c)

\* main's thread keeps running, and accept() does not fail for ever while
\* connections are queued.  Nothing is assumed of the workers: a send to a
\* client that does not read has no timeout.
Spec ==
  /\ Init /\ [][Next]_vars
  /\ WF_vars(StartUp \/ MainLoop \/ Shutdown)
  /\ SF_vars(Accept)
-----------------------------------------------------------------------------
\* Every variable keeps its type; the counter is never negative.
TypeOK ==
  /\ env \in Environments
  /\ left \in 0 .. MaxAddresses
  /\ up \subseteq {"net", "socket", "listener"}
  /\ running \in BOOLEAN
  /\ main \in StartingUp \cup Loop \cup {"close", "drain", "returned"} \cup Over
  /\ cs \in Conns \cup {None}
  /\ queue \in Seq(Conns)
  /\ open \subseteq Conns
  /\ worker \in [Conns -> {"none", "handling", "handled"}]
  /\ active \in Nat
  /\ polls \in Nat
  /\ late \in Nat

\* The process never holds more client sockets than MAX_CLIENTS, plus the one
\* that main is about to refuse (line 142).
SocketsBounded == Cardinality(open) <= MaxClients + 1

\* main.cpp:52, never half-configured: the gateway only serves with a complete
\* configuration that is in the ranges everything else relies on, the network
\* and a listener; and whichever step of the start-up or the shutdown it ends
\* at, it has given back what the steps before it set up.
StartIsAllOrNothing ==
  /\ main \in Loop => Usable(Cfg) /\ up = {"net", "listener"}
  /\ main \in {"failed", "exited"} => up = {} /\ queue = << >>

\* Every open client socket has exactly one owner that will close it, main or
\* a worker, and a worker never handles a socket that is closed.
SocketsOwned ==
  /\ open = Handling \cup ({cs} \ {None})
  /\ cs \notin Counted

\* When the drain ends before its polls are used up (line 161), no worker is
\* left that uses main's frame: nothing dangles on the way out.
EarlyStopIsClean ==
  main \in {"returned", "exited"} /\ polls < MaxPolls => Counted = {}

\* The flag is read once per turn of the loop (line 129): after the signal at
\* most one more connection gets a worker.
AtMostOneLate == late <= 1

\* MAX_CLIENTS: the detached workers form a pool with that many places, though
\* the test of line 140, the count of line 152 and the thread are three steps
\* with workers counting themselves out in between.
Places == INSTANCE Pool WITH capacity <- MaxClients, held <- Counted
PoolSpec == Places!Spec

\* After a signal main ends: neither a hanging worker nor a stream of new
\* connections keeps it (the 500 ms of line 39, the 100 polls of line 161).
ShutdownCompletes == ~running ~> main \in Over

\* A queued connection is accepted, gives up or sees the shutdown: workers that
\* hang do not block the loop, because a full server refuses (line 140).
QueueDrains == \A c \in Conns : c \in Queued ~> c \notin Queued \/ main \in Over

\* main.cpp:124 "graceful shutdown" and main.cpp:159 "waiting for active
\* connections": main does not return under its workers.
FrameOutlivesWorkers == main = "returned" => Counted = {}
=============================================================================
