---------------------------- MODULE ServerProofs ----------------------------
(***************************************************************************)
(* For any environment, any number of connections, any backlog and any     *)
(* number of polls: the gateway serves fully set up or not at all,         *)
(* activeClients counts the workers, the workers form a pool of            *)
(* MAX_CLIENTS places, no client socket is lost, and a drain that ends     *)
(* early ends with nobody left.                                            *)
(***************************************************************************)
EXTENDS Server, FiniteSetTheorems, SequenceTheorems, TLAPS

\* The statements at which main holds a connection.
Carrying == {"admit", "timeout", "count", "spawn"}

\* A connection is in at most one place: queued once, in main's hands, or with
\* its worker.
PlacesOK ==
  /\ \A i, j \in DOMAIN queue : queue[i] = queue[j] => i = j
  /\ \A i \in DOMAIN queue : queue[i] \notin Counted /\ queue[i] # cs
  /\ main \in Carrying => cs \in Conns
  /\ main \notin Carrying \cup {"terminated"} => cs = None

\* activeClients counts the workers, and the one that main has counted in
\* before it starts it, until std::thread throws.
CountOK ==
  /\ main \notin {"spawn", "terminated"} => active = Cardinality(Counted)
  /\ main = "spawn" => active = Cardinality(Counted) + 1

\* What the test of line 140 has found stays true: only main adds a worker.
RoomOK ==
  /\ Cardinality(Counted) <= MaxClients
  /\ main \in {"timeout", "count", "spawn"} => Cardinality(Counted) < MaxClients

\* A late worker sends main back to the flag.
LateOK ==
  /\ late <= 1
  /\ late = 1 => ~running /\ main \notin Loop \ {"check"}

\* How far the start-up or the shutdown has come, and what it holds by then.
StartOK ==
  /\ main \notin {"config", "failed", "terminated"} => Cfg.ok
  /\ main = "listen" => left > 0
  /\ main \in {"config", "net", "returned", "exited", "failed"} => up = {}
  /\ main \in {"resolve", "bind", "drain"} => up = {"net"}
  /\ main = "listen" => up = {"net", "socket"}
  /\ main \in Loop \cup {"close"} => up = {"net", "listener"}
  /\ main \notin Loop \cup {"close", "terminated"} => queue = << >>

\* The inductive invariant is this with StartOK.
Inv ==
  /\ TypeOK
  /\ PlacesOK
  /\ SocketsOwned
  /\ CountOK
  /\ RoomOK
  /\ LateOK
  /\ EarlyStopIsClean

CountedSize == IsFiniteSet(Counted) /\ Cardinality(Counted) \in Nat

LEMMA CountedFinite == CountedSize
<1>1. Counted \subseteq Conns
  BY DEF Counted
<1> QED  BY <1>1, FS_Subset, FS_CardinalityType, ConstantsAssumption DEF CountedSize

\* Lines 67-103 of Config.h: every setting is in its range, whatever the
\* environment says.
LEMMA LoadedInRange ==
  ASSUME NEW e, IsEnvironment(e)
  PROVE  LET cfg == LoadConfig(e)
         IN  /\ cfg.ok \in BOOLEAN
             /\ cfg.ok => Usable(cfg)
             /\ cfg.maxClients \in Nat \ {0}
<1> DEFINE Typed(s) == s.n \in Int /\ s.reads \in BOOLEAN
<1>1. \A s \in Settings : Typed(e[s])
  BY DEF IsEnvironment
<1>2. /\ Typed(e.port) /\ Typed(e.upstreamTimeoutMs) /\ Typed(e.recvTimeoutMs)
      /\ Typed(e.maxBodyBytes) /\ Typed(e.maxClients) /\ Typed(e.rateLimitPerMin)
  BY <1>1 DEF Settings
<1> DEFINE cfg == LoadConfig(e)
           Within(n, minV, maxV) == n \in Int /\ minV <= n /\ n <= maxV
<1>3. \A s : Typed(s) => /\ Within(EnvInt(s, 1111, 1, 65535), 1, 65535)
                         /\ Within(EnvInt(s, 5000, 100, 120000), 100, 120000)
                         /\ Within(EnvInt(s, 30000, 1000, 300000), 1000, 300000)
                         /\ Within(EnvInt(s, 1048576, 1024, 16777216), 1024, 16777216)
                         /\ Within(EnvInt(s, 128, 1, 4096), 1, 4096)
                         /\ Within(EnvInt(s, 100, 0, 100000), 0, 100000)
  BY DEF EnvInt
<1> HIDE DEF Typed
<1>4. /\ Within(cfg.port, 1, 65535)
      /\ Within(cfg.upstreamTimeoutMs, 100, 120000)
      /\ Within(cfg.recvTimeoutMs, 1000, 300000)
      /\ Within(cfg.maxBodyBytes, 1024, 16777216)
      /\ Within(cfg.maxClients, 1, 4096)
      /\ Within(cfg.rateLimitPerMin, 0, 100000)
  BY <1>2, <1>3 DEF LoadConfig
<1>5. cfg.ok \in BOOLEAN
  BY DEF LoadConfig, IsEnvironment
<1> HIDE DEF cfg
<1>6. 64 * 1024 * 1024 = 67108864
  OBVIOUS
<1>7. cfg.ok => Usable(cfg)
  BY <1>4, <1>6 DEF Usable
<1>8. cfg.maxClients \in Nat \ {0}
  BY <1>4
<1> QED  BY <1>5, <1>7, <1>8 DEF cfg

LEMMA Capacity ==
  ASSUME TypeOK
  PROVE  MaxClients \in Nat \ {0}
<1>1. IsEnvironment(env)
  BY ConstantsAssumption DEF TypeOK
<1> QED  BY <1>1, LoadedInRange DEF MaxClients, Cfg

LEMMA InitInv == Init => Inv /\ StartOK
<1> SUFFICES ASSUME Init  PROVE Inv /\ StartOK
  OBVIOUS
<1> USE DEF Init
<1>1. Counted = {} /\ Handling = {}
  BY DEF Counted, Handling
<1>2. Cardinality(Counted) = 0
  BY <1>1, FS_EmptySet
<1>3. TypeOK
  BY ConstantsAssumption DEF TypeOK, StartingUp
<1>4. PlacesOK
  BY DEF PlacesOK, Carrying
<1>5. MaxClients \in Nat \ {0}
  BY <1>3, Capacity
<1>6. StartOK
  BY DEF StartOK, Loop
<1> QED  BY <1>1, <1>2, <1>3, <1>4, <1>5, <1>6, ConstantsAssumption
           DEF Inv, SocketsOwned, CountOK, RoomOK, LateOK, EarlyStopIsClean

\* Steps that only move main on, or end the process.
LEMMA MoveInv ==
  ASSUME Inv,
         \/ Check \/ SelectReady \/ SelectQuiet \/ AcceptFails \/ Admit
         \/ SetTimeout \/ SpawnThrows \/ \E c \in Conns : BrokenPipe(c)
  PROVE  Inv'
<1>1. UNCHANGED <<env, left, up, running, cs, queue, open, worker, active, polls, late>>
  BY DEF Check, SelectReady, SelectQuiet, AcceptFails, Admit, SetTimeout, SpawnThrows, BrokenPipe
<1>2. Counted' = Counted /\ Handling' = Handling /\ MaxClients' = MaxClients
  BY <1>1 DEF Counted, Handling, MaxClients, Cfg
<1>3. TypeOK'
  BY <1>1 DEF Inv, TypeOK, Loop, Over, Check, SelectReady, SelectQuiet, AcceptFails,
              Admit, SetTimeout, SpawnThrows, BrokenPipe
<1>4. PlacesOK'
  BY <1>1, <1>2 DEF Inv, PlacesOK, Carrying, Check, SelectReady, SelectQuiet,
                    AcceptFails, Admit, SetTimeout, SpawnThrows, BrokenPipe
<1>5. SocketsOwned'
  BY <1>1, <1>2 DEF Inv, SocketsOwned
<1>6. CountOK'
  BY <1>1, <1>2 DEF Inv, CountOK, Check, SelectReady, SelectQuiet, AcceptFails, Admit,
                    SetTimeout, SpawnThrows, BrokenPipe
<1>7. RoomOK'
  <2>1. CASE Admit
    <3>1. active = Cardinality(Counted) /\ active \in Nat /\ ~(active >= MaxClients)
      BY <2>1 DEF Admit, Full, Inv, CountOK, TypeOK
    <3> QED  BY <1>1, <1>2, <3>1, Capacity, CountedFinite DEF Inv, RoomOK, CountedSize
  <2>2. CASE ~Admit
    BY <1>1, <1>2, <2>2 DEF Inv, RoomOK, Check, SelectReady, SelectQuiet, AcceptFails,
                            SetTimeout, SpawnThrows, BrokenPipe
  <2> QED  BY <2>1, <2>2
<1>8. LateOK'
  BY <1>1 DEF Inv, LateOK, Loop, Check, SelectReady, SelectQuiet, AcceptFails, Admit,
              SetTimeout, SpawnThrows, BrokenPipe
<1>9. EarlyStopIsClean'
  BY <1>1, <1>2 DEF EarlyStopIsClean, Check, SelectReady, SelectQuiet, AcceptFails,
                    Admit, SetTimeout, SpawnThrows, BrokenPipe
<1> QED  BY <1>3, <1>4, <1>5, <1>6, <1>7, <1>8, <1>9 DEF Inv

\* Clients come and go: only the queue changes.
LEMMA ConnectInv ==
  ASSUME Inv, NEW c \in Conns, Connect(c)
  PROVE  Inv'
<1>1. /\ UNCHANGED <<env, left, up, running, main, cs, open, worker, active, polls, late>>
      /\ queue' = Append(queue, c) /\ c \notin Queued /\ c \notin Counted /\ c # cs
  BY DEF Connect
<1>2. Counted' = Counted /\ Handling' = Handling /\ MaxClients' = MaxClients
  BY <1>1 DEF Counted, Handling, MaxClients, Cfg
<1>3. queue \in Seq(Conns)
  BY DEF Inv, TypeOK
<1>4. /\ queue' \in Seq(Conns) /\ DOMAIN queue' = 1 .. Len(queue) + 1
      /\ DOMAIN queue = 1 .. Len(queue) /\ Len(queue) \in Nat
      /\ \A i \in 1 .. Len(queue) : queue'[i] = queue[i]
      /\ queue'[Len(queue) + 1] = c
  BY <1>1, <1>3
<1>5. \A i \in 1 .. Len(queue) : queue[i] # c
  BY <1>1, <1>4 DEF Queued
<1>6. PlacesOK'
  <2>1. \A i, j \in DOMAIN queue' : queue'[i] = queue'[j] => i = j
    BY <1>4, <1>5 DEF Inv, PlacesOK
  <2>2. \A i \in DOMAIN queue' : queue'[i] \notin Counted /\ queue'[i] # cs
    BY <1>1, <1>4 DEF Inv, PlacesOK
  <2> QED  BY <1>1, <1>2, <2>1, <2>2 DEF Inv, PlacesOK
<1> QED  BY <1>1, <1>2, <1>4, <1>6
           DEF Inv, TypeOK, SocketsOwned, CountOK, RoomOK, LateOK, EarlyStopIsClean

\* A sequence without one of its elements.
LEMMA DropElement ==
  ASSUME NEW S, NEW s \in Seq(S), NEW i \in DOMAIN s
  PROVE  LET t == SubSeq(s, 1, i - 1) \o SubSeq(s, i + 1, Len(s))
         IN  /\ t \in Seq(S)
             /\ DOMAIN t = 1 .. Len(s) - 1
             /\ \A j \in DOMAIN t : t[j] = s[IF j < i THEN j ELSE j + 1]
<1> DEFINE a == SubSeq(s, 1, i - 1)
           b == SubSeq(s, i + 1, Len(s))
<1>1. Len(s) \in Nat /\ DOMAIN s = 1 .. Len(s)
  BY LenProperties
<1>2. a \in Seq(S) /\ Len(a) = i - 1 /\ \A j \in 1 .. i - 1 : a[j] = s[j]
  <2>1. a \in Seq(S) /\ Len(a) = i - 1
    BY <1>1
  <2>2. \A j \in 1 .. i - 1 : a[j] = s[j]
    BY <1>1
  <2> QED  BY <2>1, <2>2
<1>3. b \in Seq(S) /\ Len(b) = Len(s) - i /\ \A j \in 1 .. Len(s) - i : b[j] = s[i + j]
  <2>1. b \in Seq(S) /\ Len(b) = Len(s) - i
    BY <1>1
  <2>2. \A j \in 1 .. Len(s) - i : b[j] = s[i + j]
    BY <1>1
  <2> QED  BY <2>1, <2>2
<1> HIDE DEF a, b
<1>4. /\ a \o b \in Seq(S) /\ Len(a \o b) = Len(s) - 1
      /\ \A j \in 1 .. Len(s) - 1 : (a \o b)[j] = IF j <= i - 1 THEN a[j] ELSE b[j - (i - 1)]
  <2>1. Len(a) + Len(b) = Len(s) - 1
    BY <1>1, <1>2, <1>3
  <2>2. /\ a \o b \in Seq(S) /\ Len(a \o b) = Len(a) + Len(b)
        /\ \A j \in 1 .. Len(a) + Len(b) :
             (a \o b)[j] = IF j <= Len(a) THEN a[j] ELSE b[j - Len(a)]
    BY <1>2, <1>3, ConcatProperties
  <2> QED  BY <1>2, <2>1, <2>2
<1>5. ASSUME NEW j \in 1 .. Len(s) - 1
      PROVE  (a \o b)[j] = s[IF j < i THEN j ELSE j + 1]
  <2>1. CASE j < i
    BY <1>1, <1>2, <1>4, <2>1
  <2>2. CASE ~(j < i)
    <3>1. j - (i - 1) \in 1 .. Len(s) - i /\ i + (j - (i - 1)) = j + 1
      BY <1>1, <2>2
    <3>2. (a \o b)[j] = b[j - (i - 1)]
      BY <1>1, <1>4, <2>2
    <3>3. b[j - (i - 1)] = s[i + (j - (i - 1))]
      BY <1>3, <3>1
    <3> QED  BY <2>2, <3>1, <3>2, <3>3
  <2> QED  BY <2>1, <2>2
<1>6. DOMAIN (a \o b) = 1 .. Len(s) - 1
  BY <1>4, LenProperties
<1> QED  BY <1>4, <1>5, <1>6 DEF a, b

LEMMA GiveUpInv ==
  ASSUME Inv, NEW i, GiveUp(i)
  PROVE  Inv'
<1>1. /\ UNCHANGED <<env, left, up, running, main, cs, open, worker, active, polls, late>>
      /\ i \in DOMAIN queue
      /\ queue' = SubSeq(queue, 1, i - 1) \o SubSeq(queue, i + 1, Len(queue))
  BY DEF GiveUp
<1>2. Counted' = Counted /\ Handling' = Handling /\ MaxClients' = MaxClients
  BY <1>1 DEF Counted, Handling, MaxClients, Cfg
<1>3. queue \in Seq(Conns)
  BY DEF Inv, TypeOK
<1>4. /\ queue' \in Seq(Conns) /\ DOMAIN queue' = 1 .. Len(queue) - 1
      /\ \A j \in DOMAIN queue' : queue'[j] = queue[IF j < i THEN j ELSE j + 1]
  BY <1>1, <1>3, DropElement
<1>5. DOMAIN queue = 1 .. Len(queue) /\ Len(queue) \in Nat
  BY <1>3, LenProperties
<1>6. PlacesOK'
  <2> DEFINE old(j) == IF j < i THEN j ELSE j + 1
  <2>1. \A j \in DOMAIN queue' : old(j) \in DOMAIN queue /\ queue'[j] = queue[old(j)]
    <3>1. i \in DOMAIN queue
      BY <1>1
    <3> QED  BY <3>1, <1>4, <1>5
  <2>2. ASSUME NEW j \in DOMAIN queue', NEW k \in DOMAIN queue', queue'[j] = queue'[k]
        PROVE  j = k
    <3>1. old(j) = old(k)
      BY <2>1, <2>2 DEF Inv, PlacesOK
    <3>2. j \in Int /\ k \in Int /\ i \in Int
      BY <1>1, <1>4, <1>5
    <3> QED  BY <3>1, <3>2
  <2>3. \A j \in DOMAIN queue' : queue'[j] \notin Counted /\ queue'[j] # cs
    BY <2>1 DEF Inv, PlacesOK
  <2> QED  BY <1>1, <1>2, <2>2, <2>3 DEF Inv, PlacesOK
<1> QED  BY <1>1, <1>2, <1>4, <1>6
           DEF Inv, TypeOK, SocketsOwned, CountOK, RoomOK, LateOK, EarlyStopIsClean

LEMMA AcceptInv ==
  ASSUME Inv, Accept
  PROVE  Inv'
<1>1. /\ UNCHANGED <<env, left, up, running, worker, active, polls, late>>
      /\ main = "accept" /\ main' = "admit" /\ queue # << >>
      /\ cs' = queue[1] /\ queue' = Tail(queue) /\ open' = open \cup {queue[1]}
  BY DEF Accept
<1>2. Counted' = Counted /\ Handling' = Handling /\ MaxClients' = MaxClients
  BY <1>1 DEF Counted, Handling, MaxClients, Cfg
<1>3. queue \in Seq(Conns)
  BY DEF Inv, TypeOK
<1>4. /\ queue' \in Seq(Conns) /\ DOMAIN queue = 1 .. Len(queue) /\ Len(queue) \in Nat \ {0}
      /\ DOMAIN queue' = 1 .. Len(queue) - 1
      /\ \A j \in DOMAIN queue' : queue'[j] = queue[j + 1]
  BY <1>1, <1>3
<1>5. queue[1] \in Conns /\ queue[1] \notin Counted
  BY <1>3, <1>4, ElementOfSeq DEF Inv, PlacesOK
<1>6. cs = None
  BY <1>1 DEF Inv, PlacesOK, Carrying
<1>7. PlacesOK'
  <2>1. \A j, k \in DOMAIN queue' : queue'[j] = queue'[k] => j = k
    BY <1>4 DEF Inv, PlacesOK
  <2>2. \A j \in DOMAIN queue' : queue'[j] \notin Counted /\ queue'[j] # queue[1]
    BY <1>4 DEF Inv, PlacesOK
  <2> QED  BY <1>1, <1>2, <1>5, <2>1, <2>2 DEF PlacesOK, Carrying
<1>8. SocketsOwned'
  BY <1>1, <1>2, <1>5, <1>6, ConstantsAssumption DEF Inv, SocketsOwned
<1>9. TypeOK'
  BY <1>1, <1>4, <1>5 DEF Inv, TypeOK, Loop
<1>10. CountOK' /\ RoomOK' /\ LateOK' /\ EarlyStopIsClean'
  BY <1>1, <1>2 DEF Inv, CountOK, RoomOK, LateOK, EarlyStopIsClean, Loop
<1> QED  BY <1>7, <1>8, <1>9, <1>10 DEF Inv

\* main closes what it has accepted.
LEMMA HangUpInv ==
  ASSUME Inv, Refuse \/ TimeoutFails
  PROVE  Inv'
<1>1. /\ UNCHANGED <<env, left, up, running, queue, worker, active, polls, late>>
      /\ main \in {"admit", "timeout"} /\ main' = "check"
      /\ open' = open \ {cs} /\ cs' = None
  BY DEF Refuse, TimeoutFails, HangUp
<1>2. /\ Counted' = Counted /\ Handling' = Handling /\ Handling \subseteq Counted
      /\ MaxClients' = MaxClients
  BY <1>1 DEF Counted, Handling, MaxClients, Cfg
<1>3. PlacesOK'
  <2>1. \A i \in DOMAIN queue : queue[i] # None
    BY ConstantsAssumption, ElementOfSeq, LenProperties DEF Inv, TypeOK
  <2> QED  BY <1>1, <1>2, <2>1, ConstantsAssumption DEF Inv, PlacesOK, Carrying
<1>4. SocketsOwned'
  <2>1. None \notin Counted
    BY ConstantsAssumption DEF Counted
  <2> QED  BY <1>1, <1>2, <2>1 DEF Inv, SocketsOwned
<1>5. TypeOK'
  BY <1>1 DEF Inv, TypeOK, Loop
<1>6. CountOK' /\ RoomOK' /\ LateOK' /\ EarlyStopIsClean'
  BY <1>1, <1>2 DEF Inv, CountOK, RoomOK, LateOK, EarlyStopIsClean, Loop
<1> QED  BY <1>3, <1>4, <1>5, <1>6 DEF Inv

LEMMA CountInv ==
  ASSUME Inv, Count
  PROVE  Inv'
<1>1. /\ UNCHANGED <<env, left, up, running, cs, queue, open, worker, polls, late>>
      /\ main = "count" /\ main' = "spawn" /\ active' = active + 1
  BY DEF Count
<1>2. Counted' = Counted /\ Handling' = Handling /\ MaxClients' = MaxClients
  BY <1>1 DEF Counted, Handling, MaxClients, Cfg
<1>3. TypeOK' /\ PlacesOK' /\ SocketsOwned'
  BY <1>1, <1>2 DEF Inv, TypeOK, PlacesOK, SocketsOwned, Loop, Carrying
<1>4. CountOK' /\ RoomOK' /\ LateOK' /\ EarlyStopIsClean'
  BY <1>1, <1>2 DEF Inv, CountOK, RoomOK, LateOK, EarlyStopIsClean, Loop
<1> QED  BY <1>3, <1>4 DEF Inv

\* The new worker takes a place that was free.
LEMMA SpawnTakes ==
  ASSUME Inv, Spawn
  PROVE  /\ cs \in Conns /\ cs \notin Counted /\ Cardinality(Counted) < MaxClients
         /\ Counted' = Counted \cup {cs} /\ Handling' = Handling \cup {cs}
         /\ Cardinality(Counted') = Cardinality(Counted) + 1
         /\ MaxClients' = MaxClients
<1>1. main = "spawn" /\ worker' = [worker EXCEPT ![cs] = "handling"] /\ env' = env
  BY DEF Spawn
<1>2. cs \in Conns /\ cs \notin Counted /\ Cardinality(Counted) < MaxClients
  BY <1>1 DEF Inv, PlacesOK, SocketsOwned, RoomOK, Carrying
<1>3. Counted' = Counted \cup {cs} /\ Handling' = Handling \cup {cs}
  BY <1>1, <1>2 DEF Counted, Handling, Inv, TypeOK
<1>4. Cardinality(Counted \cup {cs}) = Cardinality(Counted) + 1
  BY <1>2, CountedFinite, FS_AddElement DEF CountedSize
<1>5. MaxClients' = MaxClients
  BY <1>1 DEF MaxClients, Cfg
<1> QED  BY <1>2, <1>3, <1>4, <1>5

LEMMA SpawnInv ==
  ASSUME Inv, Spawn
  PROVE  Inv'
<1>1. /\ UNCHANGED <<env, left, up, running, queue, open, active, polls>>
      /\ main = "spawn" /\ main' = "check" /\ cs' = None
      /\ worker' = [worker EXCEPT ![cs] = "handling"]
      /\ late' = IF running THEN late ELSE late + 1
  BY DEF Spawn
<1>2. /\ cs \in Conns /\ cs \notin Counted /\ Cardinality(Counted) < MaxClients
      /\ Counted' = Counted \cup {cs} /\ Handling' = Handling \cup {cs}
      /\ Cardinality(Counted') = Cardinality(Counted) + 1
      /\ MaxClients' = MaxClients
  BY SpawnTakes
<1>3. TypeOK'
  BY <1>1, <1>2 DEF Inv, TypeOK, Loop
<1>4. PlacesOK'
  <2>1. \A i \in DOMAIN queue : queue[i] # None
    BY ConstantsAssumption, ElementOfSeq, LenProperties DEF Inv, TypeOK
  <2> QED  BY <1>1, <1>2, <2>1 DEF Inv, PlacesOK, Carrying
<1>5. SocketsOwned'
  <2>1. None \notin Counted'
    BY ConstantsAssumption DEF Counted
  <2>2. cs # None
    BY <1>2, ConstantsAssumption
  <2> QED  BY <1>1, <1>2, <2>1, <2>2 DEF Inv, SocketsOwned
<1>6. CountOK' /\ RoomOK'
  BY <1>1, <1>2, CountedFinite, Capacity DEF Inv, CountOK, RoomOK, CountedSize
<1>7. LateOK' /\ EarlyStopIsClean'
  BY <1>1 DEF Inv, TypeOK, LateOK, EarlyStopIsClean, Loop
<1> QED  BY <1>3, <1>4, <1>5, <1>6, <1>7 DEF Inv

LEMMA HandleInv ==
  ASSUME Inv, NEW c \in Conns, Handle(c)
  PROVE  Inv'
<1>1. /\ UNCHANGED <<env, left, up, running, main, cs, queue, active, polls, late>>
      /\ worker[c] = "handling" /\ worker' = [worker EXCEPT ![c] = "handled"]
      /\ open' = open \ {c}
  BY DEF Handle
<1>2. Counted' = Counted /\ Handling' = Handling \ {c} /\ c \in Counted
  BY <1>1 DEF Counted, Handling, Inv, TypeOK
<1>3. TypeOK'
  BY <1>1 DEF Inv, TypeOK
<1>4. SocketsOwned'
  BY <1>1, <1>2 DEF Inv, SocketsOwned
<1>5. MaxClients' = MaxClients
  BY <1>1 DEF MaxClients, Cfg
<1> QED  BY <1>1, <1>2, <1>3, <1>4, <1>5
           DEF Inv, PlacesOK, CountOK, RoomOK, LateOK, EarlyStopIsClean

\* A worker that counts itself out gives its place back.
LEMMA CountOutReleases ==
  ASSUME Inv, NEW c \in Conns, CountOut(c)
  PROVE  /\ c \in Counted /\ Counted' = Counted \ {c} /\ Handling' = Handling
         /\ Cardinality(Counted') = Cardinality(Counted) - 1
         /\ Cardinality(Counted) \in Nat \ {0}
         /\ MaxClients' = MaxClients
<1>1. worker[c] = "handled" /\ worker' = [worker EXCEPT ![c] = "none"] /\ env' = env
  BY DEF CountOut
<1>2. c \in Counted /\ Counted' = Counted \ {c} /\ Handling' = Handling
  BY <1>1 DEF Counted, Handling, Inv, TypeOK
<1>3. Cardinality(Counted \ {c}) = Cardinality(Counted) - 1
  BY <1>2, CountedFinite, FS_RemoveElement DEF CountedSize
<1>4. Cardinality(Counted) # 0
  BY <1>2, CountedFinite, FS_EmptySet DEF CountedSize
<1>5. MaxClients' = MaxClients
  BY <1>1 DEF MaxClients, Cfg
<1> QED  BY <1>2, <1>3, <1>4, <1>5, CountedFinite DEF CountedSize

LEMMA CountOutInv ==
  ASSUME Inv, NEW c \in Conns, CountOut(c)
  PROVE  Inv'
<1>1. /\ UNCHANGED <<env, left, up, running, main, cs, queue, open, polls, late>>
      /\ worker' = [worker EXCEPT ![c] = "none"] /\ active' = active - 1
      /\ main # "terminated"
  BY DEF CountOut, Over
<1>2. /\ Counted' = Counted \ {c} /\ Handling' = Handling
      /\ Cardinality(Counted') = Cardinality(Counted) - 1
      /\ Cardinality(Counted) \in Nat \ {0}
      /\ MaxClients' = MaxClients
  BY CountOutReleases
<1>3. active' \in Nat /\ CountOK' /\ RoomOK'
  BY <1>1, <1>2, Capacity DEF Inv, TypeOK, CountOK, RoomOK
<1>4. TypeOK'
  BY <1>1, <1>3 DEF Inv, TypeOK
<1> QED  BY <1>1, <1>2, <1>3, <1>4 DEF Inv, PlacesOK, SocketsOwned, LateOK, EarlyStopIsClean

\* The signal and the shutdown.
LEMMA ShutdownInv ==
  ASSUME Inv, Signal \/ Shutdown
  PROVE  Inv'
<1>1. UNCHANGED <<env, left, cs, open, worker, active, late>>
  BY DEF Signal, Shutdown, CloseListener, Poll, LeaveMain, Exit
<1>2. Counted' = Counted /\ Handling' = Handling /\ MaxClients' = MaxClients
  BY <1>1 DEF Counted, Handling, MaxClients, Cfg
<1>3. CASE Signal
  <2>1. /\ UNCHANGED <<up, queue, polls>> /\ running' = FALSE
        /\ main' = IF main = "config" THEN "terminated" ELSE main
    BY <1>3 DEF Signal
  <2>2. CASE main = "config"
    BY <1>1, <1>2, <2>1, <2>2 DEF Inv, TypeOK, PlacesOK, SocketsOwned, CountOK, RoomOK,
                          LateOK, EarlyStopIsClean, Over, Carrying, Loop
  <2>3. CASE main # "config"
    BY <1>1, <1>2, <2>1, <2>3 DEF Inv, TypeOK, PlacesOK, SocketsOwned, CountOK, RoomOK,
                          LateOK, EarlyStopIsClean
  <2> QED  BY <2>2, <2>3
<1>4. CASE CloseListener
  <2>1. /\ UNCHANGED <<running, polls>> /\ up' = up \ {"listener"}
        /\ main = "close" /\ main' = "drain" /\ queue' = << >>
    BY <1>4 DEF CloseListener
  <2>2. queue' \in Seq(Conns) /\ DOMAIN queue' = {}
    BY <2>1
  <2> QED  BY <1>1, <1>2, <2>1, <2>2 DEF Inv, TypeOK, PlacesOK, SocketsOwned, CountOK,
                RoomOK, LateOK, EarlyStopIsClean, Loop, Carrying
<1>5. CASE Poll
  BY <1>1, <1>2, <1>5 DEF Poll, Inv, TypeOK, PlacesOK, SocketsOwned, CountOK, RoomOK,
                          LateOK, EarlyStopIsClean
<1>6. CASE LeaveMain
  <2>1. /\ UNCHANGED <<running, queue, polls>> /\ up' = up \ {"net"}
        /\ main = "drain" /\ main' = "returned" /\ (~Patient \/ NobodyLeft)
    BY <1>6 DEF LeaveMain
  <2>2. EarlyStopIsClean'
    <3>1. CASE NobodyLeft
      <4>1. Cardinality(Counted) = 0
        BY <2>1, <3>1 DEF NobodyLeft, Inv, CountOK
      <4>2. Counted = {}
        BY <4>1, CountedFinite, FS_EmptySet DEF CountedSize
      <4> QED  BY <1>2, <4>2 DEF EarlyStopIsClean
    <3>2. CASE ~Patient
      BY <2>1, <3>2 DEF Patient, EarlyStopIsClean
    <3> QED  BY <2>1, <3>1, <3>2
  <2> QED  BY <1>1, <1>2, <2>1, <2>2 DEF Inv, TypeOK, PlacesOK, SocketsOwned, CountOK,
                RoomOK, LateOK, Loop, Carrying
<1>7. CASE Exit
  BY <1>1, <1>2, <1>7 DEF Exit, Inv, TypeOK, PlacesOK, SocketsOwned, CountOK, RoomOK,
                          LateOK, EarlyStopIsClean, Loop, Over, Carrying
<1> QED  BY <1>3, <1>4, <1>5, <1>6, <1>7 DEF Shutdown

\* The start-up touches neither connections nor workers.
LEMMA StartUpInv ==
  ASSUME Inv, StartOK, StartUp
  PROVE  Inv'
<1>1. UNCHANGED <<env, running, cs, queue, open, worker, active, polls, late>>
  BY DEF StartUp, ConfigError, Configured, NetFails, NetUp, BindUnresolved, BindResolved,
         OpenSocket, NoSocket, Listen, ListenFails, NoListener, Fail
<1>2. Counted' = Counted /\ Handling' = Handling /\ MaxClients' = MaxClients
  BY <1>1 DEF Counted, Handling, MaxClients, Cfg
<1>3. /\ main \in StartingUp /\ main' \in StartingUp \cup {"check", "failed"}
      /\ up' \subseteq up \cup {"net", "socket", "listener"}
  BY DEF StartUp, ConfigError, Configured, NetFails, NetUp, BindUnresolved, BindResolved,
         OpenSocket, NoSocket, Listen, ListenFails, NoListener, Fail, StartingUp
<1>4. left' \in 0 .. MaxAddresses
  <2>1. left \in 0 .. MaxAddresses /\ MaxAddresses \in Nat /\ (main = "listen" => left > 0)
    BY ConstantsAssumption DEF Inv, TypeOK, StartOK
  <2>2. \/ left' = left \/ left' = 0 \/ left' \in 1 .. MaxAddresses
        \/ left > 0 /\ left' = left - 1
    BY <2>1 DEF StartUp, ConfigError, Configured, NetFails, NetUp, BindUnresolved,
         BindResolved, OpenSocket, NoSocket, Listen, ListenFails, NoListener, Fail
  <2> QED  BY <2>1, <2>2
<1>5. TypeOK'
  BY <1>1, <1>3, <1>4 DEF Inv, TypeOK, StartingUp, Over, Loop
<1> QED  BY <1>1, <1>2, <1>3, <1>5 DEF Inv, PlacesOK, SocketsOwned, CountOK, RoomOK, LateOK,
              EarlyStopIsClean, StartingUp, Loop, Carrying

\* The start-up and the shutdown take and give back in order.
LEMMA StartStep ==
  ASSUME Inv, StartOK, [Next]_vars
  PROVE  StartOK'
<1>1. Cfg' = Cfg
  BY DEF Next, StartUp, ConfigError, Configured, NetFails, NetUp, BindUnresolved,
         BindResolved, OpenSocket, NoSocket, Listen, ListenFails, NoListener, Fail,
         MainLoop, Check, SelectReady, SelectQuiet, Accept, AcceptFails, Refuse, Admit,
         HangUp, SetTimeout, TimeoutFails, Count, Spawn, SpawnThrows, Signal, Connect, GiveUp,
         Shutdown, CloseListener, Poll, LeaveMain, Exit, Handle, CountOut, BrokenPipe, vars, Cfg
<1>2. CASE StartUp
  <2>1. CASE ConfigError \/ NetFails \/ BindUnresolved \/ NoListener
    BY <1>1, <2>1 DEF ConfigError, NetFails, BindUnresolved, NoListener, Fail, StartOK, Loop
  <2>2. CASE Configured \/ NetUp
    BY <1>1, <2>2 DEF Configured, NetUp, StartOK, Loop
  <2>3. CASE BindResolved \/ OpenSocket \/ NoSocket
    BY <1>1, <2>3 DEF BindResolved, OpenSocket, NoSocket, StartOK, Loop
  <2>4. CASE Listen \/ ListenFails
    BY <1>1, <2>4 DEF Listen, ListenFails, StartOK, Loop
  <2> QED  BY <1>2, <2>1, <2>2, <2>3, <2>4 DEF StartUp
<1>3. CASE MainLoop
  <2>1. UNCHANGED <<left, up>> /\ main \in Loop /\ main' \in Loop \cup {"close", "terminated"}
    BY <1>3 DEF MainLoop, Check, SelectReady, SelectQuiet, Accept, AcceptFails, Refuse, Admit,
         HangUp, SetTimeout, TimeoutFails, Count, Spawn, SpawnThrows, Loop
  <2> QED  BY <1>1, <2>1 DEF StartOK, Loop
<1>4. CASE Shutdown
  BY <1>1, <1>4 DEF Shutdown, CloseListener, Poll, LeaveMain, Exit, StartOK, Loop
<1>5. CASE Signal
  BY <1>1, <1>5 DEF Signal, StartOK, Loop
<1>6. ASSUME NEW c \in Conns, Connect(c)  PROVE StartOK'
  BY <1>1, <1>6 DEF Connect, StartOK, Loop, Inv, TypeOK, StartingUp, Over
<1>7. ASSUME NEW i, GiveUp(i)  PROVE StartOK'
  <2>1. queue # << >>
    BY <1>7 DEF GiveUp
  <2> QED  BY <1>1, <1>7, <2>1 DEF GiveUp, StartOK
<1>8. ASSUME NEW c \in Conns, Handle(c) \/ CountOut(c) \/ BrokenPipe(c)  PROVE StartOK'
  BY <1>1, <1>8 DEF Handle, CountOut, BrokenPipe, StartOK, Loop
<1>9. CASE UNCHANGED vars
  BY <1>1, <1>9 DEF vars, StartOK
<1> QED  BY <1>2, <1>3, <1>4, <1>5, <1>6, <1>7, <1>8, <1>9 DEF Next

\* Every step keeps the invariant.
LEMMA StepInv == Inv /\ StartOK /\ [Next]_vars => Inv' /\ StartOK'
<1> SUFFICES ASSUME Inv, StartOK, [Next]_vars  PROVE Inv'
  BY StartStep
<1>1. CASE MainLoop
  BY <1>1, MoveInv, AcceptInv, HangUpInv, CountInv, SpawnInv DEF MainLoop
<1>2. CASE \E c \in Conns : BrokenPipe(c)
  BY <1>2, MoveInv
<1>3. CASE UNCHANGED vars
  <2>1. Counted' = Counted /\ Handling' = Handling /\ MaxClients' = MaxClients
    BY <1>3 DEF vars, Counted, Handling, MaxClients, Cfg
  <2> QED  BY <1>3, <2>1 DEF vars, Inv, TypeOK, PlacesOK, SocketsOwned, CountOK, RoomOK,
                             LateOK, EarlyStopIsClean
<1> QED  BY <1>1, <1>2, <1>3, StartUpInv, ShutdownInv, ConnectInv, GiveUpInv, HandleInv,
           CountOutInv DEF Next
-----------------------------------------------------------------------------
\* The types hold; in particular activeClients is never negative.
THEOREM TypeCorrect == Spec => []TypeOK
<1>1. Inv => TypeOK
  BY DEF Inv
<1> QED  BY InitInv, StepInv, <1>1, PTL DEF Spec

LEMMA WholeOrNotAtAll == Inv /\ StartOK => StartIsAllOrNothing
<1> SUFFICES ASSUME Inv, StartOK  PROVE StartIsAllOrNothing
  OBVIOUS
<1>1. IsEnvironment(env)
  BY ConstantsAssumption DEF Inv, TypeOK
<1>2. Cfg.ok => Usable(Cfg)
  BY <1>1, LoadedInRange DEF Cfg
<1> QED  BY <1>2 DEF StartOK, StartIsAllOrNothing, Loop

\* main.cpp:52: the gateway never serves half-configured or half set up, and it
\* leaves nothing behind, whichever step of the start-up fails.
THEOREM StartsWholeOrNotAtAll == Spec => []StartIsAllOrNothing
BY InitInv, StepInv, WholeOrNotAtAll, PTL DEF Spec

\* Every client socket that main accepted has one owner that closes it.
THEOREM NoSocketLost == Spec => []SocketsOwned
<1>1. Inv => SocketsOwned
  BY DEF Inv
<1> QED  BY InitInv, StepInv, <1>1, PTL DEF Spec

LEMMA OpenBounded == Inv => SocketsBounded
<1> SUFFICES ASSUME Inv  PROVE SocketsBounded
  OBVIOUS
<1>1. IsFiniteSet(Counted) /\ Cardinality(Counted) \in Nat
  BY CountedFinite DEF CountedSize
<1>2. open \subseteq Counted \cup {cs}
  BY DEF Inv, SocketsOwned, Counted, Handling
<1>3. /\ IsFiniteSet(Counted \cup {cs})
      /\ Cardinality(Counted \cup {cs}) <= Cardinality(Counted) + 1
  BY <1>1, FS_AddElement
<1>4. IsFiniteSet(open) /\ Cardinality(open) <= Cardinality(Counted \cup {cs})
  BY <1>2, <1>3, FS_Subset
<1>5. Cardinality(open) \in Nat /\ Cardinality(Counted \cup {cs}) \in Nat
  BY <1>3, <1>4, FS_CardinalityType
<1> QED  BY <1>1, <1>3, <1>4, <1>5, Capacity DEF Inv, RoomOK, SocketsBounded

\* MAX_CLIENTS bounds the client sockets of the process, save the one that is
\* being refused.
THEOREM SocketsAreBounded == Spec => []SocketsBounded
BY InitInv, StepInv, OpenBounded, PTL DEF Spec

\* A drain that ends before its polls are used up leaves no worker behind.
THEOREM EarlyStopLeavesNobody == Spec => []EarlyStopIsClean
<1>1. Inv => EarlyStopIsClean
  BY DEF Inv
<1> QED  BY InitInv, StepInv, <1>1, PTL DEF Spec

\* After the signal at most one more connection gets a worker.
THEOREM OneLateWorker == Spec => []AtMostOneLate
<1>1. Inv => AtMostOneLate
  BY DEF Inv, LateOK, AtMostOneLate
<1> QED  BY InitInv, StepInv, <1>1, PTL DEF Spec

\* A step that adds or removes no worker changes no place.
LEMMA OthersKeepPlaces ==
  ASSUME [Next]_vars, ~Spawn, \A c \in Conns : ~CountOut(c), Inv
  PROVE  UNCHANGED <<MaxClients, Counted>>
<1>1. env' = env
  BY DEF Next, StartUp, ConfigError, Configured, NetFails, NetUp, BindUnresolved,
         BindResolved, OpenSocket, NoSocket, Listen, ListenFails, NoListener, Fail,
         MainLoop, Check, SelectReady, SelectQuiet, Accept, AcceptFails, Refuse, Admit,
         HangUp, SetTimeout, TimeoutFails, Count, SpawnThrows, Signal, Connect, GiveUp,
         Shutdown, CloseListener, Poll, LeaveMain, Exit, Handle, BrokenPipe, vars
<1>2. CASE \E c \in Conns : Handle(c)
  <2>1. PICK c \in Conns : worker[c] = "handling" /\ worker' = [worker EXCEPT ![c] = "handled"]
    BY <1>2 DEF Handle
  <2> QED  BY <1>1, <2>1 DEF Counted, Inv, TypeOK, MaxClients, Cfg
<1>3. CASE UNCHANGED worker
  BY <1>1, <1>3 DEF Counted, MaxClients, Cfg
<1>4. (\E c \in Conns : Handle(c)) \/ UNCHANGED worker
  BY DEF Next, StartUp, ConfigError, Configured, NetFails, NetUp, BindUnresolved,
         BindResolved, OpenSocket, NoSocket, Listen, ListenFails, NoListener, Fail,
         MainLoop, Check, SelectReady, SelectQuiet, Accept, AcceptFails, Refuse, Admit,
         HangUp, SetTimeout, TimeoutFails, Count, SpawnThrows, Signal, Connect, GiveUp,
         Shutdown, CloseListener, Poll, LeaveMain, Exit, BrokenPipe, vars
<1> QED  BY <1>2, <1>3, <1>4

LEMMA PoolInit == Init => Places!Init
<1> SUFFICES ASSUME Init  PROVE Places!Init
  OBVIOUS
<1>1. MaxClients \in Nat \ {0}
  BY InitInv, Capacity DEF Inv
<1>2. Counted = {}
  BY DEF Init, Counted
<1> QED  BY <1>1, <1>2 DEF Places!Init

LEMMA PoolStep == Inv /\ [Next]_vars => [Places!Next]_(Places!vars)
<1> SUFFICES ASSUME Inv, [Next]_vars  PROVE Places!Next \/ UNCHANGED Places!vars
  OBVIOUS
<1>1. CASE Spawn
  BY <1>1, SpawnTakes DEF Places!Next, Places!Acquire, Places!Cardinality, Cardinality
<1>2. ASSUME NEW c \in Conns, CountOut(c)  PROVE Places!Next
  BY <1>2, CountOutReleases DEF Places!Next, Places!Release
<1> QED  BY <1>1, <1>2, OthersKeepPlaces DEF Places!vars

\* The accept loop and its detached workers implement a pool of MAX_CLIENTS
\* places: testing, counting and starting in three steps never oversteps it.
THEOREM ImplementsPool == Spec => PoolSpec
<1>1. Spec => Places!Spec
  BY PoolInit, PoolStep, InitInv, StepInv, PTL DEF Spec, Places!Spec
<1> QED  BY <1>1 DEF PoolSpec
=============================================================================
