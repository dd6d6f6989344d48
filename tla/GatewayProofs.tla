---------------------------- MODULE GatewayProofs ----------------------------
(***************************************************************************)
(* The parts keep their promises in the process as a whole: every step of  *)
(* it is a step of main and of the limiter or leaves them alone, so that   *)
(* their invariants (ServerProofs, RateLimiterProofs) hold here, and with  *)
(* them the ones that relate the parts to each other.                      *)
(***************************************************************************)
EXTENDS Gateway, FiniteSetTheorems, TLAPS

\* The parts again, with what is proved of them.
MainP == INSTANCE ServerProofs

LimiterP == INSTANCE RateLimiterProofs WITH
  Threads <- Conns, NoThread <- None, Limits <- RateLimits

\* How the stage of a worker, its place in the pool, its call of the limiter
\* and its upstream go together; and main never has two listening sockets.
Agree ==
  /\ stage \in [Conns -> Stages]
  /\ \A c \in Conns : stage[c] # "none" <=> worker[c] = "handling"
  /\ \A c \in Conns : pc[c] # "idle" => stage[c] = "limiting"
  /\ upstream = {c \in Conns : stage[c] = "asking"}
  /\ "socket" \notin up \/ "listener" \notin up

\* The invariants of the parts.
PartsInv == MainP!Inv /\ MainP!StartOK /\ LimiterP!Inv

Inv == PartsInv /\ Agree
-----------------------------------------------------------------------------
(* The parts here are the parts there.                                     *)

LEMMA MainConstants == MainP!ConstantsAssumption
BY PartsAssumption DEF MainP!IsFiniteSet, Main!IsFiniteSet, MainP!IsEnvironment,
                       Main!IsEnvironment, MainP!Settings, Main!Settings

LEMMA LimiterConstants == LimiterP!ConstantsAssumption
BY PartsAssumption

LEMMA SameCfg == Main!Cfg = MainP!Cfg /\ Main!MaxClients = MainP!MaxClients
<1>1. Main!Cfg = MainP!Cfg
  BY DEF Main!Cfg, MainP!Cfg, Main!LoadConfig, MainP!LoadConfig, Main!EnvInt, MainP!EnvInt
<1> QED  BY <1>1 DEF Main!MaxClients, MainP!MaxClients

LEMMA SameInit == Init => MainP!Init /\ LimiterP!Init
<1>1. Main!Init => MainP!Init
  BY DEF Main!Init, MainP!Init
<1>2. Limiter!Init => LimiterP!Init
  BY DEF Limiter!Init, LimiterP!Init, Limiter!Fresh, LimiterP!Fresh, Limiter!NoWindow,
         LimiterP!NoWindow
<1> QED  BY <1>1, <1>2 DEF Init

LEMMA SameTypes ==
  /\ MainP!TypeOK => Main!TypeOK
  /\ LimiterP!TypeOK => Limiter!TypeOK
<1>1. MainP!TypeOK => Main!TypeOK
  BY DEF Main!TypeOK, MainP!TypeOK, Main!StartingUp, MainP!StartingUp, Main!Loop,
         MainP!Loop, Main!Over, MainP!Over
<1>2. LimiterP!TypeOK => Limiter!TypeOK
  BY DEF Limiter!TypeOK, LimiterP!TypeOK, Limiter!Bucket, LimiterP!Bucket
<1> QED  BY <1>1, <1>2

LEMMA SameStartUp == Main!StartUp => MainP!StartUp
BY SameCfg
   DEF Main!StartUp, Main!ConfigError, Main!Configured, Main!NetFails, Main!NetUp,
       Main!BindUnresolved, Main!BindResolved, Main!OpenSocket, Main!NoSocket,
       Main!Listen, Main!ListenFails, Main!NoListener, Main!Fail,
       MainP!StartUp, MainP!ConfigError, MainP!Configured, MainP!NetFails, MainP!NetUp,
       MainP!BindUnresolved, MainP!BindResolved, MainP!OpenSocket, MainP!NoSocket,
       MainP!Listen, MainP!ListenFails, MainP!NoListener, MainP!Fail

LEMMA SameMainLoop == Main!MainLoop => MainP!MainLoop
BY SameCfg
   DEF Main!MainLoop, Main!Check, Main!SelectReady, Main!SelectQuiet, Main!Accept,
       Main!AcceptFails, Main!Refuse, Main!Admit, Main!SetTimeout, Main!TimeoutFails,
       Main!Count, Main!Spawn, Main!SpawnThrows, Main!HangUp, Main!Full,
       MainP!MainLoop, MainP!Check, MainP!SelectReady, MainP!SelectQuiet, MainP!Accept,
       MainP!AcceptFails, MainP!Refuse, MainP!Admit, MainP!SetTimeout, MainP!TimeoutFails,
       MainP!Count, MainP!Spawn, MainP!SpawnThrows, MainP!HangUp, MainP!Full

LEMMA SameShutdown == Main!Shutdown => MainP!Shutdown
BY DEF Main!Shutdown, Main!CloseListener, Main!Poll, Main!LeaveMain, Main!Exit,
       Main!Patient, Main!NobodyLeft,
       MainP!Shutdown, MainP!CloseListener, MainP!Poll, MainP!LeaveMain, MainP!Exit,
       MainP!Patient, MainP!NobodyLeft

LEMMA SameOutside ==
  /\ Main!Signal => MainP!Signal
  /\ \A c \in Conns : Main!Connect(c) => MainP!Connect(c)
  /\ \A i \in 1 .. Backlog : Main!GiveUp(i) => MainP!GiveUp(i)
BY DEF Main!Signal, MainP!Signal, Main!Over, MainP!Over, Main!Connect, MainP!Connect,
       Main!Queued, MainP!Queued, Main!Counted, MainP!Counted, Main!GiveUp, MainP!GiveUp

LEMMA SameWorker ==
  \A c \in Conns :
    /\ Main!Handle(c) => MainP!Handle(c)
    /\ Main!CountOut(c) => MainP!CountOut(c)
    /\ Main!BrokenPipe(c) => MainP!BrokenPipe(c)
BY DEF Main!Handle, MainP!Handle, Main!CountOut, MainP!CountOut, Main!BrokenPipe,
       MainP!BrokenPipe, Main!Over, MainP!Over

LEMMA SameMain == [Main!Next]_(Main!vars) => [MainP!Next]_(MainP!vars)
BY SameStartUp, SameMainLoop, SameShutdown, SameOutside, SameWorker
   DEF Main!Next, MainP!Next, Main!vars, MainP!vars

LEMMA SameCalls ==
  \A t \in Conns :
    /\ \A a \in Ips : Limiter!Call(t, a) => LimiterP!Call(t, a)
    /\ \A a \in Ips : Limiter!CallDisabled(t, a) => LimiterP!CallDisabled(t, a)
    /\ Limiter!Lock(t) => LimiterP!Lock(t)
    /\ Limiter!OpenWindow(t) => LimiterP!OpenWindow(t)
    /\ Limiter!Admit(t) => LimiterP!Admit(t)
    /\ Limiter!Deny(t) => LimiterP!Deny(t)
<1>1. \A table, r : Limiter!Swept(table, r) = LimiterP!Swept(table, r)
  BY DEF Limiter!Swept, LimiterP!Swept, Limiter!Purged, LimiterP!Purged, Limiter!Expired,
         LimiterP!Expired, Limiter!Cardinality, LimiterP!Cardinality,
         Limiter!IsFiniteSet, LimiterP!IsFiniteSet
<1>2. \A table, a : Limiter!WithBucket(table, a) = LimiterP!WithBucket(table, a)
  BY DEF Limiter!WithBucket, LimiterP!WithBucket, Limiter!Fresh, LimiterP!Fresh
<1>3. ASSUME NEW t \in Conns, Limiter!Lock(t)  PROVE LimiterP!Lock(t)
  BY <1>1, <1>2, <1>3 DEF Limiter!Lock, LimiterP!Lock, Limiter!MutexFree, LimiterP!MutexFree
<1> QED
  BY <1>3 DEF Limiter!Call, LimiterP!Call, Limiter!CallDisabled, LimiterP!CallDisabled,
              Limiter!OpenWindow, LimiterP!OpenWindow, Limiter!Admit, LimiterP!Admit,
              Limiter!Deny, LimiterP!Deny, Limiter!Return, LimiterP!Return,
              Limiter!StartsWindow, LimiterP!StartsWindow, Limiter!Expired,
              LimiterP!Expired, Limiter!Spent, LimiterP!Spent, Limiter!Fresh,
              LimiterP!Fresh

LEMMA SameLimiter == [Limiter!Next]_(Limiter!vars) => [LimiterP!Next]_(LimiterP!vars)
BY SameCalls
   DEF Limiter!Next, LimiterP!Next, Limiter!vars, LimiterP!vars, Limiter!Tick,
       LimiterP!Tick, Limiter!Finish, LimiterP!Finish

\* Every step of the process is a step of main or leaves main alone, and it is
\* a step of the limiter or leaves the limiter alone.
LEMMA StepOfParts ==
  ASSUME [Next]_vars
  PROVE  [Main!Next]_(Main!vars) /\ [Limiter!Next]_(Limiter!vars)
<1>1. ASSUME UNCHANGED mainVars  PROVE [Main!Next]_(Main!vars)
  BY <1>1 DEF mainVars, Main!vars
<1>2. ASSUME UNCHANGED limiterVars  PROVE [Limiter!Next]_(Limiter!vars)
  BY <1>2 DEF limiterVars, Limiter!vars
<1>3. CASE MainThread \/ Outside
  BY <1>2, <1>3 DEF MainThread, Outside, Main!Next
<1>4. CASE Tick
  BY <1>1, <1>4 DEF Tick, Limiter!Next
<1>5. ASSUME NEW c \in Conns, Proceed(c)
      PROVE  [Main!Next]_(Main!vars) /\ [Limiter!Next]_(Limiter!vars)
  <2>1. CASE Read(c) \/ Decide(c) \/ OpenUpstream(c) \/ NoUpstream(c) \/ CloseUpstream(c)
    BY <1>1, <1>2, <2>1 DEF Read, Decide, OpenUpstream, NoUpstream, CloseUpstream
  <2>2. CASE EnterLimiter(c) \/ PassLimiter(c) \/ LeaveLimiter(c)
    BY <1>1, <2>2 DEF EnterLimiter, PassLimiter, LeaveLimiter, Limiter!Next
  <2>3. CASE Leave(c) \/ CountOut(c)
    BY <1>2, <2>3 DEF Leave, CountOut, Main!Next
  <2> QED  BY <1>5, <2>1, <2>2, <2>3 DEF Proceed
<1>6. ASSUME NEW c \in Conns, Lock(c)
      PROVE  [Main!Next]_(Main!vars) /\ [Limiter!Next]_(Limiter!vars)
  BY <1>1, <1>6 DEF Lock, Limiter!Next
<1>7. ASSUME NEW c \in Conns, Answer(c) \/ BrokenPipe(c)
      PROVE  [Main!Next]_(Main!vars) /\ [Limiter!Next]_(Limiter!vars)
  BY <1>2, <1>7 DEF Answer, BrokenPipe, Main!Next
<1>8. CASE UNCHANGED vars
  BY <1>1, <1>2, <1>8 DEF vars
<1> QED  BY <1>3, <1>4, <1>5, <1>6, <1>7, <1>8 DEF Next

\* The parts as they are specified alone are what the process runs: what holds
\* of every behaviour of main or of the limiter holds of the process.
THEOREM PartsAreImplemented ==
  Spec => /\ Main!Init /\ [][Main!Next]_(Main!vars)
          /\ Limiter!Init /\ [][Limiter!Next]_(Limiter!vars)
<1>1. Init => Main!Init /\ Limiter!Init
  BY DEF Init
<1>2. [Next]_vars => [Main!Next]_(Main!vars) /\ [Limiter!Next]_(Limiter!vars)
  BY StepOfParts
<1> QED  BY <1>1, <1>2, PTL DEF Spec
-----------------------------------------------------------------------------
LEMMA PartsInit == Init => PartsInv
<1>1. Init => MainP!Inv /\ MainP!StartOK
  BY SameInit, MainConstants, MainP!InitInv
<1>2. Init => LimiterP!Inv
  BY SameInit, LimiterConstants, LimiterP!InitInv
<1> QED  BY <1>1, <1>2 DEF PartsInv

LEMMA PartsStep == PartsInv /\ [Next]_vars => PartsInv'
<1> SUFFICES ASSUME PartsInv, [Next]_vars  PROVE PartsInv'
  OBVIOUS
<1>1. [MainP!Next]_(MainP!vars) /\ [LimiterP!Next]_(LimiterP!vars)
  BY StepOfParts, SameMain, SameLimiter
<1>2. MainP!Inv' /\ MainP!StartOK'
  BY <1>1, MainConstants, MainP!StepInv DEF PartsInv
<1>3. LimiterP!Inv'
  BY <1>1, LimiterConstants, LimiterP!StepInv DEF PartsInv
<1> QED  BY <1>2, <1>3 DEF PartsInv

\* What main's thread does to the workers: it starts some for connections that
\* have none.
LEMMA MainStarts ==
  ASSUME PartsInv, Main!StartUp \/ Main!MainLoop \/ Main!Shutdown, NEW c \in Conns
  PROVE  worker'[c] = worker[c] \/ (worker[c] = "none" /\ worker'[c] = "handling")
<1>1. CASE Main!Spawn
  <2>1. MainP!Spawn
    BY <1>1 DEF Main!Spawn, MainP!Spawn
  <2>2. cs \in Conns /\ cs \notin MainP!Counted
    BY <2>1, MainConstants, MainP!SpawnTakes DEF PartsInv
  <2>3. worker \in [Conns -> {"none", "handling", "handled"}]
    BY DEF PartsInv, MainP!Inv, MainP!TypeOK
  <2>4. worker[cs] = "none" /\ worker' = [worker EXCEPT ![cs] = "handling"]
    BY <1>1, <2>2 DEF MainP!Counted, Main!Spawn
  <2> QED  BY <2>2, <2>3, <2>4
<1>2. CASE UNCHANGED worker
  BY <1>2
<1>3. Main!Spawn \/ UNCHANGED worker
  BY DEF Main!StartUp, Main!ConfigError, Main!Configured, Main!NetFails, Main!NetUp,
         Main!BindUnresolved, Main!BindResolved, Main!OpenSocket, Main!NoSocket,
         Main!Listen, Main!ListenFails, Main!NoListener, Main!Fail,
         Main!MainLoop, Main!Check, Main!SelectReady, Main!SelectQuiet, Main!Accept,
         Main!AcceptFails, Main!Refuse, Main!Admit, Main!SetTimeout, Main!TimeoutFails,
         Main!Count, Main!SpawnThrows, Main!HangUp,
         Main!Shutdown, Main!CloseListener, Main!Poll, Main!LeaveMain, Main!Exit
<1> QED  BY <1>1, <1>2, <1>3

\* Whoever ends the process leaves its sockets as they are, and before that
\* StartOK says which there are.
LEMMA OneListener ==
  ASSUME PartsInv', [Main!Next]_(Main!vars), "socket" \notin up \/ "listener" \notin up
  PROVE  "socket" \notin up' \/ "listener" \notin up'
<1>1. CASE main' = "terminated"
  <2>1. UNCHANGED up
    BY <1>1
       DEF Main!Next, Main!vars, Main!Signal, Main!Connect, Main!GiveUp, Main!StartUp,
           Main!ConfigError, Main!Configured, Main!NetFails, Main!NetUp,
           Main!BindUnresolved, Main!BindResolved, Main!OpenSocket, Main!NoSocket,
           Main!Listen, Main!ListenFails, Main!NoListener, Main!Fail,
           Main!MainLoop, Main!Check, Main!SelectReady, Main!SelectQuiet, Main!Accept,
           Main!AcceptFails, Main!Refuse, Main!Admit, Main!SetTimeout,
           Main!TimeoutFails, Main!Count, Main!Spawn, Main!SpawnThrows, Main!HangUp,
           Main!Shutdown, Main!CloseListener, Main!Poll, Main!LeaveMain, Main!Exit,
           Main!Handle, Main!CountOut, Main!BrokenPipe
  <2> QED  BY <2>1
<1>2. CASE main' # "terminated"
  BY <1>2 DEF PartsInv, MainP!Inv, MainP!TypeOK, MainP!StartOK, MainP!StartingUp,
              MainP!Loop, MainP!Over
<1> QED  BY <1>1, <1>2

LEMMA AgreeInit == Init => Agree
BY DEF Init, Main!Init, Limiter!Init, Agree, Stages

LEMMA AgreeStep ==
  ASSUME PartsInv, PartsInv', Agree, [Next]_vars
  PROVE  Agree'
<1> DEFINE Workers == worker \in [Conns -> {"none", "handling", "handled"}]
           Calls == pc \in [Conns -> {"idle", "waiting", "locked"}]
<1>1. Workers /\ Calls /\ Workers' /\ Calls'
  BY DEF PartsInv, MainP!Inv, MainP!TypeOK, LimiterP!Inv, LimiterP!TypeOK
<1>2. "socket" \notin up' \/ "listener" \notin up'
  BY StepOfParts, OneListener DEF Agree
<1>3. CASE MainThread
  <2>1. /\ stage' = [c \in Conns |-> IF worker[c] = "none" /\ worker'[c] = "handling"
                                    THEN "reading" ELSE stage[c]]
        /\ UNCHANGED <<pc, upstream>>
    BY <1>3 DEF MainThread, limiterVars
  <2>2. \A c \in Conns : \/ worker'[c] = worker[c]
                         \/ worker[c] = "none" /\ worker'[c] = "handling"
    BY <1>3, MainStarts DEF MainThread
  <2> QED  BY <1>1, <1>2, <2>1, <2>2 DEF Agree, Stages
<1>4. CASE Outside \/ Tick \/ UNCHANGED vars
  <2>1. UNCHANGED <<worker, pc, stage, upstream>>
    BY <1>4 DEF Outside, Main!Signal, Main!Connect, Main!GiveUp, Tick, Limiter!Tick, vars,
                mainVars, limiterVars
  <2> QED  BY <1>2, <2>1 DEF Agree
<1>5. ASSUME NEW c \in Conns,
             Read(c) \/ Decide(c) \/ OpenUpstream(c) \/ NoUpstream(c) \/ CloseUpstream(c)
      PROVE  Agree'
  <2>1. /\ UNCHANGED <<worker, pc>>
        /\ stage[c] \in {"reading", "deciding", "forwarding", "asking"}
        /\ \E s \in Stages \ {"none"} :
             /\ stage' = [stage EXCEPT ![c] = s]
             /\ upstream' = IF s = "asking" THEN upstream \cup {c} ELSE upstream \ {c}
    BY <1>5 DEF Read, Decide, OpenUpstream, NoUpstream, CloseUpstream, At, GoesTo, mainVars,
                limiterVars, Stages, Agree
  <2> QED  BY <1>1, <1>2, <2>1 DEF Agree
<1>6. ASSUME NEW c \in Conns,
             EnterLimiter(c) \/ PassLimiter(c) \/ Lock(c) \/ LeaveLimiter(c)
      PROVE  Agree'
  <2>1. UNCHANGED <<worker, upstream>> /\ stage[c] = "limiting"
    BY <1>6 DEF EnterLimiter, PassLimiter, Lock, LeaveLimiter, At, mainVars
  <2>2. \A d \in Conns : d # c => pc'[d] = pc[d]
    BY <1>1, <1>6 DEF EnterLimiter, PassLimiter, Lock, LeaveLimiter, Limiter!Call,
                      Limiter!CallDisabled, Limiter!Lock, Limiter!Finish,
                      Limiter!OpenWindow, Limiter!Admit, Limiter!Deny, Limiter!Return
  <2>3. \/ stage' = stage
        \/ pc'[c] = "idle" /\ \E s \in {"deciding", "answering"} :
                                  stage' = [stage EXCEPT ![c] = s]
    BY <1>1, <1>6 DEF EnterLimiter, PassLimiter, Lock, LeaveLimiter, GoesTo,
                      Limiter!CallDisabled, Limiter!Finish, Limiter!OpenWindow,
                      Limiter!Admit, Limiter!Deny, Limiter!Return
  <2> QED  BY <1>1, <1>2, <2>1, <2>2, <2>3 DEF Agree, Stages
<1>7. ASSUME NEW c \in Conns, Answer(c) \/ Leave(c)  PROVE Agree'
  <2>1. /\ UNCHANGED <<pc, upstream>> /\ stage[c] \in {"answering", "leaving"}
        /\ stage' = [stage EXCEPT ![c] = "none"]
        /\ worker' = [worker EXCEPT ![c] = "handled"]
    BY <1>7 DEF Answer, Leave, At, GoesTo, Main!Handle, limiterVars
  <2> QED  BY <1>1, <1>2, <2>1 DEF Agree, Stages
<1>8. ASSUME NEW c \in Conns, CountOut(c)  PROVE Agree'
  <2>1. /\ UNCHANGED <<pc, stage, upstream>> /\ worker[c] = "handled"
        /\ worker' = [worker EXCEPT ![c] = "none"]
    BY <1>8 DEF CountOut, Main!CountOut, limiterVars
  <2> QED  BY <1>1, <1>2, <2>1 DEF Agree
<1>9. ASSUME NEW c \in Conns, BrokenPipe(c)  PROVE Agree'
  BY <1>2, <1>9 DEF BrokenPipe, Main!BrokenPipe, limiterVars, Agree
<1> QED  BY <1>3, <1>4, <1>5, <1>6, <1>7, <1>8, <1>9 DEF Next, Proceed

LEMMA InvHolds == Spec => []Inv
<1>1. Init => Inv
  BY PartsInit, AgreeInit DEF Inv
<1>2. Inv /\ [Next]_vars => Inv'
  BY PartsStep, AgreeStep DEF Inv
<1> QED  BY <1>1, <1>2, PTL DEF Spec
-----------------------------------------------------------------------------
\* Every variable of the process keeps its type, and the stage of a worker
\* agrees with its place in the pool, its call of the limiter and its upstream.
THEOREM TypeCorrect == Spec => []TypeOK
<1>1. Inv => TypeOK
  BY SameTypes DEF Inv, PartsInv, MainP!Inv, LimiterP!Inv, Agree, TypeOK
<1> QED  BY InvHolds, <1>1, PTL

\* Whatever the clients, the upstreams and the signal do, and however the
\* workers interleave: MAX_CLIENTS bounds the sockets of the process.
THEOREM DescriptorsAreBounded == Spec => []DescriptorsBounded
<1>1. Inv => DescriptorsBounded
  <2> SUFFICES ASSUME Inv  PROVE DescriptorsBounded
    OBVIOUS
  <2> DEFINE listening == up \ {"net"}
             max == MainP!MaxClients
  <2>1. MainP!SocketsBounded /\ max \in Nat \ {0}
    BY MainConstants, MainP!OpenBounded, MainP!Capacity DEF Inv, PartsInv, MainP!Inv
  <2>2. Cardinality(open) <= max + 1
    BY <2>1 DEF MainP!SocketsBounded, MainP!Cardinality, Cardinality
  <2>3. IsFiniteSet(Conns)
    BY PartsAssumption DEF Main!IsFiniteSet, IsFiniteSet
  <2>4. Cardinality(open) \in Nat
    BY <2>3, FS_Subset, FS_CardinalityType DEF Inv, PartsInv, MainP!Inv, MainP!TypeOK
  <2>5. upstream \subseteq MainP!Counted /\ MainP!Counted \subseteq Conns
    BY DEF Inv, Agree, MainP!Counted
  <2>6. Cardinality(MainP!Counted) <= max
    BY DEF Inv, PartsInv, MainP!Inv, MainP!RoomOK, MainP!Cardinality, Cardinality
  <2>7. /\ Cardinality(upstream) \in Nat /\ Cardinality(MainP!Counted) \in Nat
        /\ Cardinality(upstream) <= Cardinality(MainP!Counted)
    <3>1. IsFiniteSet(MainP!Counted)
      BY <2>3, <2>5, FS_Subset
    <3>2. /\ IsFiniteSet(upstream)
          /\ Cardinality(upstream) <= Cardinality(MainP!Counted)
      BY <2>5, <3>1, FS_Subset
    <3> QED  BY <3>1, <3>2, FS_CardinalityType
  <2>8. Cardinality(listening) \in Nat /\ Cardinality(listening) <= 1
    <3>1. listening = {} \/ listening = {"socket"} \/ listening = {"listener"}
      BY DEF Inv, Agree, PartsInv, MainP!Inv, MainP!TypeOK
    <3>2. /\ Cardinality({}) = 0
          /\ Cardinality({"socket"}) = 1 /\ Cardinality({"listener"}) = 1
      BY FS_EmptySet, FS_Singleton
    <3>3. Cardinality(listening) = 0 \/ Cardinality(listening) = 1
      BY <3>1, <3>2
    <3> QED  BY <3>3
  <2> HIDE DEF listening, max
  <2>9. Cardinality(open) + Cardinality(upstream) + Cardinality(listening) <= 2 * max + 2
    BY <2>1, <2>2, <2>4, <2>6, <2>7, <2>8
  <2> QED  BY <2>9, SameCfg DEF listening, max, DescriptorsBounded
<1> QED  BY InvHolds, <1>1, PTL

\* A drain that ends before its polls are used up ends with the limiter unused
\* and unlocked and with no exchange under way (main.cpp:159-163).
THEOREM EarlyStopIsClean == Spec => []EarlyStopReleasesAll
<1>1. Inv => EarlyStopReleasesAll
  <2> SUFFICES ASSUME Inv, main \in {"returned", "exited"}, polls < MaxPolls
               PROVE  /\ mutex = None /\ \A c \in Conns : pc[c] = "idle" /\ stage[c] = "none"
                      /\ upstream = {}
    BY DEF EarlyStopReleasesAll
  <2>1. MainP!Counted = {}
    BY DEF Inv, PartsInv, MainP!Inv, MainP!EarlyStopIsClean
  <2>2. \A c \in Conns : pc[c] = "idle" /\ stage[c] = "none"
    BY <2>1 DEF MainP!Counted, Inv, Agree
  <2>3. mutex = None
    BY <2>2 DEF Inv, PartsInv, LimiterP!Inv, LimiterP!TypeOK, LimiterP!CallOK
  <2> QED  BY <2>2, <2>3 DEF Inv, Agree
<1> QED  BY InvHolds, <1>1, PTL
-----------------------------------------------------------------------------
(* What the parts promise, of the process as a whole.                      *)

LEMMA SameServerPromises ==
  /\ MainP!SocketsOwned => Main!SocketsOwned
  /\ MainP!StartIsAllOrNothing => Main!StartIsAllOrNothing
  /\ MainP!AtMostOneLate => Main!AtMostOneLate
<1>1. MainP!SocketsOwned => Main!SocketsOwned
  BY DEF MainP!SocketsOwned, Main!SocketsOwned, MainP!Handling, Main!Handling,
         MainP!Counted, Main!Counted
<1>2. MainP!StartIsAllOrNothing => Main!StartIsAllOrNothing
  BY SameCfg DEF MainP!StartIsAllOrNothing, Main!StartIsAllOrNothing, MainP!Usable,
                 Main!Usable, MainP!Loop, Main!Loop
<1>3. MainP!AtMostOneLate => Main!AtMostOneLate
  BY DEF MainP!AtMostOneLate, Main!AtMostOneLate
<1> QED  BY <1>1, <1>2, <1>3

LEMMA SameLimiterPromises ==
  /\ LimiterP!TallyExact => Limiter!TallyExact
  /\ LimiterP!WindowWithinLimit => Limiter!WindowWithinLimit
<1>1. LimiterP!TallyExact => Limiter!TallyExact
  BY DEF LimiterP!TallyExact, Limiter!TallyExact, LimiterP!AsBucket, Limiter!AsBucket,
         LimiterP!Fresh, Limiter!Fresh
<1>2. LimiterP!WindowWithinLimit => Limiter!WindowWithinLimit
  BY DEF LimiterP!WindowWithinLimit, Limiter!WindowWithinLimit
<1> QED  BY <1>1, <1>2

\* main.cpp:52 and :129-157 with RateLimiter.h:18-36 called by its workers: no
\* socket is lost, the start is whole or nothing, one worker at most is late,
\* and no grant is lost or beyond the limit.
THEOREM PartsKeepTheirPromises ==
  Spec => [](/\ Main!SocketsOwned /\ Main!StartIsAllOrNothing /\ Main!AtMostOneLate
             /\ Limiter!TallyExact /\ Limiter!WindowWithinLimit)
<1>1. Inv => MainP!SocketsOwned /\ MainP!AtMostOneLate
  BY DEF Inv, PartsInv, MainP!Inv, MainP!LateOK, MainP!AtMostOneLate
<1>2. Inv => MainP!StartIsAllOrNothing
  BY MainConstants, MainP!WholeOrNotAtAll DEF Inv, PartsInv
<1>3. Inv => LimiterP!TallyExact /\ LimiterP!WindowWithinLimit
  BY DEF Inv, PartsInv, LimiterP!Inv
<1>4. Inv => /\ Main!SocketsOwned /\ Main!StartIsAllOrNothing /\ Main!AtMostOneLate
             /\ Limiter!TallyExact /\ Limiter!WindowWithinLimit
  BY <1>1, <1>2, <1>3, SameServerPromises, SameLimiterPromises
<1> QED  BY InvHolds, <1>4, PTL

\* The process with all its workers in the limiter, at an upstream or gone by a
\* broken pipe is still a pool of MAX_CLIENTS places.
THEOREM ProcessIsPool == Spec => MainP!PoolSpec
<1>1. Init => MainP!Places!Init
  BY SameInit, MainConstants, MainP!PoolInit
<1>2. Inv /\ [Next]_vars => [MainP!Places!Next]_(MainP!Places!vars)
  <2>1. [Next]_vars => [MainP!Next]_(MainP!vars)
    BY StepOfParts, SameMain
  <2> QED  BY <2>1, MainConstants, MainP!PoolStep DEF Inv, PartsInv
<1>3. Spec => MainP!Places!Spec
  BY <1>1, <1>2, InvHolds, PTL DEF Spec, MainP!Places!Spec
<1> QED  BY <1>3 DEF MainP!PoolSpec

\* And, while its addresses fit in the table, its workers together implement the
\* fixed-window quota of RateLimiter.h:2.
THEOREM ProcessKeepsQuota == ASSUME LimiterP!FewAddresses PROVE Spec => LimiterP!QuotaSpec
<1>1. Init => LimiterP!Quota!Init /\ LimiterP!Remembered
  <2>1. Init => LimiterP!Remembered
    BY SameInit, LimiterConstants, LimiterP!InitInv
  <2>2. Init => LimiterP!Quota!Init
    BY SameInit, LimiterConstants, LimiterP!InitQuota
  <2> QED  BY <2>1, <2>2
<1>2. Inv /\ [Next]_vars => [LimiterP!Next]_(LimiterP!vars) /\ LimiterP!Inv
  BY StepOfParts, SameLimiter DEF Inv, PartsInv
<1>3. LimiterP!FewAddresses
  OBVIOUS
<1>4. Inv /\ LimiterP!Remembered /\ [Next]_vars => LimiterP!Remembered'
  BY <1>2, <1>3, LimiterConstants, LimiterP!StepRemembered
<1>5. Inv /\ LimiterP!Remembered /\ [Next]_vars
        => [LimiterP!Quota!Next]_(LimiterP!Quota!quotaVars)
  BY <1>2, LimiterConstants, LimiterP!StepSimulates
<1>6. Spec => LimiterP!Quota!Spec
  BY <1>1, <1>4, <1>5, InvHolds, PTL DEF Spec, LimiterP!Quota!Spec
<1> QED  BY <1>6 DEF LimiterP!QuotaSpec
=============================================================================
