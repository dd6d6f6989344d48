----------------------------- MODULE ProxyProofs -----------------------------
(***************************************************************************)
(* For any calls, any response and any sizes: forwardRequest gives back    *)
(* its sockets, blocks a bounded number of times, sends the request once   *)
(* to the path its base URL says, and what it relays depends on the        *)
(* response alone.                                                         *)
(***************************************************************************)
EXTENDS Proxy, SequenceTheorems, WellFoundedInduction, TLAPS

Exchanging == {"send", "recv", "judge"}

\* One socket, while it is in use.
SockOK ==
  /\ pc \in {"connect", "send", "recv"} => sock = 1
  /\ pc \notin {"connect", "send", "recv"} => sock = 0

\* How far the exchange has come.
ProgressOK ==
  /\ pc # "returned" <=> verdict = "none"
  /\ pc = "connect" => left > 0
  /\ pc \in {"url", "address", "connect"} => sent = 0
  /\ pc \in {"url", "address", "connect", "send"} => raw = 0
  /\ pc = "send" => sent < Wire
  /\ pc \in {"recv", "judge"} => sent = Wire
  /\ pc = "judge" => raw = response.total /\ raw < MaxBytes
  /\ verdict = "relayed" => Proper(response) /\ sent = Wire /\ raw = response.total
  /\ verdict = "timeout" => sent = 0

\* Every call that may block brings the exchange on: to the next address, by a
\* byte that is sent, by a byte that is received.
WaitsOK ==
  /\ pc = "url" => waits = 0
  /\ pc \in {"address", "connect"} => waits + left <= MaxAddresses
  /\ pc = "send" => waits <= MaxAddresses + sent
  /\ pc = "recv" => waits <= MaxAddresses + Wire + raw
  /\ waits <= MaxAddresses + Wire + MaxBytes

\* The request line is written once the connection is there.
TargetOK ==
  /\ pc \in Exchanging => target = Prefix \o call.path
  /\ target # << >> => target = Prefix \o call.path

\* The inductive invariant.
Inv ==
  /\ call \in Calls
  /\ TypeOK
  /\ SockOK
  /\ ProgressOK
  /\ WaitsOK
  /\ TargetOK
-----------------------------------------------------------------------------
\* A set of natural numbers that is not empty has a least element.
LEMMA Least ==
  ASSUME NEW T, T \subseteq Nat, T # {}
  PROVE  \E m \in T : \A y \in T : m <= y
<1>1. IsWellFoundedOn(OpToRel(<, Nat), Nat)
  BY NatLessThanWellFounded
<1>2. PICK m \in T : \A y \in T : ~(<<y, m>> \in OpToRel(<, Nat))
  BY <1>1, WFMin, Zenon
<1>3. \A y \in T : y < m => <<y, m>> \in OpToRel(<, Nat)
  BY DEF OpToRel
<1>4. \A y \in T : ~(y < m)
  BY <1>2, <1>3, Zenon
<1> QED  BY <1>4

\* And one with a bound has a last one.
LEMMA Last ==
  ASSUME NEW n \in Nat, NEW S, S \subseteq 1 .. n, S # {}
  PROVE  \E k \in S : \A j \in S : j <= k
<1> DEFINE T == {n - i : i \in S}
<1>1. T \subseteq Nat /\ T # {}
  <2>1. \A i \in S : n - i \in Nat
    OBVIOUS
  <2> QED  BY <2>1
<1>2. PICK m \in T : \A y \in T : m <= y
  BY <1>1, Least
<1>3. PICK k \in S : m = n - k
  BY <1>2
<1>4. \A j \in S : m <= n - j
  BY <1>2
<1> QED  BY <1>3, <1>4

\* The indices of s up to the last element that is not empty, the first in any
\* case, are those up to k.
IsKept(s, n, kept) ==
  /\ kept \subseteq 1 .. n
  /\ \A i \in 1 .. n : i \in kept <=> (i = 1 \/ \E j \in 1 .. n : i <= j /\ s[j] # Empty)

CutsAt(s, n, kept, k) ==
  /\ kept = 1 .. k
  /\ k > 1 => s[k] # Empty
  /\ \A i \in k + 1 .. n : s[i] = Empty

LEMMA CutIndex ==
  ASSUME NEW s, NEW n \in Nat, NEW kept, IsKept(s, n, kept)
  PROVE  \E k \in 0 .. n : CutsAt(s, n, kept, k)
<1> USE DEF IsKept, CutsAt
<1>1. CASE n = 0
  <2>1. kept = 1 .. 0
    <3>1. \A i \in kept : i \in 1 .. 0
      BY <1>1
    <3> QED  BY <3>1
  <2>2. CutsAt(s, n, kept, 0)
    BY <1>1, <2>1
  <2> HIDE DEF CutsAt
  <2> QED  BY <2>2
<1>2. CASE n # 0
  <2>1. 1 \in kept
    BY <1>2
  <2>2. PICK k \in kept : \A j \in kept : j <= k
    BY <2>1, Last
  <2>3. k \in 1 .. n
    OBVIOUS
  <2>4. \A i \in 1 .. k : i \in kept
    <3> SUFFICES ASSUME NEW i \in 1 .. k  PROVE i \in kept
      OBVIOUS
    <3>1. k = 1 \/ \E j \in 1 .. n : k <= j /\ s[j] # Empty
      BY <2>3
    <3> QED  BY <2>3, <3>1
  <2>5. kept = 1 .. k
    <3>1. \A i \in kept : i \in 1 .. k
      BY <2>2, <2>3
    <3> QED  BY <2>4, <3>1
  <2>6. k > 1 => s[k] # Empty
    <3> SUFFICES ASSUME k > 1  PROVE s[k] # Empty
      OBVIOUS
    <3>1. PICK j \in 1 .. n : k <= j /\ s[j] # Empty
      BY <2>3
    <3>2. j \in kept
      BY <3>1
    <3> QED  BY <2>2, <2>3, <3>1, <3>2
  <2>7. \A i \in k + 1 .. n : s[i] = Empty
    <3> SUFFICES ASSUME NEW i \in k + 1 .. n, s[i] # Empty  PROVE FALSE
      OBVIOUS
    <3>1. i \in kept
      BY <2>3
    <3> QED  BY <2>2, <2>3, <3>1
  <2> QED  BY <2>3, <2>5, <2>6, <2>7
<1> QED  BY <1>1, <1>2

\* Line 52 cuts slashes off the end and nothing else.
LEMMA PrefixCut ==
  ASSUME call \in Calls
  PROVE  \E k \in 0 .. Len(base.path) :
           /\ Prefix = SubSeq(base.path, 1, k)
           /\ k > 1 => base.path[k] # Empty
           /\ \A i \in k + 1 .. Len(base.path) : base.path[i] = Empty
<1> DEFINE s == base.path
           n == Len(s)
           kept == {i \in DOMAIN s : i = 1 \/ \E j \in DOMAIN s : i <= j /\ s[j] # Empty}
<1>1. s \in Seq(STRING)
  BY CallsAssumption DEF base
<1>2. n \in Nat /\ DOMAIN s = 1 .. n
  BY <1>1, LenProperties
<1>3. Prefix = [i \in kept |-> s[i]]
  BY DEF Prefix
<1>4. IsKept(s, n, kept)
  BY <1>2 DEF IsKept
<1> HIDE DEF kept, n, s
<1>5. PICK k \in 0 .. n : CutsAt(s, n, kept, k)
  BY <1>2, <1>4, CutIndex
<1>6. SubSeq(s, 1, k) = [i \in 1 .. k |-> s[i]]
  BY <1>1, <1>2, <1>5
<1> QED  BY <1>3, <1>5, <1>6 DEF s, n, CutsAt
-----------------------------------------------------------------------------
LEMMA Typed ==
  ASSUME Inv
  PROVE  /\ Prefix \o call.path \in Seq(STRING)
         /\ response.total \in Nat /\ response.head \in Nat /\ response.status \in Int
<1>1. base.path \in Seq(STRING) /\ call.path \in Seq(STRING)
  BY CallsAssumption DEF Inv, base
<1>2. PICK k \in 0 .. Len(base.path) : Prefix = SubSeq(base.path, 1, k)
  BY PrefixCut DEF Inv
<1>3. Prefix \in Seq(STRING)
  BY <1>1, <1>2
<1>4. Prefix \o call.path \in Seq(STRING)
  BY <1>1, <1>3
<1> QED  BY <1>4, CallsAssumption DEF Inv, response

LEMMA InitInv == Init => Inv
<1> SUFFICES ASSUME Init  PROVE Inv
  OBVIOUS
<1>1. response.total \in Nat
  BY CallsAssumption DEF Init, response
<1>2. << >> \in Seq(STRING)
  OBVIOUS
<1>3. timedOut \in BOOLEAN
  BY Zenon DEF Init
<1>4. TypeOK
  BY <1>1, <1>2, <1>3, SizesAssumption DEF Init, TypeOK
<1> QED  BY <1>4, SizesAssumption
         DEF Init, Inv, SockOK, ProgressOK, WaitsOK, TargetOK, Exchanging, response

\* The address and the sockets that never connect.
LEMMA AddressInv ==
  ASSUME Inv,
         \/ BadUrl \/ ResolveFails \/ Resolve \/ OpenSocket \/ NoSocket
         \/ ConnectFails \/ ConnectTimesOut \/ NotConnected
  PROVE  Inv'
<1> USE SizesAssumption
    DEF BadUrl, ResolveFails, Resolve, OpenSocket, NoSocket, ConnectFails, ConnectTimesOut,
        NotConnected, Return, Close, Wait
<1>1. UNCHANGED <<call, target, sent, raw>>
  OBVIOUS
<1>2. UNCHANGED <<Prefix, response, base>>
  BY <1>1 DEF Prefix, base, response
<1>3. TypeOK'
  <2>1. left' \in 0 .. MaxAddresses /\ sock' \in Nat
    BY DEF Inv, TypeOK, SockOK, ProgressOK
  <2>2. /\ pc' \in {"url", "address", "connect", "returned"}
        /\ waits' \in Nat
        /\ verdict' \in {"none", "timeout", "failed"} /\ slow' \in {"none", "connect", "send", "recv"}
    BY DEF Inv, TypeOK, ProgressOK
  <2>3. timedOut' \in BOOLEAN
    BY Zenon DEF Inv, TypeOK
  <2> QED  BY <1>1, <1>2, <2>1, <2>2, <2>3 DEF Inv, TypeOK
<1>4. SockOK'
  BY DEF Inv, SockOK
<1>5. ProgressOK'
  BY <1>1, <1>2 DEF Inv, TypeOK, ProgressOK, Proper
<1>6. WaitsOK'
  BY <1>1 DEF Inv, TypeOK, WaitsOK, ProgressOK
<1>7. TargetOK'
  BY <1>1, <1>2 DEF Inv, TargetOK, Exchanging
<1> QED  BY <1>1, <1>3, <1>4, <1>5, <1>6, <1>7 DEF Inv

LEMMA ConnectedInv ==
  ASSUME Inv, Connected
  PROVE  Inv'
<1> USE SizesAssumption DEF Connected, Wait
<1>1. /\ UNCHANGED <<call, left, sock, sent, raw, verdict>>
      /\ pc = "connect" /\ pc' = "send"
      /\ target' = Prefix \o call.path
  OBVIOUS
<1>2. UNCHANGED <<Prefix, response, base>>
  BY <1>1 DEF Prefix, base, response
<1>3. TypeOK'
  <2>1. target' \in Seq(STRING)
    BY <1>1, Typed
  <2>2. waits' \in Nat /\ slow' \in {"none", "connect", "send", "recv"}
    BY DEF Inv, TypeOK
  <2>3. timedOut' \in BOOLEAN
    BY Zenon
  <2> QED  BY <1>1, <1>2, <2>1, <2>2, <2>3 DEF Inv, TypeOK
<1>4. SockOK' /\ ProgressOK' /\ WaitsOK'
  BY <1>1, <1>2 DEF Inv, TypeOK, SockOK, ProgressOK, WaitsOK
<1>5. TargetOK'
  BY <1>1, <1>2 DEF TargetOK
<1> QED  BY <1>1, <1>3, <1>4, <1>5 DEF Inv

\* The exchange.
LEMMA SendInv ==
  ASSUME Inv, (\E n \in 1 .. Wire : Send(n)) \/ SendFails
  PROVE  Inv'
<1> USE SizesAssumption DEF Send, SendFails, Return, Close, Wait
<1>1. UNCHANGED <<call, left, target, raw>> /\ pc = "send"
  OBVIOUS
<1>2. UNCHANGED <<Prefix, response, base>>
  BY <1>1 DEF Prefix, base, response
<1>3. TypeOK'
  BY <1>1, <1>2 DEF Inv, TypeOK, SockOK
<1>4. SockOK' /\ ProgressOK' /\ WaitsOK'
  BY <1>1, <1>2 DEF Inv, TypeOK, SockOK, ProgressOK, WaitsOK
<1>5. TargetOK'
  BY <1>1, <1>2 DEF Inv, TargetOK, Exchanging
<1> QED  BY <1>1, <1>3, <1>4, <1>5 DEF Inv

LEMMA RecvInv ==
  ASSUME Inv, (\E n \in 1 .. Buf : Recv(n)) \/ RecvEnds \/ RecvFails \/ TooLarge
  PROVE  Inv'
<1> USE SizesAssumption
<1>1. /\ UNCHANGED <<call, left, timedOut, target, sent>> /\ pc = "recv"
      /\ slow' \in {"none", "recv", slow}
  BY DEF Recv, RecvEnds, RecvFails, TooLarge, Return, Wait
<1>2. UNCHANGED <<Prefix, response, base>>
  BY <1>1 DEF Prefix, base, response
<1>3. /\ raw \in Nat /\ response.total \in Nat /\ raw <= response.total /\ waits \in Nat
      /\ sock = 1 /\ verdict = "none" /\ sent = Wire
      /\ waits <= MaxAddresses + Wire + raw /\ waits <= MaxAddresses + Wire + MaxBytes
  BY <1>1, Typed DEF Inv, TypeOK, SockOK, ProgressOK, WaitsOK
\* What each of the four does to the other variables.
<1>4. \/ /\ raw' \in Nat /\ raw < raw' /\ raw' <= response.total /\ raw < MaxBytes
         /\ waits' = waits + 1
         /\ pc' = "recv" /\ sock' = 1 /\ verdict' = "none"
      \/ /\ raw' = raw /\ raw < MaxBytes /\ waits' = waits + 1 /\ sock' = 0
         /\ \/ pc' = "judge" /\ raw = response.total /\ verdict' = "none"
            \/ pc' = "returned" /\ verdict' = "failed"
      \/ /\ raw' = raw /\ waits' = waits /\ sock' = 0
         /\ pc' = "returned" /\ verdict' = "failed"
  <2>1. ASSUME NEW n \in 1 .. Buf, Recv(n)
        PROVE  /\ raw' \in Nat /\ raw < raw' /\ raw' <= response.total /\ raw < MaxBytes
               /\ waits' = waits + 1
               /\ pc' = "recv" /\ sock' = 1 /\ verdict' = "none"
    BY <1>1, <1>3, <2>1 DEF Recv, Room, Wait
  <2>2. CASE RecvEnds
    BY <1>3, <2>2 DEF RecvEnds, Room, Wait, Close
  <2>3. CASE RecvFails
    BY <1>3, <2>3 DEF RecvFails, Room, Wait, Close, Return
  <2>4. CASE TooLarge
    BY <1>3, <2>4 DEF TooLarge, Close, Return
  <2> QED  BY <2>1, <2>2, <2>3, <2>4
<1>5. TypeOK'
  <2>1. raw' \in 0 .. response'.total /\ waits' \in Nat /\ sock' \in Nat
    BY <1>2, <1>3, <1>4
  <2>2. pc' \in {"recv", "judge", "returned"} /\ verdict' \in {"none", "failed"}
    BY <1>4
  <2> QED  BY <1>1, <2>1, <2>2 DEF Inv, TypeOK
<1>6. SockOK'
  BY <1>4 DEF SockOK
<1>7. ProgressOK'
  BY <1>1, <1>2, <1>3, <1>4 DEF ProgressOK
<1>8. WaitsOK'
  BY <1>1, <1>3, <1>4 DEF WaitsOK
<1>9. TargetOK'
  BY <1>1, <1>2 DEF Inv, TargetOK, Exchanging
<1> QED  BY <1>1, <1>5, <1>6, <1>7, <1>8, <1>9 DEF Inv

LEMMA JudgeInv ==
  ASSUME Inv, Judge
  PROVE  Inv'
<1> USE DEF Judge, Return
<1>1. /\ UNCHANGED <<call, left, sock, timedOut, target, sent, raw, waits, slow>>
      /\ pc = "judge" /\ pc' = "returned"
      /\ verdict' = IF Readable THEN "relayed" ELSE "failed"
  OBVIOUS
<1>2. UNCHANGED <<Prefix, response, base>>
  BY <1>1 DEF Prefix, base, response
<1>3. TypeOK' /\ SockOK' /\ WaitsOK' /\ TargetOK'
  BY <1>1, <1>2 DEF Inv, TypeOK, SockOK, WaitsOK, TargetOK, Exchanging
<1>4. ProgressOK'
  <2>1. /\ sent = Wire /\ raw = response.total /\ raw < MaxBytes
    BY <1>1 DEF Inv, ProgressOK
  <2>2. verdict' = "relayed" => Proper(response)
    <3>1. verdict' = "relayed" => Readable
      BY <1>1
    <3>2. Readable => response.head \in 1 .. response.total /\ response.status \in 100 .. 599
      BY <2>1 DEF Readable
    <3> QED  BY <2>1, <3>1, <3>2 DEF Proper
  <2>3. Proper(response)' = Proper(response)
    BY <1>2 DEF Proper
  <2> QED  BY <1>1, <1>2, <2>1, <2>2, <2>3 DEF ProgressOK
<1> QED  BY <1>1, <1>3, <1>4 DEF Inv

\* Every step keeps the invariant.
LEMMA StepInv == Inv /\ [Next]_vars => Inv'
<1> SUFFICES ASSUME Inv, [Next]_vars  PROVE Inv'
  OBVIOUS
<1>1. CASE UNCHANGED vars
  <2>1. UNCHANGED <<Prefix, response, base>>
    BY <1>1 DEF vars, Prefix, base, response
  <2> QED  BY <1>1, <2>1 DEF vars, Inv, TypeOK, SockOK, ProgressOK, WaitsOK, TargetOK,
             Exchanging, Proper
<1> QED  BY <1>1, AddressInv, ConnectedInv, SendInv, RecvInv, JudgeInv DEF Next
-----------------------------------------------------------------------------
\* The types hold.
THEOREM TypeCorrect == Spec => []TypeOK
<1>1. Inv => TypeOK
  BY DEF Inv
<1> QED  BY InitInv, StepInv, <1>1, PTL DEF Spec

\* A worker has at most one upstream socket, and none once forwardRequest has
\* returned.
THEOREM NoSocketKept == Spec => []SocketsReturned
<1>1. Inv => SocketsReturned
  BY DEF Inv, SockOK, ProgressOK, SocketsReturned
<1> QED  BY InitInv, StepInv, <1>1, PTL DEF Spec

\* What is relayed is decided by the response, not by how it was read.
THEOREM RelayDependsOnResponse == Spec => []RelayedIffProper
<1>1. Inv => RelayedIffProper
  <2> SUFFICES ASSUME Inv  PROVE RelayedIffProper
    OBVIOUS
  <2>1. verdict = "relayed" => Proper(response) /\ sent = Wire /\ raw = response.total
    BY DEF Inv, ProgressOK
  <2>2. pc = "judge" /\ Proper(response) => Readable
    BY DEF Inv, ProgressOK, Proper, Readable
  <2>3. pc = "recv" /\ ~Room => ~Proper(response)
    <3>1. raw \in Nat /\ response.total \in Nat /\ raw <= response.total /\ MaxBytes \in Nat
      BY Typed, SizesAssumption DEF Inv, TypeOK
    <3> QED  BY <3>1 DEF Room, Proper
  <2> QED  BY <2>1, <2>2, <2>3 DEF RelayedIffProper
<1> QED  BY InitInv, StepInv, <1>1, PTL DEF Spec

\* Unless the base URL's path is nothing but slashes, the request line carries that
\* path without the slashes at its end, followed by the rest of the request's path
\* (Proxy.cpp:51-52 and :202).
THEOREM TargetIsJoined == Spec => []TargetJoined
<1>1. Inv => TargetJoined
  <2> SUFFICES ASSUME Inv, target # << >>, ~OnlySlashes  PROVE JoinedToTrimmedBase
    BY DEF TargetJoined
  <2> DEFINE s == base.path
  <2>1. s \in Seq(STRING) /\ Len(s) \in Nat
    BY CallsAssumption, LenProperties DEF Inv, base
  <2>2. target = Prefix \o call.path
    BY DEF Inv, TargetOK
  <2>3. PICK k \in 0 .. Len(s) :
          /\ Prefix = SubSeq(s, 1, k)
          /\ k > 1 => s[k] # Empty
          /\ \A i \in k + 1 .. Len(s) : s[i] = Empty
    BY PrefixCut DEF Inv
  <2> DEFINE p == SubSeq(s, 1, k)
  <2>4. Len(p) = k /\ \A i \in 1 .. k : p[i] = s[i]
    BY <2>1, <2>3
  <2>5. k = 1 => s[1] # Empty
    <3> SUFFICES ASSUME k = 1, s[1] = Empty  PROVE FALSE
      OBVIOUS
    <3>1. DOMAIN s = 1 .. Len(s) /\ s # << >>
      BY <2>1, <2>3
    <3>2. \A i \in 1 .. Len(s) : s[i] = Empty
      BY <2>1, <2>3
    <3> QED  BY <3>1, <3>2 DEF OnlySlashes
  <2>6. p # << >> => p[Len(p)] # Empty
    <3> SUFFICES ASSUME p # << >>  PROVE p[Len(p)] # Empty
      OBVIOUS
    <3>1. k >= 1
      BY <2>1, <2>3
    <3>2. s[k] # Empty
      BY <2>3, <2>5, <3>1
    <3> QED  BY <2>3, <2>4, <3>1, <3>2
  <2> QED  BY <2>2, <2>3, <2>4, <2>6 DEF JoinedToTrimmedBase
<1> QED  BY InitInv, StepInv, <1>1, PTL DEF Spec

\* An upstream can make the worker wait this many times for timeoutMs, no more.
THEOREM WaitsAreBounded == Spec => []WaitsBounded
<1>1. Inv => WaitsBounded
  BY DEF Inv, WaitsOK, WaitsBounded
<1> QED  BY InitInv, StepInv, <1>1, PTL DEF Spec

\* forwardRequest keeps the promise of Exchange: it never repeats a request, and
\* reports a timeout only when nothing of the request went out.
THEOREM ImplementsExchange == Spec => ExchangeSpec
<1>1. Init => Sends!Init
  BY DEF Init, Sends!Init
<1>2. Inv /\ [Next]_vars => [Sends!Next]_(Sends!vars)
  <2> SUFFICES ASSUME Inv, [Next]_vars
               PROVE  Sends!Transmit \/ Sends!Conclude \/ UNCHANGED Sends!vars
    BY DEF Sends!Next
  <2>1. CASE \E n \in 1 .. Wire : Send(n)
    <3>1. /\ verdict = "none" /\ verdict' = verdict /\ sent < Wire /\ sent \in Nat
          /\ sent' \in 1 .. Wire /\ sent' > sent
      BY <2>1, SizesAssumption DEF Inv, TypeOK, ProgressOK, Send
    <3> QED  BY <3>1, SizesAssumption DEF Sends!Transmit, Sends!vars
  <2>2. CASE UNCHANGED <<sent, verdict>>
    BY <2>2 DEF Sends!vars
  <2>3. ASSUME sent' = sent, verdict = "none", verdict' = "failed"
        PROVE  Sends!Conclude
    BY <2>3 DEF Sends!Conclude
  <2>4. CASE BadUrl \/ ResolveFails \/ SendFails \/ RecvFails \/ TooLarge
    BY <2>3, <2>4 DEF BadUrl, ResolveFails, SendFails, RecvFails, TooLarge, Return, Inv,
                      ProgressOK
  <2>5. CASE NotConnected
    BY <2>5 DEF NotConnected, Return, Inv, ProgressOK, Sends!Conclude
  <2>6. CASE Judge
    BY <2>6, SizesAssumption DEF Judge, Return, Inv, ProgressOK, Sends!Conclude
  <2>7. CASE \/ Resolve \/ OpenSocket \/ NoSocket \/ Connected \/ ConnectFails
             \/ ConnectTimesOut \/ (\E n \in 1 .. Buf : Recv(n)) \/ RecvEnds
             \/ UNCHANGED vars
    BY <2>2, <2>7 DEF Resolve, OpenSocket, NoSocket, Connected, ConnectFails,
                      ConnectTimesOut, Recv, RecvEnds, vars
  <2> QED  BY <2>1, <2>4, <2>5, <2>6, <2>7 DEF Next
<1>3. Spec => Sends!Spec
  BY <1>1, <1>2, InitInv, StepInv, PTL DEF Spec, Sends!Spec
<1> QED  BY <1>3 DEF ExchangeSpec
=============================================================================
