-------------------------------- MODULE Proxy --------------------------------
(***************************************************************************)
(* forwardRequest (Proxy.cpp:147-298): one request to one upstream module, *)
(* over a connection of its own.  Bytes are counted: the request is Wire   *)
(* bytes, a response has a first empty line that ends at byte head (0 for  *)
(* none), a status, and total bytes in all.  A path is the sequence of     *)
(* what stands behind each "/".                                            *)
(***************************************************************************)
EXTENDS Integers, Sequences

CONSTANTS
  Calls,         \* what the handler may ask for and the upstream may respond
  MaxAddresses,  \* bound: the addresses that getaddrinfo returns
  Wire,          \* the bytes of the request
  MaxBytes,      \* kMaxUpstreamBytes
  Buf            \* the 8192 bytes of buf

\* A call has the base URL (whether it starts with http://, its host, port and
\* path), the forwardPath, and the response that the upstream will send.

\* What stands between two slashes in a row, or the host of http://:80.
Empty == ""

\* The port of a URL without one, and one that std::stoi does not read.
NoPort == -1
JunkPort == -2

ASSUME SizesAssumption ==
  /\ MaxAddresses \in Nat \ {0}
  /\ Wire \in Nat \ {0} /\ MaxBytes \in Nat \ {0} /\ Buf \in Nat \ {0}

ASSUME CallsAssumption ==
  \A c \in Calls :
    /\ c.base.path \in Seq(STRING) /\ c.path \in Seq(STRING)
    /\ c.base.port \in Int
    /\ c.response.head \in Nat /\ c.response.total \in Nat
    /\ c.response.status \in Int

VARIABLES
  call,      \* the arguments, and the response there will be
  pc,        \* the section of forwardRequest that comes next
  left,      \* the addresses from ai on; none after a break
  sock,      \* the sockets opened and not closed
  timedOut,  \* timedOut
  target,    \* the path of the request line
  sent,      \* the bytes sent
  raw,       \* raw.size()
  verdict,   \* "none", then "relayed", "failed" or "timeout" (pr.timedOut)
  waits,     \* history: the calls that may block up to timeoutMs
  slow       \* history: the call that ran into timeoutMs, or "none"

vars == <<call, pc, left, sock, timedOut, target, sent, raw, verdict, waits, slow>>

base == call.base
response == call.response

Init ==
  /\ call \in Calls
  /\ pc = "url"
  /\ left = 0 /\ sock = 0
  /\ timedOut = FALSE
  /\ target = << >>
  /\ sent = 0 /\ raw = 0
  /\ verdict = "none"
  /\ waits = 0 /\ slow = "none"

\* return pr.
Return(v) == pc' = "returned" /\ verdict' = v

\* close_socket(s).
Close == sock' = sock - 1

\* A call that blocks, and the way it ends.
Wait(end) == waits' = waits + 1 /\ slow' = end
-----------------------------------------------------------------------------
(* The address, lines 40-76 and 151-167.                                   *)

PortOk == base.port = NoPort \/ base.port \in 1 .. 65535

UrlOk == base.http /\ PortOk /\ base.host # Empty

\* Line 52: slashes at the end go, down to a single character.
MutPrefix == base.path
Prefix ==
  LET kept == {i \in DOMAIN base.path : i = 1 \/ \E j \in DOMAIN base.path : i <= j /\ base.path[j] # Empty}
  IN  [i \in kept |-> base.path[i]]

BadUrl ==
  /\ pc = "url"
  /\ ~UrlOk
  /\ Return("failed")
  /\ UNCHANGED <<call, left, sock, timedOut, target, sent, raw, waits, slow>>

ResolveFails ==
  /\ pc = "url"
  /\ UrlOk
  /\ Return("failed")
  /\ UNCHANGED <<call, left, sock, timedOut, target, sent, raw, waits, slow>>

Resolve ==
  /\ pc = "url"
  /\ UrlOk
  /\ left' \in 1 .. MaxAddresses
  /\ pc' = "address"
  /\ UNCHANGED <<call, sock, timedOut, target, sent, raw, verdict, waits, slow>>
-----------------------------------------------------------------------------
(* The connection, lines 78-132 and 169-190.                               *)

OpenSocket ==
  /\ pc = "address"
  /\ left > 0
  /\ sock' = sock + 1
  /\ pc' = "connect"
  /\ UNCHANGED <<call, left, timedOut, target, sent, raw, verdict, waits, slow>>

\* Line 174.
NoSocket ==
  /\ pc = "address"
  /\ left > 0
  /\ left' = left - 1
  /\ UNCHANGED <<call, pc, sock, timedOut, target, sent, raw, verdict, waits, slow>>

\* Line 202; forwardPath starts with a slash, so line 203 has nothing to do.
Connected ==
  /\ pc = "connect"
  /\ Wait("none")
  /\ timedOut' = FALSE
  /\ target' = Prefix \o call.path
  /\ pc' = "send"
  /\ UNCHANGED <<call, left, sock, sent, raw, verdict>>

\* Refused, unreachable, or a call around connect that fails.
MutConnectAgain ==
  /\ pc = "connect"
  /\ timedOut' = FALSE
  /\ Close
  /\ pc' = "address"
  /\ UNCHANGED <<call, left, target, sent, raw, verdict, waits, slow>>
ConnectFails ==
  /\ pc = "connect"
  /\ Wait("none")
  /\ timedOut' = FALSE
  /\ Close
  /\ left' = left - 1
  /\ pc' = "address"
  /\ UNCHANGED <<call, target, sent, raw, verdict>>

\* Lines 110-114 and 180-183: no further address is tried.
ConnectTimesOut ==
  /\ pc = "connect"
  /\ Wait("connect")
  /\ timedOut' = TRUE
  /\ Close
  /\ left' = 0
  /\ pc' = "address"
  /\ UNCHANGED <<call, target, sent, raw, verdict>>

\* Lines 186-190.
NotConnected ==
  /\ pc = "address"
  /\ left = 0
  /\ Return(IF timedOut THEN "timeout" ELSE "failed")
  /\ UNCHANGED <<call, left, sock, timedOut, target, sent, raw, waits, slow>>
-----------------------------------------------------------------------------
(* The exchange, lines 134-143 and 220-248.                                *)

MutSendOverrun(n) ==
  /\ pc = "send"
  /\ n \in 1 .. Wire
  /\ Wait("none")
  /\ sent' = sent + n
  /\ pc' = IF sent' = Wire THEN "recv" ELSE "send"
  /\ UNCHANGED <<call, left, sock, timedOut, target, raw, verdict>>
Send(n) ==
  /\ pc = "send"
  /\ n \in 1 .. Wire - sent
  /\ Wait("none")
  /\ sent' = sent + n
  /\ pc' = IF sent' = Wire THEN "recv" ELSE "send"
  /\ UNCHANGED <<call, left, sock, timedOut, target, raw, verdict>>

\* The upstream closed, or took nothing for timeoutMs.
MutSendNextAddress ==
  /\ pc = "send"
  /\ Wait("none")
  /\ Close
  /\ sent' = 0
  /\ pc' = "address"
  /\ UNCHANGED <<call, left, timedOut, target, raw, verdict>>
SendFails ==
  /\ pc = "send"
  /\ \E end \in {"none", "send"} : Wait(end)
  /\ Close
  /\ Return("failed")
  /\ UNCHANGED <<call, left, timedOut, target, sent, raw>>

\* Line 226.
MutRoom == raw <= MaxBytes
Room == raw < MaxBytes

Recv(n) ==
  /\ pc = "recv"
  /\ Room
  /\ n \in 1 .. Buf /\ raw + n <= response.total
  /\ Wait("none")
  /\ raw' = raw + n
  /\ UNCHANGED <<call, pc, left, sock, timedOut, target, sent, verdict>>

\* Lines 228 and 243: recv returns 0.
RecvEnds ==
  /\ pc = "recv"
  /\ Room
  /\ raw = response.total
  /\ Wait("none")
  /\ Close
  /\ pc' = "judge"
  /\ UNCHANGED <<call, left, timedOut, target, sent, raw, verdict>>

\* Lines 229-233 and 243-248: a reset, an interrupted call, or nothing came
\* for timeoutMs.
RecvFails ==
  /\ pc = "recv"
  /\ Room
  /\ \E end \in {"none", "recv"} : Wait(end)
  /\ Close
  /\ Return("failed")
  /\ UNCHANGED <<call, left, timedOut, target, sent, raw>>

\* Lines 237-241.
MutTooLargeOpen ==
  /\ pc = "recv"
  /\ ~Room
  /\ Return("failed")
  /\ UNCHANGED <<call, left, sock, timedOut, target, sent, raw, waits, slow>>
TooLarge ==
  /\ pc = "recv"
  /\ ~Room
  /\ Close
  /\ Return("failed")
  /\ UNCHANGED <<call, left, timedOut, target, sent, raw, waits, slow>>

\* Lines 249-276; where there is an empty line there is a byte.
MutReadable == response.head \in 1 .. raw /\ response.status >= 100
Readable == response.head \in 1 .. raw /\ response.status \in 100 .. 599

Judge ==
  /\ pc = "judge"
  /\ Return(IF Readable THEN "relayed" ELSE "failed")
  /\ UNCHANGED <<call, left, sock, timedOut, target, sent, raw, waits, slow>>
-----------------------------------------------------------------------------
Next ==
  \/ BadUrl \/ ResolveFails \/ Resolve
  \/ OpenSocket \/ NoSocket
  \/ Connected \/ ConnectFails \/ ConnectTimesOut \/ NotConnected
  \/ \E n \in 1 .. Wire : Send(n)
  \/ SendFails
  \/ \E n \in 1 .. Buf : Recv(n)
  \/ RecvEnds \/ RecvFails \/ TooLarge
  \/ Judge

\* The worker keeps running; connect, send and recv end at timeoutMs at the
\* latest (lines 110 and 191-200), getaddrinfo at the resolver's own.
Spec == Init /\ [][Next]_vars /\ WF_vars(Next)
-----------------------------------------------------------------------------
\* Every variable keeps its type.
TypeOK ==
  /\ pc \in {"url", "address", "connect", "send", "recv", "judge", "returned"}
  /\ left \in 0 .. MaxAddresses /\ sock \in Nat
  /\ timedOut \in BOOLEAN
  /\ target \in Seq(STRING)
  /\ sent \in 0 .. Wire /\ raw \in 0 .. response.total
  /\ verdict \in {"none", "relayed", "timeout", "failed"}
  /\ waits \in Nat
  /\ slow \in {"none", "connect", "send", "recv"}

\* A worker has one upstream socket at a time, and forwardRequest gives back
\* every socket it opened on each of its ways out (lines 169-184, 238-243).
SocketsReturned == sock <= 1 /\ (verdict # "none" => sock = 0)

\* The whole response is below the cap, and has a head with a status.
Proper(r) ==
  /\ r.total < MaxBytes
  /\ r.head \in 1 .. r.total
  /\ r.status \in 100 .. 599

\* Once the exchange ran to its end, what the client gets depends on the
\* response alone: not on how it was cut into reads, nor on how many bytes the
\* read that reached the cap brought (lines 222-276).
RelayedIffProper ==
  /\ verdict = "relayed" => Proper(response) /\ sent = Wire /\ raw = response.total
  /\ pc = "judge" /\ Proper(response) => Readable
  /\ pc = "recv" /\ ~Room => ~Proper(response)

\* The rest of the request's path follows the path of the base URL, and that has
\* lost the slashes at its end and nothing else.
JoinedToTrimmedBase ==
  \E p \in {SubSeq(base.path, 1, k) : k \in 0 .. Len(base.path)} :
    /\ target = p \o call.path
    /\ p # << >> => p[Len(p)] # Empty
    /\ \A i \in Len(p) + 1 .. Len(base.path) : base.path[i] = Empty

\* http://host/ and the like.
OnlySlashes == base.path # << >> /\ \A i \in DOMAIN base.path : base.path[i] = Empty

\* API_CONTRACT.md section 4, the prefix of the base URL is put in front of the
\* rest of the path, for every base URL but one whose path is nothing but slashes:
\* for that see PrefixTrimmed.
TargetJoined == target # << >> /\ ~OnlySlashes => JoinedToTrimmedBase

\* timeoutMs holds for each call that blocks, not for the exchange: a slow
\* upstream keeps the worker for this many timeouts, and no more (line 226).
WaitsBounded == waits <= MaxAddresses + Wire + MaxBytes

\* The request goes out at most once, and a timeout is only reported of a
\* request of which nothing went out.
Sends == INSTANCE Exchange WITH
  reach <- IF sent = 0 THEN "nothing" ELSE IF sent = Wire THEN "whole" ELSE "part"
ExchangeSpec == Sends!Spec

\* forwardRequest returns, whatever the upstream does.
ForwardReturns == <>(verdict # "none")

\* API_CONTRACT.md:63, an exchange that runs into UPSTREAM_TIMEOUT_MS is
\* answered 504.
TimeoutsAnswered504 == verdict # "none" /\ slow # "none" => verdict = "timeout"

\* Proxy.cpp:51 "Trim trailing '/' from prefix", to "" or "/v1" (line 36): no base
\* URL puts a slash of its own between itself and the rest of the path.
PrefixTrimmed == target # << >> => JoinedToTrimmedBase
=============================================================================
