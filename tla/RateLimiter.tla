---------------------------- MODULE RateLimiter ----------------------------
(***************************************************************************)
(* gateway::RateLimiter::allow (RateLimiter.h:18-35), called by the worker *)
(* threads of all connections on the one limiter of main.cpp:125.          *)
(*                                                                         *)
(* allow() reads the clock first and takes the mutex afterwards, so the    *)
(* readings reach the table in any order.  The critical section is split   *)
(* in two, what it reads and what it writes: nothing but the mutex makes   *)
(* it atomic.  Time is counted in seconds, as duration_cast does.          *)
(***************************************************************************)
EXTENDS Integers, FiniteSets

CONSTANTS
  Threads,     \* the workers that can be inside allow() at the same time
  Ips,         \* the client addresses
  NoIp,        \* the address of a thread that has not called yet
  NoThread,    \* the owner of a free mutex
  Limits,      \* the values of RATE_LIMIT_PER_MIN; 0 or less disables
  Window,      \* 60
  PurgeAbove,  \* 20000
  StartNow,    \* the first reading of the steady clock
  MaxNow       \* bound: the last reading explored

ASSUME ConstantsAssumption ==
  /\ NoIp \notin Ips /\ NoThread \notin Threads
  /\ Limits \subseteq Int
  /\ Window \in Nat \ {0}
  /\ PurgeAbove \in Nat
  /\ StartNow \in Nat \ {0}   \* 0 is the mark of an unused bucket
  /\ MaxNow \in Nat /\ StartNow <= MaxNow

VARIABLES
  perMin,   \* perMin_: set by the constructor, setLimit is never called
  buckets,  \* buckets_: a function from the addresses in the table
  mutex,    \* mutex_: the thread that holds it, or NoThread
  clock,    \* std::chrono::steady_clock, in seconds
  pc,       \* of each thread: "idle", "waiting" for the mutex, "locked"
  ip,       \* of each thread: the argument of its call
  now,      \* of each thread: the reading of line 20
  seen,     \* of each thread: the bucket as it read it
  answer,   \* what the call that returned in the latest step said, or "none"
  ledger    \* history: the latest window of each address and what it granted

vars == <<perMin, buckets, mutex, clock, pc, ip, now, seen, answer, ledger>>

Times == StartNow .. MaxNow

Bucket == [windowStart : Nat, count : Nat]

\* The default member initialisers of lines 39-40.
MutFresh == [windowStart |-> -1, count |-> 0]
Fresh == [windowStart |-> 0, count |-> 0]

NoWindow == [start |-> 0, granted |-> 0]
-----------------------------------------------------------------------------
\* std::lock_guard, line 24.
MutMutexFree == TRUE
MutexFree == mutex = NoThread

\* "now - windowStart >= 60" of lines 27 and 44; a late reading may be smaller
\* than windowStart, and then the difference is negative.
MutExpiredEarly(bucket, reading) == reading - bucket.windowStart >= Window - 1
MutExpiredUnsigned(bucket, reading) ==
  reading < bucket.windowStart \/ reading - bucket.windowStart >= Window
Expired(bucket, reading) == reading - bucket.windowStart >= Window

\* Line 27.
StartsWindow(bucket, reading) == bucket.windowStart = 0 \/ Expired(bucket, reading)

\* Line 32.
MutSpent(bucket) == bucket.count > perMin
MutSpentEarly(bucket) == bucket.count >= perMin - 1
Spent(bucket) == bucket.count >= perMin

\* purge(now), lines 42-49.
MutPurged(table, reading) == [a \in {} |-> Fresh]
Purged(table, reading) ==
  [a \in {b \in DOMAIN table : ~Expired(table[b], reading)} |-> table[a]]

\* Line 25: the table is only swept when it has grown too large.
Swept(table, reading) ==
  IF Cardinality(DOMAIN table) > PurgeAbove THEN Purged(table, reading) ELSE table

\* buckets_[ip], line 26: a new address gets a fresh bucket.
WithBucket(table, a) ==
  [b \in DOMAIN table \cup {a} |-> IF b \in DOMAIN table THEN table[b] ELSE Fresh]

Init ==
  /\ perMin \in Limits
  /\ buckets = << >>
  /\ mutex = NoThread
  /\ clock = StartNow
  /\ pc = [t \in Threads |-> "idle"]
  /\ ip = [t \in Threads |-> NoIp]
  /\ now = [t \in Threads |-> 0]
  /\ seen = [t \in Threads |-> Fresh]
  /\ answer = "none"
  /\ ledger = [a \in Ips |-> NoWindow]

\* A second passes.
Tick ==
  /\ clock < MaxNow
  /\ clock' = clock + 1
  /\ answer' = "none"
  /\ UNCHANGED <<perMin, buckets, mutex, pc, ip, now, seen, ledger>>

\* Line 19: a limiter that is disabled answers without looking at anything.
CallDisabled(t, a) ==
  /\ pc[t] = "idle"
  /\ perMin <= 0
  /\ answer' = "allowed"
  /\ UNCHANGED <<perMin, buckets, mutex, clock, pc, ip, now, seen, ledger>>

\* Lines 20-23, in front of the lock.
Call(t, a) ==
  /\ pc[t] = "idle"
  /\ perMin > 0
  /\ ip' = [ip EXCEPT ![t] = a]
  /\ now' = [now EXCEPT ![t] = clock]
  /\ pc' = [pc EXCEPT ![t] = "waiting"]
  /\ answer' = "none"
  /\ UNCHANGED <<perMin, buckets, mutex, clock, seen, ledger>>

\* Lines 24-26.
Lock(t) ==
  /\ pc[t] = "waiting"
  /\ MutexFree
  /\ mutex' = t
  /\ LET table == WithBucket(Swept(buckets, now[t]), ip[t])
     IN  /\ buckets' = table
         /\ seen' = [seen EXCEPT ![t] = table[ip[t]]]
  /\ pc' = [pc EXCEPT ![t] = "locked"]
  /\ answer' = "none"
  /\ UNCHANGED <<perMin, clock, ip, now, ledger>>

\* The return of allow(): the lock_guard is destroyed, the locals are gone.
MutReturnLocked(t, said) ==
  /\ mutex' = mutex
  /\ answer' = said
  /\ pc' = [pc EXCEPT ![t] = "idle"]
  /\ UNCHANGED <<perMin, clock, ip, now, seen>>
Return(t, said) ==
  /\ mutex' = NoThread
  /\ answer' = said
  /\ pc' = [pc EXCEPT ![t] = "idle"]
  /\ ip' = [ip EXCEPT ![t] = NoIp]
  /\ now' = [now EXCEPT ![t] = 0]
  /\ seen' = [seen EXCEPT ![t] = Fresh]
  /\ UNCHANGED <<perMin, clock>>

\* Lines 27-31.
OpenWindow(t) ==
  /\ pc[t] = "locked"
  /\ StartsWindow(seen[t], now[t])
  /\ buckets' = [buckets EXCEPT ![ip[t]] = [windowStart |-> now[t], count |-> 1]]
  /\ ledger' = [ledger EXCEPT ![ip[t]] = [start |-> now[t], granted |-> 1]]
  /\ Return(t, "allowed")

\* Lines 33-34.
Admit(t) ==
  /\ pc[t] = "locked"
  /\ ~StartsWindow(seen[t], now[t])
  /\ ~Spent(seen[t])
  /\ buckets' = [buckets EXCEPT ![ip[t]] = [seen[t] EXCEPT !.count = @ + 1]]
  /\ ledger' = [ledger EXCEPT ![ip[t]].granted = @ + 1]
  /\ Return(t, "allowed")

\* Line 32.
Deny(t) ==
  /\ pc[t] = "locked"
  /\ ~StartsWindow(seen[t], now[t])
  /\ Spent(seen[t])
  /\ Return(t, "denied")
  /\ UNCHANGED <<buckets, ledger>>

Finish(t) == OpenWindow(t) \/ Admit(t) \/ Deny(t)

Next ==
  \/ Tick
  \/ \E t \in Threads, a \in Ips : CallDisabled(t, a) \/ Call(t, a)
  \/ \E t \in Threads : Lock(t) \/ Finish(t)

\* A thread that holds the mutex keeps running; std::mutex is not fair, so
\* nothing is assumed about who gets it.
Spec == Init /\ [][Next]_vars /\ \A t \in Threads : WF_vars(Finish(t))
-----------------------------------------------------------------------------
\* Every variable keeps its type.
TypeOK ==
  /\ perMin \in Limits
  /\ DOMAIN buckets \subseteq Ips
  /\ \A a \in DOMAIN buckets : buckets[a] \in Bucket
  /\ mutex \in Threads \cup {NoThread}
  /\ clock \in Nat
  /\ pc \in [Threads -> {"idle", "waiting", "locked"}]
  /\ ip \in [Threads -> Ips \cup {NoIp}]
  /\ now \in [Threads -> Nat]
  /\ seen \in [Threads -> Bucket]
  /\ answer \in {"none", "allowed", "denied"}
  /\ ledger \in [Ips -> [start : Nat, granted : Nat]]

\* The window of the ledger as the table would hold it.
AsBucket(window) == [windowStart |-> window.start, count |-> window.granted]

\* The table is the truth about what was granted: no concurrent call loses a
\* count, and sweeping the table (line 25) loses no address in its window.
\* The fresh bucket of a thread between lines 26 and 28 is the one exception.
TallyExact ==
  \A a \in DOMAIN buckets :
    \/ buckets[a] = AsBucket(ledger[a])
    \/ buckets[a] = Fresh /\ \E t \in Threads : mutex = t /\ ip[t] = a

\* No window grants more than perMin_ requests, swept table or not.
WindowWithinLimit == \A a \in Ips : ledger[a].granted <= IF perMin > 0 THEN perMin ELSE 0

\* Nobody is refused (line 32) while the window of its address has room or is over
\* at the call's own reading of the clock, which may be older than the refusal; and
\* a refusal takes nothing away.
DenyOnlyWhenSpent ==
  [][\A t \in Threads :
       mutex = t /\ answer' = "denied" =>
         /\ ledger[ip[t]].granted = perMin
         /\ now[t] < ledger[ip[t]].start + Window
         /\ ledger' = ledger]_vars

\* The windows of one address do not overlap: the next one starts when the
\* latest one is over.  RateLimiter.h:2 "N requests per 60s window".
WindowsDisjoint ==
  [][\A a \in Ips :
       ledger'[a].start # ledger[a].start =>
         ledger[a] = NoWindow \/ ledger'[a].start >= ledger[a].start + Window]_vars

\* The limiter implements the quota as long as the table is never swept.
Quota == INSTANCE WindowQuota WITH limit <- perMin, quota <- ledger
QuotaSpec == Quota!Spec
=============================================================================
