------------------------- MODULE RateLimiterProofs -------------------------
(***************************************************************************)
(* For any number of threads and addresses, any limit and any window: the  *)
(* table counts exactly, a window never grants more than the limit, nobody *)
(* is refused early; and as long as the table cannot outgrow PurgeAbove,   *)
(* the limiter implements WindowQuota.                                     *)
(***************************************************************************)
EXTENDS RateLimiter, FiniteSetTheorems, TLAPS

\* What a thread inside allow() carries.
CallOK ==
  \A t \in Threads :
    /\ pc[t] # "idle" => ip[t] \in Ips /\ now[t] \in Times /\ perMin > 0
    /\ pc[t] = "locked" <=> mutex = t
    /\ pc[t] = "locked" => ip[t] \in DOMAIN buckets /\ seen[t] = buckets[ip[t]]

\* A window that was opened has a start and a grant.
LedgerOK ==
  \A a \in Ips :
    \/ ledger[a] = NoWindow
    \/ ledger[a].start \in Times /\ ledger[a].granted >= 1

\* The inductive invariant: the tally is exact because what the holder of the
\* mutex has read is still what the table says.
Inv ==
  /\ TypeOK
  /\ clock \in Times
  /\ CallOK
  /\ LedgerOK
  /\ TallyExact
  /\ WindowWithinLimit

\* Without sweeping, no address is ever forgotten.
Remembered ==
  \A a \in Ips : a \notin DOMAIN buckets \/ buckets[a] = Fresh => ledger[a] = NoWindow

FewAddresses == IsFiniteSet(Ips) /\ Cardinality(Ips) <= PurgeAbove
-----------------------------------------------------------------------------
\* Sweeping and looking an address up change no bucket that stays.
LEMMA LookUp ==
  ASSUME NEW table, NEW a, NEW reading
  PROVE  LET after == WithBucket(Swept(table, reading), a)
         IN  /\ DOMAIN after \subseteq DOMAIN table \cup {a}
             /\ a \in DOMAIN after
             /\ \A b \in DOMAIN after :
                  \/ b \in DOMAIN table /\ after[b] = table[b]
                  \/ b = a /\ after[b] = Fresh
<1>1. /\ DOMAIN Purged(table, reading) \subseteq DOMAIN table
      /\ \A b \in DOMAIN Purged(table, reading) : Purged(table, reading)[b] = table[b]
  BY DEF Purged
<1>2. /\ DOMAIN Swept(table, reading) \subseteq DOMAIN table
      /\ \A b \in DOMAIN Swept(table, reading) : Swept(table, reading)[b] = table[b]
  BY <1>1 DEF Swept
<1> QED  BY <1>2 DEF WithBucket

\* A table over few addresses is never swept.
LEMMA NotSwept ==
  ASSUME FewAddresses, TypeOK, NEW reading
  PROVE  Swept(buckets, reading) = buckets
<1>1. IsFiniteSet(DOMAIN buckets) /\ Cardinality(DOMAIN buckets) <= Cardinality(Ips)
  BY FS_Subset DEF FewAddresses, TypeOK
<1>2. Cardinality(DOMAIN buckets) \in Nat /\ Cardinality(Ips) \in Nat
  BY <1>1, FS_CardinalityType DEF FewAddresses
<1> QED  BY <1>1, <1>2, ConstantsAssumption DEF Swept, FewAddresses

LEMMA InitInv == Init => Inv /\ Remembered
<1> SUFFICES ASSUME Init  PROVE Inv /\ Remembered
  OBVIOUS
<1> USE ConstantsAssumption DEF Init, Fresh, NoWindow
<1>1. DOMAIN buckets = {}
  OBVIOUS
<1>2. TypeOK
  BY <1>1 DEF TypeOK, Bucket
<1>3. clock \in Times
  BY DEF Times
<1>4. CallOK
  BY DEF CallOK
<1>5. LedgerOK /\ TallyExact /\ Remembered
  BY <1>1 DEF LedgerOK, TallyExact, Remembered
<1>6. WindowWithinLimit
  BY DEF WindowWithinLimit
<1> QED  BY <1>2, <1>3, <1>4, <1>5, <1>6 DEF Inv

\* What the holder of the mutex finds in the bucket it has read.
LEMMA HolderSees ==
  ASSUME Inv, NEW t \in Threads, pc[t] = "locked"
  PROVE  /\ mutex = t /\ ip[t] \in Ips /\ ip[t] \in DOMAIN buckets
         /\ now[t] \in Times /\ perMin > 0
         /\ seen[t] = buckets[ip[t]] /\ seen[t] \in Bucket
         /\ \/ seen[t] = AsBucket(ledger[ip[t]])
            \/ seen[t] = Fresh
BY DEF Inv, CallOK, TallyExact, TypeOK

\* Outside an opening, that bucket is the window of the ledger.
LEMMA HolderCounts ==
  ASSUME Inv, NEW t \in Threads, pc[t] = "locked", ~StartsWindow(seen[t], now[t])
  PROVE  /\ seen[t] = AsBucket(ledger[ip[t]])
         /\ ledger[ip[t]] # NoWindow
         /\ now[t] < ledger[ip[t]].start + Window
<1>1. seen[t] # Fresh
  BY DEF StartsWindow, Fresh
<1>2. seen[t] = AsBucket(ledger[ip[t]])
  BY <1>1, HolderSees
<1>3. ledger[ip[t]] # NoWindow
  BY <1>1, <1>2 DEF AsBucket, Fresh, NoWindow
<1>4. seen[t].windowStart = ledger[ip[t]].start
  BY <1>2 DEF AsBucket
<1>5. ~(now[t] - ledger[ip[t]].start >= Window)
  BY <1>4 DEF StartsWindow, Expired
<1>6. now[t] \in Int /\ ledger[ip[t]].start \in Nat /\ Window \in Nat
  BY HolderSees, ConstantsAssumption DEF Times, Inv, TypeOK
<1> QED  BY <1>2, <1>3, <1>5, <1>6

\* A grant writes the same window to the table and to the ledger.
LEMMA GrantInv ==
  ASSUME Inv, NEW t \in Threads, pc[t] = "locked", NEW w,
         w \in [start : Times, granted : Nat], w.granted >= 1, w.granted <= perMin,
         buckets' = [buckets EXCEPT ![ip[t]] = AsBucket(w)],
         ledger' = [ledger EXCEPT ![ip[t]] = w],
         Return(t, "allowed")
  PROVE  Inv'
<1> USE DEF Inv
<1>1. /\ mutex = t /\ ip[t] \in Ips /\ ip[t] \in DOMAIN buckets /\ perMin > 0
  BY HolderSees
<1>2. /\ mutex' = NoThread /\ UNCHANGED <<perMin, clock>>
      /\ pc' = [pc EXCEPT ![t] = "idle"] /\ ip' = [ip EXCEPT ![t] = NoIp]
      /\ now' = [now EXCEPT ![t] = 0] /\ seen' = [seen EXCEPT ![t] = Fresh]
      /\ answer' = "allowed"
  BY DEF Return
<1>3. Times \subseteq Nat
  BY ConstantsAssumption DEF Times
<1>4. AsBucket(w) \in Bucket /\ w \in [start : Nat, granted : Nat] /\ Fresh \in Bucket
  BY <1>3 DEF AsBucket, Bucket, Fresh
<1>5. TypeOK'
  BY <1>1, <1>2, <1>4 DEF TypeOK
<1>6. CallOK'
  <2> SUFFICES ASSUME NEW u \in Threads  PROVE CallOK!(u)'
    BY DEF CallOK
  <2>1. CASE u = t
    BY <1>2, <2>1, ConstantsAssumption DEF TypeOK
  <2>2. CASE u # t
    <3>1. pc[u] # "locked" /\ mutex # u
      BY <1>1, <2>2 DEF CallOK
    <3> QED  BY <1>2, <2>2, <3>1, ConstantsAssumption DEF CallOK, TypeOK, Times
  <2> QED  BY <2>1, <2>2
<1>7. LedgerOK'
  BY <1>1, <1>2 DEF LedgerOK, TypeOK, Times
<1>8. TallyExact'
  <2> SUFFICES ASSUME NEW a \in DOMAIN buckets  PROVE buckets'[a] = AsBucket(ledger'[a])
    BY DEF TallyExact
  <2>1. CASE a = ip[t]
    BY <1>1, <2>1 DEF TypeOK
  <2>2. CASE a # ip[t]
    <3>1. buckets[a] = AsBucket(ledger[a])
      BY <1>1, <2>2 DEF TallyExact
    <3> QED  BY <2>2, <3>1 DEF TypeOK
  <2> QED  BY <2>1, <2>2
<1>9. WindowWithinLimit'
  BY <1>1, <1>2 DEF WindowWithinLimit, TypeOK
<1> QED  BY <1>2, <1>5, <1>6, <1>7, <1>8, <1>9 DEF Times

\* The window that an opening grant makes.
LEMMA OpenWindowIs ==
  ASSUME Inv, NEW t \in Threads, OpenWindow(t)
  PROVE  LET w == [start |-> now[t], granted |-> 1]
         IN  /\ w \in [start : Times, granted : Nat] /\ w.granted >= 1 /\ w.granted <= perMin
             /\ buckets' = [buckets EXCEPT ![ip[t]] = AsBucket(w)]
             /\ ledger' = [ledger EXCEPT ![ip[t]] = w]
<1>1. now[t] \in Times /\ perMin > 0 /\ perMin \in Int
  BY HolderSees, ConstantsAssumption DEF OpenWindow, Inv, TypeOK
<1> QED  BY <1>1 DEF OpenWindow, AsBucket

\* The window that a further grant makes.
LEMMA AdmitIs ==
  ASSUME Inv, NEW t \in Threads, Admit(t)
  PROVE  LET w == [ledger[ip[t]] EXCEPT !.granted = @ + 1]
         IN  /\ ledger[ip[t]] # NoWindow /\ ledger[ip[t]].granted < perMin
             /\ w \in [start : Times, granted : Nat] /\ w.granted >= 1 /\ w.granted <= perMin
             /\ buckets' = [buckets EXCEPT ![ip[t]] = AsBucket(w)]
             /\ ledger' = [ledger EXCEPT ![ip[t]] = w]
<1> DEFINE old == ledger[ip[t]]
           w == [old EXCEPT !.granted = @ + 1]
<1>1. /\ ip[t] \in Ips /\ seen[t] = AsBucket(old) /\ old # NoWindow
  BY HolderSees, HolderCounts DEF Admit
<1>2. old \in [start : Nat, granted : Nat] /\ old.start \in Times /\ old.granted >= 1
  BY <1>1 DEF Inv, LedgerOK, TypeOK
<1>3. seen[t].count = old.granted /\ seen[t].windowStart = old.start
  BY <1>1 DEF AsBucket
<1>4. old.granted < perMin /\ perMin \in Int
  BY <1>2, <1>3, ConstantsAssumption DEF Admit, Spent, Inv, TypeOK
<1>5. w = [start |-> old.start, granted |-> old.granted + 1]
  BY <1>2
<1>6. AsBucket(w) = [seen[t] EXCEPT !.count = @ + 1]
  BY <1>1, <1>2, <1>5 DEF AsBucket
<1>7. /\ ledger' = [ledger EXCEPT ![ip[t]] = w]
      /\ buckets' = [buckets EXCEPT ![ip[t]] = AsBucket(w)]
  BY <1>6 DEF Admit
<1>8. w \in [start : Times, granted : Nat] /\ w.granted >= 1 /\ w.granted <= perMin
  BY <1>2, <1>4, <1>5
<1> QED  BY <1>1, <1>4, <1>7, <1>8

\* Taking the mutex.
LEMMA LockInv ==
  ASSUME Inv, NEW t \in Threads, Lock(t)
  PROVE  Inv'
<1> USE DEF Inv
<1> DEFINE table == WithBucket(Swept(buckets, now[t]), ip[t])
<1>1. /\ pc[t] = "waiting" /\ mutex = NoThread /\ mutex' = t
      /\ buckets' = table /\ seen' = [seen EXCEPT ![t] = table[ip[t]]]
      /\ pc' = [pc EXCEPT ![t] = "locked"] /\ answer' = "none"
      /\ UNCHANGED <<perMin, clock, ip, now, ledger>>
  BY DEF Lock, MutexFree
<1>2. ip[t] \in Ips /\ now[t] \in Times /\ perMin > 0
  BY <1>1 DEF CallOK
<1>3. /\ DOMAIN table \subseteq DOMAIN buckets \cup {ip[t]}
      /\ ip[t] \in DOMAIN table
      /\ \A b \in DOMAIN table :
           \/ b \in DOMAIN buckets /\ table[b] = buckets[b]
           \/ b = ip[t] /\ table[b] = Fresh
  BY LookUp
<1> HIDE DEF table
<1>4. Fresh \in Bucket
  BY DEF Fresh, Bucket
<1>5. TypeOK'
  <2>1. DOMAIN table \subseteq Ips /\ \A a \in DOMAIN table : table[a] \in Bucket
    BY <1>2, <1>3, <1>4 DEF TypeOK
  <2>2. seen' \in [Threads -> Bucket]
    BY <1>1, <1>3, <2>1 DEF TypeOK
  <2>3. mutex' \in Threads \cup {NoThread}
        /\ pc' \in [Threads -> {"idle", "waiting", "locked"}]
    BY <1>1 DEF TypeOK
  <2> QED  BY <1>1, <2>1, <2>2, <2>3 DEF TypeOK
<1>6. CallOK'
  <2> SUFFICES ASSUME NEW u \in Threads  PROVE CallOK!(u)'
    BY DEF CallOK
  <2>1. CASE u = t
    BY <1>1, <1>2, <1>3, <2>1 DEF TypeOK, Times
  <2>2. CASE u # t
    <3>1. pc[u] # "locked"
      BY <1>1, ConstantsAssumption DEF CallOK
    <3> QED  BY <1>1, <2>2, <3>1 DEF CallOK, TypeOK, Times
  <2> QED  BY <2>1, <2>2
<1>7. LedgerOK' /\ WindowWithinLimit' /\ (clock \in Times)'
  BY <1>1 DEF LedgerOK, WindowWithinLimit, Times
<1>8. TallyExact'
  <2> SUFFICES ASSUME NEW b \in DOMAIN table
               PROVE  \/ table[b] = AsBucket(ledger[b])
                      \/ table[b] = Fresh /\ b = ip[t]
    BY <1>1 DEF TallyExact
  <2>1. CASE b \in DOMAIN buckets /\ table[b] = buckets[b]
    BY <1>1, <2>1, ConstantsAssumption DEF TallyExact
  <2> QED  BY <1>3, <2>1
<1> QED  BY <1>5, <1>6, <1>7, <1>8

\* Every step keeps the invariant.
LEMMA StepInv == Inv /\ [Next]_vars => Inv'
<1> SUFFICES ASSUME Inv, [Next]_vars  PROVE Inv'
  OBVIOUS
<1>1. CASE Tick
  <2>1. /\ clock' = clock + 1 /\ clock < MaxNow /\ answer' = "none"
        /\ UNCHANGED <<perMin, buckets, mutex, pc, ip, now, seen, ledger>>
    BY <1>1 DEF Tick
  <2>2. clock' \in Times
    BY <2>1, ConstantsAssumption DEF Inv, Times
  <2> QED  BY <2>1, <2>2 DEF Inv, TypeOK, CallOK, LedgerOK, TallyExact,
                             WindowWithinLimit, Times
<1>2. ASSUME NEW t \in Threads, NEW a \in Ips, CallDisabled(t, a)  PROVE Inv'
  <2>1. answer' = "allowed"
        /\ UNCHANGED <<perMin, buckets, mutex, clock, pc, ip, now, seen, ledger>>
    BY <1>2 DEF CallDisabled
  <2> QED  BY <2>1 DEF Inv, TypeOK, CallOK, LedgerOK, TallyExact, WindowWithinLimit, Times
<1>3. ASSUME NEW t \in Threads, NEW a \in Ips, Call(t, a)  PROVE Inv'
  <2>1. /\ pc[t] = "idle" /\ perMin > 0
        /\ ip' = [ip EXCEPT ![t] = a] /\ now' = [now EXCEPT ![t] = clock]
        /\ pc' = [pc EXCEPT ![t] = "waiting"] /\ answer' = "none"
        /\ UNCHANGED <<perMin, buckets, mutex, clock, seen, ledger>>
    BY <1>3 DEF Call
  <2>2. mutex # t
    BY <2>1 DEF Inv, CallOK
  <2>3. TypeOK' /\ (clock \in Times)'
    BY <2>1 DEF Inv, TypeOK, Times
  <2>4. CallOK'
    BY <2>1, <2>2 DEF Inv, CallOK, TypeOK, Times
  <2>5. TallyExact'
    BY <2>1, <2>2 DEF Inv, TallyExact, TypeOK
  <2> QED  BY <2>1, <2>3, <2>4, <2>5 DEF Inv, LedgerOK, WindowWithinLimit, Times
<1>4. ASSUME NEW t \in Threads, Lock(t)  PROVE Inv'
  BY <1>4, LockInv
<1>5. ASSUME NEW t \in Threads, OpenWindow(t)  PROVE Inv'
  <2>1. pc[t] = "locked" /\ Return(t, "allowed")
    BY <1>5 DEF OpenWindow
  <2> QED  BY <1>5, <2>1, OpenWindowIs, GrantInv
<1>6. ASSUME NEW t \in Threads, Admit(t)  PROVE Inv'
  <2>1. pc[t] = "locked" /\ Return(t, "allowed")
    BY <1>6 DEF Admit
  <2> QED  BY <1>6, <2>1, AdmitIs, GrantInv
<1>7. ASSUME NEW t \in Threads, Deny(t)  PROVE Inv'
  <2>1. /\ pc[t] = "locked" /\ mutex' = NoThread /\ answer' = "denied"
        /\ pc' = [pc EXCEPT ![t] = "idle"] /\ ip' = [ip EXCEPT ![t] = NoIp]
        /\ now' = [now EXCEPT ![t] = 0] /\ seen' = [seen EXCEPT ![t] = Fresh]
        /\ UNCHANGED <<perMin, clock, buckets, ledger>>
    BY <1>7 DEF Deny, Return
  <2>2. mutex = t /\ seen[t] = buckets[ip[t]] /\ seen[t] = AsBucket(ledger[ip[t]])
    BY <1>7, HolderSees, HolderCounts DEF Deny
  <2>3. TypeOK' /\ (clock \in Times)'
    BY <2>1 DEF Inv, TypeOK, Fresh, Bucket, Times
  <2>4. CallOK'
    <3> SUFFICES ASSUME NEW u \in Threads  PROVE CallOK!(u)'
      BY DEF CallOK
    <3>1. CASE u = t
      BY <2>1, <3>1, ConstantsAssumption DEF Inv, TypeOK
    <3>2. CASE u # t
      <4>1. pc[u] # "locked"
        BY <2>2, <3>2 DEF Inv, CallOK
      <4> QED  BY <2>1, <3>2, <4>1, ConstantsAssumption DEF Inv, CallOK, TypeOK, Times
    <3> QED  BY <3>1, <3>2
  <2>5. TallyExact'
    BY <2>1, <2>2 DEF Inv, TallyExact
  <2> QED  BY <2>1, <2>3, <2>4, <2>5 DEF Inv, LedgerOK, WindowWithinLimit, Times
<1>8. CASE UNCHANGED vars
  BY <1>8 DEF vars, Inv, TypeOK, CallOK, LedgerOK, TallyExact, WindowWithinLimit, Times
<1> QED  BY <1>1, <1>2, <1>3, <1>4, <1>5, <1>6, <1>7, <1>8 DEF Next, Finish
-----------------------------------------------------------------------------
\* The limiter keeps its types, for every number of threads and addresses.
THEOREM TypeCorrect == Spec => []TypeOK
<1>1. Inv => TypeOK
  BY DEF Inv
<1> QED  BY InitInv, StepInv, <1>1, PTL DEF Spec

\* No interleaving of allow() calls loses a grant, and purge() forgets none
\* that still counts: the table is the ledger wherever it has a bucket.
THEOREM TallyIsExact == Spec => []TallyExact
<1>1. Inv => TallyExact
  BY DEF Inv
<1> QED  BY InitInv, StepInv, <1>1, PTL DEF Spec

\* No window of an address grants more than RATE_LIMIT_PER_MIN requests,
\* however the calls interleave and whenever the table is swept.
THEOREM LimitHolds == Spec => []WindowWithinLimit
<1>1. Inv => WindowWithinLimit
  BY DEF Inv
<1> QED  BY InitInv, StepInv, <1>1, PTL DEF Spec

\* A 429 is only answered when the window of the address is spent and not
\* over, for every interleaving and with or without sweeping.
THEOREM RefusalsAreEarned == Spec => DenyOnlyWhenSpent
<1> DEFINE Earned ==
      \A t \in Threads :
        mutex = t /\ answer' = "denied" =>
          /\ ledger[ip[t]].granted = perMin
          /\ now[t] < ledger[ip[t]].start + Window
          /\ ledger' = ledger
<1>1. Inv /\ [Next]_vars => [Earned]_vars
  <2> SUFFICES ASSUME Inv, Next, NEW t \in Threads, mutex = t, answer' = "denied"
               PROVE  /\ ledger[ip[t]].granted = perMin
                      /\ now[t] < ledger[ip[t]].start + Window
                      /\ ledger' = ledger
    BY DEF vars
  <2>1. PICK u \in Threads : Deny(u)
    BY DEF Next, Finish, Tick, CallDisabled, Call, Lock, OpenWindow, Admit, Return
  <2>2. u = t /\ pc[t] = "locked"
    BY <2>1 DEF Deny, Inv, CallOK
  <2>3. /\ seen[t] = AsBucket(ledger[ip[t]]) /\ ip[t] \in Ips
        /\ now[t] < ledger[ip[t]].start + Window
    BY <2>1, <2>2, HolderSees, HolderCounts DEF Deny
  <2>4. ledger[ip[t]].granted >= perMin
    BY <2>1, <2>2, <2>3 DEF Deny, Spent, AsBucket
  <2>5. /\ ledger[ip[t]].granted <= perMin /\ ledger[ip[t]].granted \in Nat
        /\ perMin \in Int
    BY <2>2, <2>3, HolderSees, ConstantsAssumption DEF Inv, TypeOK, WindowWithinLimit
  <2> QED  BY <2>1, <2>2, <2>3, <2>4, <2>5 DEF Deny
<1> QED  BY InitInv, StepInv, <1>1, PTL DEF Spec, DenyOnlyWhenSpent

\* Without sweeping, an address keeps its bucket.
LEMMA StepRemembered ==
  FewAddresses /\ Inv /\ Remembered /\ [Next]_vars => Remembered'
<1> SUFFICES ASSUME FewAddresses, Inv, Remembered, [Next]_vars  PROVE Remembered'
  OBVIOUS
<1>1. ASSUME NEW t \in Threads, Lock(t)  PROVE Remembered'
  <2>1. buckets' = WithBucket(buckets, ip[t]) /\ UNCHANGED ledger
    BY <1>1, NotSwept DEF Lock, Inv
  <2> QED  BY <2>1 DEF Remembered, WithBucket
<1>2. ASSUME NEW t \in Threads, OpenWindow(t) \/ Admit(t)  PROVE Remembered'
  <2>1. PICK w \in [start : Times, granted : Nat] :
          /\ buckets' = [buckets EXCEPT ![ip[t]] = AsBucket(w)]
          /\ ledger' = [ledger EXCEPT ![ip[t]] = w]
    BY <1>2, OpenWindowIs, AdmitIs
  <2>2. w.start # 0
    BY ConstantsAssumption DEF Times
  <2>3. AsBucket(w) # Fresh
    BY <2>2 DEF AsBucket, Fresh
  <2>4. ip[t] \in DOMAIN buckets
    BY <1>2, HolderSees DEF OpenWindow, Admit
  <2> QED  BY <2>1, <2>3, <2>4 DEF Remembered, Inv, TypeOK
<1>3. CASE UNCHANGED <<buckets, ledger>>
  BY <1>3 DEF Remembered
<1> QED  BY <1>1, <1>2, <1>3 DEF Next, Finish, Tick, CallDisabled, Call, Deny, vars

\* Without sweeping, a window is opened when the one before is over by the
\* reading of the opener.
LEMMA OpensApart ==
  ASSUME Inv, Remembered, NEW t \in Threads, OpenWindow(t)
  PROVE  ledger[ip[t]] = NoWindow \/ now[t] >= ledger[ip[t]].start + Window
<1>1. /\ ip[t] \in Ips /\ now[t] \in Times
      /\ seen[t] = AsBucket(ledger[ip[t]]) \/ seen[t] = Fresh
      /\ seen[t] = buckets[ip[t]]
  BY HolderSees DEF OpenWindow
<1>2. CASE seen[t] = Fresh
  BY <1>1, <1>2 DEF Remembered
<1>3. CASE seen[t] = AsBucket(ledger[ip[t]])
  <2>1. seen[t].windowStart = ledger[ip[t]].start
    BY <1>3 DEF AsBucket
  <2>2. ledger[ip[t]].start = 0 => ledger[ip[t]] = NoWindow
    BY <1>1, ConstantsAssumption DEF Inv, LedgerOK, Times
  <2>3. /\ ledger[ip[t]].start = 0 \/ now[t] - ledger[ip[t]].start >= Window
        /\ now[t] \in Int /\ ledger[ip[t]].start \in Int /\ Window \in Int
    BY <1>1, <2>1, ConstantsAssumption
       DEF OpenWindow, StartsWindow, Expired, Inv, TypeOK, Times
  <2> QED  BY <2>2, <2>3
<1> QED  BY <1>1, <1>2, <1>3

\* Every step of the limiter is a step of the quota or changes nothing of it.
LEMMA StepSimulates ==
  Inv /\ Remembered /\ [Next]_vars => [Quota!Next]_(Quota!quotaVars)
<1> SUFFICES ASSUME Inv, Remembered, [Next]_vars
             PROVE  Quota!Next \/ UNCHANGED <<perMin, ledger>>
  BY DEF Quota!quotaVars
<1>1. ASSUME NEW t \in Threads, OpenWindow(t)  PROVE Quota!Open(ip[t]) /\ ip[t] \in Ips
  <2>1. ip[t] \in Ips /\ now[t] \in Times /\ perMin > 0
    BY <1>1, HolderSees DEF OpenWindow
  <2>2. ledger[ip[t]] = NoWindow \/ now[t] >= ledger[ip[t]].start + Window
    BY <1>1, OpensApart
  <2> QED  BY <1>1, <2>1, <2>2 DEF OpenWindow, Return, Quota!Open, Quota!NoWindow, NoWindow
<1>2. ASSUME NEW t \in Threads, Admit(t)  PROVE Quota!Grant(ip[t]) /\ ip[t] \in Ips
  BY <1>2, AdmitIs, HolderSees DEF Admit, Return, Quota!Grant, Quota!NoWindow, NoWindow
<1>3. CASE UNCHANGED <<perMin, ledger>>
  BY <1>3
<1> QED  BY <1>1, <1>2, <1>3 DEF Quota!Next, Next, Finish, Tick, CallDisabled, Call,
                                 Lock, Deny, Return, vars

\* As long as the addresses fit in the table, the windows of an address do not
\* overlap, as RateLimiter.h:2 says: "N requests per 60s window".
THEOREM WindowsApart == ASSUME FewAddresses PROVE Spec => WindowsDisjoint
<1> DEFINE Disjoint ==
      \A a \in Ips :
        ledger'[a].start # ledger[a].start =>
          ledger[a] = NoWindow \/ ledger'[a].start >= ledger[a].start + Window
<1>1. Inv /\ Remembered /\ [Next]_vars => [Disjoint]_vars
  <2> SUFFICES ASSUME Inv, Remembered, Next, NEW a \in Ips,
                      ledger'[a].start # ledger[a].start
               PROVE  ledger[a] = NoWindow \/ ledger'[a].start >= ledger[a].start + Window
    BY DEF vars
  <2>1. PICK t \in Threads : OpenWindow(t) \/ Admit(t)
    BY DEF Next, Finish, Tick, CallDisabled, Call, Lock, Deny
  <2>2. CASE OpenWindow(t)
    <3>1. a = ip[t] /\ ledger'[a].start = now[t]
      BY <2>2 DEF OpenWindow, Inv, TypeOK
    <3> QED  BY <2>2, <3>1, OpensApart
  <2>3. CASE Admit(t)
    BY <2>3 DEF Admit, Inv, TypeOK
  <2> QED  BY <2>1, <2>2, <2>3
<1>2. FewAddresses /\ Inv /\ Remembered /\ [Next]_vars => Inv' /\ Remembered'
  BY StepInv, StepRemembered
<1>3. FewAddresses
  OBVIOUS
<1> QED  BY <1>1, <1>2, <1>3, InitInv, PTL DEF Spec, WindowsDisjoint

LEMMA InitQuota == Init => Quota!Init
BY DEF Init, Quota!Init, Quota!NoWindow, NoWindow

\* As long as the addresses fit in the table (20000 of them), the limiter
\* implements the fixed-window quota of RateLimiter.h:2: the windows of an
\* address do not overlap and none grants more than the limit.
THEOREM ImplementsQuota == ASSUME FewAddresses PROVE Spec => QuotaSpec
<1>1. Init => Quota!Init
  BY InitQuota
<1>2. FewAddresses /\ Inv /\ Remembered /\ [Next]_vars => Inv' /\ Remembered'
  BY StepInv, StepRemembered
<1>3. Inv /\ Remembered /\ [Next]_vars => [Quota!Next]_(Quota!quotaVars)
  BY StepSimulates
<1>4. FewAddresses
  OBVIOUS
<1>5. Spec => Quota!Spec
  BY <1>1, <1>2, <1>3, <1>4, InitInv, PTL DEF Spec, Quota!Spec
<1> QED  BY <1>5 DEF QuotaSpec
=============================================================================
