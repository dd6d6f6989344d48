---------------------- MODULE RateLimiterHistoryProofs ----------------------
(***************************************************************************)
(* What a client may be granted in any Window consecutive seconds, for any *)
(* number of threads and addresses, any limit and any window: two windows  *)
(* and a request for each other thread while the table is not swept, and a *)
(* window for each thread and one more when it is.                         *)
(***************************************************************************)
EXTENDS RateLimiterHistory, RateLimiterProofs

Grant == [at : Nat, read : Nat, by : Threads, age : Nat, nth : Nat]

\* A reading or a moment that is Window seconds ago or more.
Stale(reading) == reading <= clock - Window

\* The window that the ledger holds for the watched address.
Latest == ledger[Watched]

\* What the recent grants look like, and the calls under way.
GrantsOK ==
  /\ recent \subseteq Grant
  /\ \A g \in recent :
       /\ g.read <= g.at /\ ~Stale(g.at) /\ g.at <= clock
       /\ 1 <= g.nth /\ g.nth <= perMin
       /\ g.age = 0 => g.nth <= Latest.granted
  /\ \A t \in Threads : pc[t] # "idle" => now[t] <= clock

\* A grant is told by its window and its place there.
ToldApart == \A g, h \in recent : g.age = h.age /\ g.nth = h.nth => g = h

Before(g, h) == g.age > h.age \/ (g.age = h.age /\ g.nth < h.nth)

\* Grants are made one after the other, and a thread reads the clock anew
\* after each of its own.
InOrder ==
  /\ \A g, h \in recent :
       Before(g, h) => g.at <= h.at /\ (g.by = h.by => g.at <= h.read)
  /\ \A g \in recent : pc[g.by] # "idle" => g.at <= now[g.by]

\* The grant that opened a window is more recent than any of the windows before.
Openers ==
  \A g \in recent, k \in Nat : k < g.age => \E o \in recent : o.age = k /\ o.nth = 1

\* The table keeps the latest window for as long as it lasts.
Kept ==
  \/ Stale(Latest.start)
  \/ Latest = NoWindow
  \/ Watched \in DOMAIN buckets /\ buckets[Watched] = AsBucket(Latest)

\* So when a window was followed by another one, the reading that opened it is
\* stale.
StaleOpeners ==
  \A o \in recent :
    o.nth = 1 => IF o.age = 0 THEN o.read = Latest.start ELSE Stale(o.read)

\* The inductive invariant for any table.
HistoryInv ==
  /\ GrantsOK
  /\ ToldApart
  /\ InOrder
  /\ Openers
  /\ Kept
  /\ StaleOpeners

\* What it takes besides while the table is not swept: the windows of the
\* readings do not overlap, and the readings of the last but one are stale.
Apart ==
  \A g \in recent :
    /\ g.read < Latest.start + Window
    /\ g.age >= 1 => g.read < Latest.start
    /\ g.age >= 2 => Stale(g.read)
-----------------------------------------------------------------------------
LEMMA HistoryRefines == HistorySpec => Spec
<1>1. HistoryInit => Init
  BY DEF HistoryInit
<1>2. [HistoryNext]_historyVars => [Next]_vars
  BY DEF HistoryNext, historyVars, Pass, Opened, Admitted, Other, Next, Finish
<1> QED  BY <1>1, <1>2, PTL DEF HistorySpec, Spec

LEMMA HistoryInitInv == HistoryInit => HistoryInv /\ Apart
<1> SUFFICES ASSUME HistoryInit  PROVE HistoryInv /\ Apart
  OBVIOUS
<1>1. recent = {} /\ Latest = NoWindow /\ \A t \in Threads : pc[t] = "idle"
  BY WatchedAssumption DEF HistoryInit, Init, Latest
<1> QED  BY <1>1 DEF HistoryInv, Apart, GrantsOK, ToldApart, InOrder, Openers, Kept,
                     StaleOpeners

\* A second passes: what is dropped is older than what stays.
LEMMA PassHistory ==
  ASSUME Inv, HistoryInv, Pass
  PROVE  HistoryInv' /\ (Apart => Apart')
<1> USE DEF HistoryInv
<1>1. /\ clock' = clock + 1 /\ clock \in Int /\ Window \in Nat
      /\ recent' = {g \in recent : g.at > clock' - Window}
      /\ UNCHANGED <<perMin, buckets, pc, now, ledger>>
  BY ConstantsAssumption DEF Pass, Tick, Inv, TypeOK
<1>2. recent' \subseteq recent /\ \A g \in recent' : g \in Grant /\ g.at > clock' - Window
  BY <1>1 DEF GrantsOK
<1>3. ASSUME NEW r \in Int, Stale(r)  PROVE Stale(r)'
  BY <1>1, <1>3 DEF Stale
<1>4. GrantsOK'
  <2>1. ASSUME NEW g \in recent'  PROVE ~Stale(g.at)' /\ g.at <= clock'
    BY <1>1, <1>2, <2>1 DEF Stale, GrantsOK, Grant
  <2>2. ASSUME NEW t \in Threads, pc[t] # "idle"  PROVE now[t] <= clock'
    BY <1>1, <2>2 DEF GrantsOK, Inv, TypeOK
  <2> QED  BY <1>1, <1>2, <2>1, <2>2 DEF GrantsOK, Latest
<1>5. ToldApart' /\ InOrder'
  BY <1>1, <1>2 DEF ToldApart, InOrder, Before
<1>6. Openers'
  <2> SUFFICES ASSUME NEW g \in recent', NEW k \in Nat, k < g.age
               PROVE  \E o \in recent' : o.age = k /\ o.nth = 1
    BY DEF Openers
  <2>1. PICK o \in recent : o.age = k /\ o.nth = 1
    BY <1>2 DEF Openers
  <2>2. g.at <= o.at /\ g.at \in Nat /\ o.at \in Nat /\ g.at > clock' - Window
    BY <1>2, <2>1 DEF InOrder, Before, GrantsOK, Grant
  <2> QED  BY <1>1, <2>1, <2>2
<1>7. Latest' = Latest /\ Latest.start \in Int
  BY <1>1, WatchedAssumption DEF Latest, Inv, TypeOK
<1>8. Kept'
  BY <1>1, <1>3, <1>7 DEF Kept
<1>9. StaleOpeners'
  BY <1>2, <1>3, <1>7 DEF StaleOpeners, Grant
<1>10. Apart => Apart'
  BY <1>2, <1>3, <1>7 DEF Apart, Grant
<1> QED  BY <1>4, <1>5, <1>6, <1>8, <1>9, <1>10

\* The clock of a call is never ahead, and the grant it ends with is the last
\* one so far.
LEMMA GrantIs ==
  ASSUME Inv, HistoryInv, NEW t \in Threads, pc[t] = "locked", ip[t] = Watched,
         Return(t, "allowed"), NEW w \in [start : Times, granted : Nat],
         ledger' = [ledger EXCEPT ![Watched] = w], w.granted >= 1
  PROVE  LET new == GrantOf(t)
         IN  /\ new = [at |-> clock, read |-> now[t], by |-> t, age |-> 0,
                       nth |-> w.granted]
             /\ new \in Grant /\ new.read <= new.at /\ ~Stale(new.at)
             /\ Latest' = w
             /\ \A g \in recent : g.at <= new.at /\ (g.by = t => g.at <= new.read)
             /\ \A u \in Threads : pc'[u] # "idle" => u # t /\ pc[u] # "idle" /\ now'[u] = now[u]
             /\ UNCHANGED <<perMin, clock>>
<1> DEFINE new == GrantOf(t)
<1>1. Watched \in Ips /\ ledger \in [Ips -> [start : Nat, granted : Nat]]
  BY WatchedAssumption DEF Inv, TypeOK
<1>2. Latest' = w
  BY <1>1 DEF Latest
<1>3. new = [at |-> clock, read |-> now[t], by |-> t, age |-> 0, nth |-> w.granted]
  BY <1>2 DEF GrantOf, Latest
<1>4. /\ clock \in Nat /\ now[t] \in Nat /\ now[t] <= clock /\ Window \in Nat \ {0}
      /\ recent \subseteq Grant
  BY ConstantsAssumption DEF Inv, TypeOK, HistoryInv, GrantsOK
<1>5. new \in Grant /\ new.read <= new.at /\ ~Stale(new.at)
  BY <1>3, <1>4 DEF Grant, Stale
<1>6. \A g \in recent : g.at <= new.at /\ (g.by = t => g.at <= new.read)
  BY <1>3 DEF HistoryInv, GrantsOK, InOrder
<1>7. /\ UNCHANGED <<perMin, clock>>
      /\ \A u \in Threads :
           pc'[u] # "idle" => u # t /\ pc[u] # "idle" /\ now'[u] = now[u]
  BY DEF Return, Inv, TypeOK
<1> QED  BY <1>2, <1>3, <1>5, <1>6, <1>7

\* A grant when one more window has been opened.
Aged(g) ==
  [at |-> g.at, read |-> g.read, by |-> g.by, age |-> g.age + 1, nth |-> g.nth]

LEMMA OlderIs ==
  ASSUME NEW S \in SUBSET Grant
  PROVE  Older(S) = {Aged(g) : g \in S}
<1>1. \A g \in S : [g EXCEPT !.age = @ + 1] = Aged(g)
  BY DEF Grant, Aged
<1> QED  BY <1>1 DEF Older

\* A window that has grants has been opened.
LEMMA LatestGranted ==
  ASSUME Inv, HistoryInv, recent # {}
  PROVE  Latest # NoWindow
<1>1. PICK g \in recent : TRUE
  OBVIOUS
<1>2. \E o \in recent : o.age = 0
  BY <1>1 DEF HistoryInv, GrantsOK, Openers, Grant
<1>3. Latest.granted # 0
  BY <1>2 DEF HistoryInv, GrantsOK, Grant
<1> QED  BY <1>3 DEF NoWindow

\* With or without sweeping, a window is opened when the latest one is over by
\* the clock, whatever the reading of the opener says.
LEMMA OpensLate ==
  ASSUME Inv, HistoryInv, NEW t \in Threads, OpenWindow(t), ip[t] = Watched
  PROVE  Latest = NoWindow \/ Stale(Latest.start)
<1> SUFFICES ASSUME Latest # NoWindow, ~Stale(Latest.start)  PROVE FALSE
  OBVIOUS
<1>1. buckets[Watched] = AsBucket(Latest)
  BY DEF HistoryInv, Kept
<1>2. seen[t] = AsBucket(Latest) /\ StartsWindow(seen[t], now[t])
  BY <1>1, HolderSees DEF OpenWindow
<1>3. Latest.start = 0 \/ now[t] - Latest.start >= Window
  BY <1>2 DEF StartsWindow, Expired, AsBucket
<1>4. /\ Latest.start \in Times /\ now[t] <= clock /\ now[t] \in Int /\ clock \in Int
      /\ Window \in Int
  BY WatchedAssumption, ConstantsAssumption
     DEF Inv, TypeOK, LedgerOK, Latest, HistoryInv, GrantsOK, OpenWindow
<1>5. now[t] - Latest.start >= Window
  BY <1>3, <1>4, ConstantsAssumption DEF Times
<1> QED  BY <1>4, <1>5 DEF Stale, Times

LEMMA OpenedHistory ==
  ASSUME Inv, HistoryInv, NEW t \in Threads, Opened(t), ip[t] = Watched
  PROVE  HistoryInv'
<1> USE DEF HistoryInv, Aged
<1> DEFINE w == [start |-> now[t], granted |-> 1]
           new == GrantOf(t)
           old == Older(recent)
<1>1. pc[t] = "locked" /\ OpenWindow(t) /\ Return(t, "allowed")
  BY DEF Opened, OpenWindow
<1>2. /\ w \in [start : Times, granted : Nat] /\ w.granted >= 1 /\ w.granted <= perMin
      /\ buckets' = [buckets EXCEPT ![Watched] = AsBucket(w)]
      /\ ledger' = [ledger EXCEPT ![Watched] = w]
  BY <1>1, OpenWindowIs
<1>3. recent' = old \cup {new}
  BY DEF Opened
<1>4. /\ new = [at |-> clock, read |-> now[t], by |-> t, age |-> 0, nth |-> 1]
      /\ new \in Grant /\ new.read <= new.at /\ ~Stale(new.at)
      /\ Latest' = w
      /\ \A g \in recent : g.at <= new.at /\ (g.by = t => g.at <= new.read)
      /\ \A u \in Threads : pc'[u] # "idle" => u # t /\ pc[u] # "idle" /\ now'[u] = now[u]
      /\ UNCHANGED <<perMin, clock>>
  BY <1>1, <1>2, GrantIs
<1>5. recent \subseteq Grant
  BY DEF GrantsOK
<1>6. old = {Aged(g) : g \in recent}
  BY <1>5, OlderIs
<1> HIDE DEF new, old
<1>7. \A h \in old : h \in Grant /\ h.age >= 1
  BY <1>5, <1>6 DEF Grant
<1>8. \A r : Stale(r)' <=> Stale(r)
  BY <1>4 DEF Stale
<1>9. GrantsOK'
  <2>1. ASSUME NEW h \in old
        PROVE  /\ h.read <= h.at /\ ~Stale(h.at) /\ h.at <= clock
               /\ 1 <= h.nth /\ h.nth <= perMin
    BY <1>5, <1>6 DEF GrantsOK
  <2> QED  BY <1>2, <1>3, <1>4, <1>7, <1>8, <2>1 DEF GrantsOK, Grant
<1>10. ToldApart'
  <2>1. ASSUME NEW g \in old, NEW h \in old, g.age = h.age, g.nth = h.nth  PROVE g = h
    <3>1. PICK gg \in recent : g = Aged(gg)
      BY <1>6
    <3>2. PICK hh \in recent : h = Aged(hh)
      BY <1>6
    <3>3. gg.age = hh.age /\ gg.nth = hh.nth
      BY <1>5, <2>1, <3>1, <3>2 DEF Grant
    <3> QED  BY <3>1, <3>2, <3>3 DEF ToldApart
  <2> QED  BY <1>3, <1>4, <1>7, <2>1 DEF ToldApart
<1>11. InOrder'
  <2>1. ASSUME NEW g \in recent', NEW h \in recent', Before(g, h)
        PROVE  g.at <= h.at /\ (g.by = h.by => g.at <= h.read)
    <3>1. CASE g = new
      BY <1>3, <1>4, <1>7, <2>1, <3>1 DEF Before, Grant
    <3>2. CASE g \in old /\ h = new
      BY <1>4, <1>6, <3>2
    <3>3. CASE g \in old /\ h \in old
      <4>1. PICK gg \in recent : g = Aged(gg)
        BY <1>6, <3>3
      <4>2. PICK hh \in recent : h = Aged(hh)
        BY <1>6, <3>3
      <4>3. Before(gg, hh)
        BY <1>5, <2>1, <4>1, <4>2 DEF Before, Grant
      <4> QED  BY <4>1, <4>2, <4>3 DEF InOrder
    <3> QED  BY <1>3, <3>1, <3>2, <3>3
  <2>2. ASSUME NEW g \in recent', pc'[g.by] # "idle"  PROVE g.at <= now'[g.by]
    <3>1. g.by # t /\ g.by \in Threads /\ pc[g.by] # "idle" /\ now'[g.by] = now[g.by]
      BY <1>3, <1>4, <1>7, <2>2 DEF Grant
    <3>2. PICK gg \in recent : gg.at = g.at /\ gg.by = g.by
      BY <1>3, <1>4, <1>6, <3>1
    <3> QED  BY <3>1, <3>2 DEF InOrder
  <2>3. \A g, h : Before(g, h)' <=> Before(g, h)
    BY DEF Before
  <2> QED  BY <2>1, <2>2, <2>3 DEF InOrder
<1>12. Openers'
  <2> SUFFICES ASSUME NEW g \in recent', NEW k \in Nat, k < g.age
               PROVE  \E o \in recent' : o.age = k /\ o.nth = 1
    BY DEF Openers
  <2>1. CASE k = 0
    BY <1>3, <1>4, <2>1
  <2>2. CASE k # 0
    <3>1. g \in old
      BY <1>3, <1>4, <2>2
    <3>2. PICK gg \in recent : g.age = gg.age + 1
      BY <1>6, <3>1
    <3>3. k - 1 \in Nat /\ k - 1 < gg.age
      BY <1>5, <2>2, <3>2 DEF Grant
    <3>4. PICK o \in recent : o.age = k - 1 /\ o.nth = 1
      BY <3>3 DEF Openers
    <3>5. Aged(o) \in recent'
      BY <1>3, <1>6
    <3>6. Aged(o).age = k /\ Aged(o).nth = 1
      BY <3>4
    <3> QED  BY <3>5, <3>6
  <2> QED  BY <2>1, <2>2
<1>13. Kept'
  <2>1. Watched \in DOMAIN buckets
    BY <1>1, HolderSees
  <2> QED  BY <1>2, <1>4, <2>1 DEF Kept, Inv, TypeOK
<1>14. StaleOpeners'
  <2> SUFFICES ASSUME NEW o \in recent', o.nth = 1
               PROVE  IF o.age = 0 THEN o.read = Latest'.start ELSE Stale(o.read)
    BY <1>8 DEF StaleOpeners
  <2>1. CASE o = new
    BY <1>4, <2>1
  <2>2. CASE o \in old
    <3>1. PICK oo \in recent : o = Aged(oo)
      BY <1>6, <2>2
    <3>2. oo.age = 0 => oo.read = Latest.start
      BY <3>1 DEF StaleOpeners
    <3>3. Stale(Latest.start)
      BY <1>1, OpensLate, LatestGranted, <3>1
    <3>4. Stale(oo.read)
      BY <3>1, <3>2, <3>3 DEF StaleOpeners
    <3> QED  BY <1>5, <3>1, <3>4 DEF Grant
  <2> QED  BY <1>3, <2>1, <2>2
<1> QED  BY <1>9, <1>10, <1>11, <1>12, <1>13, <1>14

LEMMA AdmittedHistory ==
  ASSUME Inv, HistoryInv, NEW t \in Threads, Admitted(t), ip[t] = Watched
  PROVE  HistoryInv'
<1> USE DEF HistoryInv
<1> DEFINE w == [Latest EXCEPT !.granted = @ + 1]
           new == GrantOf(t)
<1>1. pc[t] = "locked" /\ Admit(t) /\ Return(t, "allowed")
  BY DEF Admitted, Admit
<1>2. /\ Latest # NoWindow
      /\ w \in [start : Times, granted : Nat] /\ w.granted >= 1 /\ w.granted <= perMin
      /\ buckets' = [buckets EXCEPT ![Watched] = AsBucket(w)]
      /\ ledger' = [ledger EXCEPT ![Watched] = w]
  BY <1>1, AdmitIs DEF Latest
<1>3. recent' = recent \cup {new}
  BY DEF Admitted
<1>4. /\ new = [at |-> clock, read |-> now[t], by |-> t, age |-> 0, nth |-> w.granted]
      /\ new \in Grant /\ new.read <= new.at /\ ~Stale(new.at)
      /\ Latest' = w
      /\ \A g \in recent : g.at <= new.at /\ (g.by = t => g.at <= new.read)
      /\ \A u \in Threads : pc'[u] # "idle" => u # t /\ pc[u] # "idle" /\ now'[u] = now[u]
      /\ UNCHANGED <<perMin, clock>>
  BY <1>1, <1>2, GrantIs
<1>5. Latest \in [start : Nat, granted : Nat] /\ Latest.granted >= 1
  BY <1>2, WatchedAssumption DEF Inv, TypeOK, LedgerOK, Latest
<1>6. w.granted = Latest.granted + 1 /\ w.start = Latest.start
  BY <1>5
<1> HIDE DEF new, w
<1>7. recent \subseteq Grant /\ \A g \in recent : g.age = 0 => g.nth < new.nth
  BY <1>4, <1>5, <1>6 DEF GrantsOK, Grant
<1>8. \A r : Stale(r)' <=> Stale(r)
  BY <1>4 DEF Stale
<1>9. GrantsOK'
  <2>1. \A g \in recent : g.age = 0 => g.nth <= w.granted
    BY <1>4, <1>7 DEF Grant
  <2> QED  BY <1>2, <1>3, <1>4, <1>7, <1>8, <2>1 DEF GrantsOK, Grant
<1>10. ToldApart'
  BY <1>3, <1>4, <1>7 DEF ToldApart, Grant
<1>11. InOrder'
  <2>1. ASSUME NEW g \in recent', NEW h \in recent', Before(g, h)
        PROVE  g.at <= h.at /\ (g.by = h.by => g.at <= h.read)
    <3>1. CASE g = new
      BY <1>3, <1>4, <1>7, <2>1, <3>1 DEF Before, Grant
    <3>2. CASE g \in recent /\ h = new
      BY <1>4, <3>2
    <3>3. CASE g \in recent /\ h \in recent
      BY <2>1, <3>3 DEF InOrder
    <3> QED  BY <1>3, <3>1, <3>2, <3>3
  <2>2. ASSUME NEW g \in recent', pc'[g.by] # "idle"  PROVE g.at <= now'[g.by]
    <3>1. g.by # t /\ g.by \in Threads /\ pc[g.by] # "idle" /\ now'[g.by] = now[g.by]
      BY <1>3, <1>4, <1>7, <2>2 DEF Grant
    <3>2. g \in recent
      BY <1>3, <1>4, <3>1
    <3> QED  BY <3>1, <3>2 DEF InOrder
  <2>3. \A g, h : Before(g, h)' <=> Before(g, h)
    BY DEF Before
  <2> QED  BY <2>1, <2>2, <2>3 DEF InOrder
<1>12. Openers'
  BY <1>3, <1>4 DEF Openers
<1>13. Kept'
  <2>1. Watched \in DOMAIN buckets
    BY <1>1, HolderSees
  <2> QED  BY <1>2, <1>4, <2>1 DEF Kept, Inv, TypeOK
<1>14. StaleOpeners'
  BY <1>3, <1>4, <1>5, <1>6, <1>8 DEF StaleOpeners, Grant
<1> QED  BY <1>9, <1>10, <1>11, <1>12, <1>13, <1>14

\* A step that grants nothing to the watched address.
LEMMA QuietHistory ==
  ASSUME Inv, HistoryInv, UNCHANGED <<perMin, clock, recent>>, Latest' = Latest, Kept',
         \A t \in Threads :
           pc'[t] # "idle" => now'[t] = clock \/ (pc[t] # "idle" /\ now'[t] = now[t])
  PROVE  HistoryInv' /\ (Apart => Apart')
<1> USE DEF HistoryInv
<1>1. \A r : Stale(r)' <=> Stale(r)
  BY DEF Stale
<1>2. GrantsOK'
  BY <1>1 DEF GrantsOK, Inv, TypeOK
<1>3. ToldApart' /\ Openers' /\ StaleOpeners'
  BY <1>1 DEF ToldApart, Openers, StaleOpeners
<1>4. InOrder'
  BY DEF InOrder, GrantsOK, Grant, Before
<1>5. Apart => Apart'
  BY <1>1 DEF Apart
<1> QED  BY <1>2, <1>3, <1>4, <1>5

\* Sweeping drops no window that is not over: the reading of line 20 is never
\* ahead of the clock.
LEMMA LockKeeps ==
  ASSUME Inv, HistoryInv, NEW t \in Threads, Lock(t)
  PROVE  Kept'
<1> DEFINE table == Swept(buckets, now[t])
<1>1. /\ buckets' = WithBucket(table, ip[t]) /\ UNCHANGED <<clock, ledger>>
      /\ pc[t] = "waiting"
  BY DEF Lock
<1>2. Latest' = Latest /\ \A r : Stale(r)' <=> Stale(r)
  BY <1>1 DEF Latest, Stale
<1>3. ASSUME ~Stale(Latest.start), Watched \in DOMAIN buckets,
             buckets[Watched] = AsBucket(Latest)
      PROVE  Watched \in DOMAIN buckets' /\ buckets'[Watched] = buckets[Watched]
  <2>1. now[t] <= clock /\ now[t] \in Int /\ clock \in Int /\ Window \in Int
    BY <1>1, ConstantsAssumption DEF HistoryInv, GrantsOK, Inv, TypeOK
  <2>2. Latest.start \in Int
    BY WatchedAssumption DEF Latest, Inv, TypeOK
  <2>3. ~Expired(buckets[Watched], now[t])
    BY <1>3, <2>1, <2>2 DEF Expired, Stale, AsBucket
  <2>4. Watched \in DOMAIN table /\ table[Watched] = buckets[Watched]
    BY <1>3, <2>3 DEF Swept, Purged
  <2> QED  BY <1>1, <2>4 DEF WithBucket
<1> QED  BY <1>2, <1>3 DEF HistoryInv, Kept

\* A grant to another address, and every step that grants nothing.
LEMMA ElsewhereHistory ==
  ASSUME Inv, HistoryInv, UNCHANGED recent,
         \/ Other
         \/ UNCHANGED historyVars
         \/ \E t \in Threads : (OpenWindow(t) \/ Admit(t)) /\ ip[t] # Watched
  PROVE  HistoryInv' /\ (Apart => Apart') /\ Latest' = Latest
<1> DEFINE Calls ==
      \A t \in Threads :
        pc'[t] # "idle" => now'[t] = clock \/ (pc[t] # "idle" /\ now'[t] = now[t])
      Same == UNCHANGED <<perMin, clock>> /\ Latest' = Latest
      Stays == Watched \in DOMAIN buckets =>
                   Watched \in DOMAIN buckets' /\ buckets'[Watched] = buckets[Watched]
<1>1. ASSUME Same, Stays  PROVE Kept'
  BY <1>1 DEF HistoryInv, Kept, Stale, Latest
<1>2. ASSUME NEW t \in Threads, NEW a \in Ips, Call(t, a)
      PROVE  Same /\ Stays /\ Calls
  BY <1>2 DEF Call, Latest, Inv, TypeOK
<1>3. ASSUME NEW t \in Threads, NEW a \in Ips, CallDisabled(t, a)
      PROVE  Same /\ Stays /\ Calls
  BY <1>3 DEF CallDisabled, Latest
<1>4. ASSUME NEW t \in Threads, Lock(t)  PROVE Same /\ Kept' /\ Calls
  <2>1. Kept'
    BY <1>4, LockKeeps
  <2> QED  BY <1>4, <2>1 DEF Lock, Latest, Inv, TypeOK
<1>5. ASSUME NEW t \in Threads, Return(t, "allowed") \/ Return(t, "denied")
      PROVE  UNCHANGED <<perMin, clock>> /\ Calls
  BY <1>5 DEF Return, Inv, TypeOK
<1>6. ASSUME NEW t \in Threads, Deny(t)  PROVE Same /\ Stays /\ Calls
  BY <1>5, <1>6 DEF Deny, Latest
<1>7. ASSUME NEW t \in Threads, OpenWindow(t) \/ Admit(t), ip[t] # Watched
      PROVE  Same /\ Stays /\ Calls
  <2>1. Return(t, "allowed")
    BY <1>7 DEF OpenWindow, Admit
  <2>2. Stays
    BY <1>7 DEF OpenWindow, Admit
  <2>3. Latest' = Latest
    BY <1>7, WatchedAssumption DEF OpenWindow, Admit, Latest, Inv, TypeOK
  <2> QED  BY <1>5, <2>1, <2>2, <2>3
<1>8. CASE UNCHANGED historyVars
  BY <1>1, <1>8, QuietHistory DEF historyVars, vars, Latest
<1> HIDE DEF Calls, Same, Stays
<1>9. (Same /\ Kept' /\ Calls) \/ UNCHANGED historyVars
  BY <1>1, <1>2, <1>3, <1>4, <1>6, <1>7 DEF Other
<1> QED  BY <1>8, <1>9, QuietHistory DEF Same, Calls

LEMMA StepHistory ==
  ASSUME Inv, HistoryInv, [HistoryNext]_historyVars
  PROVE  HistoryInv'
<1>1. CASE Pass
  BY <1>1, PassHistory
<1>2. ASSUME NEW t \in Threads, Opened(t) \/ Admitted(t)  PROVE HistoryInv'
  <2>1. CASE ip[t] = Watched
    BY <1>2, <2>1, OpenedHistory, AdmittedHistory
  <2>2. CASE ip[t] # Watched
    BY <1>2, <2>2, ElsewhereHistory DEF Opened, Admitted
  <2> QED  BY <2>1, <2>2
<1>3. CASE Other \/ UNCHANGED historyVars
  BY <1>3, ElsewhereHistory DEF Other, historyVars
<1> QED  BY <1>1, <1>2, <1>3 DEF HistoryNext

\* Without sweeping, the readings of a window are all before the next one.
LEMMA StepApart ==
  ASSUME Inv, Remembered, HistoryInv, Apart, [HistoryNext]_historyVars
  PROVE  Apart'
<1> DEFINE Elsewhere ==
      \/ Other
      \/ UNCHANGED historyVars
      \/ \E t \in Threads : (OpenWindow(t) \/ Admit(t)) /\ ip[t] # Watched
<1>1. CASE Pass
  BY <1>1, PassHistory
<1>2. CASE UNCHANGED recent /\ Elsewhere
  BY <1>2, ElsewhereHistory
<1>3. /\ Latest \in [start : Nat, granted : Nat] /\ recent \subseteq Grant
      /\ Window \in Nat \ {0} /\ \A t \in Threads : now[t] \in Nat
      /\ ledger \in [Ips -> [start : Nat, granted : Nat]]
  BY ConstantsAssumption, WatchedAssumption
     DEF Inv, TypeOK, Latest, HistoryInv, GrantsOK
<1>4. ASSUME NEW t \in Threads, Admitted(t), ip[t] = Watched  PROVE Apart'
  <2>1. Admit(t) /\ recent' = recent \cup {GrantOf(t)} /\ pc[t] = "locked" /\ clock' = clock
    BY <1>4 DEF Admitted, Admit, Return
  <2>2. now[t] < Latest.start + Window
    BY <1>4, <2>1, HolderCounts DEF Admit, Latest
  <2>3. Latest'.start = Latest.start
    BY <1>3, <1>4, <2>1, WatchedAssumption DEF Admit, Latest
  <2>4. \A g \in recent : Apart!(g)'
    BY <2>1, <2>3 DEF Apart, Stale
  <2>5. GrantOf(t).read = now[t] /\ GrantOf(t).age = 0
    BY DEF GrantOf
  <2> QED  BY <2>1, <2>2, <2>3, <2>4, <2>5 DEF Apart
<1>5. ASSUME NEW t \in Threads, Opened(t), ip[t] = Watched  PROVE Apart'
  <2>1. /\ OpenWindow(t) /\ recent' = Older(recent) \cup {GrantOf(t)} /\ clock' = clock
    BY <1>5 DEF Opened, OpenWindow, Return
  <2>2. Latest'.start = now[t]
    BY <1>3, <1>5, <2>1, WatchedAssumption DEF OpenWindow, Latest
  <2>3. Older(recent) = {Aged(g) : g \in recent}
    BY <1>3, OlderIs
  <2>4. ASSUME NEW g \in recent
        PROVE  /\ g.read < now[t]
               /\ g.age >= 1 => Stale(g.read)
    <3>1. Latest # NoWindow
      BY LatestGranted
    <3>2. Stale(Latest.start) /\ now[t] >= Latest.start + Window
      BY <1>5, <2>1, <3>1, OpensLate, OpensApart DEF Latest
    <3>3. g.read < Latest.start + Window /\ (g.age >= 1 => g.read < Latest.start)
      BY DEF Apart
    <3>4. g.read \in Nat /\ now[t] \in Nat /\ Latest.start \in Nat /\ clock \in Nat
      BY <1>3 DEF Grant, Inv, TypeOK
    <3> QED  BY <1>3, <3>2, <3>3, <3>4 DEF Stale
  <2>5. ASSUME NEW g \in recent
        PROVE  /\ Aged(g).read < now[t] + Window
               /\ Aged(g).age >= 1 => Aged(g).read < now[t]
               /\ Aged(g).age >= 2 => Stale(Aged(g).read)
    <3>1. g.read \in Nat /\ g.age \in Nat
      BY <1>3 DEF Grant
    <3> QED  BY <1>3, <2>4, <3>1 DEF Aged
  <2>6. GrantOf(t).read = now[t] /\ GrantOf(t).age = 0
    BY DEF GrantOf
  <2>7. \A r : Stale(r)' <=> Stale(r)
    BY <2>1 DEF Stale
  <2>8. ASSUME NEW h \in recent'
        PROVE  /\ h.read < now[t] + Window
               /\ h.age >= 1 => h.read < now[t]
               /\ h.age >= 2 => Stale(h.read)
    <3>1. CASE h = GrantOf(t)
      BY <1>3, <2>6, <3>1
    <3>2. CASE h \in Older(recent)
      BY <2>3, <2>5, <3>2
    <3> QED  BY <2>1, <3>1, <3>2
  <2> QED  BY <2>2, <2>7, <2>8 DEF Apart
<1>6. ASSUME NEW t \in Threads, Opened(t) \/ Admitted(t), ip[t] # Watched
      PROVE  UNCHANGED recent /\ Elsewhere
  BY <1>6 DEF Opened, Admitted
<1>7. CASE Other \/ UNCHANGED historyVars
  BY <1>2, <1>7 DEF Other, historyVars
<1> QED  BY <1>1, <1>2, <1>4, <1>5, <1>6, <1>7 DEF HistoryNext
-----------------------------------------------------------------------------
\* The grants are counted by giving each of them a mark of its own.
LEMMA CountByMarks ==
  ASSUME NEW S, NEW T, NEW f \in [S -> T], IsFiniteSet(T),
         \A x, y \in S : f[x] = f[y] => x = y
  PROVE  IsFiniteSet(S) /\ Cardinality(S) <= Cardinality(T)
<1>1. f \in Injection(S, T)
  BY DEF Injection, IsInjective
<1> QED  BY <1>1, FS_Injection

LEMMA Rectangle ==
  ASSUME NEW S, IsFiniteSet(S), NEW n \in Nat
  PROVE  IsFiniteSet(S \X (1 .. n)) /\ Cardinality(S \X (1 .. n)) = Cardinality(S) * n
<1>1. IsFiniteSet(1 .. n) /\ Cardinality(1 .. n) = n
  BY FS_Interval
<1> DEFINE T == 1 .. n
<1> HIDE DEF T
<1>2. IsFiniteSet(S \X T) /\ Cardinality(S \X T) = Cardinality(S) * Cardinality(T)
  BY <1>1, FS_Product DEF T
<1> QED  BY <1>1, <1>2 DEF T

\* A thread has one recent grant with a stale reading at most, and none before
\* that one.
LEMMA OneStaleEach ==
  ASSUME Inv, HistoryInv, NEW g \in recent, NEW h \in recent, Before(g, h),
         Stale(h.read)
  PROVE  g.by # h.by
<1> SUFFICES ASSUME g.by = h.by  PROVE FALSE
  OBVIOUS
<1>1. g.at <= h.read
  BY DEF HistoryInv, InOrder
<1>2. ~Stale(g.at) /\ g \in Grant /\ h \in Grant
  BY DEF HistoryInv, GrantsOK
<1>3. clock \in Int /\ Window \in Int
  BY ConstantsAssumption DEF Inv, TypeOK
<1> QED  BY <1>1, <1>2, <1>3 DEF Stale, Grant

\* The grant that stands for a window before the latest one: its first, unless
\* that is not recent any more.
Stand(k) ==
  CHOOSE g \in recent :
    g.age = k /\ (g.nth = 1 \/ \A o \in recent : ~(o.age = k /\ o.nth = 1))

LEMMA StandIs ==
  ASSUME NEW g \in recent
  PROVE  /\ Stand(g.age) \in recent /\ Stand(g.age).age = g.age
         /\ Stand(g.age).nth = 1 \/ \A o \in recent : ~(o.age = g.age /\ o.nth = 1)
<1>1. \E s \in recent :
        s.age = g.age /\ (s.nth = 1 \/ \A o \in recent : ~(o.age = g.age /\ o.nth = 1))
  OBVIOUS
<1> QED  BY <1>1 DEF Stand

\* Different windows before the latest one have different threads standing.
LEMMA StandersDiffer ==
  ASSUME Inv, HistoryInv, NEW g \in recent, NEW h \in recent, g.age > h.age,
         h.age >= 1
  PROVE  Stand(g.age).by # Stand(h.age).by
<1>1. \E o \in recent : o.age = h.age /\ o.nth = 1
  BY DEF HistoryInv, GrantsOK, Grant, Openers
<1>2. /\ Stand(g.age) \in recent /\ Stand(g.age).age = g.age
      /\ Stand(h.age) \in recent /\ Stand(h.age).age = h.age /\ Stand(h.age).nth = 1
  BY <1>1, StandIs
<1>3. Before(Stand(g.age), Stand(h.age)) /\ Stale(Stand(h.age).read)
  BY <1>2 DEF HistoryInv, GrantsOK, Grant, StaleOpeners, Before
<1> QED  BY <1>2, <1>3, OneStaleEach

LEMMA SweptBound == Inv /\ HistoryInv => SweptRollingBound
<1> SUFFICES ASSUME Inv, HistoryInv, perMin > 0
             PROVE  Cardinality(recent) <= (Cardinality(Threads) + 1) * perMin
  BY DEF SweptRollingBound
<1> DEFINE Owners == Threads \cup {NoThread}
           mark == [g \in recent |->
                      <<IF g.age = 0 THEN NoThread ELSE Stand(g.age).by, g.nth>>]
<1>1. recent \subseteq Grant
  BY DEF HistoryInv, GrantsOK
<1>2. ASSUME NEW g \in recent  PROVE Stand(g.age).by \in Threads /\ g.nth \in 1 .. perMin
  BY <1>1, StandIs DEF HistoryInv, GrantsOK, Grant
<1>3. mark \in [recent -> Owners \X (1 .. perMin)]
  BY <1>2
<1>4. ASSUME NEW g \in recent, NEW h \in recent, mark[g] = mark[h]  PROVE g = h
  <2>1. g.nth = h.nth
    BY <1>4
  <2>2. g.age = 0 <=> h.age = 0
    BY <1>2, <1>4, ConstantsAssumption
  <2>3. g.age # 0 => Stand(g.age).by = Stand(h.age).by
    BY <1>4, <2>2
  <2>4. g.age \in Nat /\ h.age \in Nat
    BY <1>1 DEF Grant
  <2>5. g.age = h.age
    BY <2>2, <2>3, <2>4, StandersDiffer
  <2> QED  BY <2>1, <2>5 DEF HistoryInv, ToldApart
<1>5. IsFiniteSet(Owners) /\ Cardinality(Owners) = Cardinality(Threads) + 1
  BY WatchedAssumption, ConstantsAssumption, FS_AddElement
<1>6. perMin \in Nat
  BY ConstantsAssumption DEF Inv, TypeOK
<1> HIDE DEF mark, Owners
<1>7. /\ IsFiniteSet(Owners \X (1 .. perMin))
      /\ Cardinality(Owners \X (1 .. perMin)) = Cardinality(Owners) * perMin
  BY <1>5, <1>6, Rectangle
<1>8. Cardinality(recent) <= Cardinality(Owners \X (1 .. perMin))
  BY <1>3, <1>4, <1>7, CountByMarks
<1> QED  BY <1>5, <1>7, <1>8

LEMMA ApartBound == Inv /\ HistoryInv /\ Apart => RollingBound
<1> SUFFICES ASSUME Inv, HistoryInv, Apart, perMin > 0
             PROVE  Cardinality(recent) <= 2 * perMin + Cardinality(Threads) - 1
  BY DEF RollingBound
<1> DEFINE Seats == {0, 1} \X (1 .. perMin)
           mark == [g \in recent |-> <<IF g.age <= 1 THEN g.age ELSE 2,
                                       IF g.age <= 1 THEN g.nth ELSE g.by>>]
<1>0. perMin \in Nat
  BY ConstantsAssumption DEF Inv, TypeOK
<1>1. recent \subseteq Grant /\ \A g \in recent : g.nth \in 1 .. perMin
  BY DEF HistoryInv, GrantsOK, Grant
<1>2. /\ IsFiniteSet(Seats) /\ Cardinality(Seats) = 2 * perMin
  <2>1. IsFiniteSet({0, 1}) /\ Cardinality({0, 1}) = 2
    <3>1. IsFiniteSet({0}) /\ Cardinality({0}) = 1
      BY FS_Singleton
    <3> DEFINE Z == {0}
    <3>2. {0, 1} = Z \cup {1} /\ 1 \notin Z
      OBVIOUS
    <3> HIDE DEF Z
    <3>3. IsFiniteSet(Z \cup {1}) /\ Cardinality(Z \cup {1}) = Cardinality(Z) + 1
      BY <3>1, <3>2, FS_AddElement DEF Z
    <3>4. Cardinality(Z) = 1
      BY <3>1 DEF Z
    <3> QED  BY <3>2, <3>3, <3>4
  <2> QED  BY <1>0, <2>1, Rectangle
<1>3. ASSUME NEW g \in recent, NEW h \in recent, mark[g] = mark[h]  PROVE g = h
  <2>1. g \in Grant /\ h \in Grant
    BY <1>1
  <2>2. CASE g.age <= 1 \/ h.age <= 1
    <3>1. g.age = h.age /\ g.nth = h.nth
      BY <1>3, <2>1, <2>2 DEF Grant
    <3> QED  BY <3>1 DEF HistoryInv, ToldApart
  <2>3. CASE g.age >= 2 /\ h.age >= 2
    <3>1. g.by = h.by /\ Stale(g.read) /\ Stale(h.read)
      BY <1>3, <2>1, <2>3 DEF Apart, Grant
    <3>2. ~Before(g, h) /\ ~Before(h, g)
      BY <3>1, OneStaleEach
    <3>3. g.age = h.age /\ g.nth = h.nth
      BY <2>1, <3>2 DEF Before, Grant
    <3> QED  BY <3>3 DEF HistoryInv, ToldApart
  <2> QED  BY <2>1, <2>2, <2>3 DEF Grant
<1>4. Cardinality(Threads) \in Nat
  BY WatchedAssumption, FS_CardinalityType
<1>5. CASE \A g \in recent : g.age <= 1
  <2>1. mark \in [recent -> Seats]
    BY <1>1, <1>5 DEF Grant
  <2> HIDE DEF mark, Seats
  <2>2. Cardinality(recent) <= 2 * perMin /\ Cardinality(recent) \in Nat
    <3>1. IsFiniteSet(recent) /\ Cardinality(recent) <= Cardinality(Seats)
      BY <1>2, <1>3, <2>1, CountByMarks
    <3> QED  BY <1>2, <3>1, FS_CardinalityType
  <2>3. recent # {} => Cardinality(Threads) # 0
    BY <1>1, WatchedAssumption, FS_EmptySet DEF Grant
  <2>4. recent = {} => Cardinality(recent) = 0
    BY FS_EmptySet
  <2> QED  BY <1>0, <1>4, <2>2, <2>3, <2>4
<1>6. CASE \E g \in recent : g.age >= 2
  <2>1. PICK o \in recent : o.age = 1 /\ o.nth = 1
    BY <1>1, <1>6 DEF HistoryInv, Openers, Grant
  <2>2. Stale(o.read) /\ o.by \in Threads
    BY <1>1, <2>1 DEF HistoryInv, StaleOpeners, Grant
  <2> DEFINE Others == {2} \X (Threads \ {o.by})
  <2>3. mark \in [recent -> Seats \cup Others]
    <3>1. ASSUME NEW g \in recent, g.age >= 2  PROVE g.by \in Threads \ {o.by}
      BY <1>1, <2>1, <2>2, <3>1, OneStaleEach DEF Before, Grant
    <3> QED  BY <1>1, <3>1 DEF Grant
  <2>4. /\ IsFiniteSet(Threads \ {o.by})
        /\ Cardinality(Threads \ {o.by}) = Cardinality(Threads) - 1
    BY <2>2, WatchedAssumption, FS_RemoveElement
  <2>5. IsFiniteSet(Others) /\ Cardinality(Others) = Cardinality(Threads) - 1
    <3>1. IsFiniteSet({2}) /\ Cardinality({2}) = 1
      BY FS_Singleton
    <3>2. /\ IsFiniteSet(Others)
          /\ Cardinality(Others) = 1 * (Cardinality(Threads) - 1)
      BY <2>4, <3>1, FS_Product
    <3> QED  BY <1>4, <3>2
  <2>6. Seats \cap Others = {}
    OBVIOUS
  <2>7. /\ IsFiniteSet(Seats \cup Others)
        /\ Cardinality(Seats \cup Others) = 2 * perMin + (Cardinality(Threads) - 1)
    <3> HIDE DEF Seats, Others
    <3>1. Cardinality(Seats \cap Others) = 0
      BY <2>6, FS_EmptySet
    <3>2. /\ IsFiniteSet(Seats \cup Others)
          /\ Cardinality(Seats \cup Others)
               = Cardinality(Seats) + Cardinality(Others) - Cardinality(Seats \cap Others)
      BY <1>2, <2>5, FS_Union
    <3> QED  BY <1>0, <1>2, <1>4, <2>5, <3>1, <3>2
  <2> HIDE DEF mark, Seats, Others
  <2>8. Cardinality(recent) <= Cardinality(Seats \cup Others)
    BY <1>3, <2>3, <2>7, CountByMarks
  <2> QED  BY <1>0, <1>4, <2>7, <2>8
<1>7. \A g \in recent : g.age \in Nat
  BY <1>1 DEF Grant
<1> QED  BY <1>5, <1>6, <1>7
-----------------------------------------------------------------------------
\* However long a call is delayed between the clock (line 20) and the lock
\* (line 24), and whenever the table is swept (line 25): in any Window
\* consecutive seconds an address is granted at most a window for each thread
\* and one more.
THEOREM SweptRollingBoundHolds == HistorySpec => []SweptRollingBound
<1>1. Inv /\ HistoryInv /\ [HistoryNext]_historyVars => HistoryInv'
  BY StepHistory
<1>2. Inv /\ HistoryInv => SweptRollingBound
  BY SweptBound
<1>3. HistoryInit => HistoryInv
  BY HistoryInitInv
<1>4. Spec => []Inv
  BY InitInv, StepInv, PTL DEF Spec
<1> QED  BY <1>1, <1>2, <1>3, <1>4, HistoryRefines, PTL DEF HistorySpec

\* As long as the addresses fit in the table, two windows and one request for
\* each other thread.
THEOREM RollingBoundHolds == ASSUME FewAddresses PROVE HistorySpec => []RollingBound
<1>1. Inv /\ Remembered /\ HistoryInv /\ Apart /\ [HistoryNext]_historyVars
        => HistoryInv' /\ Apart'
  BY StepHistory, StepApart
<1>2. Inv /\ HistoryInv /\ Apart => RollingBound
  BY ApartBound
<1>3. HistoryInit => HistoryInv /\ Apart
  BY HistoryInitInv
<1>4. FewAddresses /\ Inv /\ Remembered /\ [Next]_vars => Inv' /\ Remembered'
  BY StepInv, StepRemembered
<1>5. FewAddresses
  OBVIOUS
<1>6. Spec => []Inv /\ []Remembered
  BY <1>4, <1>5, InitInv, PTL DEF Spec
<1> QED  BY <1>1, <1>2, <1>3, <1>6, HistoryRefines, PTL DEF HistorySpec
=============================================================================
