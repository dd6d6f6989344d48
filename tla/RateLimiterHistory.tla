------------------------- MODULE RateLimiterHistory -------------------------
(***************************************************************************)
(* The rate limiter with a record of when it granted what, in real time:   *)
(* what the windows of the table mean for a client.  One address is        *)
(* watched; which one it is makes no difference.                           *)
(***************************************************************************)
EXTENDS RateLimiter

CONSTANT Watched  \* the address whose grants are recorded

ASSUME WatchedAssumption == Watched \in Ips /\ IsFiniteSet(Threads)

VARIABLE recent  \* the grants to Watched of the last Window seconds

historyVars == <<vars, recent>>

HistoryInit == Init /\ recent = {}

\* A second passes, and the oldest grants are no longer recent.
Pass ==
  /\ Tick
  /\ recent' = {g \in recent : g.at > clock' - Window}

\* The grant that t returns with: when, at which reading of line 20, how many
\* windows ago, and as which of its window.  No two grants are equal.
GrantOf(t) ==
  [at |-> clock, read |-> now[t], by |-> t, age |-> 0, nth |-> ledger'[ip[t]].granted]

Older(grants) == {[g EXCEPT !.age = @ + 1] : g \in grants}

Opened(t) ==
  /\ OpenWindow(t)
  /\ recent' = IF ip[t] = Watched THEN Older(recent) \cup {GrantOf(t)} ELSE recent

Admitted(t) ==
  /\ Admit(t)
  /\ recent' = IF ip[t] = Watched THEN recent \cup {GrantOf(t)} ELSE recent

Other ==
  /\ \/ \E t \in Threads, a \in Ips : CallDisabled(t, a) \/ Call(t, a)
     \/ \E t \in Threads : Lock(t) \/ Deny(t)
  /\ UNCHANGED recent

HistoryNext == Pass \/ (\E t \in Threads : Opened(t) \/ Admitted(t)) \/ Other

HistorySpec ==
  HistoryInit /\ [][HistoryNext]_historyVars /\ \A t \in Threads : WF_vars(Finish(t))

\* Nothing bounds how long a caller is delayed between the clock of line 20 and
\* the lock of line 24.  While the table is never swept, the price is small: in
\* any Window consecutive seconds an address is granted at most two windows,
\* the usual edge of a fixed window, and one request for each other thread.
RollingBound ==
  perMin > 0 => Cardinality(recent) <= 2 * perMin + Cardinality(Threads) - 1

\* When sweeping (line 25) has dropped the bucket, a delayed caller opens an
\* outdated window that callers in time then fill: every thread is worth a
\* window, and that is all.
SweptRollingBound ==
  perMin > 0 => Cardinality(recent) <= (Cardinality(Threads) + 1) * perMin
=============================================================================
