---------------------------- MODULE WindowQuota ----------------------------
(***************************************************************************)
(* What RateLimiter.h promises in its second line: "Fixed-window per-IP    *)
(* rate limiter: N requests per 60s window".  Each address has a window of *)
(* Window seconds; the windows of one address do not overlap; in each of   *)
(* them at most limit requests are granted.                                *)
(***************************************************************************)
EXTENDS Integers

CONSTANTS
  Ips,     \* the client addresses
  Limits,  \* the limits the configuration can give, 0 or less for "disabled"
  Window,  \* the seconds of a window
  Times    \* the readings of the clock, 0 not among them

VARIABLES
  limit,   \* N
  quota    \* the latest window of each address: its start and what it granted

quotaVars == <<limit, quota>>

\* An address that has not been seen has no window.
NoWindow == [start |-> 0, granted |-> 0]

Init ==
  /\ limit \in Limits
  /\ quota = [ip \in Ips |-> NoWindow]

\* The first request of a window.
Open(ip) ==
  /\ \E now \in Times :
       /\ quota[ip] = NoWindow \/ now >= quota[ip].start + Window
       /\ quota' = [quota EXCEPT ![ip] = [start |-> now, granted |-> 1]]
  /\ limit > 0
  /\ UNCHANGED limit

\* A further request of a window that has room.
Grant(ip) ==
  /\ quota[ip] # NoWindow
  /\ quota[ip].granted < limit
  /\ quota' = [quota EXCEPT ![ip].granted = @ + 1]
  /\ UNCHANGED limit

Next == \E ip \in Ips : Open(ip) \/ Grant(ip)

Spec == Init /\ [][Next]_quotaVars

=============================================================================
