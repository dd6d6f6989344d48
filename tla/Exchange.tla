------------------------------ MODULE Exchange ------------------------------
(***************************************************************************)
(* What forwarding one request promises, whatever the network does: the    *)
(* request goes out once and is not repeated, only an upstream that has    *)
(* all of it is quoted, and a timeout is only reported of a request of     *)
(* which nothing was sent, so that the caller may safely try again.        *)
(***************************************************************************)
EXTENDS Integers

VARIABLES
  reach,   \* how much of the request went out: "nothing", "part", "whole"
  verdict  \* "none" as long as it is under way

vars == <<reach, verdict>>

Init == reach = "nothing" /\ verdict = "none"

Transmit ==
  /\ verdict = "none"
  /\ \/ reach = "nothing" /\ reach' \in {"part", "whole"}
     \/ reach = "part" /\ reach' = "whole"
  /\ UNCHANGED verdict

Conclude ==
  /\ verdict = "none"
  /\ \/ verdict' = "failed"
     \/ reach = "nothing" /\ verdict' = "timeout"
     \/ reach = "whole" /\ verdict' = "relayed"
  /\ UNCHANGED reach

Next == Transmit \/ Conclude

Spec == Init /\ [][Next]_vars
=============================================================================
