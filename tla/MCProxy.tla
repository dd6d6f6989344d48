------------------------------- MODULE MCProxy -------------------------------
(* Every form of base URL with one response, every response with one base. *)
EXTENDS Proxy

Users == [http |-> TRUE, host |-> "users", port |-> 8081, path |-> <<"v1">>]

Hello == [head |-> 2, status |-> 200, total |-> 3]

BasePaths ==
  {<< >>, <<"">>, <<"", "">>, <<"v1">>, <<"v1", "">>, <<"v1", "", "">>, <<"v1", "", "x">>,
   <<"", "v1", "">>}

Urls ==
  {[base |-> [http |-> h, host |-> n, port |-> p, path |-> q], path |-> f, response |-> Hello] :
     h \in BOOLEAN, n \in {"", "users"}, p \in {NoPort, JunkPort, 0, 8081, 65536},
     q \in BasePaths, f \in {<<"">>, <<"5">>, <<"", "5">>}}

Responses ==
  {[base |-> Users, path |-> <<"5">>, response |-> [head |-> h, status |-> s, total |-> t]] :
     h \in {0, 2, 4, 6}, s \in {0, 99, 100, 599, 600}, t \in 0 .. MaxBytes + Buf}

MCCalls == Urls \cup Responses
=============================================================================
