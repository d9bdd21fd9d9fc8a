------------------------------ MODULE MCCalls ------------------------------
(* Calls on small instances: two hosts, or two tabs of one host. *)
EXTENDS Calls, TLC

TwoHosts == [p \in Panels |-> p]
OneHost == [p \in Panels |-> "host"]
=============================================================================
