----------------------------- MODULE MCPipeline -----------------------------
(* Instances of PushPipeline for TLC. *)
EXTENDS PushPipeline

CONSTANTS s1, p1, p2, p3

MCOwner == [p \in Payloads |-> s1]
MCHardware == [p \in Payloads |-> IF p = p1 THEN "devices" ELSE "empty"]
MCSize == [p \in Payloads |-> 1]

(* Connections are interchangeable. *)
Connections == Permutations(Requests)
=============================================================================
