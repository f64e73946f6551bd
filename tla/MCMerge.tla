------------------------------- MODULE MCMerge -------------------------------
(* Instances of AutoMerge for TLC: a fleet of two sensors with one push each,
   and one sensor with two. *)
EXTENDS AutoMerge, TLC

CONSTANTS s1, s2, p1, p2

(* p1 and p2 come from two sensors if there are two. *)
MCOwner == [p \in Payloads |-> IF p = p2 /\ s2 \in Sensors THEN s2 ELSE s1]
MCHardware == [p \in Payloads |-> IF p = p1 THEN "devices" ELSE "empty"]

(* Connections are interchangeable. *)
Connections == Permutations(Requests)

(* The audit rows and the import process are never read by what is checked
   here: states that differ in nothing else are one. *)
MergeView == <<sensor, lastPush, received, lock, req, mergeVars, clock>>
=============================================================================
