------------------------------ MODULE MCSensor ------------------------------
(* Instances of SensorAgent for TLC. *)
EXTENDS SensorAgent

CONSTANTS s1, p1, p2, p3, p4

MCOwner == [p \in Payloads |-> s1]
MCHardware == [p \in Payloads |-> "empty"]
(* p3 is large: it fills the spool's byte budget on its own. *)
MCSize == [p \in Payloads |-> IF p = p3 THEN 3 ELSE 1]
=============================================================================
