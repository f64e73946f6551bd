------------------------------ MODULE MCConsole ------------------------------
(* An instance of ConsoleIngest for TLC: envelopes on every path at once.    *)
EXTENDS ConsoleIngest, TLC

CONSTANTS s1, s2, p1, p2

(* Every envelope is s1's; p1 carries devices, p2 a confirmed zero. *)
MCOwner == [p \in Payloads |-> s1]
MCHardware == [p \in Payloads |-> IF p = p1 THEN "devices" ELSE "empty"]

(* Connections are interchangeable. *)
Connections == Permutations(Requests)

(* No guard and none of the properties checked here reads a failed audit row or
   what import-results printed: states that differ in nothing else are one. *)
ConsoleView ==
    <<sensor, lastPush, received, endpoints, {r \in audit : r.status = "ok"},
      lock, req, imp, clock>>
=============================================================================
