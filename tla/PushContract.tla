---------------------------- MODULE PushContract ----------------------------
(***************************************************************************)
(* What a sensor and its console promise together, whatever the network,   *)
(* the retries and the crashes in between: a payload is stored at most     *)
(* once, and the sensor lets go of its copy only when the payload is       *)
(* stored, or openly (evicted from a full spool, or killed in memory).     *)
(***************************************************************************)
EXTENDS Naturals

CONSTANT Payloads

VARIABLES
    made,       \* envelopes that were built
    kept,       \* payloads the sensor side still has a good copy of
    stored,     \* [Payloads -> Nat]: how often the console has stored one
    acked,      \* payloads the sensor takes for delivered
    dropped     \* payloads given up with a trace

vars == <<made, kept, stored, acked, dropped>>

Init ==
    /\ made = {} /\ kept = {} /\ acked = {} /\ dropped = {}
    /\ stored = [p \in Payloads |-> 0]

Make(p) ==
    /\ p \notin made
    /\ made' = made \cup {p}
    /\ kept' = kept \cup {p}
    /\ UNCHANGED <<stored, acked, dropped>>

Store(p) ==
    /\ p \in made
    /\ stored[p] = 0
    /\ stored' = [stored EXCEPT ![p] = 1]
    /\ UNCHANGED <<made, kept, acked, dropped>>

Acknowledge(p) ==
    /\ stored[p] = 1
    /\ acked' = acked \cup {p}
    /\ kept' = kept \ {p}
    /\ UNCHANGED <<made, stored, dropped>>

GiveUp(S) ==
    /\ S \subseteq made
    /\ dropped' = dropped \cup S
    /\ kept' = kept \ S
    /\ UNCHANGED <<made, stored, acked>>

Next ==
    \/ \E p \in Payloads : Make(p) \/ Store(p) \/ Acknowledge(p)
    \/ \E S \in SUBSET Payloads : GiveUp(S)

Spec == Init /\ [][Next]_vars
=============================================================================
