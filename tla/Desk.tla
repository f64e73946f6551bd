--------------------------------- MODULE Desk ---------------------------------
(***************************************************************************)
(* What becomes of an assessment's results: the closure of remediation     *)
(* items from scan to scan, the ticketing command and the QRAMM            *)
(* questionnaire.  The three share no table that any of them reads, so a   *)
(* behaviour of all is an interleaving of independent ones; a behaviour of *)
(* this module works at one of the three.                                  *)
(***************************************************************************)
EXTENDS Closure, Ticketing, Qramm

VARIABLE desk   \* the one of the three that this behaviour works at

deskVars == <<closureVars, ticketVars, qrammVars, desk>>

ASSUME DeskAssumption ==
    /\ MaxFailures \in Nat /\ MaxSessions \in Nat /\ MaxEdits \in Nat
    /\ Backends \subseteq AllBackends
    /\ Files \in Seq(Seq(Reportable))
    /\ \A e \in Estates : e.hosts \in {0, 1, 10, 100, 1000}
    /\ IsFiniteSet(Questions)
    /\ \A q \in Questions : q.dim \in Dimensions
    /\ \A q, r \in Questions : q.n = r.n => q = r
    /\ Values \subseteq 1 .. 4
    /\ Payloads \subseteq Seq([q : {x.n : x \in Questions}, val : 1 .. 4])
    /\ NoSignature \notin Scopes

Init == ClosureInit /\ TicketInit /\ QrammInit /\ desk \in {"closure", "tickets", "questionnaire"}
Next ==
    /\ UNCHANGED desk
    /\ \/ desk = "closure" /\ ClosureNext /\ UNCHANGED <<ticketVars, qrammVars>>
       \/ desk = "tickets" /\ TicketNext /\ UNCHANGED <<closureVars, qrammVars>>
       \/ desk = "questionnaire" /\ QrammNext /\ UNCHANGED <<closureVars, ticketVars>>
Spec == Init /\ [][Next]_deskVars
=============================================================================
