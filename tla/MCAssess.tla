------------------------------ MODULE MCAssess ------------------------------
(* Assess with two ports, one of which is for TLS, and one named service. *)
EXTENDS Assess
MCPlaces == {"https", "http"}
MCServices == {"service"}
MCTlsPorts == {"https"}
=============================================================================
