-------------------------------- MODULE MCDesk --------------------------------
(* An instance of Desk for TLC. *)
EXTENDS Desk, TLC

CONSTANT site   \* the host:port that the scans visit

(* One host:port that may speak plaintext HTTP or weak TLS; both findings are
   constituents of the item of high-impact findings. *)
BothFindings == {[hp |-> site, fam |-> fam, slug |-> "high-impact-findings"] : fam \in {"http", "tls"}}

(* Only equality of scopes matters. *)
ScopeNames == Permutations(Scopes)

(* Two scans whose findings files overlap, the later one with a reworded title. *)
F(place, title) == [place |-> place, title |-> title]
MCFiles == <<<<F("h1", "original"), F("h2", "original")>>, <<F("h1", "reworded"), F("h2", "original")>>>>

(* Two CVI questions and one of another dimension; a save may repeat one. *)
MCQuestions == {[n |-> 1, dim |-> "CVI", pa |-> "1.1"], [n |-> 11, dim |-> "CVI", pa |-> "1.2"],
                [n |-> 31, dim |-> "SGRM", pa |-> "2.1"]}
MCPayloads == {<<[q |-> 1, val |-> 3]>>, <<[q |-> 31, val |-> 1], [q |-> 31, val |-> 3]>>,
               <<[q |-> 11, val |-> 4], [q |-> 31, val |-> 4]>>}
(* Three mishaps in the second of three scans. *)
MCMishaps == <<1, 3, 1>>
E(hosts, protocols, algs, vulnerable) ==
    [hosts |-> hosts, protocols |-> protocols, algs |-> algs, vulnerable |-> vulnerable]
MCEstates == {E(0, 0, 0, 0), E(100, 4, 6, 60)}
=============================================================================
