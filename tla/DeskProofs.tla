----------------------------- MODULE DeskProofs -----------------------------
(***************************************************************************)
(* Invariants of the three desks, for every catalogue, every sequence of   *)
(* findings files, every estate and any number of scans, sessions and      *)
(* failures.                                                               *)
(***************************************************************************)
EXTENDS Desk, SequenceTheorems, FiniteSetTheorems, NaturalsInduction,
        WellFoundedInduction, TLAPS

-----------------------------------------------------------------------------
(* Ticketing *)

Fingerprints == {compute_fingerprint(f) : f \in Reportable}
Results == {"none", "ok", "failed"}
AuditRows == [file : Nat, fp : Fingerprints, to : AllBackends, status : Results]
RunState == [at : {"rest", "find", "create", "comment", "audit", "end"},
             file : Nat, i : Nat, backend : AllBackends \cup {"none"}, status : Results,
             pending : Seq(AuditRows), broken : BOOLEAN,
             exit : {"none", "usage", "done", "audit failed", "killed"}, saved : Nat]
Working == {"find", "create", "comment", "audit"}

TicketTypeOK ==
    /\ newest \in 0 .. Len(Files)
    /\ issues \in [AllBackends -> Seq(Fingerprints)]
    /\ deliveries \subseteq AuditRows
    /\ tick \in [Runners -> RunState]
    /\ failures \in Nat

(* A run that is under way has a file, a place in it and a tracker; the
   verdict `done' is given at its end. *)
Place(p) ==
    /\ tick[p].at # "rest" =>
         /\ tick[p].file \in 1 .. Len(Files)
         /\ tick[p].backend \in AllBackends
         /\ tick[p].exit = "none"
    /\ tick[p].at \in Working => tick[p].i \in 1 .. Len(Files[tick[p].file])
    /\ tick[p].exit = "done" => tick[p].file \in 1 .. Len(Files)

(* Whether tracker b has an issue for the fingerprint. *)
Has(b, fp) == \E i \in DOMAIN issues[b] : issues[b][i] = fp

(* Equal fingerprints in a tracker come from two runs that looked it up at
   once; so does the one a run is about to create although it is there, and
   two runs about to create the same one are such runs. *)
LookupInv ==
    /\ \A b \in AllBackends : \A i, j \in DOMAIN issues[b] :
          i # j /\ issues[b][i] = issues[b][j] => issues[b][i] \in overlap
    /\ \A p \in Runners :
          tick[p].at = "create" /\ Has(tick[p].backend, Current(p)) => Current(p) \in overlap
    /\ \A p, q \in Runners :
          /\ p # q /\ tick[p].at = "create" /\ tick[q].at = "create"
          /\ tick[p].backend = tick[q].backend /\ Current(p) = Current(q)
          => Current(p) \in overlap

(* A comment, and a verdict `ok', are about an issue of the tracker. *)
Verdict(p) ==
    \/ tick[p].at = "comment"
    \/ tick[p].at = "audit" /\ tick[p].status = "ok"
    => Has(tick[p].backend, Current(p))

(* An unbroken session has committed a row for every finding it is past. *)
Accounted(p, n) ==
    \A k \in 1 .. n :
        \E d \in deliveries : /\ d.file = tick[p].file /\ d.to = tick[p].backend
                              /\ d.fp = compute_fingerprint(Files[tick[p].file][k])
Progress(p) ==
    /\ ~ tick[p].broken /\ tick[p].at \in Working => Accounted(p, tick[p].i - 1)
    /\ ~ tick[p].broken /\ tick[p].at = "end" => Accounted(p, Len(Files[tick[p].file]))
    /\ tick[p].exit = "done" => Accounted(p, Len(Files[tick[p].file]))

RunnerInv == \A p \in Runners : Place(p) /\ Verdict(p) /\ Progress(p)

TicketInv ==
    /\ TicketTypeOK
    /\ RunnerInv
    /\ LookupInv
    /\ AuditIsHonest

(* A finding of a file is reportable and has a fingerprint. *)
LEMMA CurrentType ==
    ASSUME TicketTypeOK, NEW p \in Runners, Place(p), tick[p].at \in Working
    PROVE  Current(p) \in Fingerprints
  <1>1. tick[p].file \in 1 .. Len(Files) /\ tick[p].i \in 1 .. Len(Files[tick[p].file])
    BY DEF Place, Working
  <1>2. Files[tick[p].file] \in Seq(Reportable)
    BY <1>1, DeskAssumption DEF DeskAssumption
  <1>3. Files[tick[p].file][tick[p].i] \in Reportable
    BY <1>1, <1>2
  <1>4. QED
    BY <1>3 DEF Current, Fingerprints

(* A fingerprint identifies the place and the normalised title: titles are
   normalised once and for all. *)
LEMMA NormalizeTwice ==
    \A t : normalize_finding_title(normalize_finding_title(t)) = normalize_finding_title(t)
  BY DEF normalize_finding_title

LEMMA TicketInvGivesNoDuplicate == TicketInv => NoDuplicateTicket
  <1> SUFFICES ASSUME TicketInv,
                      NEW b \in AllBackends, NEW i \in DOMAIN issues[b], NEW j \in DOMAIN issues[b],
                      i # j,
                      NEW f \in Reportable, NEW g \in Reportable,
                      issues[b][i] \in {<<f.place, f.title>>, compute_fingerprint(f)},
                      issues[b][j] \in {<<g.place, g.title>>, compute_fingerprint(g)},
                      f.place = g.place,
                      normalize_finding_title(f.title) = normalize_finding_title(g.title)
               PROVE  issues[b][i] \in overlap
    BY DEF NoDuplicateTicket
  <1>1. issues[b][i] \in Fingerprints /\ issues[b][j] \in Fingerprints
    BY DEF TicketInv, TicketTypeOK
  <1>2. ASSUME NEW x \in Fingerprints, NEW h \in Reportable,
               x \in {<<h.place, h.title>>, compute_fingerprint(h)}
        PROVE  x = <<h.place, normalize_finding_title(h.title)>>
    <2>1. PICK k \in Reportable : x = <<k.place, normalize_finding_title(k.title)>>
      BY DEF Fingerprints, compute_fingerprint
    <2>2. CASE x = compute_fingerprint(h)
      BY <2>2 DEF compute_fingerprint
    <2>3. CASE x = <<h.place, h.title>>
      <3>1. h.title = normalize_finding_title(k.title)
        BY <2>1, <2>3
      <3>2. normalize_finding_title(h.title) = h.title
        BY <3>1, NormalizeTwice
      <3>3. QED
        BY <2>3, <3>2
    <2>4. QED
      BY <1>2, <2>2, <2>3
  <1>3. issues[b][i] = issues[b][j]
    BY <1>1, <1>2
  <1>4. QED
    BY <1>3 DEF TicketInv, LookupInv

LEMMA TicketInvGivesLedger == TicketInv => LedgerIsRight
  <1> SUFFICES ASSUME TicketInv, NEW p \in Runners, tick[p].exit = "done",
                      NEW i \in DOMAIN Files[tick[p].file]
               PROVE  \E d \in deliveries : /\ d.file = tick[p].file /\ d.to = tick[p].backend
                                  /\ d.fp = compute_fingerprint(Files[tick[p].file][i])
    BY DEF LedgerIsRight, DoneMeansAccounted, TicketInv
  <1>1. tick[p].file \in 1 .. Len(Files) /\ Accounted(p, Len(Files[tick[p].file]))
    BY DEF TicketInv, RunnerInv, Place, Progress
  <1>2. Files[tick[p].file] \in Seq(Reportable)
    BY <1>1, DeskAssumption DEF DeskAssumption
  <1>3. i \in 1 .. Len(Files[tick[p].file])
    BY <1>2
  <1>4. QED
    BY <1>1, <1>3 DEF Accounted

LEMMA TicketInitially == TicketInit => TicketInv
  <1> SUFFICES ASSUME TicketInit PROVE TicketInv
    OBVIOUS
  <1>1. Resting \in RunState /\ Resting.at = "rest" /\ Resting.exit = "none"
    BY DEF Resting, RunState, Results
  <1>2. <<>> \in Seq(Fingerprints) /\ DOMAIN <<>> = {}
    OBVIOUS
  <1>3. TicketTypeOK
    BY <1>1, <1>2, DeskAssumption, LenProperties DEF TicketInit, TicketTypeOK, DeskAssumption
  <1>4. RunnerInv
    BY <1>1 DEF TicketInit, RunnerInv, Place, Verdict, Progress, Working
  <1>5. LookupInv /\ AuditIsHonest
    BY <1>1, <1>2 DEF TicketInit, LookupInv, AuditIsHonest, Has
  <1>6. QED
    BY <1>3, <1>4, <1>5 DEF TicketInv

(* A step of one run.  What the others know stays true of trackers and a
   ledger that only grow. *)
LEMMA OneRunMoves ==
    ASSUME TicketInv, NEW p \in Runners, NEW t \in RunState,
           tick' = [tick EXCEPT ![p] = t],
           issues' \in [AllBackends -> Seq(Fingerprints)],
           \A b \in AllBackends : \A i \in DOMAIN issues[b] :
               i \in DOMAIN issues'[b] /\ issues'[b][i] = issues[b][i],
           deliveries \subseteq deliveries', deliveries' \subseteq AuditRows,
           newest' = newest, failures' \in Nat,
           Place(p)', Verdict(p)', Progress(p)'
    PROVE  TicketTypeOK' /\ RunnerInv'
  <1> USE DEF TicketInv
  <1>1. tick' \in [Runners -> RunState] /\ tick'[p] = t
        /\ \A q \in Runners : q # p => tick'[q] = tick[q]
    BY DEF TicketTypeOK
  <1>2. TicketTypeOK'
    BY <1>1 DEF TicketTypeOK
  <1>3. ASSUME NEW q \in Runners, q # p PROVE Place(q)' /\ Verdict(q)' /\ Progress(q)'
    <2>1. tick'[q] = tick[q] /\ Place(q) /\ Verdict(q) /\ Progress(q)
      BY <1>1, <1>3 DEF RunnerInv
    <2>2. Place(q)'
      BY <2>1 DEF Place
    <2>3. Verdict(q)'
      <3>1. CASE tick[q].at \in {"comment", "audit"}
        <4>1. tick[q].backend \in AllBackends /\ Current(q)' = Current(q)
          BY <2>1, <3>1 DEF Place, Current
        <4>2. QED
          BY <2>1, <4>1 DEF Verdict, Has
      <3>2. CASE tick[q].at \notin {"comment", "audit"}
        BY <2>1, <3>2 DEF Verdict
      <3>3. QED
        BY <3>1, <3>2
    <2>4. \A n : Accounted(q, n) => Accounted(q, n)'
      BY <2>1 DEF Accounted
    <2>5. Progress(q)'
      BY <2>1, <2>4 DEF Progress
    <2>6. QED
      BY <2>2, <2>3, <2>5
  <1>4. QED
    BY <1>2, <1>3 DEF RunnerInv

(* A run that does not come to create an issue leaves LookupInv alone. *)
LEMMA LookupKept ==
    ASSUME TicketInv, NEW p \in Runners, NEW t \in RunState,
           tick' = [tick EXCEPT ![p] = t], t.at # "create",
           UNCHANGED issues, overlap \subseteq overlap'
    PROVE  LookupInv'
  <1>1. /\ tick'[p] = t
        /\ \A q \in Runners : q # p => tick'[q] = tick[q] /\ Current(q)' = Current(q)
    BY DEF TicketInv, TicketTypeOK, Current
  <1>2. QED
    BY <1>1 DEF TicketInv, LookupInv, Has

(* So does the ledger when no row is added. *)
LEMMA HonestKept ==
    ASSUME TicketInv, UNCHANGED <<issues, deliveries>>
    PROVE  AuditIsHonest'
  BY DEF TicketInv, AuditIsHonest

LEMMA FailureStep ==
    ASSUME TicketTypeOK, Failure \/ UNCHANGED failures
    PROVE  failures' \in Nat
  BY DEF Failure, TicketTypeOK

LEMMA StartTicketStep ==
    ASSUME TicketInv, NEW p \in Runners, run_ticket(p)
    PROVE  TicketInv'
  <1> USE DEF TicketInv
  <1>0. UNCHANGED <<newest, issues, deliveries, overlap, failures>>
    BY DEF run_ticket
  <1>1. PICK b \in AllBackends :
           tick' = [tick EXCEPT ![p] =
             IF newest = 0 \/ b \notin Backends THEN [Resting EXCEPT !.exit = "usage"]
             ELSE [Resting EXCEPT !.at = IF Files[newest] = <<>> THEN "end" ELSE "find",
                                  !.file = newest, !.i = 1, !.backend = b]]
    BY DEF run_ticket
  <1> DEFINE t == IF newest = 0 \/ b \notin Backends THEN [Resting EXCEPT !.exit = "usage"]
                  ELSE [Resting EXCEPT !.at = IF Files[newest] = <<>> THEN "end" ELSE "find",
                                       !.file = newest, !.i = 1, !.backend = b]
  <1>2. newest \in Nat
    BY DeskAssumption, LenProperties DEF TicketTypeOK, DeskAssumption
  <1>3. t \in RunState /\ t.exit # "done" /\ t.at \in {"rest", "find", "end"}
    <2>1. b \in AllBackends /\ <<>> \in Seq(AuditRows)
      OBVIOUS
    <2>2. CASE newest = 0 \/ b \notin Backends
      BY <2>1, <2>2 DEF Resting, RunState, Results
    <2>3. CASE ~(newest = 0 \/ b \notin Backends)
      BY <1>2, <2>1, <2>3 DEF Resting, RunState, Results
    <2>4. QED
      BY <2>2, <2>3
  <1>4. t.at # "rest" => /\ newest \in 1 .. Len(Files) /\ t.file = newest /\ t.i = 1
                         /\ t.backend = b /\ t.exit = "none"
                         /\ t.at = IF Files[newest] = <<>> THEN "end" ELSE "find"
    BY <1>2, DeskAssumption, LenProperties DEF TicketTypeOK, Resting, DeskAssumption
  <1>5. tick' = [tick EXCEPT ![p] = t]
    BY <1>1
  <1> HIDE DEF t
  <1>6. tick'[p] = t
    BY <1>5 DEF TicketTypeOK
  <1>7. newest \in 1 .. Len(Files) =>
           /\ Len(Files[newest]) \in Nat
           /\ Files[newest] = <<>> <=> Len(Files[newest]) = 0
    BY DeskAssumption, EmptySeq, LenProperties DEF DeskAssumption
  <1>8. Place(p)'
    BY <1>3, <1>4, <1>6, <1>7 DEF Place, Working
  <1>9. Verdict(p)'
    BY <1>3, <1>6 DEF Verdict
  <1>10. Progress(p)'
    BY <1>3, <1>4, <1>6, <1>7 DEF Progress, Accounted, Working
  <1>11. TicketTypeOK' /\ RunnerInv'
    BY <1>0, <1>3, <1>5, <1>8, <1>9, <1>10, OneRunMoves DEF TicketTypeOK
  <1>12. LookupInv' /\ AuditIsHonest'
    BY <1>0, <1>3, <1>5, LookupKept, HonestKept
  <1>13. QED
    BY <1>11, <1>12

(* The call of the tracker has an outcome; the run goes on to its audit row. *)
LEMMA SettleFacts ==
    ASSUME TicketInv, NEW p \in Runners, NEW st \in {"ok", "failed"},
           tick[p].at \in Working,
           tick' = Settle(p, st), UNCHANGED deliveries
    PROVE  \E t \in RunState :
              /\ tick' = [tick EXCEPT ![p] = t] /\ tick'[p] = t
              /\ t.at = "audit" /\ t.status = st
              /\ t.file = tick[p].file /\ t.i = tick[p].i /\ t.backend = tick[p].backend
              /\ t.broken = tick[p].broken
              /\ Place(p)' /\ Progress(p)' /\ Current(p)' = Current(p)
  <1> USE DEF TicketInv
  <1> DEFINE t == [tick[p] EXCEPT !.at = "audit", !.status = st]
  <1>0. tick \in [Runners -> RunState] /\ tick[p] \in RunState
    BY DEF TicketTypeOK
  <1>1. /\ t \in RunState /\ t.at = "audit" /\ t.status = st
        /\ t.file = tick[p].file /\ t.i = tick[p].i /\ t.backend = tick[p].backend
        /\ t.broken = tick[p].broken /\ t.exit = tick[p].exit
    BY <1>0 DEF RunState, Results
  <1>2. tick' = [tick EXCEPT ![p] = t]
    BY <1>0 DEF Settle
  <1> HIDE DEF t
  <1>3. tick'[p] = t
    BY <1>0, <1>2
  <1>4. Place(p) /\ Progress(p)
    BY DEF RunnerInv
  <1>5. Place(p)'
    BY <1>1, <1>3, <1>4 DEF Place, Working
  <1>6. Current(p)' = Current(p)
    BY <1>1, <1>3 DEF Current
  <1>7. Progress(p)'
    BY <1>1, <1>3, <1>4 DEF Progress, Accounted, Working, Place
  <1>8. QED
    BY <1>1, <1>2, <1>3, <1>5, <1>6, <1>7

LEMMA LookupStep ==
    ASSUME TicketInv, NEW p \in Runners, Lookup(p)
    PROVE  TicketInv'
  <1> USE DEF TicketInv
  <1> DEFINE next == IF find_by_fingerprint(p) THEN "comment" ELSE "create"
             t == [tick[p] EXCEPT !.at = next]
  <1>0. /\ tick \in [Runners -> RunState] /\ tick[p] \in RunState
        /\ tick[p].at = "find" /\ UNCHANGED <<newest, issues, deliveries, failures>>
    BY DEF TicketTypeOK, Lookup
  <1>1. tick' = [tick EXCEPT ![p] = t]
    BY <1>0 DEF Lookup
  <1>2. next \in {"comment", "create"}
        /\ (next = "comment" <=> Has(tick[p].backend, Current(p)))
    BY DEF find_by_fingerprint, Has
  <1> HIDE DEF next
  <1>3. /\ t \in RunState /\ t.at = next
        /\ t.file = tick[p].file /\ t.i = tick[p].i /\ t.backend = tick[p].backend
        /\ t.broken = tick[p].broken /\ t.exit = tick[p].exit
    BY <1>0, <1>2 DEF RunState
  <1> HIDE DEF t
  <1>4. tick'[p] = t /\ \A q \in Runners : q # p => tick'[q] = tick[q]
    BY <1>0, <1>1
  <1>5. Current(p)' = Current(p) /\ \A q \in Runners : q # p => Current(q)' = Current(q)
    BY <1>3, <1>4 DEF Current
  <1>6. Place(p) /\ Progress(p)
    BY DEF RunnerInv
  <1>7. Place(p)'
    BY <1>0, <1>2, <1>3, <1>4, <1>6 DEF Place, Working
  <1>8. Progress(p)'
    BY <1>0, <1>2, <1>3, <1>4, <1>6 DEF Progress, Accounted, Working, Place
  <1>9. Verdict(p)'
    BY <1>0, <1>2, <1>3, <1>4, <1>5 DEF Verdict, Has
  <1>10. TicketTypeOK' /\ RunnerInv'
    BY <1>0, <1>1, <1>3, <1>7, <1>8, <1>9, OneRunMoves DEF TicketTypeOK
  <1>11. AuditIsHonest'
    BY <1>0, HonestKept
  <1>12. overlap \subseteq overlap'
         /\ \A q \in Runners : /\ q # p /\ tick[q].at = "create"
                                /\ tick[q].backend = tick[p].backend /\ Current(q) = Current(p)
                                => Current(p) \in overlap'
    BY DEF Lookup
  <1>13. LookupInv'
    <2>1. \A b \in AllBackends : \A i, j \in DOMAIN issues'[b] :
             i # j /\ issues'[b][i] = issues'[b][j] => issues'[b][i] \in overlap'
      BY <1>0, <1>12 DEF LookupInv
    <2>2. ASSUME NEW q \in Runners, tick'[q].at = "create", Has(tick[q].backend, Current(q))'
          PROVE  Current(q)' \in overlap'
      <3>1. CASE q = p
        BY <3>1, <2>2, <1>0, <1>2, <1>3, <1>4, <1>5 DEF Has
      <3>2. CASE q # p
        BY <3>2, <2>2, <1>0, <1>4, <1>5, <1>12 DEF Has, LookupInv
      <3>3. QED
        BY <3>1, <3>2
    <2>3. ASSUME NEW q \in Runners, NEW r \in Runners, q # r,
                 tick'[q].at = "create", tick'[r].at = "create",
                 tick'[q].backend = tick'[r].backend, Current(q)' = Current(r)'
          PROVE  Current(q)' \in overlap'
      <3>1. CASE q = p \/ r = p
        BY <3>1, <2>3, <1>3, <1>4, <1>5, <1>12
      <3>2. CASE q # p /\ r # p
        BY <3>2, <2>3, <1>4, <1>5, <1>12 DEF LookupInv
      <3>3. QED
        BY <3>1, <3>2
    <2>4. QED
      BY <2>1, <2>2, <2>3 DEF LookupInv
  <1>14. QED
    BY <1>10, <1>11, <1>13

(* The issue is opened; that it has two of a kind was foreseen at a lookup. *)
LEMMA CreateStep ==
    ASSUME TicketInv, NEW p \in Runners, create_issue_from_finding(p)
    PROVE  TicketInv'
  <1> USE DEF TicketInv
  <1>0. /\ tick[p].at = "create" /\ UNCHANGED <<newest, deliveries, overlap>>
        /\ issues' = [issues EXCEPT ![tick[p].backend] = Append(@, Current(p))]
        /\ Failure \/ UNCHANGED failures
    BY DEF create_issue_from_finding
  <1>1. PICK st \in {"ok", "failed"} : tick' = Settle(p, st)
    BY DEF create_issue_from_finding
  <1>2. PICK t \in RunState :
              /\ tick' = [tick EXCEPT ![p] = t] /\ tick'[p] = t
              /\ t.at = "audit" /\ t.status = st
              /\ t.file = tick[p].file /\ t.i = tick[p].i /\ t.backend = tick[p].backend
              /\ t.broken = tick[p].broken
              /\ Place(p)' /\ Progress(p)' /\ Current(p)' = Current(p)
    BY <1>0, <1>1, SettleFacts DEF Working
  <1>3. PICK b \in AllBackends : b = tick[p].backend
    BY <1>0 DEF RunnerInv, Place
  <1>4. PICK fp \in Fingerprints : fp = Current(p)
    BY <1>0, CurrentType DEF RunnerInv, Working
  <1>5. issues[b] \in Seq(Fingerprints) /\ Len(issues[b]) \in Nat
    BY LenProperties DEF TicketTypeOK
  <1> DEFINE s == Append(issues[b], fp)  n == Len(issues[b]) + 1
  <1>6. /\ s \in Seq(Fingerprints) /\ Len(s) = n /\ s[n] = fp
        /\ \A i \in 1 .. Len(issues[b]) : s[i] = issues[b][i]
    BY <1>5, AppendProperties
  <1>7. /\ DOMAIN issues[b] = 1 .. Len(issues[b]) /\ DOMAIN s = 1 .. n /\ n \in 1 .. n
        /\ \A i \in 1 .. n : i = n \/ i \in 1 .. Len(issues[b])
        /\ \A i \in 1 .. Len(issues[b]) : i \in 1 .. n
    BY <1>5, <1>6
  <1>8. /\ issues' \in [AllBackends -> Seq(Fingerprints)] /\ issues'[b] = s
        /\ \A c \in AllBackends : c # b => issues'[c] = issues[c]
    BY <1>0, <1>3, <1>4, <1>6 DEF TicketTypeOK
  <1> HIDE DEF s, n
  <1>9. \A c \in AllBackends : \A i \in DOMAIN issues[c] :
            i \in DOMAIN issues'[c] /\ issues'[c][i] = issues[c][i]
    BY <1>6, <1>7, <1>8
  <1>10. \A c \in AllBackends : \A x : Has(c, x)' => Has(c, x) \/ (c = b /\ x = fp)
    BY <1>6, <1>7, <1>8 DEF Has
  <1>11. Verdict(p)'
    <2>1. n \in DOMAIN issues'[b] /\ issues'[b][n] = fp
      BY <1>6, <1>7, <1>8
    <2>2. tick'[p].backend = b /\ Current(p)' = fp
      BY <1>2, <1>3, <1>4
    <2>3. \E i \in DOMAIN issues'[tick'[p].backend] :
             issues'[tick'[p].backend][i] = Current(p)'
      BY <2>1, <2>2
    <2>4. QED
      BY <2>3 DEF Verdict, Has
  <1>12. failures' \in Nat
    BY <1>0, FailureStep
  <1>13. TicketTypeOK' /\ RunnerInv'
    BY <1>0, <1>2, <1>8, <1>9, <1>11, <1>12, OneRunMoves DEF TicketTypeOK
  <1>14. AuditIsHonest'
    <2>1. \A d \in deliveries : d.to \in AllBackends
      BY DEF TicketTypeOK, AuditRows
    <2>2. QED
      BY <1>0, <1>9, <2>1 DEF AuditIsHonest
  <1>15. LookupInv'
    <2>0. \A q \in Runners : q # p => tick'[q] = tick[q] /\ Current(q)' = Current(q)
      BY <1>2 DEF TicketTypeOK, Current
    <2>1. Has(b, fp) => fp \in overlap
      BY <1>0, <1>3, <1>4 DEF LookupInv
    <2>2. ASSUME NEW c \in AllBackends, NEW i \in DOMAIN issues'[c], NEW j \in DOMAIN issues'[c],
                 i # j, issues'[c][i] = issues'[c][j]
          PROVE  issues'[c][i] \in overlap
      <3>1. CASE c # b
        BY <3>1, <2>2, <1>8 DEF LookupInv
      <3>2. CASE c = b /\ i # n /\ j # n
        BY <3>2, <2>2, <1>6, <1>7, <1>8 DEF LookupInv
      <3>3. CASE c = b /\ (i = n \/ j = n)
        <4>1. issues'[c][i] = fp /\ Has(b, fp)
          BY <3>3, <2>2, <1>6, <1>7, <1>8 DEF Has
        <4>2. QED
          BY <4>1, <2>1
      <3>4. QED
        BY <3>1, <3>2, <3>3
    <2>3. ASSUME NEW q \in Runners, tick'[q].at = "create", Has(tick[q].backend, Current(q))'
          PROVE  Current(q)' \in overlap
      <3>1. q # p /\ tick[q].at = "create" /\ tick'[q] = tick[q] /\ Current(q)' = Current(q)
            /\ tick[q].backend \in AllBackends
        BY <1>2, <2>0, <2>3 DEF RunnerInv, Place
      <3>2. CASE Has(tick[q].backend, Current(q))
        BY <3>1, <3>2 DEF LookupInv
      <3>3. CASE tick[q].backend = b /\ Current(q) = fp
        BY <3>1, <3>3, <1>0, <1>3, <1>4 DEF LookupInv
      <3>4. Has(tick[q].backend, Current(q)) \/ (tick[q].backend = b /\ Current(q) = fp)
        BY <1>10, <2>3, <3>1 DEF Has
      <3>5. QED
        BY <3>2, <3>3, <3>4
    <2>4. ASSUME NEW q \in Runners, NEW r \in Runners, q # r,
                 tick'[q].at = "create", tick'[r].at = "create",
                 tick'[q].backend = tick'[r].backend, Current(q)' = Current(r)'
          PROVE  Current(q)' \in overlap
      BY <1>2, <2>0, <2>4 DEF LookupInv
    <2>5. QED
      BY <1>0, <2>2, <2>3, <2>4 DEF LookupInv
  <1>16. QED
    BY <1>13, <1>14, <1>15

LEMMA CallStep ==
    ASSUME TicketInv, NEW p \in Runners, add_rediscovery_comment(p) \/ CallFails(p)
    PROVE  TicketInv'
  <1> USE DEF TicketInv
  <1>0. /\ tick[p].at \in {"find", "create", "comment"}
        /\ UNCHANGED <<newest, issues, deliveries, overlap>>
        /\ Failure \/ UNCHANGED failures
    BY DEF add_rediscovery_comment, CallFails
  <1>1. PICK st \in {"ok", "failed"} :
           tick' = Settle(p, st) /\ (st = "ok" => tick[p].at = "comment")
    BY DEF add_rediscovery_comment, CallFails, StatusOnError
  <1>2. PICK t \in RunState :
              /\ tick' = [tick EXCEPT ![p] = t] /\ tick'[p] = t
              /\ t.at = "audit" /\ t.status = st
              /\ t.file = tick[p].file /\ t.i = tick[p].i /\ t.backend = tick[p].backend
              /\ t.broken = tick[p].broken
              /\ Place(p)' /\ Progress(p)' /\ Current(p)' = Current(p)
    BY <1>0, <1>1, SettleFacts DEF Working
  <1>3. Verdict(p)
    BY DEF RunnerInv
  <1>4. Verdict(p)'
    BY <1>0, <1>1, <1>2, <1>3 DEF Verdict, Has
  <1>5. failures' \in Nat
    BY <1>0, FailureStep
  <1>6. TicketTypeOK' /\ RunnerInv'
    BY <1>0, <1>2, <1>4, <1>5, OneRunMoves DEF TicketTypeOK
  <1>7. LookupInv' /\ AuditIsHonest'
    BY <1>0, <1>2, LookupKept, HonestKept
  <1>8. QED
    BY <1>6, <1>7

LEMMA AuditRowType ==
    ASSUME TicketInv, NEW p \in Runners, tick[p].at = "audit"
    PROVE  /\ AuditRow(p) \in AuditRows
           /\ AuditRow(p).file = tick[p].file /\ AuditRow(p).to = tick[p].backend
           /\ AuditRow(p).fp = Current(p) /\ AuditRow(p).status = tick[p].status
  <1> USE DEF TicketInv
  <1>1. Current(p) \in Fingerprints
    BY CurrentType DEF RunnerInv, Working
  <1>2. tick[p].backend \in AllBackends
    BY DEF RunnerInv, Place
  <1>3. tick[p].file \in Nat /\ tick[p].status \in Results
    BY DEF TicketTypeOK, RunState
  <1>4. QED
    BY <1>1, <1>2, <1>3 DEF AuditRow, AuditRows

(* On to the next finding, or to the end. *)
LEMMA AdvanceFacts ==
    ASSUME TicketInv, NEW p \in Runners, tick[p].at = "audit",
           NEW u \in RunState, u.at = "audit", u.file = tick[p].file, u.i = tick[p].i,
           u.backend = tick[p].backend, u.exit = tick[p].exit,
           tick' = [tick EXCEPT ![p] = Advance(p, u)],
           deliveries \subseteq deliveries',
           u.broken \/ (~ tick[p].broken /\ AuditRow(p) \in deliveries')
    PROVE  /\ Advance(p, u) \in RunState
           /\ Advance(p, u).at \in {"find", "end"}
           /\ Place(p)' /\ Verdict(p)' /\ Progress(p)'
  <1> USE DEF TicketInv
  <1> DEFINE n == Len(Files[u.file])
             t == Advance(p, u)
  <1>1. /\ u.file \in 1 .. Len(Files) /\ u.i \in 1 .. n /\ u.backend \in AllBackends
        /\ u.exit = "none"
    BY DEF RunnerInv, Place, Working
  <1>2. n \in Nat
    BY <1>1, DeskAssumption, LenProperties DEF DeskAssumption
  <1>3. /\ t \in RunState /\ t.file = u.file /\ t.backend = u.backend /\ t.exit = u.exit
        /\ t.broken = u.broken
        /\ \/ t.at = "end" /\ u.i = n
           \/ t.at = "find" /\ u.i # n /\ t.i = u.i + 1
    <2>1. CASE u.i = n
      BY <1>1, <1>2, <2>1 DEF Advance, RunState
    <2>2. CASE u.i # n
      <3>1. u.i + 1 \in Nat
        BY <1>1, <1>2
      <3>2. t = [u EXCEPT !.at = "find", !.i = u.i + 1]
        BY <2>2 DEF Advance
      <3> HIDE DEF t
      <3>3. QED
        BY <2>2, <3>1, <3>2 DEF RunState
    <2>3. QED
      BY <2>1, <2>2
  <1>4. tick'[p] = t
    BY DEF TicketTypeOK
  <1> HIDE DEF t, n
  <1>5. t.at = "find" => t.i \in 1 .. n /\ t.i - 1 = u.i
    BY <1>1, <1>2, <1>3
  <1>6. Place(p)'
    BY <1>1, <1>3, <1>4, <1>5 DEF Place, Working, n
  <1>7. Verdict(p)'
    BY <1>3, <1>4 DEF Verdict
  <1>8. ~ u.broken => Accounted(p, u.i)'
    <2>1. SUFFICES ASSUME ~ u.broken, NEW k \in 1 .. u.i
                   PROVE  \E d \in deliveries' :
                            /\ d.file = tick'[p].file /\ d.to = tick'[p].backend
                            /\ d.fp = compute_fingerprint(Files[tick'[p].file][k])
      BY DEF Accounted
    <2>2. Accounted(p, u.i - 1)
      BY <2>1 DEF RunnerInv, Progress, Working
    <2>3. CASE k \in 1 .. (u.i - 1)
      BY <2>2, <2>3, <1>3, <1>4 DEF Accounted
    <2>4. CASE k = u.i
      <3>1. /\ AuditRow(p).file = u.file /\ AuditRow(p).to = u.backend
            /\ AuditRow(p).fp = compute_fingerprint(Files[u.file][u.i])
        BY AuditRowType DEF Current
      <3>2. QED
        BY <2>1, <2>4, <3>1, <1>3, <1>4
    <2>5. k \in 1 .. (u.i - 1) \/ k = u.i
      BY <1>1, <1>2
    <2>6. QED
      BY <2>3, <2>4, <2>5
  <1>9. Progress(p)'
    BY <1>1, <1>3, <1>4, <1>5, <1>8 DEF Progress, Working, n
  <1>10. QED
    BY <1>3, <1>6, <1>7, <1>9 DEF t

LEMMA AuditStep ==
    ASSUME TicketInv, NEW p \in Runners, CommitAudit(p) \/ CommitAuditFails(p)
    PROVE  TicketInv'
  <1> USE DEF TicketInv
  <1>0. /\ tick[p].at = "audit" /\ UNCHANGED <<newest, issues, overlap>>
        /\ Failure \/ UNCHANGED failures
    BY DEF CommitAudit, CommitAuditFails
  <1>1. failures' \in Nat
    BY <1>0, FailureStep
  <1>2. tick[p] \in RunState /\ tick \in [Runners -> RunState]
    BY DEF TicketTypeOK
  <1>3. /\ AuditRow(p) \in AuditRows /\ AuditRow(p).to = tick[p].backend
        /\ AuditRow(p).fp = Current(p) /\ AuditRow(p).status = tick[p].status
    BY <1>0, AuditRowType
  <1>4. CASE CommitAudit(p)
    <2> DEFINE u == [tick[p] EXCEPT !.saved = @ + 1]
    <2>1. /\ u \in RunState /\ u.at = tick[p].at /\ u.file = tick[p].file /\ u.i = tick[p].i
          /\ u.backend = tick[p].backend /\ u.exit = tick[p].exit /\ u.broken = tick[p].broken
      <3>0. tick[p] \in RunState
        BY <1>2
      <3>a. tick[p].saved \in Nat
        BY <3>0 DEF RunState
      <3>1. tick[p].saved + 1 \in Nat
        BY <3>a
      <3>2. u = [tick[p] EXCEPT !.saved = tick[p].saved + 1]
        OBVIOUS
      <3> HIDE DEF u
      <3>3. QED
        BY <1>2, <3>1, <3>2 DEF RunState
    <2>2. /\ tick' = [tick EXCEPT ![p] = Advance(p, u)] /\ ~ tick[p].broken
          /\ deliveries' = deliveries \cup {AuditRow(p)}
      BY <1>4 DEF CommitAudit, Advance
    <2> HIDE DEF u
    <2>3. /\ Advance(p, u) \in RunState /\ Advance(p, u).at \in {"find", "end"}
          /\ Place(p)' /\ Verdict(p)' /\ Progress(p)'
      BY <1>0, <2>1, <2>2, AdvanceFacts
    <2>4. deliveries' \subseteq AuditRows
      BY <1>3, <2>2 DEF TicketTypeOK
    <2>5. TicketTypeOK' /\ RunnerInv'
      BY <1>0, <1>1, <2>2, <2>3, <2>4, OneRunMoves DEF TicketTypeOK
    <2>6. LookupInv'
      BY <1>0, <2>2, <2>3, LookupKept
    <2>7. AuditIsHonest'
      <3>1. tick[p].status = "ok" => Has(tick[p].backend, Current(p))
        BY <1>0 DEF RunnerInv, Verdict
      <3>2. QED
        BY <1>0, <1>3, <2>2, <3>1 DEF AuditIsHonest, Has
    <2>8. QED
      BY <2>5, <2>6, <2>7
  <1>5. CASE CommitAuditFails(p)
    <2> DEFINE u == [tick[p] EXCEPT !.broken = TRUE, !.pending = Append(@, AuditRow(p))]
    <2>0. Append(tick[p].pending, AuditRow(p)) \in Seq(AuditRows)
      BY <1>2, <1>3, AppendProperties DEF RunState
    <2>1. /\ u \in RunState /\ u.at = tick[p].at /\ u.file = tick[p].file /\ u.i = tick[p].i
          /\ u.backend = tick[p].backend /\ u.exit = tick[p].exit /\ u.broken
      BY <1>2, <2>0 DEF RunState
    <2>2. tick' = [tick EXCEPT ![p] = Advance(p, u)] /\ UNCHANGED deliveries
      BY <1>5 DEF CommitAuditFails, Advance
    <2> HIDE DEF u
    <2>3. /\ Advance(p, u) \in RunState /\ Advance(p, u).at \in {"find", "end"}
          /\ Place(p)' /\ Verdict(p)' /\ Progress(p)'
      BY <1>0, <2>1, <2>2, AdvanceFacts
    <2>4. TicketTypeOK' /\ RunnerInv'
      BY <1>0, <1>1, <2>2, <2>3, OneRunMoves DEF TicketTypeOK
    <2>5. LookupInv' /\ AuditIsHonest'
      BY <1>0, <2>2, <2>3, LookupKept, HonestKept
    <2>6. QED
      BY <2>4, <2>5
  <1>6. QED
    BY <1>4, <1>5

LEMMA EndTicketStep ==
    ASSUME TicketInv, NEW p \in Runners, Exit(p) \/ KillTicket(p)
    PROVE  TicketInv'
  <1> USE DEF TicketInv
  <1>0. /\ tick[p].at # "rest" /\ UNCHANGED <<newest, issues, deliveries, overlap>>
        /\ Failure \/ UNCHANGED failures
    BY DEF Exit, KillTicket
  <1>1. failures' \in Nat
    BY <1>0, FailureStep
  <1>2. tick[p] \in RunState /\ tick \in [Runners -> RunState] /\ <<>> \in Seq(AuditRows)
    BY DEF TicketTypeOK
  <1>3. \E t \in RunState :
           /\ tick' = [tick EXCEPT ![p] = t] /\ t.at = "rest"
           /\ t.exit = "done" =>
                /\ tick[p].at = "end" /\ ~ tick[p].broken
                /\ t.file = tick[p].file /\ t.backend = tick[p].backend
    <2>1. CASE Exit(p)
      <3> DEFINE t == [tick[p] EXCEPT !.at = "rest", !.pending = <<>>, !.exit = ExitCode(tick[p])]
      <3>1. ExitCode(tick[p]) \in {"done", "audit failed"}
            /\ (ExitCode(tick[p]) = "done" => ~ tick[p].broken)
        BY DEF ExitCode
      <3>2. tick' = [tick EXCEPT ![p] = t] /\ tick[p].at = "end"
        BY <1>2, <2>1 DEF Exit
      <3>3. /\ t \in RunState /\ t.at = "rest" /\ t.exit = ExitCode(tick[p])
            /\ t.file = tick[p].file /\ t.backend = tick[p].backend
        BY <1>2, <3>1 DEF RunState
      <3>4. QED
        BY <3>1, <3>2, <3>3
    <2>2. CASE KillTicket(p)
      <3>1. [Resting EXCEPT !.exit = "killed"] \in RunState
        BY <1>2 DEF Resting, RunState, Results
      <3>2. [Resting EXCEPT !.exit = "killed"].at = "rest"
            /\ [Resting EXCEPT !.exit = "killed"].exit = "killed"
        BY DEF Resting
      <3>3. QED
        BY <2>2, <3>1, <3>2 DEF KillTicket
    <2>3. QED
      BY <2>1, <2>2
  <1>4. PICK t \in RunState :
           /\ tick' = [tick EXCEPT ![p] = t] /\ t.at = "rest"
           /\ t.exit = "done" =>
                /\ tick[p].at = "end" /\ ~ tick[p].broken
                /\ t.file = tick[p].file /\ t.backend = tick[p].backend
    BY <1>3
  <1>5. tick'[p] = t /\ Place(p) /\ Progress(p)
    BY <1>2, <1>4 DEF RunnerInv
  <1>6. Place(p)'
    BY <1>0, <1>4, <1>5 DEF Place, Working
  <1>7. Verdict(p)'
    BY <1>4, <1>5 DEF Verdict
  <1>8. Progress(p)'
    BY <1>0, <1>4, <1>5 DEF Progress, Accounted, Working
  <1>9. TicketTypeOK' /\ RunnerInv'
    BY <1>0, <1>1, <1>4, <1>6, <1>7, <1>8, OneRunMoves DEF TicketTypeOK
  <1>10. LookupInv' /\ AuditIsHonest'
    BY <1>0, <1>4, LookupKept, HonestKept
  <1>11. QED
    BY <1>9, <1>10

LEMMA TicketInductive ==
    ASSUME TicketInv, TicketNext \/ UNCHANGED ticketVars
    PROVE  TicketInv'
  <1>1. CASE NextScan \/ UNCHANGED ticketVars
    <2>1. UNCHANGED <<issues, deliveries, tick, overlap, failures>>
      BY <1>1 DEF NextScan, ticketVars
    <2>2. newest' \in 0 .. Len(Files)
      BY <1>1, DeskAssumption, LenProperties
         DEF NextScan, ticketVars, TicketInv, TicketTypeOK, DeskAssumption
    <2>3. TicketTypeOK'
      BY <2>1, <2>2 DEF TicketInv, TicketTypeOK
    <2>4. RunnerInv'
      BY <2>1 DEF TicketInv, RunnerInv, Place, Verdict, Progress, Accounted, Has, Current
    <2>5. LookupInv' /\ AuditIsHonest'
      BY <2>1 DEF TicketInv, LookupInv, AuditIsHonest, Has, Current
    <2>6. QED
      BY <2>3, <2>4, <2>5 DEF TicketInv
  <1>2. ASSUME NEW p \in Runners,
               \/ run_ticket(p) \/ Lookup(p) \/ create_issue_from_finding(p)
               \/ add_rediscovery_comment(p) \/ CallFails(p) \/ CommitAudit(p)
               \/ CommitAuditFails(p) \/ Exit(p) \/ KillTicket(p)
        PROVE  TicketInv'
    BY <1>2, StartTicketStep, LookupStep, CreateStep, CallStep, AuditStep, EndTicketStep
  <1>3. QED
    BY <1>1, <1>2 DEF TicketNext

-----------------------------------------------------------------------------
(* The questionnaire *)

Numbers == {q.n : q \in Questions}

(* A session's id and its created_at are its own.  Ids have a bound: the table
   is finite. *)
SessionsInv ==
    /\ born \in Nat
    /\ \A x \in sessions :
          /\ x = [id |-> x.id, born |-> x.born, score |-> x.score]
          /\ x.id \in Nat \ {0} /\ x.born \in 1 .. born
    /\ \A x, y \in sessions : x.id = y.id \/ x.born = y.born => x = y
    /\ \E b \in Nat : \A x \in sessions : x.id <= b

(* The questions of the answers are in the catalogue. *)
Shaped(r) ==
    r = [id |-> r.id, sess |-> r.sess, q |-> r.q, val |-> r.val, sugg |-> r.sugg,
         confirmed |-> r.confirmed]

AnswersInv == \A r \in rows : Shaped(r) /\ r.q \in Numbers

(* The score was computed from a part of the answers that are there now. *)
SoundScore(s, score) ==
    /\ score.qs \subseteq Answered(s)
    /\ score.counts = answered_by_dimension(score.qs)

(* What a request has read; a score it holds is one of the session it was
   computed for, also when another has its id now. *)
RequestOK(t) ==
    /\ req[t].op \in {"idle", "populate", "save", "draft", "score"}
    /\ req[t].op \in {"save", "draft"} =>
         \E n \in Nat :
            /\ DOMAIN req[t].items = 1 .. n
            /\ \A i \in 1 .. n : req[t].items[i].q \in Numbers
    /\ req[t].op = "score" =>
         /\ req[t].score.of \in 1 .. born
         /\ \A x \in sessions : x.id = req[t].sess /\ x.born = req[t].score.of =>
                SoundScore(x.id, req[t].score)
RequestInv == DOMAIN req = Threads /\ \A t \in Threads : RequestOK(t)

SavedScoreInv ==
    \A x \in sessions : x.score # Unscored /\ x.score.of = x.born => SoundScore(x.id, x.score)

QrammInv ==
    /\ SessionsInv
    /\ AnswersInv
    /\ RequestInv
    /\ SavedScoreInv

(* A set of naturals with a bound has a greatest element. *)
LEMMA BoundedHasMax ==
    ASSUME NEW S \in SUBSET Nat, S # {}, NEW b \in Nat, \A x \in S : x <= b
    PROVE  Max(S) \in S /\ \A x \in S : x <= Max(S)
  <1> DEFINE T == {y \in Nat : \A x \in S : x <= y}
  <1>1. T \in SUBSET Nat /\ b \in T
    OBVIOUS
  <1>2. \E m \in T : \A y \in T : ~(<<y, m>> \in OpToRel(<, Nat))
    BY <1>1, NatLessThanWellFounded, WFMin
  <1>3. PICK m \in T : \A y \in T : ~(<<y, m>> \in OpToRel(<, Nat))
    BY <1>2
  <1>4. \A y \in T : ~(y < m)
    BY <1>3 DEF OpToRel
  <1>a. m \in Nat /\ (\A x \in S : x <= m) /\ (\A x \in S : x \in Nat)
    BY <1>3
  <1>b. \A y \in Nat : (\A x \in S : x <= y) => ~(y < m)
    BY <1>4
  <1> HIDE DEF T
  <1>5. m \in S
    <2>1. SUFFICES ASSUME m \notin S PROVE FALSE
      OBVIOUS
    <2>2. \A x \in S : x < m
      BY <1>a, <2>1
    <2>3. PICK z \in S : TRUE
      OBVIOUS
    <2>4. m # 0
      BY <1>a, <2>2, <2>3
    <2>5. m - 1 \in Nat /\ \A x \in S : x <= m - 1
      BY <1>a, <2>2, <2>4
    <2>6. m - 1 < m
      BY <1>a
    <2>7. QED
      BY <1>b, <2>5, <2>6
  <1>6. \E x \in S : \A y \in S : x >= y
    BY <1>a, <1>5
  <1>7. Max(S) \in S /\ \A y \in S : Max(S) >= y
    BY <1>6 DEF Max
  <1>8. QED
    BY <1>7

(* A question of the catalogue is found, in one of the dimensions. *)
LEMMA QuestionFound ==
    ASSUME NEW n \in Numbers
    PROVE  QuestionOf(n) \in Questions /\ QuestionOf(n).dim \in Dimensions
  <1>1. \E q \in Questions : q.n = n
    BY DEF Numbers
  <1>2. QuestionOf(n) \in Questions
    BY <1>1 DEF QuestionOf
  <1>3. QED
    BY <1>2, DeskAssumption DEF DeskAssumption

LEMMA NumbersFinite == IsFiniteSet(Numbers)
  <1> DEFINE f == [q \in Questions |-> q.n]
  <1>1. f \in Surjection(Questions, Numbers)
    BY DEF Surjection, Numbers
  <1>2. IsFiniteSet(Questions)
    BY DeskAssumption DEF DeskAssumption
  <1>3. QED
    BY <1>1, <1>2, FS_Surjection

(* A part of the answered questions that has as many in a dimension as there
   are has all of them. *)
LEMMA CountsDecide ==
    ASSUME NEW A \in SUBSET Numbers, NEW Q \in SUBSET A, NEW d \in Dimensions
    PROVE  /\ answered_by_dimension(Q)[d] = answered_by_dimension(A)[d] =>
                 {n \in A : QuestionOf(n).dim = d} = {n \in Q : QuestionOf(n).dim = d}
           /\ ~ is_dimension_assessed(answered_by_dimension(A)[d]) =>
                 {n \in A : QuestionOf(n).dim = d} = {}
  <1> DEFINE AD == {n \in A : QuestionOf(n).dim = d}
             QD == {n \in Q : QuestionOf(n).dim = d}
  <1>1. IsFiniteSet(AD)
    BY NumbersFinite, FS_Subset
  <1>2. QD \in SUBSET AD
    OBVIOUS
  <1>3. Cardinality(AD) \in Nat
    BY <1>1, FS_CardinalityType
  <1>4. answered_by_dimension(Q)[d] = Cardinality(QD)
        /\ answered_by_dimension(A)[d] = Cardinality(AD)
    BY DEF answered_by_dimension
  <1> HIDE DEF AD, QD
  <1>5. Cardinality(AD) = Cardinality(QD) => AD = QD
    BY <1>1, <1>2, FS_Subset
  <1>6. Cardinality(AD) = 0 => AD = {}
    BY <1>1, FS_EmptySet
  <1>7. ~ is_dimension_assessed(Cardinality(AD)) => Cardinality(AD) = 0
    BY <1>3 DEF is_dimension_assessed
  <1>8. QED
    BY <1>4, <1>5, <1>6, <1>7 DEF AD, QD

LEMMA QrammInvGivesCover == QrammInv => ScoreCoversAnswers
  <1> SUFFICES ASSUME QrammInv, NEW x \in sessions, x.score # Unscored, x.score.of = x.born
               PROVE  /\ overall_state(x) = "current" => Answered(x.id) = x.score.qs
                      /\ \A d \in Dimensions : HasRelevance(x, d) =>
                            {n \in Answered(x.id) : QuestionOf(n).dim = d}
                                = {n \in x.score.qs : QuestionOf(n).dim = d}
    BY DEF ScoreCoversAnswers
  <1> DEFINE A == Answered(x.id)  Q == x.score.qs
  <1>1. Q \in SUBSET A /\ x.score.counts = answered_by_dimension(Q)
    BY DEF QrammInv, SavedScoreInv, SoundScore
  <1>2. A \in SUBSET Numbers
    BY DEF QrammInv, AnswersInv, Answered, AnsweredRows
  <1>3. ASSUME NEW d \in Dimensions
        PROVE  /\ x.score.counts[d] = answered_by_dimension(A)[d] =>
                     {n \in A : QuestionOf(n).dim = d} = {n \in Q : QuestionOf(n).dim = d}
               /\ ~ is_dimension_assessed(answered_by_dimension(A)[d]) =>
                     {n \in A : QuestionOf(n).dim = d} = {}
    BY <1>1, <1>2, CountsDecide
  <1>4. ASSUME NEW d \in Dimensions, HasRelevance(x, d)
        PROVE  {n \in A : QuestionOf(n).dim = d} = {n \in Q : QuestionOf(n).dim = d}
    <2>1. x.score.counts[d] = answered_by_dimension(A)[d]
      BY <1>4 DEF HasRelevance, row_coverage_status
    <2>2. QED
      BY <1>3, <2>1
  <1>5. ASSUME overall_state(x) = "current" PROVE A = Q
    <2>1. ~ is_score_stale(x.id, x.score)
      BY <1>5 DEF overall_state
    <2>2. ASSUME NEW n \in A PROVE n \in Q
      <3>1. PICK d \in Dimensions : QuestionOf(n).dim = d
        BY <1>2, QuestionFound
      <3>2. n \in {m \in A : QuestionOf(m).dim = d}
        BY <3>1
      <3>3. is_dimension_assessed(answered_by_dimension(A)[d])
        BY <1>3, <3>2
      <3>4. x.score.counts[d] = answered_by_dimension(A)[d]
        BY <2>1, <3>3 DEF is_score_stale
      <3>5. n \in {m \in Q : QuestionOf(m).dim = d}
        BY <1>3, <3>2, <3>4
      <3>6. QED
        BY <3>5
    <2>3. QED
      BY <1>1, <2>2
  <1>6. QED
    BY <1>4, <1>5

LEMMA QrammInitially == QrammInit => QrammInv
  <1> SUFFICES ASSUME QrammInit PROVE QrammInv
    OBVIOUS
  <1>1. sessions = {} /\ rows = {} /\ born = 0 /\ req = [t \in Threads |-> Waiting]
        /\ Waiting.op = "idle"
    BY DEF QrammInit, Waiting
  <1>2. QED
    BY <1>1 DEF QrammInv, SessionsInv, AnswersInv, RequestInv, RequestOK, SavedScoreInv

(* Scores stay sound as long as answers stay. *)
LEMMA SoundKept ==
    ASSUME NEW s, NEW score, SoundScore(s, score), Answered(s) \subseteq Answered(s)'
    PROVE  score.qs \subseteq Answered(s)' /\ score.counts = answered_by_dimension(score.qs)
  BY DEF SoundScore

(* The id that an insert gives out is not in use. *)
LEMMA FreshId ==
    ASSUME QrammInv
    PROVE  /\ NextId(sessions) \in Nat \ {0}
           /\ \A x \in sessions : x.id < NextId(sessions)
  <1>1. CASE sessions = {}
    BY <1>1 DEF NextId
  <1>2. CASE sessions # {}
    <2> DEFINE S == {x.id : x \in sessions}
    <2>1. S \in SUBSET Nat /\ S # {}
      BY <1>2 DEF QrammInv, SessionsInv
    <2>2. PICK b \in Nat : \A x \in S : x <= b
      BY DEF QrammInv, SessionsInv
    <2>3. Max(S) \in S /\ \A x \in S : x <= Max(S)
      BY <2>1, <2>2, BoundedHasMax
    <2>4. NextId(sessions) = Max(S) + 1
      BY <1>2 DEF NextId
    <2>5. \A x \in sessions : x.id \in S
      OBVIOUS
    <2>6. PICK m \in Nat : m = Max(S)
      BY <2>1, <2>3
    <2>7. \A x \in sessions : x.id \in Nat /\ x.id <= m
      BY <2>1, <2>3, <2>5, <2>6
    <2>8. NextId(sessions) = m + 1
      BY <2>4, <2>6
    <2> HIDE DEF S
    <2>9. QED
      BY <2>7, <2>8
  <1>3. QED
    BY <1>1, <1>2

(* A step that creates, scores and deletes no session, and takes no answer of
   one back. *)
LEMMA AnswersMove ==
    ASSUME QrammInv, UNCHANGED <<sessions, born>>, AnswersInv',
           \A s : Answered(s) \subseteq Answered(s)',
           NEW t \in Threads, NEW c, req' = [req EXCEPT ![t] = c], RequestOK(t)'
    PROVE  QrammInv'
  <1>1. DOMAIN req' = Threads /\ \A u \in Threads : u # t => req'[u] = req[u]
    BY DEF QrammInv, RequestInv
  <1>2. \A s, score : SoundScore(s, score) => SoundScore(s, score)'
    BY DEF SoundScore, answered_by_dimension
  <1>3. SessionsInv'
    BY DEF QrammInv, SessionsInv
  <1>4. SavedScoreInv'
    BY <1>2 DEF QrammInv, SavedScoreInv
  <1>5. ASSUME NEW u \in Threads, u # t PROVE RequestOK(u)'
    <2>1. RequestOK(u) /\ req'[u] = req[u]
      BY <1>1, <1>5 DEF QrammInv, RequestInv
    <2>2. QED
      BY <1>2, <2>1 DEF RequestOK
  <1>6. QED
    BY <1>1, <1>3, <1>4, <1>5 DEF QrammInv, RequestInv

LEMMA WaitingOK ==
    ASSUME QrammInv, NEW t \in Threads, req' = [req EXCEPT ![t] = Waiting]
    PROVE  RequestOK(t)'
  <1>1. req'[t].op = "idle"
    BY DEF QrammInv, RequestInv, Waiting
  <1>2. QED
    BY <1>1 DEF RequestOK

(* The bridge writes suggestions, never answers. *)
LEMMA PopulateStep ==
    ASSUME QrammInv, NEW t \in Threads, populate_cvi_suggestions(t)
    PROVE  QrammInv' /\ UNCHANGED sessions /\ \A s : Answered(s) \subseteq Answered(s)'
  <1>1. UNCHANGED <<sessions, born>> /\ req' = [req EXCEPT ![t] = Waiting]
    BY DEF populate_cvi_suggestions
  <1> DEFINE e == req[t].estate
             g(r) == IF r.sess = req[t].sess /\ QuestionOf(r.q).dim = "CVI" /\ e.hosts > 0
                     THEN Suggested(r, e) ELSE r
  <1>2. ASSUME NEW r \in rows
        PROVE  /\ g(r).sess = r.sess /\ g(r).q = r.q /\ g(r).val = r.val
               /\ g(r) = [id |-> g(r).id, sess |-> g(r).sess, q |-> g(r).q, val |-> g(r).val,
                          sugg |-> g(r).sugg, confirmed |-> g(r).confirmed]
    <2>1. r = [id |-> r.id, sess |-> r.sess, q |-> r.q, val |-> r.val, sugg |-> r.sugg,
               confirmed |-> r.confirmed]
      BY DEF QrammInv, AnswersInv, Shaped
    <2>2. CASE r.sess = req[t].sess /\ QuestionOf(r.q).dim = "CVI" /\ e.hosts > 0
      <3>1. g(r) = [r EXCEPT !.sugg = Suggestion(e, QuestionOf(r.q).pa)]
        BY <2>2 DEF Suggested
      <3>2. QED
        BY <2>1, <3>1
    <2>3. QED
      BY <2>1, <2>2
  <1>3. rows' = {g(r) : r \in rows} \/ rows' = rows
    BY DEF populate_cvi_suggestions
  <1> HIDE DEF g
  <1>4. AnswersInv'
    BY <1>2, <1>3 DEF QrammInv, AnswersInv, Shaped
  <1>5. ASSUME NEW s PROVE Answered(s) \subseteq Answered(s)'
    BY <1>2, <1>3 DEF Answered, AnsweredRows
  <1>6. RequestOK(t)'
    BY <1>1, WaitingOK
  <1>7. QED
    BY <1>1, <1>4, <1>5, <1>6, AnswersMove

(* Reading changes nothing that is saved. *)
LEMMA LoadStep ==
    ASSUME QrammInv, NEW t \in Threads, NEW op \in {"save", "draft"}, NEW s,
           NEW payload \in Seq([q : Numbers, val : 0 .. 4]), Load(t, op, s, payload)
    PROVE  QrammInv' /\ UNCHANGED <<sessions, rows>>
  <1> DEFINE items == [i \in DOMAIN payload |->
                [q |-> payload[i].q, val |-> payload[i].val,
                 row |-> IF RowsFor(s, payload[i].q) = {} THEN Unsaved
                         ELSE CHOOSE r \in RowsFor(s, payload[i].q) : TRUE]]
             c == [Waiting EXCEPT !.op = op, !.sess = s, !.items = items]
  <1>1. UNCHANGED <<sessions, rows, born>> /\ req' = [req EXCEPT ![t] = c]
    BY DEF Load
  <1>2. DOMAIN items = 1 .. Len(payload) /\ Len(payload) \in Nat
        /\ \A i \in 1 .. Len(payload) : items[i].q \in Numbers
    <2>1. \A i \in 1 .. Len(payload) : payload[i] \in [q : Numbers, val : 0 .. 4]
      BY ElementOfSeq
    <2>2. DOMAIN payload = 1 .. Len(payload) /\ Len(payload) \in Nat
      BY LenProperties
    <2>3. QED
      BY <2>1, <2>2
  <1> HIDE DEF items
  <1>3. c.op = op /\ c.items = items
    BY DEF Waiting
  <1> HIDE DEF c
  <1>4. req'[t] = c
    BY <1>1 DEF QrammInv, RequestInv
  <1>5. RequestOK(t)'
    BY <1>2, <1>3, <1>4 DEF RequestOK
  <1>6. AnswersInv' /\ \A x : Answered(x) \subseteq Answered(x)'
    BY <1>1 DEF QrammInv, AnswersInv, Answered, AnsweredRows
  <1>7. QED
    BY <1>1, <1>5, <1>6, AnswersMove

(* An answer that a commit overwrites stays an answer of its question, also
   when the row is no longer the one that was read. *)
LEMMA MergedFacts ==
    ASSUME QrammInv, NEW t \in Threads, req[t].op \in {"save", "draft"}, NEW r \in rows
    PROVE  LET m == Merged(t, r) IN
           /\ m.sess = r.sess /\ m.q = r.q
           /\ r.val # Nothing => m.val # Nothing
           /\ m = [id |-> m.id, sess |-> m.sess, q |-> m.q, val |-> m.val, sugg |-> m.sugg,
                   confirmed |-> m.confirmed]
  <1> DEFINE mine == {i \in Updates(t) : req[t].items[i].row.id = r.id
                                         /\ req[t].items[i].val # Nothing}
             item == req[t].items[Max(mine)]
  <1>1. r = [id |-> r.id, sess |-> r.sess, q |-> r.q, val |-> r.val, sugg |-> r.sugg,
             confirmed |-> r.confirmed]
    BY DEF QrammInv, AnswersInv, Shaped
  <1>2. CASE mine = {}
    <2>1. Merged(t, r) = r
      BY <1>2 DEF Merged
    <2>2. QED
      BY <1>1, <2>1
  <1>3. CASE mine # {}
    <2>1. PICK n \in Nat : DOMAIN req[t].items = 1 .. n
      BY DEF QrammInv, RequestInv, RequestOK
    <2>2. mine \in SUBSET Nat /\ \A x \in mine : x <= n
      BY <2>1 DEF Updates
    <2>3. Max(mine) \in mine
      BY <1>3, <2>1, <2>2, BoundedHasMax
    <2>4. item.val # Nothing
      BY <2>3
    <2>5. Merged(t, r) = [r EXCEPT !.val = IF item.val = item.row.val THEN r.val ELSE item.val,
                                   !.confirmed = r.confirmed \/ item.row.sugg # None]
      BY <1>3 DEF Merged
    <2> HIDE DEF item, mine
    <2>6. QED
      BY <1>1, <2>4, <2>5
  <1>4. QED
    BY <1>2, <1>3

LEMMA NewAnswerFacts ==
    ASSUME NEW a, NEW s, NEW n, NEW v
    PROVE  /\ [BlankAnswer(a, s, n) EXCEPT !.val = v].q = n
           /\ Shaped([BlankAnswer(a, s, n) EXCEPT !.val = v])
  <1>1. PICK m : m = [BlankAnswer(a, s, n) EXCEPT !.val = v]
    OBVIOUS
  <1>2. m.q = n /\ Shaped(m)
    BY <1>1 DEF BlankAnswer, Shaped
  <1>3. QED
    BY <1>1, <1>2, Zenon

LEMMA CommitStep ==
    ASSUME QrammInv, NEW t \in Threads, Commit(t)
    PROVE  QrammInv' /\ UNCHANGED sessions /\ \A s : Answered(s) \subseteq Answered(s)'
  <1>1. /\ UNCHANGED <<sessions, born>> /\ req' = [req EXCEPT ![t] = Waiting]
        /\ req[t].op \in {"save", "draft"}
    BY DEF Commit
  <1>2. RequestOK(t)'
    BY <1>1, WaitingOK
  <1>3. CASE ~ CanCommit(t)
    <2>1. rows' = rows
      BY <1>3 DEF Commit
    <2>2. AnswersInv' /\ \A s : Answered(s) \subseteq Answered(s)'
      BY <2>1 DEF QrammInv, AnswersInv, Answered, AnsweredRows
    <2>3. QED
      BY <1>1, <1>2, <2>2, AnswersMove
  <1>4. CASE CanCommit(t)
    <2> DEFINE rowid(i) == NextId(rows) + Cardinality({j \in Inserts(t) : j < i})
               new(i) == [BlankAnswer(rowid(i), req[t].sess, req[t].items[i].q)
                            EXCEPT !.val = req[t].items[i].val]
    <2>1. rows' = {Merged(t, r) : r \in rows} \cup {new(i) : i \in Inserts(t)}
      BY <1>4 DEF Commit
    <2>2. \A i \in Inserts(t) : req[t].items[i].q \in Numbers
      BY <1>1 DEF QrammInv, RequestInv, RequestOK, Inserts
    <2> HIDE DEF rowid
    <2>3. \A i \in Inserts(t) :
             /\ new(i).q \in Numbers
             /\ new(i) = [id |-> new(i).id, sess |-> new(i).sess, q |-> new(i).q,
                          val |-> new(i).val, sugg |-> new(i).sugg,
                          confirmed |-> new(i).confirmed]
      <3> SUFFICES ASSUME NEW i \in Inserts(t)
                   PROVE  /\ new(i).q \in Numbers
                          /\ new(i) = [id |-> new(i).id, sess |-> new(i).sess, q |-> new(i).q,
                                       val |-> new(i).val, sugg |-> new(i).sugg,
                                       confirmed |-> new(i).confirmed]
        OBVIOUS
      <3>1. /\ new(i).q = req[t].items[i].q
            /\ Shaped(new(i))
        BY NewAnswerFacts, Zenon
      <3> HIDE DEF new
      <3>2. QED
        BY <2>2, <3>1 DEF Shaped
    <2> HIDE DEF new
    <2>4. ASSUME NEW r \in rows
          PROVE  /\ Merged(t, r).sess = r.sess /\ Merged(t, r).q = r.q
                 /\ r.val # Nothing => Merged(t, r).val # Nothing
                 /\ Merged(t, r) = [id |-> Merged(t, r).id, sess |-> Merged(t, r).sess,
                                    q |-> Merged(t, r).q, val |-> Merged(t, r).val,
                                    sugg |-> Merged(t, r).sugg,
                                    confirmed |-> Merged(t, r).confirmed]
      BY <1>1, MergedFacts
    <2>5. \A r \in rows : Merged(t, r).q \in Numbers
      BY <2>4 DEF QrammInv, AnswersInv, Shaped
    <2>6. AnswersInv'
      BY <2>1, <2>3, <2>4, <2>5 DEF AnswersInv, Shaped
    <2>7. ASSUME NEW s PROVE Answered(s) \subseteq Answered(s)'
      BY <2>1, <2>4 DEF Answered, AnsweredRows
    <2>8. QED
      BY <1>1, <1>2, <2>6, <2>7, AnswersMove
  <1>5. QED
    BY <1>3, <1>4

(* The new session's id and its created_at are new, so that no score that is
   being computed can be about it. *)
LEMMA CreateSessionStep ==
    ASSUME QrammInv, NEW t \in Threads, create_session(t)
    PROVE  /\ QrammInv' /\ sessions \subseteq sessions'
           /\ \A s : Answered(s) \subseteq Answered(s)'
  <1> DEFINE s == NextId(sessions)
             cvi == {q.n : q \in {x \in Questions : x.dim = "CVI"}}
             rank(n) == Cardinality({m \in cvi : m < n})
             new(n) == BlankAnswer(NextId(rows) + rank(n), s, n)
             x0 == [id |-> s, born |-> born + 1, score |-> Unscored]
  <1>1. /\ born' = born + 1 /\ sessions' = sessions \cup {x0}
        /\ rows' = rows \cup {new(n) : n \in cvi}
    BY DEF create_session
  <1>2. PICK e : req' = [req EXCEPT ![t] = [Waiting EXCEPT !.op = "populate", !.sess = s, !.estate = e]]
    BY DEF create_session
  <1>3. s \in Nat \ {0} /\ \A x \in sessions : x.id < s
    BY FreshId
  <1>4. x0.id = s /\ x0.born = born + 1 /\ x0.score = Unscored
        /\ x0 = [id |-> x0.id, born |-> x0.born, score |-> x0.score]
    OBVIOUS
  <1>5. \A n \in cvi : Shaped(new(n)) /\ new(n).q \in Numbers
    <2>1. ASSUME NEW a, NEW c, NEW n PROVE Shaped(BlankAnswer(a, c, n)) /\ BlankAnswer(a, c, n).q = n
      <3>1. PICK m : m = BlankAnswer(a, c, n)
        OBVIOUS
      <3>2. m.q = n /\ Shaped(m)
        BY <3>1 DEF BlankAnswer, Shaped
      <3>3. QED
        BY <3>1, <3>2, Zenon
    <2>2. \A n \in cvi : n \in Numbers
      BY DEF Numbers
    <2>3. QED
      BY <2>1, <2>2, Zenon
  <1> HIDE DEF s, x0, new
  <1>6. AnswersInv'
    BY <1>1, <1>5 DEF QrammInv, AnswersInv
  <1>7. \A z : Answered(z) \subseteq Answered(z)'
    BY <1>1 DEF Answered, AnsweredRows
  <1>8. born \in Nat /\ \A x \in sessions : x.born \in 1 .. born /\ x.id \in Nat
    BY DEF QrammInv, SessionsInv
  <1>9. \A x \in sessions : x.born # born + 1 /\ x.id # s /\ x.id <= s
    BY <1>3, <1>8
  <1>10. SessionsInv'
    <2>1. born' \in Nat
      BY <1>1, <1>8
    <2>2. \A x \in sessions' : /\ x = [id |-> x.id, born |-> x.born, score |-> x.score]
                               /\ x.id \in Nat \ {0} /\ x.born \in 1 .. born'
      <3>1. ASSUME NEW x \in sessions
            PROVE  /\ x = [id |-> x.id, born |-> x.born, score |-> x.score]
                   /\ x.id \in Nat \ {0} /\ x.born \in 1 .. born
        BY DEF QrammInv, SessionsInv
      <3>2. \A k \in 1 .. born : k \in 1 .. (born + 1)
        BY <1>8
      <3>3. born + 1 \in 1 .. (born + 1)
        BY <1>8
      <3>4. ASSUME NEW x \in sessions
            PROVE  /\ x = [id |-> x.id, born |-> x.born, score |-> x.score]
                   /\ x.id \in Nat \ {0} /\ x.born \in 1 .. born'
        BY <1>1, <3>1, <3>2
      <3>5. /\ x0 = [id |-> x0.id, born |-> x0.born, score |-> x0.score]
            /\ x0.id \in Nat \ {0} /\ x0.born \in 1 .. born'
        BY <1>1, <1>3, <1>4, <3>3
      <3>6. QED
        BY <1>1, <3>4, <3>5
    <2>3. \A x, y \in sessions' : x.id = y.id \/ x.born = y.born => x = y
      BY <1>1, <1>4, <1>9 DEF QrammInv, SessionsInv
    <2>4. s \in Nat /\ \A x \in sessions' : x.id <= s
      BY <1>1, <1>3, <1>4, <1>9
    <2>5. QED
      BY <2>1, <2>2, <2>3, <2>4 DEF SessionsInv
  <1>11. \A z, score : SoundScore(z, score) => SoundScore(z, score)'
    BY <1>7 DEF SoundScore, answered_by_dimension
  <1>12. SavedScoreInv'
    BY <1>1, <1>4, <1>11 DEF QrammInv, SavedScoreInv
  <1>13. req'[t].op = "populate" /\ DOMAIN req' = Threads
         /\ \A u \in Threads : u # t => req'[u] = req[u]
    BY <1>2 DEF QrammInv, RequestInv, Waiting
  <1>14. ASSUME NEW u \in Threads PROVE RequestOK(u)'
    <2>1. CASE u = t
      BY <2>1, <1>13 DEF RequestOK
    <2>2. CASE u # t
      <3>1. RequestOK(u) /\ req'[u] = req[u]
        BY <2>2, <1>13 DEF QrammInv, RequestInv
      <3>2. \A k \in 1 .. born : k \in 1 .. born' /\ k # born + 1
        BY <1>1, <1>8
      <3>3. ASSUME req[u].op = "score"
            PROVE  /\ req[u].score.of \in 1 .. born'
                   /\ \A x \in sessions' : x.id = req[u].sess /\ x.born = req[u].score.of =>
                         SoundScore(x.id, req[u].score)'
        BY <3>1, <3>2, <3>3, <1>1, <1>4, <1>11 DEF RequestOK
      <3>4. QED
        BY <3>1, <3>3 DEF RequestOK
    <2>3. QED
      BY <2>1, <2>2
  <1>15. QED
    BY <1>1, <1>6, <1>7, <1>10, <1>12, <1>13, <1>14 DEF QrammInv, RequestInv

(* The session with an id is the only one with it. *)
LEMMA SessionFound ==
    ASSUME QrammInv, NEW x \in sessions
    PROVE  SessionOf(x.id) = x
  <1>1. SessionOf(x.id) \in sessions /\ SessionOf(x.id).id = x.id
    BY DEF SessionOf
  <1>2. QED
    BY <1>1 DEF QrammInv, SessionsInv

LEMMA ScoreStep ==
    ASSUME QrammInv, NEW t \in Threads, score_session(t)
    PROVE  QrammInv' /\ UNCHANGED <<sessions, rows>>
  <1>1. UNCHANGED <<sessions, rows, born>>
    BY DEF score_session
  <1>2. PICK s \in {x.id : x \in sessions}, m \in Multipliers \cup {100} :
           req' = [req EXCEPT ![t] = [Waiting EXCEPT !.op = "score", !.sess = s,
                                                     !.score = ScoreOf(s, m)]]
    BY DEF score_session
  <1>c. PICK x \in sessions : x.id = s
    OBVIOUS
  <1>a. PICK sc : sc = ScoreOf(s, m)
    OBVIOUS
  <1>b. PICK c : c = [Waiting EXCEPT !.op = "score", !.sess = s, !.score = sc]
    OBVIOUS
  <1>3. /\ sc.qs = Answered(x.id) /\ sc.counts = answered_by_dimension(Answered(x.id))
        /\ sc.of = SessionOf(x.id).born
    BY <1>a, <1>c DEF ScoreOf
  <1>4. sc.of = x.born
    BY <1>3, SessionFound
  <1>5. c.op = "score" /\ c.sess = x.id /\ c.score = sc
    BY <1>b, <1>c DEF Waiting
  <1>6. req' = [req EXCEPT ![t] = c] /\ req'[t] = c
    BY <1>2, <1>a, <1>b DEF QrammInv, RequestInv
  <1>7. SoundScore(x.id, sc)'
    BY <1>1, <1>3 DEF SoundScore, Answered, AnsweredRows, answered_by_dimension
  <1>8. RequestOK(t)'
    <2>1. x.born \in 1 .. born
      BY DEF QrammInv, SessionsInv
    <2>2. \A y \in sessions : y.id = x.id => y = x
      BY DEF QrammInv, SessionsInv
    <2>3. QED
      BY <1>1, <1>4, <1>5, <1>6, <1>7, <2>1, <2>2 DEF RequestOK
  <1>9. AnswersInv' /\ \A z : Answered(z) \subseteq Answered(z)'
    BY <1>1 DEF QrammInv, AnswersInv, Answered, AnsweredRows
  <1>10. QED
    BY <1>1, <1>6, <1>8, <1>9, AnswersMove

(* The score is saved with whichever session has the id now. *)
LEMMA SaveScoreStep ==
    ASSUME QrammInv, NEW t \in Threads, SaveScore(t)
    PROVE  /\ QrammInv' /\ UNCHANGED rows
           /\ \A x \in sessions : \E y \in sessions' : y.id = x.id /\ y.born = x.born
           /\ \A y \in sessions' : \E x \in sessions : y.id = x.id /\ y.born = x.born
  <1> DEFINE g(x) == IF x.id = req[t].sess THEN [x EXCEPT !.score = req[t].score] ELSE x
  <1>1. /\ UNCHANGED <<rows, born>> /\ req' = [req EXCEPT ![t] = Waiting]
        /\ sessions' = {g(x) : x \in sessions} /\ req[t].op = "score"
    BY DEF SaveScore
  <1>2. ASSUME NEW x \in sessions
        PROVE  /\ g(x).id = x.id /\ g(x).born = x.born
               /\ g(x) = [id |-> g(x).id, born |-> g(x).born, score |-> g(x).score]
               /\ \/ g(x).score = x.score
                  \/ g(x).score = req[t].score /\ x.id = req[t].sess
    <2>1. x = [id |-> x.id, born |-> x.born, score |-> x.score]
      BY DEF QrammInv, SessionsInv
    <2>2. CASE x.id = req[t].sess
      <3>1. PICK y : y = [x EXCEPT !.score = req[t].score]
        OBVIOUS
      <3>2. /\ y.id = x.id /\ y.born = x.born /\ y.score = req[t].score
            /\ y = [id |-> y.id, born |-> y.born, score |-> y.score]
        BY <2>1, <3>1
      <3>3. g(x) = y
        BY <2>2, <3>1
      <3> HIDE DEF g
      <3>4. QED
        BY <2>2, <3>2, <3>3
    <2>3. CASE x.id # req[t].sess
      BY <2>1, <2>3
    <2>4. QED
      BY <2>2, <2>3
  <1> HIDE DEF g
  <1>3. SessionsInv'
    <2>1. born' \in Nat /\ \A y \in sessions' :
             /\ y = [id |-> y.id, born |-> y.born, score |-> y.score]
             /\ y.id \in Nat \ {0} /\ y.born \in 1 .. born'
      BY <1>1, <1>2 DEF QrammInv, SessionsInv
    <2>2. \A x, y \in sessions : g(x).id = g(y).id \/ g(x).born = g(y).born => x = y
      BY <1>2 DEF QrammInv, SessionsInv
    <2>3. \A x, y \in sessions' : x.id = y.id \/ x.born = y.born => x = y
      BY <1>1, <2>2
    <2>4. \E b \in Nat : \A y \in sessions' : y.id <= b
      BY <1>1, <1>2 DEF QrammInv, SessionsInv
    <2>5. QED
      BY <2>1, <2>3, <2>4 DEF SessionsInv
  <1>4. AnswersInv' /\ \A z : Answered(z)' = Answered(z)
    BY <1>1 DEF QrammInv, AnswersInv, Answered, AnsweredRows
  <1>5. \A z, score : SoundScore(z, score)' <=> SoundScore(z, score)
    BY <1>4 DEF SoundScore, answered_by_dimension
  <1>6. SavedScoreInv'
    <2>1. ASSUME NEW x \in sessions, g(x).score # Unscored, g(x).score.of = x.born
          PROVE  SoundScore(x.id, g(x).score)
      <3>1. CASE g(x).score = x.score
        BY <2>1, <3>1 DEF QrammInv, SavedScoreInv
      <3>2. CASE g(x).score = req[t].score /\ x.id = req[t].sess
        BY <1>1, <2>1, <3>2 DEF QrammInv, RequestInv, RequestOK
      <3>3. QED
        BY <1>2, <3>1, <3>2
    <2>2. QED
      BY <1>1, <1>2, <1>5, <2>1 DEF SavedScoreInv
  <1>7. ASSUME NEW u \in Threads PROVE RequestOK(u)'
    <2>1. CASE u = t
      BY <1>1, <2>1, WaitingOK
    <2>2. CASE u # t
      <3>1. RequestOK(u) /\ req'[u] = req[u]
        BY <1>1, <2>2 DEF QrammInv, RequestInv
      <3>2. ASSUME req[u].op = "score", NEW y \in sessions', y.id = req[u].sess,
                   y.born = req[u].score.of
            PROVE  SoundScore(y.id, req[u].score)
        <4>1. PICK x \in sessions : y = g(x)
          BY <1>1
        <4>2. x.id = y.id /\ x.born = y.born
          BY <1>2, <4>1
        <4>3. QED
          BY <3>1, <3>2, <4>2 DEF RequestOK
      <3>3. QED
        BY <1>1, <1>5, <3>1, <3>2 DEF RequestOK
    <2>3. QED
      BY <2>1, <2>2
  <1>8. DOMAIN req' = Threads
    BY <1>1 DEF QrammInv, RequestInv
  <1>9. QED
    BY <1>1, <1>2, <1>3, <1>4, <1>6, <1>7, <1>8 DEF QrammInv, RequestInv

(* The deletion takes the answers of the one session. *)
LEMMA DeleteSessionStep ==
    ASSUME QrammInv, delete_session
    PROVE  /\ QrammInv' /\ sessions' \subseteq sessions
           /\ \A x \in sessions' : Answered(x.id) \subseteq Answered(x.id)'
  <1>1. PICK x0 \in sessions : /\ sessions' = sessions \ {x0}
                               /\ rows' = {r \in rows : r.sess # x0.id}
    BY DEF delete_session
  <1>2. UNCHANGED <<req, born>>
    BY DEF delete_session
  <1>3. \A x \in sessions' : x \in sessions /\ x.id # x0.id
    BY <1>1 DEF QrammInv, SessionsInv
  <1>4. ASSUME NEW x \in sessions' PROVE Answered(x.id) \subseteq Answered(x.id)'
    <2>1. x.id # x0.id
      BY <1>3
    <2>2. QED
      BY <1>1, <2>1 DEF Answered, AnsweredRows
  <1>5. \A x \in sessions' : \A score : SoundScore(x.id, score) => SoundScore(x.id, score)'
    BY <1>4 DEF SoundScore, answered_by_dimension
  <1>6. SessionsInv' /\ AnswersInv'
    BY <1>1, <1>2 DEF QrammInv, SessionsInv, AnswersInv
  <1>7. SavedScoreInv'
    BY <1>3, <1>5 DEF QrammInv, SavedScoreInv
  <1>8. RequestInv'
    BY <1>2, <1>3, <1>5 DEF QrammInv, RequestInv, RequestOK
  <1>9. QED
    BY <1>1, <1>4, <1>6, <1>7, <1>8 DEF QrammInv

LEMMA DieStep ==
    ASSUME QrammInv, ServerDies
    PROVE  QrammInv' /\ UNCHANGED <<sessions, rows>>
  <1>1. /\ UNCHANGED <<sessions, rows, born>> /\ DOMAIN req' = Threads
        /\ \A t \in Threads : req'[t].op = "idle"
    BY DEF ServerDies, Waiting
  <1>2. RequestInv'
    BY <1>1 DEF RequestInv, RequestOK
  <1>3. SessionsInv' /\ AnswersInv'
    BY <1>1 DEF QrammInv, SessionsInv, AnswersInv
  <1>4. SavedScoreInv'
    BY <1>1 DEF QrammInv, SavedScoreInv, SoundScore, Answered, AnsweredRows, answered_by_dimension
  <1>5. QED
    BY <1>1, <1>2, <1>3, <1>4 DEF QrammInv

(* What AnsweredStaysAnswered says of a step. *)
AnswersStay ==
    \A x \in sessions :
        (\E y \in sessions' : y.born = x.born) => Answered(x.id) \subseteq Answered(x.id)'

LEMMA QrammInductive ==
    ASSUME QrammInv, QrammNext \/ UNCHANGED qrammVars
    PROVE  QrammInv' /\ AnswersStay
  <1>1. CASE UNCHANGED qrammVars
    <2>1. UNCHANGED <<sessions, rows, req, born>>
      BY <1>1 DEF qrammVars
    <2>2. SessionsInv' /\ AnswersInv'
      BY <2>1 DEF QrammInv, SessionsInv, AnswersInv
    <2>3. RequestInv' /\ SavedScoreInv'
      BY <2>1 DEF QrammInv, RequestInv, RequestOK, SavedScoreInv, SoundScore, Answered,
                  AnsweredRows, answered_by_dimension
    <2>4. AnswersStay
      BY <2>1 DEF AnswersStay, Answered, AnsweredRows
    <2>5. QED
      BY <2>2, <2>3, <2>4 DEF QrammInv
  <1>2. ASSUME UNCHANGED rows PROVE AnswersStay
    BY <1>2 DEF AnswersStay, Answered, AnsweredRows
  <1>3. ASSUME NEW t \in Threads, create_session(t) \/ populate_cvi_suggestions(t) \/ Commit(t)
        PROVE  QrammInv' /\ AnswersStay
    BY <1>3, CreateSessionStep, PopulateStep, CommitStep DEF AnswersStay
  <1>4. ASSUME NEW t \in Threads, score_session(t) \/ SaveScore(t)
        PROVE  QrammInv' /\ AnswersStay
    BY <1>2, <1>4, ScoreStep, SaveScoreStep
  <1>5. ASSUME NEW t \in Threads, save_answers(t) PROVE QrammInv' /\ AnswersStay
    <2>1. PICK s \in {x.id : x \in sessions}, payload \in Payloads : Load(t, "save", s, payload)
      BY <1>5 DEF save_answers
    <2>2. payload \in Seq([q : Numbers, val : 1 .. 4])
      BY <2>1, DeskAssumption DEF DeskAssumption, Numbers
    <2>3. [q : Numbers, val : 1 .. 4] \subseteq [q : Numbers, val : 0 .. 4]
      OBVIOUS
    <2>4. payload \in Seq([q : Numbers, val : 0 .. 4])
      <3>1. PICK A, B : A = [q : Numbers, val : 1 .. 4] /\ B = [q : Numbers, val : 0 .. 4]
        OBVIOUS
      <3>2. payload \in Seq(A) /\ A \subseteq B
        BY <2>2, <2>3, <3>1, Zenon
      <3>3. payload \in Seq(B)
        BY <3>2, SeqMonotonic
      <3>4. QED
        BY <3>1, <3>3, Zenon
    <2>5. QED
      BY <1>2, <2>1, <2>4, LoadStep
  <1>6. ASSUME NEW t \in Threads, draft_answer(t) PROVE QrammInv' /\ AnswersStay
    <2>1. PICK s \in {x.id : x \in sessions}, q \in Questions, v \in {Nothing} \cup Values :
             Load(t, "draft", s, <<[q |-> q.n, val |-> v]>>)
      BY <1>6 DEF draft_answer
    <2>2. [q |-> q.n, val |-> v] \in [q : Numbers, val : 0 .. 4]
      <3>1. q.n \in Numbers
        BY DEF Numbers
      <3>a. Values \subseteq 1 .. 4
        BY DeskAssumption DEF DeskAssumption
      <3>2. v \in 0 .. 4
        BY <3>a DEF Nothing
      <3>3. QED
        BY <3>1, <3>2
    <2>3. PICK payload : payload = <<[q |-> q.n, val |-> v]>>
      OBVIOUS
    <2>4. payload \in Seq([q : Numbers, val : 0 .. 4])
      BY <2>2, <2>3
    <2>5. QED
      BY <1>2, <2>1, <2>3, <2>4, LoadStep
  <1>7. ASSUME delete_session PROVE QrammInv' /\ AnswersStay
    <2>1. /\ QrammInv' /\ sessions' \subseteq sessions
          /\ \A x \in sessions' : Answered(x.id) \subseteq Answered(x.id)'
      BY <1>7, DeleteSessionStep
    <2>2. \A x, y \in sessions : x.born = y.born => x = y
      BY DEF QrammInv, SessionsInv
    <2>3. QED
      BY <2>1, <2>2 DEF AnswersStay
  <1>8. ASSUME ServerDies PROVE QrammInv' /\ AnswersStay
    BY <1>2, <1>8, DieStep
  <1>9. QED
    BY <1>1, <1>3, <1>4, <1>5, <1>6, <1>7, <1>8 DEF QrammNext

-----------------------------------------------------------------------------
(* Closure *)

FpStates == {"none", "open", "resurfaced", "not_observed", "closed"}
ProbeRows == [hp : HostPorts,
              proto : {"TLS", "SSH", "HTTP", "SAML", "SMTPS", "UNKNOWN", "CLOSED"},
              evid : BOOLEAN, err : BOOLEAN, blocked : BOOLEAN]
ScanRecord == [rows : SUBSET ProbeRows, fps : [Findings -> FpStates],
               items : [Slugs -> {"none", "open", "not_observed", "closed"}],
               snapshot : BOOLEAN, scope : Scopes \cup {NoSignature}, computed : BOOLEAN]
ScanProcess == [at : {"dead", "persisted", "snapshot", "signed", "closed"},
                found : SUBSET Findings, there : SUBSET Findings, failed : BOOLEAN,
                health : [Families -> {"not_run", "healthy", "no_targets", "unhealthy"}]]

ClosureTypeOK ==
    /\ scans \in Seq(ScanRecord)
    /\ run = Idle \/ (run \in ScanProcess /\ N > 0)

Uncounted == {"open", "resurfaced", "not_observed"}
Signed(n) == scans[n].scope # NoSignature

(* A live row of the finding's own probe at its host:port. *)
OwnRow(probed, f) == \E r \in probed : r.hp = f.hp /\ LiveRow(r) /\ Family[r.proto] = f.fam

(* What the tables say of every scan: an open finding was shown by a row of its
   own probe and has an item; what reads closed is closed on a signed scan at
   or after it; only a signed scan was compared. *)
HistoryInv ==
    \A n \in 1 .. N :
        /\ scans[n].computed => Signed(n)
        /\ \A f \in Findings :
              /\ scans[n].fps[f] \in OpenLike =>
                    OwnRow(scans[n].rows, f) /\ scans[n].items[f.slug] # "none"
              /\ scans[n].fps[f] = "closed" =>
                    \E q \in n .. N : Signed(q) /\ scans[q].fps[f] = "closed"

(* The newest scan against the one it is compared with: a row is carried only
   from an uncounted one, and once the closure was computed every uncounted one
   has a row; an item reads closed on it only then. *)
NewestInv ==
    LET p == select_prior_scan_run_id IN
    N > 0 =>
        /\ \A f \in Findings :
              /\ scans[N].fps[f] = "not_observed" => p # 0 /\ scans[p].fps[f] \in Uncounted
              /\ scans[N].computed /\ p # 0 /\ scans[p].fps[f] \in Uncounted =>
                    scans[N].fps[f] # "none"
        /\ \A s \in Slugs : scans[N].items[s] = "closed" => scans[N].computed

(* The process: what it found was shown by its rows; it found what its probes
   could show it, or it was resumed and vouches for no family of probes; a
   plaintext service that is there leaves no live TLS or SSH row. *)
ProcessInv ==
    run.at # "idle" =>
        /\ \A f \in run.found : OwnRow(scans[N].rows, f)
        /\ \/ \A f \in Findings : (f \in run.found) \in Shows(f, scans[N].rows, f \in run.there)
           \/ \A fam \in Families : ~ probe_family_rechecked(run.health, fam)
        /\ \A f \in run.there : f.fam = "http" =>
              \A r \in scans[N].rows : r.hp = f.hp /\ r.proto \in {"SSH", "TLS"} => ~ LiveRow(r)
        /\ run.at \in {"snapshot", "signed", "closed"} /\ ~ run.failed =>
              \A f \in run.found : scans[N].fps[f] # "none"
        /\ scans[N].computed => \A f \in run.found : scans[N].fps[f] # "none"

(* The signature row: what the closure reads is what this process assessed,
   unless it failed to replace the row of one that died. *)
SignatureRecord == [health : [Families -> {"not_run", "healthy", "no_targets", "unhealthy"}],
                    stale : BOOLEAN]
SignatureInv ==
    /\ signature \in SignatureRecord
    /\ run.at = "signed" /\ ~ signature.stale /\ Signed(N) => signature.health = run.health

(* TrackedUntilClosed as it was when scan k was the newest. *)
TrackedAt(k) ==
    \A n \in 1 .. k, f \in Findings :
        /\ scans[n].fps[f] \in OpenLike /\ Signed(n)
        /\ \A m \in n + 1 .. k : scans[m].computed
        => \/ scans[k].fps[f] # "none"
           \/ \E m \in n .. k : scans[m].fps[f] = "closed"

ClosureInv ==
    /\ ClosureTypeOK
    /\ HistoryInv
    /\ NewestInv
    /\ ProcessInv
    /\ SignatureInv
    /\ \A k \in 1 .. N : TrackedAt(k)
    /\ NoFalseClosureWhenSigned
    /\ ItemClosedMeansAll

LEMMA NewSignature == Unsigned \in SignatureRecord /\ ~ Unsigned.stale
  BY DEF Unsigned, SignatureRecord, Families

LEMMA ClosureInitially == ClosureInit => ClosureInv
  <1>1. SUFFICES ASSUME ClosureInit PROVE ClosureInv
    OBVIOUS
  <1>2. scans = <<>> /\ run = Idle /\ N = 0
    BY <1>1 DEF ClosureInit, N
  <1>3. ClosureTypeOK
    BY <1>2 DEF ClosureTypeOK
  <1>4. 1 .. N = {} /\ run.at = "idle"
    BY <1>2 DEF Idle
  <1>5. HistoryInv /\ ItemClosedMeansAll /\ \A k \in 1 .. N : TrackedAt(k)
    BY <1>4 DEF HistoryInv, ItemClosedMeansAll
  <1>6. NewestInv
    BY <1>2 DEF NewestInv
  <1>7. ProcessInv /\ NoFalseClosureWhenSigned
    BY <1>4 DEF ProcessInv, NoFalseClosureWhenSigned, NoFalseClosure, Running
  <1>8. SignatureInv
    BY <1>1, <1>4, NewSignature DEF ClosureInit, SignatureInv
  <1>9. QED
    BY <1>3, <1>5, <1>6, <1>7, <1>8 DEF ClosureInv

(* The greatest of a set of scans, as the code's ORDER BY ... LIMIT 1 picks it. *)
LEMMA LastOfScans ==
    ASSUME NEW b \in Nat, NEW S \in SUBSET (1 .. b), S # {}
    PROVE  LET l == CHOOSE n \in S : \A m \in S : m <= n
           IN  l \in S /\ \A m \in S : m <= l
  <1>1. S \in SUBSET Nat /\ \A x \in S : x <= b
    OBVIOUS
  <1>2. Max(S) \in S /\ \A x \in S : x <= Max(S)
    BY <1>1, BoundedHasMax
  <1>3. \E n \in S : \A m \in S : m <= n
    BY <1>2
  <1>4. QED
    BY <1>3

(* The prior scan is the last signed one before the newest. *)
LEMMA PriorFacts ==
    ASSUME ClosureTypeOK, N > 0
    PROVE  LET p == select_prior_scan_run_id
           IN  /\ p # 0 => p \in 1 .. N - 1 /\ Signed(p)
               /\ \A m \in 1 .. N - 1 : Signed(m) => p # 0 /\ m <= p
  <1> DEFINE S == {n \in 1 .. N - 1 : scans[n].scope # NoSignature}
  <1>1. N \in Nat
    BY DEF ClosureTypeOK, N
  <1>2. N - 1 \in Nat /\ S \in SUBSET (1 .. (N - 1))
    BY <1>1
  <1>3. S # {} => /\ (CHOOSE n \in S : \A m \in S : m <= n) \in S
                  /\ \A k \in S : k <= (CHOOSE n \in S : \A m \in S : m <= n)
    BY <1>2, LastOfScans
  <1>4. select_prior_scan_run_id = IF S = {} THEN 0 ELSE CHOOSE n \in S : \A m \in S : m <= n
    BY DEF select_prior_scan_run_id
  <1>5. CASE S = {}
    <2>1. select_prior_scan_run_id = 0
      BY <1>4, <1>5
    <2>2. \A m \in 1 .. N - 1 : ~ Signed(m)
      BY <1>5 DEF Signed
    <2>3. QED
      BY <2>1, <2>2
  <1>6. CASE S # {}
    <2>1. PICK p : p = CHOOSE n \in S : \A m \in S : m <= n
      OBVIOUS
    <2>2. select_prior_scan_run_id = p /\ p \in S /\ \A k \in S : k <= p
      BY <1>3, <1>4, <1>6, <2>1
    <2>3. p \in 1 .. N - 1 /\ Signed(p) /\ p # 0
      BY <1>2, <2>2 DEF Signed
    <2>4. \A m \in 1 .. N - 1 : Signed(m) => m <= p
      BY <2>2 DEF Signed
    <2>5. QED
      BY <2>2, <2>3, <2>4
  <1>7. QED
    BY <1>5, <1>6

(* LastRow finds the last row of f in one of the states, before the newest scan. *)
LEMMA LastRowFacts ==
    ASSUME ClosureTypeOK, N > 0, NEW f \in Findings, NEW states
    PROVE  LET l == LastRow(f, states)
           IN  /\ l # 0 => l \in 1 .. N - 1 /\ scans[l].fps[f] \in states
               /\ \A m \in 1 .. N - 1 : scans[m].fps[f] \in states => l # 0 /\ m <= l
  <1> DEFINE S == {n \in 1 .. N - 1 : scans[n].fps[f] \in states}
  <1>1. N \in Nat
    BY DEF ClosureTypeOK, N
  <1>2. N - 1 \in Nat /\ S \in SUBSET (1 .. (N - 1))
    BY <1>1
  <1>3. S # {} => /\ (CHOOSE n \in S : \A m \in S : m <= n) \in S
                  /\ \A k \in S : k <= (CHOOSE n \in S : \A m \in S : m <= n)
    BY <1>2, LastOfScans
  <1>4. LastRow(f, states) = IF S = {} THEN 0 ELSE CHOOSE n \in S : \A m \in S : m <= n
    BY DEF LastRow
  <1>5. CASE S = {}
    <2>1. LastRow(f, states) = 0
      BY <1>4, <1>5
    <2>2. \A m \in 1 .. N - 1 : scans[m].fps[f] \notin states
      BY <1>5
    <2>3. QED
      BY <2>1, <2>2
  <1>6. CASE S # {}
    <2>1. PICK p : p = CHOOSE n \in S : \A m \in S : m <= n
      OBVIOUS
    <2>2. LastRow(f, states) = p /\ p \in S /\ \A k \in S : k <= p
      BY <1>3, <1>4, <1>6, <2>1
    <2>3. p \in 1 .. N - 1 /\ scans[p].fps[f] \in states /\ p # 0
      BY <1>2, <2>2
    <2>4. \A m \in 1 .. N - 1 : scans[m].fps[f] \in states => m <= p
      BY <2>2
    <2>5. QED
      BY <2>2, <2>3, <2>4
  <1>7. QED
    BY <1>5, <1>6

(* A step that leaves the tables alone disturbs only what is said of the process. *)
LEMMA TablesStay ==
    ASSUME ClosureInv, UNCHANGED scans, ClosureTypeOK', ProcessInv', SignatureInv',
           NoFalseClosureWhenSigned'
    PROVE  ClosureInv'
  <1>1. N' = N /\ select_prior_scan_run_id' = select_prior_scan_run_id
    BY DEF N, select_prior_scan_run_id
  <1>2. HistoryInv'
    BY <1>1 DEF ClosureInv, HistoryInv, Signed
  <1>3. NewestInv'
    BY <1>1 DEF ClosureInv, NewestInv
  <1>4. ItemClosedMeansAll'
    BY <1>1 DEF ClosureInv, ItemClosedMeansAll
  <1>5. (\A k \in 1 .. N : TrackedAt(k))'
    BY <1>1 DEF ClosureInv, TrackedAt, Signed
  <1>6. QED
    BY <1>2, <1>3, <1>4, <1>5 DEF ClosureInv

LEMMA SignatureStays ==
    ASSUME ClosureInv, UNCHANGED signature, run'.at # "signed"
    PROVE  SignatureInv'
  BY DEF ClosureInv, SignatureInv

(* The process moves on, or dies, with what it knows. *)
LEMMA MoveStep ==
    ASSUME ClosureInv, UNCHANGED scans, run.at # "idle",
           NEW a \in {"dead", "snapshot", "signed", "closed"}, NEW b \in BOOLEAN,
           run' = [run EXCEPT !.at = a, !.failed = b],
           a = "dead" \/ b \/ (run.at \in {"snapshot", "signed"} /\ run.failed = b),
           SignatureInv', signature.stale => signature'.stale
    PROVE  ClosureInv'
  <1>1. run \in ScanProcess /\ N > 0 /\ N' = N
    BY DEF ClosureInv, ClosureTypeOK, Idle, N
  <1>2. /\ run' \in ScanProcess /\ run'.at = a /\ run'.failed = b
        /\ run'.found = run.found /\ run'.there = run.there /\ run'.health = run.health
    BY <1>1 DEF ScanProcess
  <1>3. ClosureTypeOK'
    BY <1>1, <1>2 DEF ClosureInv, ClosureTypeOK
  <1>4. ProcessInv'
    <2>1. /\ \A f \in run'.found : OwnRow(scans'[N'].rows, f)
          /\ \A f \in run'.there : f.fam = "http" =>
                \A r \in scans'[N'].rows : r.hp = f.hp /\ r.proto \in {"SSH", "TLS"} => ~ LiveRow(r)
          /\ scans'[N'].computed => \A f \in run'.found : scans'[N'].fps[f] # "none"
      BY <1>1, <1>2 DEF ClosureInv, ProcessInv
    <2>2. \/ \A f \in Findings : (f \in run'.found) \in Shows(f, scans'[N'].rows, f \in run'.there)
          \/ \A fam \in Families : ~ probe_family_rechecked(run'.health, fam)
      BY <1>1, <1>2 DEF ClosureInv, ProcessInv
    <2>3. run'.at \in {"snapshot", "signed", "closed"} /\ ~ run'.failed =>
             \A f \in run'.found : scans'[N'].fps[f] # "none"
      BY <1>1, <1>2 DEF ClosureInv, ProcessInv
    <2>4. QED
      BY <2>1, <2>2, <2>3 DEF ProcessInv
  <1>5. NoFalseClosureWhenSigned'
    BY <1>1, <1>2 DEF ClosureInv, NoFalseClosureWhenSigned, NoFalseClosure, Running
  <1>6. QED
    BY <1>3, <1>4, <1>5, TablesStay

(* A resumed run vouches for no family of probes: http is not timed, and a
   stage that runs again has no endpoint to show. *)
LEMMA ResumeStep ==
    ASSUME ClosureInv, ResumeScan
    PROVE  ClosureInv'
  <1>1. /\ run \in ScanProcess /\ N > 0 /\ N' = N /\ UNCHANGED <<scans, signature>>
        /\ run.at = "dead"
    BY DEF ClosureInv, ClosureTypeOK, Idle, N, ResumeScan
  <1>2. PICK loaded \in {{}, scans[N].rows}, redone \in SUBSET {"tls", "ssh"} :
          /\ \A r \in scans[N].rows : Classified(r.proto) => Family[r.proto] \notin redone
          /\ run' = [run EXCEPT !.at = "persisted", !.failed = FALSE,
                                !.found = IF loaded = {} THEN {} ELSE @,
                                !.health = assess_probe_health(redone, loaded, {})]
    BY DEF ResumeScan
  <1>3. PICK h : h = assess_probe_health(redone, loaded, {})
    OBVIOUS
  <1>4. /\ h \in [Families -> {"not_run", "healthy", "no_targets", "unhealthy"}]
        /\ \A fam \in Families : ~ probe_family_rechecked(h, fam)
    <2>1. SUFFICES ASSUME NEW fam \in Families
                   PROVE  h[fam] = "not_run" \/ (h[fam] = "no_targets" /\ fam # "http")
      <3>1. h = [fam \in Families |-> h[fam]]
        BY <1>3 DEF assess_probe_health
      <3>2. QED
        BY <2>1, <3>1 DEF probe_family_rechecked
    <2> DEFINE seen == {r \in loaded : Classified(r.proto) /\ Family[r.proto] = fam}
    <2>2. h[fam] = IF fam \notin redone THEN "not_run"
                   ELSE IF fam \in {} \/ \E r \in seen : r.evid THEN "healthy"
                   ELSE IF seen = {} THEN "no_targets"
                   ELSE "unhealthy"
      BY <1>3 DEF assess_probe_health
    <2>3. CASE fam \notin redone
      BY <2>2, <2>3
    <2>4. CASE fam \in redone
      <3>1. seen = {}
        BY <1>2, <2>4
      <3>2. fam # "http"
        BY <1>2, <2>4
      <3>3. QED
        BY <2>2, <2>4, <3>1, <3>2
    <2>5. QED
      BY <2>3, <2>4
  <1>5. /\ run' \in ScanProcess /\ run'.at = "persisted" /\ run'.found \subseteq run.found
        /\ run'.there = run.there /\ run'.health = h
    BY <1>1, <1>2, <1>3, <1>4 DEF ScanProcess
  <1>6. ClosureTypeOK'
    BY <1>1, <1>5 DEF ClosureInv, ClosureTypeOK
  <1>7. ProcessInv'
    <2>1. /\ \A f \in run'.found : OwnRow(scans'[N'].rows, f)
          /\ \A f \in run'.there : f.fam = "http" =>
                \A r \in scans'[N'].rows : r.hp = f.hp /\ r.proto \in {"SSH", "TLS"} => ~ LiveRow(r)
          /\ scans'[N'].computed => \A f \in run'.found : scans'[N'].fps[f] # "none"
      BY <1>1, <1>5 DEF ClosureInv, ProcessInv
    <2>2. \A fam \in Families : ~ probe_family_rechecked(run'.health, fam)
      BY <1>4, <1>5
    <2>3. ~ (run'.at \in {"snapshot", "signed", "closed"} /\ ~ run'.failed)
      BY <1>5
    <2>4. QED
      BY <2>1, <2>2, <2>3 DEF ProcessInv
  <1>8. NoFalseClosureWhenSigned'
    BY <1>1, <1>5 DEF ClosureInv, NoFalseClosureWhenSigned, NoFalseClosure, Running
  <1>9. SignatureInv'
    BY <1>1, <1>5, SignatureStays
  <1>10. QED
    BY <1>1, <1>6, <1>7, <1>8, <1>9, TablesStay

(* A row of a service that was seen; where plaintext HTTP runs, a TLS or SSH
   row comes from a cached fingerprint and has failed. *)
LEMMA SightFacts ==
    ASSUME NEW k \in HostPorts, NEW service \in Services, NEW cached \in BOOLEAN,
           NEW seen \in Sights(service, cached),
           NEW r \in FingerprintRows(k, seen[1], seen[2])
    PROVE  /\ r \in ProbeRows /\ r.hp = k
           /\ service = "HTTP" /\ r.proto \in {"SSH", "TLS"} => r.err
  <1>1. /\ Services \subseteq {"none", "HTTP", "TLS", "SSH"}
        /\ Misses \subseteq {"UNKNOWN", "CLOSED", "nothing"}
        /\ Outcomes \subseteq {"ok", "bare", "failed"}
    BY ClosureAssumption
  <1>2. PICK w, o : seen = <<w, o>>
    BY DEF Sights
  <1>3. /\ w \in {"UNKNOWN", "CLOSED", "nothing", "HTTP", "TLS", "SSH"}
        /\ service = "HTTP" /\ w \in {"SSH", "TLS"} => o = "failed"
    BY <1>1, <1>2 DEF Sights
  <1>4. r \in FingerprintRows(k, w, o) /\ w # "nothing"
    BY <1>2 DEF FingerprintRows
  <1>5. \/ r = Row(k, w, "ok") /\ w \in {"HTTP", "UNKNOWN", "CLOSED"}
        \/ r = Row(k, w, o) /\ w \in {"TLS", "SSH"}
    <2>1. CASE w \in {"HTTP", "UNKNOWN", "CLOSED"}
      BY <1>4, <2>1 DEF FingerprintRows
    <2>2. CASE w \in {"TLS", "SSH"}
      <3>1. FingerprintRows(k, w, o) = {Row(k, w, o)}
        BY <2>2 DEF FingerprintRows
      <3>2. QED
        BY <1>4, <2>2, <3>1
    <2>3. QED
      BY <1>3, <1>4, <2>1, <2>2
  <1>6. /\ \A x : Row(k, w, x) = [hp |-> k, proto |-> w, evid |-> x = "ok",
             err |-> x = "failed" /\ w # "SMTPS", blocked |-> x = "failed" /\ w = "SMTPS"]
        /\ w # "nothing"
    BY <1>4 DEF Row
  <1>7. PICK x : /\ r = Row(k, w, x)
                 /\ w \in {"SSH", "TLS"} => x = o
    BY <1>5
  <1>8. PICK e \in BOOLEAN, d \in BOOLEAN, b \in BOOLEAN :
           /\ e = (x = "ok") /\ d = (x = "failed" /\ w # "SMTPS")
           /\ b = (x = "failed" /\ w = "SMTPS")
    OBVIOUS
  <1>9. r = [hp |-> k, proto |-> w, evid |-> e, err |-> d, blocked |-> b]
    BY <1>6, <1>7, <1>8
  <1>10. w \in {"SSH", "TLS"} /\ service = "HTTP" => d
    BY <1>3, <1>7, <1>8
  <1>11. QED
    BY <1>3, <1>6, <1>9, <1>10 DEF ProbeRows

LEMMA StartScanStep ==
    ASSUME ClosureInv, StartScan
    PROVE  ClosureInv'
  <1>1. PICK service \in [HostPorts -> Services], weak \in SUBSET HostPorts, cached \in BOOLEAN,
             beside \in [HostPorts \X CoResident -> (Outcomes \ {"bare"}) \cup {"nothing"}],
             elsewhere \in {{}, {"http", "tls"}} :
        \E seen \in [HostPorts -> UNION {Sights(service[k], cached) : k \in HostPorts}],
           found \in SUBSET Findings :
        /\ \A k \in HostPorts : seen[k] \in Sights(service[k], cached)
        /\ \A k \in weak : service[k] = "TLS"
        /\ mishaps' = IF cached THEN mishaps + 1 ELSE mishaps
        /\ mishaps' <= MaxMishaps[N + 1]
        /\ \A f \in Findings :
             (f \in found) \in Shows(f, Probed(seen, beside), f \in There(service, weak))
        /\ scans' = Append(scans, NewScan(Probed(seen, beside)))
        /\ run' = [at |-> "persisted", found |-> found, there |-> There(service, weak),
                   failed |-> FALSE,
                   health |-> assess_probe_health(Families \ (IF cached THEN {"http"} ELSE {}),
                                                  Probed(seen, beside), elsewhere)]
    BY Zenon DEF StartScan
  <1>2. PICK seen \in [HostPorts -> UNION {Sights(service[k], cached) : k \in HostPorts}],
             found \in SUBSET Findings :
        /\ \A k \in HostPorts : seen[k] \in Sights(service[k], cached)
        /\ \A f \in Findings :
             (f \in found) \in Shows(f, Probed(seen, beside), f \in There(service, weak))
        /\ scans' = Append(scans, NewScan(Probed(seen, beside)))
        /\ run' = [at |-> "persisted", found |-> found, there |-> There(service, weak),
                   failed |-> FALSE,
                   health |-> assess_probe_health(Families \ (IF cached THEN {"http"} ELSE {}),
                                                  Probed(seen, beside), elsewhere)]
    BY <1>1
  <1>3. PICK probed : probed = Probed(seen, beside)
    OBVIOUS
  <1>4. PICK there : there = There(service, weak)
    OBVIOUS
  <1>5. /\ \A f \in Findings : (f \in found) \in Shows(f, probed, f \in there)
        /\ scans' = Append(scans, NewScan(probed))
        /\ run' = [at |-> "persisted", found |-> found, there |-> there, failed |-> FALSE,
                   health |-> assess_probe_health(Families \ (IF cached THEN {"http"} ELSE {}),
                                                  probed, elsewhere)]
    BY <1>2, <1>3, <1>4
  <1>6. PICK h : h = assess_probe_health(Families \ (IF cached THEN {"http"} ELSE {}), probed, elsewhere)
    OBVIOUS
  <1>7. h \in [Families -> {"not_run", "healthy", "no_targets", "unhealthy"}]
    BY <1>6 DEF assess_probe_health
  <1>8. /\ probed \subseteq ProbeRows
        /\ \A r \in probed : service[r.hp] = "HTTP" /\ r.proto \in {"SSH", "TLS"} => r.err
    <2>1. SUFFICES ASSUME NEW r \in probed
                   PROVE  /\ r \in ProbeRows
                          /\ service[r.hp] = "HTTP" /\ r.proto \in {"SSH", "TLS"} => r.err
      OBVIOUS
    <2>2. ASSUME NEW k \in HostPorts, r \in FingerprintRows(k, seen[k][1], seen[k][2])
          PROVE  /\ r \in ProbeRows
                 /\ service[r.hp] = "HTTP" /\ r.proto \in {"SSH", "TLS"} => r.err
      <3>1. service[k] \in Services /\ seen[k] \in Sights(service[k], cached)
        BY <1>2
      <3>2. QED
        BY <2>2, <3>1, SightFacts
    <2>3. ASSUME NEW c \in HostPorts \X CoResident, r = Row(c[1], c[2], beside[c])
          PROVE  r \in ProbeRows /\ r.proto \notin {"SSH", "TLS"}
      <3>1. c[1] \in HostPorts /\ c[2] \in {"SAML", "SMTPS"}
        BY ClosureAssumption
      <3>2. QED
        BY <2>3, <3>1 DEF Row, ProbeRows
    <2>4. \/ \E k \in HostPorts : r \in FingerprintRows(k, seen[k][1], seen[k][2])
          \/ \E c \in HostPorts \X CoResident : r = Row(c[1], c[2], beside[c])
      <3>1. \/ r \in UNION {FingerprintRows(k, seen[k][1], seen[k][2]) : k \in HostPorts}
            \/ r \in {Row(c[1], c[2], beside[c]) :
                       c \in {b \in HostPorts \X CoResident : beside[b] # "nothing"}}
        <4>1. r \in Probed(seen, beside)
          BY <1>3, <2>1
        <4>2. QED
          BY Zenon, <4>1 DEF Probed
      <3>2. QED
        BY <3>1
    <2>5. QED
      BY <2>2, <2>3, <2>4
  <1>9. PICK new : new = NewScan(probed)
    OBVIOUS
  <1>10. /\ new \in ScanRecord /\ new.rows = probed /\ ~ new.computed
         /\ \A f \in Findings : new.fps[f] = "none"
         /\ \A s \in Slugs : new.items[s] = "none"
    BY <1>8, <1>9 DEF NewScan, ScanRecord, FpStates, NoRow, NoItem
  <1>11. /\ scans \in Seq(ScanRecord) /\ N \in Nat /\ N' = N + 1 /\ scans' \in Seq(ScanRecord)
         /\ scans'[N'] = new /\ \A n \in 1 .. N : scans'[n] = scans[n]
    BY <1>5, <1>9, <1>10 DEF ClosureInv, ClosureTypeOK, N
  <1>12. /\ run' \in ScanProcess /\ run'.at = "persisted" /\ run'.found = found /\ run'.there = there
    BY <1>4, <1>5, <1>6, <1>7 DEF There, ScanProcess
  <1>13. ClosureTypeOK'
    BY <1>11, <1>12 DEF ClosureTypeOK
  <1>14. \A n \in 1 .. N' :
            \/ n \in 1 .. N /\ scans'[n] = scans[n]
            \/ n = N' /\ scans'[n] = new
    BY <1>11
  <1>15. HistoryInv'
    <2>1. SUFFICES ASSUME NEW n \in 1 .. N'
                   PROVE  /\ scans'[n].computed => Signed(n)'
                          /\ \A f \in Findings :
                              /\ scans'[n].fps[f] \in OpenLike =>
                                    OwnRow(scans'[n].rows, f) /\ scans'[n].items[f.slug] # "none"
                              /\ scans'[n].fps[f] = "closed" =>
                                    \E q \in n .. N' : Signed(q)' /\ scans'[q].fps[f] = "closed"
      BY DEF HistoryInv
    <2>2. CASE n \in 1 .. N
      <3>1. scans'[n] = scans[n] /\ (\A q \in n .. N : q \in n .. N' /\ scans'[q] = scans[q])
        BY <1>11, <2>2
      <3>2. QED
        BY <2>2, <3>1 DEF ClosureInv, HistoryInv, Signed
    <2>3. CASE scans'[n] = new
      BY <1>10, <2>3 DEF OpenLike
    <2>4. QED
      BY <1>14, <2>2, <2>3
  <1>16. NewestInv'
    BY <1>10, <1>11 DEF NewestInv
  <1>17. ProcessInv'
    <2>1. \A f \in run'.found : OwnRow(scans'[N'].rows, f)
      <3>1. SUFFICES ASSUME NEW f \in found PROVE OwnRow(probed, f)
        BY <1>10, <1>11, <1>12
      <3>2. TRUE \in Shows(f, probed, f \in there)
        <4>1. (f \in found) \in Shows(f, probed, f \in there) /\ (f \in found) = TRUE
          BY <1>5, <3>1
        <4>2. QED
          BY <4>1
      <3>3. QED
        BY <3>2 DEF Shows, OwnRow
    <2>2. \A f \in Findings : (f \in run'.found) \in Shows(f, scans'[N'].rows, f \in run'.there)
      BY <1>5, <1>10, <1>11, <1>12
    <2>3. \A f \in run'.there : f.fam = "http" =>
             \A r \in scans'[N'].rows : r.hp = f.hp /\ r.proto \in {"SSH", "TLS"} => ~ LiveRow(r)
      <3>1. \A f \in there : f.fam = "http" => service[f.hp] = "HTTP"
        BY <1>4 DEF There, Vulnerable
      <3>2. QED
        BY <1>8, <1>10, <1>11, <1>12, <3>1 DEF LiveRow
    <2>4. ~ scans'[N'].computed /\ run'.at = "persisted"
      BY <1>10, <1>11, <1>12
    <2>5. QED
      BY <2>1, <2>2, <2>3, <2>4 DEF ProcessInv
  <1>18. SignatureInv' /\ NoFalseClosureWhenSigned'
    <2>1. signature' = Unsigned
      BY Zenon DEF StartScan
    <2>2. QED
      BY <1>10, <1>11, <1>12, <2>1, NewSignature
         DEF NoFalseClosureWhenSigned, NoFalseClosure, SignatureInv
  <1>19. ItemClosedMeansAll'
    BY <1>10, <1>14 DEF ClosureInv, ItemClosedMeansAll
  <1>20. (\A k \in 1 .. N : TrackedAt(k))'
    <2>1. SUFFICES ASSUME NEW k \in 1 .. N', NEW n \in 1 .. k, NEW f \in Findings,
                          scans'[n].fps[f] \in OpenLike, Signed(n)',
                          \A m \in n + 1 .. k : scans'[m].computed
                   PROVE  \/ scans'[k].fps[f] # "none"
                          \/ \E m \in n .. k : scans'[m].fps[f] = "closed"
      BY DEF TrackedAt
    <2>2. CASE k \in 1 .. N
      <3>1. \A m \in n .. k : m \in 1 .. N /\ scans'[m] = scans[m]
        BY <1>11, <2>2
      <3>2. n \in n .. k /\ k \in n .. k /\ \A m \in n + 1 .. k : m \in n .. k
        BY <1>11, <2>2
      <3>3. /\ scans[n].fps[f] \in OpenLike /\ Signed(n)
            /\ \A m \in n + 1 .. k : scans[m].computed
        BY <2>1, <3>1, <3>2 DEF Signed
      <3>4. TrackedAt(k)
        BY <2>2 DEF ClosureInv
      <3>5. \/ scans[k].fps[f] # "none"
            \/ \E m \in n .. k : scans[m].fps[f] = "closed"
        BY <3>3, <3>4 DEF TrackedAt
      <3>6. QED
        BY <3>1, <3>2, <3>5
    <2>3. CASE k = N'
      <3>1. n # N'
        BY <1>10, <1>11, <2>1 DEF OpenLike
      <3>2. N' \in n + 1 .. k
        BY <1>11, <2>3, <3>1
      <3>3. QED
        BY <1>10, <1>11, <2>1, <3>2
    <2>4. QED
      BY <1>14, <2>2, <2>3
  <1>21. QED
    BY <1>13, <1>15, <1>16, <1>17, <1>18, <1>19, <1>20 DEF ClosureInv

(* The prior scan is a matter of the signatures alone. *)
LEMMA SamePrior ==
    ASSUME N' = N, \A n \in 1 .. N - 1 : scans'[n].scope = scans[n].scope
    PROVE  select_prior_scan_run_id' = select_prior_scan_run_id
  <1>1. PICK S : S = {n \in 1 .. N - 1 : scans[n].scope # NoSignature}
    OBVIOUS
  <1>2. S = {n \in 1 .. N' - 1 : scans'[n].scope # NoSignature}
    BY <1>1
  <1>3. select_prior_scan_run_id = IF S = {} THEN 0 ELSE CHOOSE n \in S : \A m \in S : m <= n
    BY <1>1 DEF select_prior_scan_run_id
  <1>4. select_prior_scan_run_id' = IF S = {} THEN 0 ELSE CHOOSE n \in S : \A m \in S : m <= n
    BY <1>2 DEF select_prior_scan_run_id
  <1>5. QED
    BY <1>3, <1>4

(* What a write to the newest scan must keep: nothing that was there is taken
   away, and a new row is an open one. *)
LEMMA NewestWrite ==
    ASSUME ClosureInv, N > 0, Len(scans') = N, scans' \in Seq(ScanRecord),
           \A n \in 1 .. N - 1 : scans'[n] = scans[n],
           scans'[N].rows = scans[N].rows, scans'[N].computed = scans[N].computed,
           Signed(N) => Signed(N)',
           \A f \in Findings :
              \/ scans'[N].fps[f] = scans[N].fps[f]
              \/ /\ scans[N].fps[f] = "none" /\ scans'[N].fps[f] = "open"
                 /\ OwnRow(scans[N].rows, f) /\ scans'[N].items[f.slug] # "none"
                 /\ ~ scans[N].computed,
           \A s \in Slugs :
              \/ scans'[N].items[s] = scans[N].items[s]
              \/ scans[N].items[s] = "none" /\ scans'[N].items[s] # "closed"
    PROVE  /\ N' = N /\ HistoryInv' /\ NewestInv' /\ ItemClosedMeansAll'
           /\ (\A k \in 1 .. N : TrackedAt(k))'
  <1>1. N' = N /\ N \in Nat /\ N \in 1 .. N
    BY DEF N, ClosureInv, ClosureTypeOK
  <1>2. \A n \in 1 .. N : n \in 1 .. N - 1 \/ n = N
    BY <1>1
  <1>3. ASSUME NEW f \in Findings
        PROVE  f.slug \in Slugs
    BY DEF Slugs
  <1>a. \A n \in 1 .. N : /\ scans'[n].rows = scans[n].rows
                          /\ scans'[n].computed = scans[n].computed
                          /\ Signed(n) => Signed(n)'
    BY <1>1, <1>2 DEF Signed
  <1>b. \A n \in 1 .. N, f \in Findings :
           \/ scans'[n].fps[f] = scans[n].fps[f]
           \/ n = N /\ scans[n].fps[f] = "none" /\ scans'[n].fps[f] = "open"
    BY <1>2
  <1>c. \A n \in 1 .. N, s \in Slugs :
           \/ scans'[n].items[s] = scans[n].items[s]
           \/ n = N /\ scans[n].items[s] = "none" /\ scans'[n].items[s] # "closed"
    BY <1>2
  <1>4. HistoryInv'
    <2>1. SUFFICES ASSUME NEW n \in 1 .. N
                   PROVE  /\ scans'[n].computed => Signed(n)'
                          /\ \A f \in Findings :
                              /\ scans'[n].fps[f] \in OpenLike =>
                                    OwnRow(scans'[n].rows, f) /\ scans'[n].items[f.slug] # "none"
                              /\ scans'[n].fps[f] = "closed" =>
                                    \E q \in n .. N : Signed(q)' /\ scans'[q].fps[f] = "closed"
      BY <1>1 DEF HistoryInv
    <2>2. scans'[n].computed => Signed(n)'
      BY <1>a DEF ClosureInv, HistoryInv
    <2>3. ASSUME NEW f \in Findings, scans'[n].fps[f] \in OpenLike
          PROVE  OwnRow(scans'[n].rows, f) /\ scans'[n].items[f.slug] # "none"
      <3>1. CASE scans'[n].fps[f] = scans[n].fps[f]
        <4>1. OwnRow(scans[n].rows, f) /\ scans[n].items[f.slug] # "none"
          BY <2>3, <3>1 DEF ClosureInv, HistoryInv
        <4>2. QED
          BY <1>3, <1>a, <1>c, <4>1
      <3>2. CASE n = N /\ scans'[N].fps[f] # scans[N].fps[f]
        BY <3>2
      <3>3. QED
        BY <1>2, <3>1, <3>2
    <2>4. ASSUME NEW f \in Findings, scans'[n].fps[f] = "closed"
          PROVE  \E q \in n .. N : Signed(q)' /\ scans'[q].fps[f] = "closed"
      <3>1. scans[n].fps[f] = "closed"
        BY <1>b, <2>4
      <3>2. PICK q \in n .. N : Signed(q) /\ scans[q].fps[f] = "closed"
        BY <3>1 DEF ClosureInv, HistoryInv
      <3>3. q \in 1 .. N
        BY <1>1
      <3>4. Signed(q)' /\ scans'[q].fps[f] = "closed"
        BY <1>a, <1>b, <3>2, <3>3
      <3>5. QED
        BY <3>4
    <2>5. QED
      BY <2>2, <2>3, <2>4
  <1>5. NewestInv'
    <2>2. select_prior_scan_run_id' = select_prior_scan_run_id
      BY <1>1, SamePrior
    <2>3. PICK p : p = select_prior_scan_run_id
      OBVIOUS
    <2>4. p # 0 => p \in 1 .. N - 1 /\ scans'[p] = scans[p]
      BY <2>3, PriorFacts DEF ClosureInv
    <2>5. \A f \in Findings :
              /\ scans[N].fps[f] = "not_observed" => p # 0 /\ scans[p].fps[f] \in Uncounted
              /\ scans[N].computed /\ p # 0 /\ scans[p].fps[f] \in Uncounted =>
                    scans[N].fps[f] # "none"
      BY <2>3 DEF ClosureInv, NewestInv
    <2>6. \A f \in Findings :
              /\ scans'[N].fps[f] = "not_observed" => p # 0 /\ scans'[p].fps[f] \in Uncounted
              /\ scans'[N].computed /\ p # 0 /\ scans'[p].fps[f] \in Uncounted =>
                    scans'[N].fps[f] # "none"
      BY <2>4, <2>5
    <2>7. \A s \in Slugs : scans'[N].items[s] = "closed" => scans'[N].computed
      BY <1>1, <1>a, <1>c DEF ClosureInv, NewestInv
    <2>8. QED
      BY <1>1, <2>2, <2>3, <2>6, <2>7 DEF NewestInv
  <1>6. ItemClosedMeansAll'
    <2>1. SUFFICES ASSUME NEW n \in 1 .. N, NEW s \in Slugs, scans'[n].items[s] = "closed",
                          NEW f \in Findings, f.slug = s
                   PROVE  scans'[n].fps[f] \in {"none", "closed"}
      BY <1>1 DEF ItemClosedMeansAll
    <2>2. scans[n].items[s] = "closed"
      BY <1>c, <2>1
    <2>3. scans[n].fps[f] \in {"none", "closed"}
      BY <2>1, <2>2 DEF ClosureInv, ItemClosedMeansAll
    <2>4. n = N => scans[N].computed
      BY <2>2 DEF ClosureInv, NewestInv
    <2>5. scans'[n].fps[f] = scans[n].fps[f]
      BY <1>b, <2>4
    <2>6. QED
      BY <2>3, <2>5
  <1>7. (\A k \in 1 .. N : TrackedAt(k))'
    <2>1. SUFFICES ASSUME NEW k \in 1 .. N, NEW n \in 1 .. k, NEW f \in Findings,
                          scans'[n].fps[f] \in OpenLike, Signed(n)',
                          \A m \in n + 1 .. k : scans'[m].computed
                   PROVE  \/ scans'[k].fps[f] # "none"
                          \/ \E m \in n .. k : scans'[m].fps[f] = "closed"
      BY <1>1 DEF TrackedAt
    <2>2. CASE n = N
      <3>1. k = N
        BY <1>1, <2>2
      <3>2. QED
        BY <2>1, <2>2, <3>1 DEF OpenLike
    <2>3. CASE n # N
      <3>1. n \in 1 .. N - 1 /\ \A m \in n .. k : m \in 1 .. N
        BY <1>1, <2>3
      <3>2. scans[n].fps[f] \in OpenLike /\ Signed(n)
        BY <2>1, <3>1 DEF Signed
      <3>3. \A m \in n + 1 .. k : m \in n .. k
        BY <1>1
      <3>4. \A m \in n + 1 .. k : scans[m].computed
        BY <1>a, <2>1, <3>1, <3>3
      <3>5. TrackedAt(k)
        BY DEF ClosureInv
      <3>6. \/ scans[k].fps[f] # "none"
            \/ \E m \in n .. k : scans[m].fps[f] = "closed"
        BY <3>2, <3>4, <3>5 DEF TrackedAt
      <3>7. QED
        BY <1>b, <3>1, <3>6
    <2>4. QED
      BY <2>2, <2>3
  <1>8. QED
    BY <1>1, <1>4, <1>5, <1>6, <1>7

LEMMA SnapshotStep ==
    ASSUME ClosureInv, persist_remediation_snapshot
    PROVE  ClosureInv'
  <1>e. run.at = "persisted" /\ run' = [run EXCEPT !.at = "snapshot"]
    BY DEF persist_remediation_snapshot
  <1>1. /\ run \in ScanProcess /\ N > 0 /\ N \in 1 .. N /\ scans \in Seq(ScanRecord)
        /\ run.at = "persisted" /\ run' = [run EXCEPT !.at = "snapshot"]
    BY <1>e DEF ClosureInv, ClosureTypeOK, Idle, N
  <1>2. PICK counted \in SUBSET Slugs :
          scans' = [scans EXCEPT ![N].snapshot = TRUE,
                                 ![N].fps = [f \in Findings |-> Recorded(f)],
                                 ![N].items = [s \in Slugs |-> Upserted(s, counted)]]
    BY DEF persist_remediation_snapshot
  <1>3. scans[N] \in ScanRecord
    BY <1>1, ElementOfSeq DEF N
  <1>a. PICK fps, items : /\ fps = [f \in Findings |-> Recorded(f)]
                          /\ items = [s \in Slugs |-> Upserted(s, counted)]
    OBVIOUS
  <1>b. \A f \in Findings :
           fps[f] = IF f \in run.found /\ scans[N].fps[f] = "none" THEN "open" ELSE scans[N].fps[f]
    BY <1>a DEF Recorded
  <1>c. \A s \in Slugs : /\ scans[N].items[s] # "none" => items[s] = scans[N].items[s]
                         /\ scans[N].items[s] = "none" => items[s] # "closed"
                         /\ (\E f \in run.found : f.slug = s) => items[s] # "none"
    BY <1>a DEF Upserted
  <1>4. fps \in [Findings -> FpStates]
    <2>1. \A f \in Findings : Recorded(f) \in FpStates
      BY <1>3 DEF ScanRecord, FpStates, Recorded
    <2>2. QED
      BY <1>a, <2>1
  <1>d. items \in [Slugs -> {"none", "open", "not_observed", "closed"}]
    <2>1. \A s \in Slugs : Upserted(s, counted) \in {"none", "open", "not_observed", "closed"}
      BY <1>3 DEF ScanRecord, Upserted
    <2>2. QED
      BY <1>a, <2>1
  <1>5. PICK new : new = [scans[N] EXCEPT !.snapshot = TRUE, !.fps = fps, !.items = items]
    OBVIOUS
  <1>6. /\ new \in ScanRecord /\ new.fps = fps /\ new.items = items /\ new.rows = scans[N].rows
        /\ new.computed = scans[N].computed /\ new.scope = scans[N].scope
    BY <1>3, <1>4, <1>5, <1>d DEF ScanRecord
  <1>7. scans' = [scans EXCEPT ![N] = new]
    BY <1>1, <1>2, <1>5, <1>a
  <1>8. /\ scans' \in Seq(ScanRecord) /\ Len(scans') = N /\ scans'[N] = new
        /\ \A n \in 1 .. N - 1 : scans'[n] = scans[n]
    BY <1>1, <1>6, <1>7 DEF N
  <1>9. Signed(N) => Signed(N)'
    BY <1>6, <1>8 DEF Signed, N
  <1>10. \A f \in Findings :
              \/ scans'[N].fps[f] = scans[N].fps[f]
              \/ /\ scans[N].fps[f] = "none" /\ scans'[N].fps[f] = "open"
                 /\ OwnRow(scans[N].rows, f) /\ scans'[N].items[f.slug] # "none"
                 /\ ~ scans[N].computed
    <2>1. SUFFICES ASSUME NEW f \in Findings, fps[f] # scans[N].fps[f]
                   PROVE  /\ scans[N].fps[f] = "none" /\ fps[f] = "open"
                          /\ OwnRow(scans[N].rows, f) /\ items[f.slug] # "none"
                          /\ ~ scans[N].computed
      BY <1>6, <1>8
    <2>2. f \in run.found /\ scans[N].fps[f] = "none" /\ fps[f] = "open"
      BY <1>b, <2>1
    <2>3. f.slug \in Slugs
      BY DEF Slugs
    <2>4. OwnRow(scans[N].rows, f) /\ ~ scans[N].computed
      BY <1>1, <2>2 DEF ClosureInv, ProcessInv
    <2>5. QED
      BY <1>c, <2>2, <2>3, <2>4
  <1>11. \A s \in Slugs :
              \/ scans'[N].items[s] = scans[N].items[s]
              \/ scans[N].items[s] = "none" /\ scans'[N].items[s] # "closed"
    BY <1>6, <1>8, <1>c
  <1>12. /\ N' = N /\ HistoryInv' /\ NewestInv' /\ ItemClosedMeansAll'
         /\ (\A k \in 1 .. N : TrackedAt(k))'
    BY <1>1, <1>6, <1>8, <1>9, <1>10, <1>11, NewestWrite
  <1>13. /\ run' \in ScanProcess /\ run'.at = "snapshot" /\ run'.failed = run.failed
         /\ run'.found = run.found /\ run'.there = run.there /\ run'.health = run.health
    BY <1>1 DEF ScanProcess
  <1>14. ClosureTypeOK'
    BY <1>1, <1>8, <1>12, <1>13 DEF ClosureTypeOK
  <1>15. ProcessInv'
    <2>1. /\ \A f \in run'.found : OwnRow(scans'[N'].rows, f)
          /\ \A f \in run'.there : f.fam = "http" =>
                \A r \in scans'[N'].rows : r.hp = f.hp /\ r.proto \in {"SSH", "TLS"} => ~ LiveRow(r)
      BY <1>1, <1>6, <1>8, <1>12, <1>13 DEF ClosureInv, ProcessInv
    <2>2. \/ \A f \in Findings : (f \in run'.found) \in Shows(f, scans'[N'].rows, f \in run'.there)
          \/ \A fam \in Families : ~ probe_family_rechecked(run'.health, fam)
      BY <1>1, <1>6, <1>8, <1>12, <1>13 DEF ClosureInv, ProcessInv
    <2>3. \A f \in run'.found : scans'[N'].fps[f] # "none"
      <3>1. run.found \subseteq Findings
        BY <1>1 DEF ScanProcess
      <3>2. QED
        BY <1>6, <1>8, <1>12, <1>13, <1>b, <3>1
    <2>4. QED
      BY <2>1, <2>2, <2>3 DEF ProcessInv
  <1>16. SignatureInv' /\ NoFalseClosureWhenSigned'
    <2>1. \A f \in Findings : scans'[N'].fps[f] = "closed" => scans[N].fps[f] = "closed"
      BY <1>10, <1>12
    <2>2. UNCHANGED signature
      BY DEF persist_remediation_snapshot
    <2>3. NoFalseClosureWhenSigned'
      BY <1>1, <1>13, <2>1, <2>2 DEF ClosureInv, NoFalseClosureWhenSigned, NoFalseClosure, Running
    <2>4. QED
      BY <1>13, <2>2, <2>3, SignatureStays
  <1>17. QED
    BY <1>12, <1>14, <1>15, <1>16 DEF ClosureInv

LEMMA SignatureStep ==
    ASSUME ClosureInv, persist_scope_signature
    PROVE  ClosureInv'
  <1>1. /\ run \in ScanProcess /\ N > 0 /\ N \in 1 .. N /\ scans \in Seq(ScanRecord)
        /\ run.at = "snapshot" /\ run' = [run EXCEPT !.at = "signed"]
    BY DEF persist_scope_signature, ClosureInv, ClosureTypeOK, Idle, N
  <1>2. PICK scope \in Scopes : scans' = [scans EXCEPT ![N].scope = scope]
    BY DEF persist_scope_signature
  <1>3. scans[N] \in ScanRecord
    BY <1>1, ElementOfSeq DEF N
  <1>4. PICK new : new = [scans[N] EXCEPT !.scope = scope]
    OBVIOUS
  <1>5. /\ new \in ScanRecord /\ new.fps = scans[N].fps /\ new.items = scans[N].items
        /\ new.rows = scans[N].rows /\ new.computed = scans[N].computed /\ new.scope = scope
    BY <1>3, <1>4 DEF ScanRecord
  <1>6. scans' = [scans EXCEPT ![N] = new]
    BY <1>1, <1>2, <1>4
  <1>7. /\ scans' \in Seq(ScanRecord) /\ Len(scans') = N /\ scans'[N] = new
        /\ \A n \in 1 .. N - 1 : scans'[n] = scans[n]
    BY <1>1, <1>5, <1>6 DEF N
  <1>8. Signed(N)'
    BY <1>5, <1>7, DeskAssumption DEF Signed, N
  <1>9. /\ N' = N /\ HistoryInv' /\ NewestInv' /\ ItemClosedMeansAll'
        /\ (\A k \in 1 .. N : TrackedAt(k))'
    BY <1>1, <1>5, <1>7, <1>8, NewestWrite
  <1>10. /\ run' \in ScanProcess /\ run'.at = "signed" /\ run'.failed = run.failed
         /\ run'.found = run.found /\ run'.there = run.there /\ run'.health = run.health
    BY <1>1 DEF ScanProcess
  <1>11. ClosureTypeOK'
    BY <1>1, <1>7, <1>9, <1>10 DEF ClosureTypeOK
  <1>12. ProcessInv'
    <2>1. /\ \A f \in run'.found : OwnRow(scans'[N'].rows, f)
          /\ \A f \in run'.there : f.fam = "http" =>
                \A r \in scans'[N'].rows : r.hp = f.hp /\ r.proto \in {"SSH", "TLS"} => ~ LiveRow(r)
          /\ scans'[N'].computed => \A f \in run'.found : scans'[N'].fps[f] # "none"
      BY <1>1, <1>5, <1>7, <1>9, <1>10 DEF ClosureInv, ProcessInv
    <2>2. \/ \A f \in Findings : (f \in run'.found) \in Shows(f, scans'[N'].rows, f \in run'.there)
          \/ \A fam \in Families : ~ probe_family_rechecked(run'.health, fam)
      BY <1>1, <1>5, <1>7, <1>9, <1>10 DEF ClosureInv, ProcessInv
    <2>3. ~ run'.failed => \A f \in run'.found : scans'[N'].fps[f] # "none"
      BY <1>1, <1>5, <1>7, <1>9, <1>10 DEF ClosureInv, ProcessInv
    <2>4. QED
      BY <2>1, <2>2, <2>3 DEF ProcessInv
  <1>13. SignatureInv' /\ NoFalseClosureWhenSigned'
    <2>1. signature \in SignatureRecord /\ signature' = [signature EXCEPT !.health = run.health]
      BY DEF persist_scope_signature, ClosureInv, SignatureInv
    <2>2. run.health \in [Families -> {"not_run", "healthy", "no_targets", "unhealthy"}]
      BY <1>1 DEF ScanProcess
    <2>3. /\ signature' \in SignatureRecord
          /\ signature'.health = run.health /\ signature'.stale = signature.stale
      BY <2>1, <2>2 DEF SignatureRecord
    <2>4. NoFalseClosureWhenSigned'
      BY <1>1, <1>5, <1>7, <1>9, <1>10, <2>3
         DEF ClosureInv, NoFalseClosureWhenSigned, NoFalseClosure, Running
    <2>5. QED
      BY <1>10, <2>3, <2>4 DEF SignatureInv
  <1>14. QED
    BY <1>9, <1>11, <1>12, <1>13 DEF ClosureInv

(* Only a finding that was seen again resurfaces: a carried one was uncounted
   on the prior scan, and no signed scan closed it since. *)
LEMMA OnlySeenResurfaces ==
    ASSUME ClosureInv, N > 0, NEW f \in Resurfaces
    PROVE  scans[N].fps[f] = "open"
  <1>1. SUFFICES ASSUME scans[N].fps[f] = "not_observed" PROVE FALSE
    BY DEF Resurfaces
  <1>2. PICK l : l = LastRow(f, {"open", "resurfaced", "not_observed", "closed"})
    OBVIOUS
  <1>3. f \in Findings /\ l # 0 /\ scans[l].fps[f] = "closed"
    BY <1>2 DEF Resurfaces
  <1>4. PICK p : p = select_prior_scan_run_id
    OBVIOUS
  <1>5. p # 0 /\ scans[p].fps[f] \in Uncounted
    BY <1>1, <1>3, <1>4 DEF ClosureInv, NewestInv
  <1>6. /\ p \in 1 .. N - 1
        /\ \A m \in 1 .. N - 1 : Signed(m) => m <= p
    BY <1>4, <1>5, PriorFacts DEF ClosureInv
  <1>7. l \in 1 .. N - 1 /\ p <= l
    BY <1>2, <1>3, <1>5, <1>6, LastRowFacts DEF ClosureInv, Uncounted
  <1>8. N \in Nat
    BY DEF ClosureInv, ClosureTypeOK, N
  <1>9. l \in 1 .. N
    BY <1>7, <1>8
  <1>10. PICK q \in l .. N : Signed(q) /\ scans[q].fps[f] = "closed"
    BY <1>3, <1>9 DEF ClosureInv, HistoryInv
  <1>11. q # N
    BY <1>1, <1>10
  <1>12. q \in 1 .. N - 1
    BY <1>7, <1>8, <1>10, <1>11
  <1>13. q = p
    BY <1>6, <1>7, <1>8, <1>10, <1>12
  <1>14. QED
    BY <1>5, <1>10, <1>13 DEF Uncounted

(* What the computation does to the tables, p being the prior scan: rows of
   earlier scans only become closed, and are then closed on the newest too. *)
Compared(p) ==
    /\ p \in 1 .. N - 1 /\ Signed(p) /\ Signed(N) /\ \A m \in 1 .. N - 1 : Signed(m) => m <= p
    /\ N' = N /\ scans' \in Seq(ScanRecord)
    /\ \A n \in 1 .. N : /\ scans'[n].rows = scans[n].rows
                         /\ scans'[n].scope = scans[n].scope
                         /\ scans'[n].computed = (scans[n].computed \/ n = N)
    /\ \A n \in 1 .. N - 1, f \in Findings :
          \/ scans'[n].fps[f] = scans[n].fps[f]
          \/ scans'[n].fps[f] = "closed" /\ f \in Closes(p)
    /\ \A f \in Closes(p) : /\ scans[p].fps[f] \in Uncounted /\ scans[N].fps[f] = "none"
                            /\ scans'[p].fps[f] = "closed" /\ scans'[N].fps[f] = "closed"
    /\ \A f \in Findings \ Closes(p) :
          /\ scans[N].fps[f] = "none" /\ scans[p].fps[f] \in Uncounted =>
                scans'[N].fps[f] = "not_observed"
          /\ scans[N].fps[f] = "none" /\ scans[p].fps[f] \notin Uncounted =>
                scans'[N].fps[f] = "none"
          /\ scans[N].fps[f] = "open" => scans'[N].fps[f] \in OpenLike
          /\ scans[N].fps[f] \notin {"none", "open"} => scans'[N].fps[f] = scans[N].fps[f]
    /\ \A n \in 1 .. N, s \in Slugs :
          \/ scans'[n].items[s] = scans[n].items[s]
          \/ scans'[n].items[s] = "closed" /\ AllClosed(scans'[n].fps, s)
          \/ /\ n = N /\ scans'[n].items[s] = "closed" /\ scans[n].items[s] = "none"
             /\ AllClosed(scans'[p].fps, s)

LEMMA ComputeFacts ==
    ASSUME ClosureInv, ClosureRuns, NEW p, p = select_prior_scan_run_id
    PROVE  Compared(p)
  <1>1. /\ compute_closure /\ p # 0 /\ Signed(N)
        /\ run.at = "signed"
    BY DEF ClosureRuns, scans_are_comparable, Signed
  <1>2. scans \in Seq(ScanRecord) /\ N > 0 /\ N \in Nat
    BY <1>1 DEF ClosureInv, ClosureTypeOK, Idle, N
  <1>3. p \in 1 .. N - 1 /\ Signed(p) /\ \A m \in 1 .. N - 1 : Signed(m) => m <= p
    BY <1>1, <1>2, PriorFacts DEF ClosureInv
  <1>4. PICK items :
          /\ scans' = [n \in 1 .. N |-> [scans[n] EXCEPT !.fps = Decided(p, n), !.items = items[n],
                                                       !.computed = scans[n].computed \/ n = N]]
          /\ items = [n \in 1 .. N |->
                        [s \in Slugs |-> IF n \in Rolled(p, s) \/ (n = N /\ Written(p, s)) THEN "closed"
                                         ELSE scans[n].items[s]]]
    <2> DEFINE it(n) == [s \in Slugs |-> IF n \in Rolled(p, s) \/ (n = N /\ Written(p, s)) THEN "closed"
                                         ELSE scans[n].items[s]]
    <2>1. scans' = [n \in 1 .. N |-> [scans[n] EXCEPT !.fps = Decided(p, n), !.items = it(n),
                                                      !.computed = scans[n].computed \/ n = N]]
      BY <1>1 DEF compute_closure
    <2> HIDE DEF it
    <2>2. PICK items : items = [n \in 1 .. N |-> it(n)]
      OBVIOUS
    <2>3. \A n \in 1 .. N : items[n] = it(n)
      BY <2>2
    <2>4. scans' = [n \in 1 .. N |-> [scans[n] EXCEPT !.fps = Decided(p, n), !.items = items[n],
                                                      !.computed = scans[n].computed \/ n = N]]
      BY <2>1, <2>3
    <2>5. QED
      BY <2>2, <2>4 DEF it
  <1>5. ASSUME NEW n \in 1 .. N
        PROVE  /\ Decided(p, n) \in [Findings -> FpStates]
               /\ items[n] \in [Slugs -> {"none", "open", "not_observed", "closed"}]
    <2>1. scans[n] \in ScanRecord
      BY <1>2, ElementOfSeq DEF N
    <2>2. \A f \in Findings : scans[n].fps[f] \in FpStates
      BY <2>1 DEF ScanRecord
    <2>3. \A s \in Slugs : scans[n].items[s] \in {"none", "open", "not_observed", "closed"}
      BY <2>1 DEF ScanRecord
    <2>4. Decided(p, n) \in [Findings -> FpStates]
      BY <2>2 DEF Decided, FpStates
    <2>5. QED
      BY <1>4, <2>3, <2>4
  <1>6. ASSUME NEW n \in 1 .. N
        PROVE  /\ scans'[n] \in ScanRecord
               /\ scans'[n].rows = scans[n].rows /\ scans'[n].scope = scans[n].scope
               /\ scans'[n].computed = (scans[n].computed \/ n = N)
               /\ scans'[n].fps = Decided(p, n) /\ scans'[n].items = items[n]
    <2>1. scans[n] \in ScanRecord
      BY <1>2, ElementOfSeq DEF N
    <2>2. PICK c \in BOOLEAN : c = (scans[n].computed \/ n = N)
      OBVIOUS
    <2>3. PICK d, i : d = Decided(p, n) /\ i = items[n]
      OBVIOUS
    <2>4. scans'[n] = [scans[n] EXCEPT !.fps = d, !.items = i, !.computed = c]
      BY <1>4, <2>2, <2>3
    <2>5. d \in [Findings -> FpStates] /\ i \in [Slugs -> {"none", "open", "not_observed", "closed"}]
      BY <1>5, <2>3
    <2>6. /\ scans'[n] \in ScanRecord
          /\ scans'[n].rows = scans[n].rows /\ scans'[n].scope = scans[n].scope
          /\ scans'[n].computed = c /\ scans'[n].fps = d /\ scans'[n].items = i
      BY <2>1, <2>4, <2>5 DEF ScanRecord
    <2>7. QED
      BY <2>2, <2>3, <2>6
  <1>7. scans' \in Seq(ScanRecord) /\ N' = N
    <2>1. scans' = [n \in 1 .. N |-> scans'[n]]
      BY <1>4
    <2>2. scans' \in [1 .. N -> ScanRecord]
      BY <1>6, <2>1
    <2>3. QED
      BY <1>2, <2>2 DEF N
  <1>8. \A n \in 1 .. N - 1, f \in Findings :
          \/ scans'[n].fps[f] = scans[n].fps[f]
          \/ scans'[n].fps[f] = "closed" /\ f \in Closes(p)
    <2>1. SUFFICES ASSUME NEW n \in 1 .. N - 1, NEW f \in Findings
                   PROVE  \/ scans'[n].fps[f] = scans[n].fps[f]
                          \/ scans'[n].fps[f] = "closed" /\ f \in Closes(p)
      OBVIOUS
    <2>2. n \in 1 .. N /\ n < N /\ n # N
      BY <1>2
    <2>3. scans'[n].fps[f] = IF f \in Flipped(p, n) THEN "closed" ELSE scans[n].fps[f]
      <3>1. scans'[n].fps = Decided(p, n)
        BY <1>6, <2>2
      <3>2. Decided(p, n)[f] = IF f \in Flipped(p, n) THEN "closed" ELSE scans[n].fps[f]
        BY <2>2 DEF Decided
      <3>3. QED
        BY <3>1, <3>2
    <2>4. QED
      BY <2>3 DEF Flipped
  <1>9. N \in 1 .. N /\ ~(N < N)
    BY <1>2
  <1>10. \A f \in Findings :
           scans'[N].fps[f] = IF f \in Closes(p) THEN "closed"
                              ELSE IF f \in _carry_forward(p) THEN "not_observed"
                              ELSE IF f \in Resurfaces THEN "resurfaced"
                              ELSE scans[N].fps[f]
    <2>1. scans'[N].fps = Decided(p, N)
      BY <1>6, <1>9
    <2>2. \A f \in Findings :
            Decided(p, N)[f] = IF f \in Closes(p) THEN "closed"
                               ELSE IF f \in _carry_forward(p) THEN "not_observed"
                               ELSE IF f \in Resurfaces THEN "resurfaced"
                               ELSE scans[N].fps[f]
      BY <1>9 DEF Decided
    <2>3. QED
      BY <2>1, <2>2
  <1>11. ASSUME NEW f \in Closes(p)
         PROVE  /\ scans[p].fps[f] \in Uncounted /\ scans[N].fps[f] = "none"
                /\ scans'[p].fps[f] = "closed" /\ scans'[N].fps[f] = "closed"
    <2>1. /\ f \in Findings /\ scans[p].fps[f] \in Uncounted /\ scans[N].fps[f] = "none"
          /\ f \in Flipped(p, p)
      BY DEF Closes, Uncounted, Flipped
    <2>2. p \in 1 .. N /\ p < N /\ p # N
      BY <1>2, <1>3
    <2>3. scans'[p].fps[f] = "closed"
      BY <1>6, <2>1, <2>2 DEF Decided
    <2>4. QED
      BY <1>10, <2>1, <2>3
  <1>12. ASSUME NEW f \in Findings \ Closes(p)
         PROVE  /\ scans[N].fps[f] = "none" /\ scans[p].fps[f] \in Uncounted =>
                      scans'[N].fps[f] = "not_observed"
                /\ scans[N].fps[f] = "none" /\ scans[p].fps[f] \notin Uncounted =>
                      scans'[N].fps[f] = "none"
                /\ scans[N].fps[f] = "open" => scans'[N].fps[f] \in OpenLike
                /\ scans[N].fps[f] \notin {"none", "open"} => scans'[N].fps[f] = scans[N].fps[f]
    <2>1. f \in _carry_forward(p) <=> scans[N].fps[f] = "none" /\ scans[p].fps[f] \in Uncounted
      BY DEF _carry_forward, Uncounted
    <2>2. f \in Resurfaces => scans[N].fps[f] = "open"
      BY <1>2, OnlySeenResurfaces
    <2>3. QED
      BY <1>10, <2>1, <2>2 DEF OpenLike
  <1>13. ASSUME NEW n \in 1 .. N, NEW s \in Slugs
         PROVE  \/ scans'[n].items[s] = scans[n].items[s]
                \/ scans'[n].items[s] = "closed" /\ AllClosed(scans'[n].fps, s)
                \/ /\ n = N /\ scans'[n].items[s] = "closed" /\ scans[n].items[s] = "none"
                   /\ AllClosed(scans'[p].fps, s)
    <2>1. scans'[n].items[s] = IF n \in Rolled(p, s) \/ (n = N /\ Written(p, s)) THEN "closed"
                               ELSE scans[n].items[s]
      <3>1. items[n] = [t \in Slugs |-> IF n \in Rolled(p, t) \/ (n = N /\ Written(p, t)) THEN "closed"
                                        ELSE scans[n].items[t]]
        BY <1>4
      <3>2. QED
        BY <1>6, <3>1
    <2>2. n \in Rolled(p, s) => AllClosed(scans'[n].fps, s)
      BY <1>6 DEF Rolled
    <2>3. p \in 1 .. N
      BY <1>2, <1>3
    <2>4. Written(p, s) => scans[N].items[s] = "none" /\ AllClosed(scans'[p].fps, s)
      BY <1>6, <2>3 DEF Written
    <2>5. QED
      BY <2>1, <2>2, <2>4
  <1>14. QED
    BY <1>1, <1>3, <1>6, <1>7, <1>8, <1>11, <1>12, <1>13 DEF Compared

(* Rows and items of scans that were written stay, and what is closed stays. *)
LEMMA ComparedKeeps ==
    ASSUME ClosureInv, NEW p, Compared(p), NEW n \in 1 .. N, NEW f \in Findings
    PROVE  /\ scans[n].fps[f] = "closed" => scans'[n].fps[f] = "closed"
           /\ scans[n].fps[f] # "none" => scans'[n].fps[f] # "none"
           /\ scans'[n].fps[f] \in OpenLike => scans[n].fps[f] \in OpenLike
           /\ n # N /\ scans'[n].fps[f] \in OpenLike => scans'[n].fps[f] = scans[n].fps[f]
  <1>1. N \in Nat /\ N > 0
    BY DEF ClosureInv, ClosureTypeOK, N
  <1>2. CASE n \in 1 .. N - 1
    <2>1. \/ scans'[n].fps[f] = scans[n].fps[f]
          \/ scans'[n].fps[f] = "closed"
      BY <1>2 DEF Compared
    <2>2. QED
      BY <1>2, <2>1 DEF OpenLike
  <1>3. CASE n = N /\ f \in Closes(p)
    BY <1>3 DEF Compared, OpenLike
  <1>4. CASE n = N /\ f \notin Closes(p)
    BY <1>4 DEF Compared, OpenLike
  <1>5. QED
    BY <1>1, <1>2, <1>3, <1>4

LEMMA ComparedHistory ==
    ASSUME ClosureInv, NEW p, Compared(p)
    PROVE  HistoryInv'
  <1>1. N' = N /\ N \in Nat /\ N > 0 /\ N \in 1 .. N /\ Signed(N)
    BY DEF Compared, ClosureInv, ClosureTypeOK, N
  <1>2. \A n \in 1 .. N : Signed(n) => Signed(n)'
    BY DEF Compared, Signed
  <1>3. SUFFICES ASSUME NEW n \in 1 .. N
                 PROVE  /\ scans'[n].computed => Signed(n)'
                        /\ \A f \in Findings :
                            /\ scans'[n].fps[f] \in OpenLike =>
                                  OwnRow(scans'[n].rows, f) /\ scans'[n].items[f.slug] # "none"
                            /\ scans'[n].fps[f] = "closed" =>
                                  \E q \in n .. N : Signed(q)' /\ scans'[q].fps[f] = "closed"
    BY <1>1 DEF HistoryInv
  <1>4. scans'[n].computed => Signed(n)'
    <2>1. scans'[n].computed => scans[n].computed \/ n = N
      BY DEF Compared
    <2>2. scans[n].computed => Signed(n)
      BY DEF ClosureInv, HistoryInv
    <2>3. QED
      BY <1>1, <1>2, <2>1, <2>2
  <1>5. ASSUME NEW f \in Findings, scans'[n].fps[f] \in OpenLike
        PROVE  OwnRow(scans'[n].rows, f) /\ scans'[n].items[f.slug] # "none"
    <2>1. scans[n].fps[f] \in OpenLike
      BY <1>5, ComparedKeeps
    <2>2. OwnRow(scans[n].rows, f) /\ scans[n].items[f.slug] # "none"
      BY <2>1 DEF ClosureInv, HistoryInv
    <2>3. f.slug \in Slugs
      BY DEF Slugs
    <2>4. scans'[n].items[f.slug] \in {scans[n].items[f.slug], "closed"}
      BY <2>3 DEF Compared
    <2>5. scans'[n].rows = scans[n].rows
      BY DEF Compared
    <2>6. QED
      BY <2>2, <2>4, <2>5
  <1>6. ASSUME NEW f \in Findings, scans'[n].fps[f] = "closed"
        PROVE  \E q \in n .. N : Signed(q)' /\ scans'[q].fps[f] = "closed"
    <2>1. CASE scans'[N].fps[f] = "closed"
      BY <1>1, <1>2, <2>1
    <2>2. CASE scans'[N].fps[f] # "closed"
      <3>1. n \in 1 .. N - 1 /\ f \notin Closes(p)
        BY <1>1, <1>6, <2>2 DEF Compared
      <3>2. scans[n].fps[f] = "closed"
        BY <1>6, <3>1 DEF Compared
      <3>3. PICK q \in n .. N : Signed(q) /\ scans[q].fps[f] = "closed"
        BY <3>2 DEF ClosureInv, HistoryInv
      <3>4. q \in 1 .. N
        BY <1>1
      <3>5. scans'[q].fps[f] = "closed"
        BY <3>3, <3>4, ComparedKeeps
      <3>6. QED
        BY <1>2, <3>3, <3>4, <3>5
    <2>3. QED
      BY <2>1, <2>2
  <1>7. QED
    BY <1>4, <1>5, <1>6

LEMMA ComparedNewest ==
    ASSUME ClosureInv, NEW p, p = select_prior_scan_run_id, Compared(p)
    PROVE  NewestInv' /\ ItemClosedMeansAll'
  <1>1. /\ N' = N /\ N \in Nat /\ N > 0 /\ N \in 1 .. N /\ p \in 1 .. N - 1 /\ p # 0
        /\ p \in 1 .. N
    BY DEF Compared, ClosureInv, ClosureTypeOK, N
  <1>2. select_prior_scan_run_id' = p
    <2>1. \A n \in 1 .. N - 1 : n \in 1 .. N
      BY <1>1
    <2>2. QED
      BY <1>1, <2>1, SamePrior DEF Compared
  <1>3. scans'[N].computed
    BY <1>1 DEF Compared
  <1>4. ASSUME NEW f \in Findings, scans'[N].fps[f] = "not_observed"
        PROVE  scans'[p].fps[f] \in Uncounted
    <2>1. f \notin Closes(p)
      BY <1>4 DEF Compared
    <2>2. scans[N].fps[f] \in {"none", "not_observed"}
      BY <1>4, <2>1 DEF Compared, OpenLike
    <2>3. scans[p].fps[f] \in Uncounted
      <3>1. CASE scans[N].fps[f] = "none"
        BY <1>4, <2>1, <3>1 DEF Compared
      <3>2. CASE scans[N].fps[f] = "not_observed"
        BY <3>2, <1>1 DEF ClosureInv, NewestInv
      <3>3. QED
        BY <2>2, <3>1, <3>2
    <2>4. scans'[p].fps[f] = scans[p].fps[f]
      BY <1>1, <2>1 DEF Compared
    <2>5. QED
      BY <2>3, <2>4
  <1>5. ASSUME NEW f \in Findings, scans'[p].fps[f] \in Uncounted
        PROVE  scans'[N].fps[f] # "none"
    <2>1. f \notin Closes(p)
      BY <1>5 DEF Compared, Uncounted
    <2>2. scans[p].fps[f] \in Uncounted
      BY <1>1, <1>5, <2>1 DEF Compared
    <2>3. QED
      BY <1>1, <2>1, <2>2, ComparedKeeps DEF Compared
  <1>6. NewestInv'
    BY <1>1, <1>2, <1>3, <1>4, <1>5 DEF NewestInv
  <1>7. ASSUME NEW n \in 1 .. N, NEW s \in Slugs, scans'[n].items[s] = "closed",
               NEW f \in Findings, f.slug = s
        PROVE  scans'[n].fps[f] \in {"none", "closed"}
    <2>1. CASE AllClosed(scans'[n].fps, s)
      BY <1>7, <2>1 DEF AllClosed
    <2>2. CASE scans[n].items[s] = "closed"
      <3>1. scans[n].fps[f] \in {"none", "closed"}
        BY <1>7, <2>2 DEF ClosureInv, ItemClosedMeansAll
      <3>2. CASE n \in 1 .. N - 1
        BY <3>1, <3>2 DEF Compared
      <3>3. CASE n = N
        <4>1. scans[N].computed
          BY <2>2, <3>3, <1>1 DEF ClosureInv, NewestInv
        <4>2. scans[p].fps[f] \in Uncounted => scans[N].fps[f] # "none"
          BY <4>1, <1>1 DEF ClosureInv, NewestInv
        <4>3. CASE f \in Closes(p)
          BY <3>3, <4>3 DEF Compared
        <4>4. CASE f \notin Closes(p)
          BY <3>1, <3>3, <4>2, <4>4 DEF Compared
        <4>5. QED
          BY <4>3, <4>4
      <3>4. QED
        BY <1>1, <3>2, <3>3
    <2>3. CASE n = N /\ scans[n].items[s] = "none" /\ AllClosed(scans'[p].fps, s)
      <3>1. scans'[p].fps[f] \in {"none", "closed"}
        BY <1>7, <2>3 DEF AllClosed
      <3>2. scans'[N].fps[f] # "not_observed"
        BY <1>4, <3>1 DEF Uncounted
      <3>3. scans'[N].fps[f] \notin OpenLike
        <4>1. scans[N].fps[f] \notin OpenLike
          BY <1>1, <1>7, <2>3 DEF ClosureInv, HistoryInv
        <4>2. QED
          BY <1>1, <4>1, ComparedKeeps
      <3>4. scans'[N].fps[f] \in FpStates
        <4>1. scans'[N] \in ScanRecord
          <5>1. scans' \in Seq(ScanRecord) /\ N \in 1 .. Len(scans')
            BY <1>1 DEF Compared, N
          <5>2. QED
            BY <5>1, ElementOfSeq
        <4>2. QED
          BY <4>1 DEF ScanRecord
      <3>5. QED
        BY <2>3, <3>2, <3>3, <3>4 DEF FpStates, OpenLike
    <2>4. QED
      BY <1>7, <2>1, <2>2, <2>3 DEF Compared
  <1>8. QED
    BY <1>1, <1>6, <1>7 DEF ItemClosedMeansAll

(* A finding tracked up to the scan before has a row there; that scan is signed
   and so the prior one, and the computation closes or carries the row. *)
LEMMA ComparedTracks ==
    ASSUME ClosureInv, NEW p, Compared(p)
    PROVE  (\A k \in 1 .. N : TrackedAt(k))'
  <1>1. N' = N /\ N \in Nat /\ N > 0
    BY DEF Compared, ClosureInv, ClosureTypeOK, N
  <1>2. SUFFICES ASSUME NEW k \in 1 .. N, NEW n \in 1 .. k, NEW f \in Findings,
                        scans'[n].fps[f] \in OpenLike, Signed(n)',
                        \A m \in n + 1 .. k : scans'[m].computed
                 PROVE  \/ scans'[k].fps[f] # "none"
                        \/ \E m \in n .. k : scans'[m].fps[f] = "closed"
    BY <1>1 DEF TrackedAt
  <1>3. n \in 1 .. N /\ \A m \in n .. k : m \in 1 .. N
    BY <1>1
  <1>4. scans[n].fps[f] \in OpenLike /\ Signed(n)
    <2>1. scans'[n].scope = scans[n].scope
      BY <1>3 DEF Compared
    <2>2. QED
      BY <1>2, <1>3, <2>1, ComparedKeeps DEF Signed
  <1>5. \A m \in n + 1 .. k : m \in n .. k /\ (m # N => scans[m].computed)
    <2>1. \A m \in n + 1 .. k : m \in n .. k
      BY <1>1
    <2>2. QED
      BY <1>2, <1>3, <2>1 DEF Compared
  <1>6. \A m \in 1 .. N : scans[m].fps[f] = "closed" => scans'[m].fps[f] = "closed"
    BY ComparedKeeps
  <1>7. CASE k # N
    <2>1. \A m \in n + 1 .. k : scans[m].computed
      BY <1>1, <1>5, <1>7
    <2>2. TrackedAt(k)
      BY DEF ClosureInv
    <2>3. \/ scans[k].fps[f] # "none"
          \/ \E m \in n .. k : scans[m].fps[f] = "closed"
      BY <1>4, <2>1, <2>2 DEF TrackedAt
    <2>4. QED
      BY <1>3, <1>6, <2>3, ComparedKeeps
  <1>8. CASE n = N
    <2>1. k = N
      BY <1>1, <1>8
    <2>2. QED
      BY <1>2, <1>8, <2>1 DEF OpenLike
  <1>9. CASE k = N /\ n # N
    <2>1. /\ N - 1 \in 1 .. N /\ n \in 1 .. N - 1 /\ N - 1 \in n .. k /\ N \in n .. k
          /\ N - 1 # N /\ \A m \in n .. N - 1 : m \in n .. k
      BY <1>1, <1>9
    <2>2. \A m \in n + 1 .. N - 1 : m \in n + 1 .. k /\ m # N
      BY <1>1, <1>9
    <2>3. TrackedAt(N - 1)
      BY <2>1 DEF ClosureInv
    <2>4. \/ scans[N - 1].fps[f] # "none"
          \/ \E m \in n .. N - 1 : scans[m].fps[f] = "closed"
      BY <1>4, <1>5, <2>1, <2>2, <2>3 DEF TrackedAt
    <2>5. CASE \E m \in n .. N - 1 : scans[m].fps[f] = "closed"
      BY <1>3, <1>6, <2>1, <2>5
    <2>6. CASE scans[N - 1].fps[f] # "none" /\ scans[N - 1].fps[f] # "closed"
      <3>1. Signed(N - 1)
        <4>1. CASE n = N - 1
          BY <1>4, <4>1
        <4>2. CASE n # N - 1
          <5>1. N - 1 \in n + 1 .. k
            BY <1>1, <1>9, <2>1, <4>2
          <5>2. scans[N - 1].computed
            BY <1>5, <2>1, <5>1
          <5>3. QED
            BY <2>1, <5>2 DEF ClosureInv, HistoryInv
        <4>3. QED
          BY <4>1, <4>2
      <3>2. p = N - 1
        <4>1. p \in 1 .. N - 1 /\ N - 1 <= p
          <5>1. N - 1 \in 1 .. N - 1
            BY <1>1, <2>1
          <5>2. QED
            BY <3>1, <5>1 DEF Compared
        <4>2. QED
          BY <1>1, <4>1
      <3>3. scans[p].fps[f] \in Uncounted
        <4>1. scans[N - 1] \in ScanRecord
          <5>1. scans \in Seq(ScanRecord) /\ N - 1 \in 1 .. Len(scans)
            BY <2>1 DEF ClosureInv, ClosureTypeOK, N
          <5>2. QED
            BY <5>1, ElementOfSeq
        <4>2. scans[N - 1].fps[f] \in FpStates
          BY <4>1 DEF ScanRecord
        <4>3. QED
          BY <2>6, <3>2, <4>2 DEF FpStates, Uncounted
      <3>4. CASE f \in Closes(p)
        BY <2>1, <3>4 DEF Compared
      <3>5. CASE f \notin Closes(p)
        <4>1. scans'[N].fps[f] # "none"
          <5>1. N \in 1 .. N
            BY <1>1
          <5>2. QED
            BY <3>3, <3>5, <5>1, ComparedKeeps DEF Compared
        <4>2. QED
          BY <1>9, <4>1
      <3>6. QED
        BY <3>4, <3>5
    <2>7. CASE scans[N - 1].fps[f] = "closed"
      BY <1>6, <2>1, <2>7
    <2>8. QED
      BY <2>4, <2>5, <2>6, <2>7
  <1>10. QED
    BY <1>7, <1>8, <1>9

(* A finding that closes is not there: a scan detected it with its own probe,
   which must have been repeated at the port with evidence, or, for plaintext
   HTTP, been superseded by TLS or SSH; and a probe with evidence misses nothing. *)
LEMMA ClosedIsGone ==
    ASSUME ClosureInv, run.at = "signed", ~ run.failed, ~ signature.stale, Signed(N),
           NEW p \in 1 .. N - 1, NEW f \in Closes(p)
    PROVE  f \notin run.there
  <1>1. SUFFICES ASSUME f \in run.there PROVE FALSE
    OBVIOUS
  <1>2. /\ f \in Findings /\ scans[p].fps[f] \in Uncounted
        /\ scans[N].fps[f] = "none" /\ Verified(f, p)
    BY DEF Closes, Uncounted
  <1>3. /\ N \in Nat /\ N > 0 /\ f.fam \in {"http", "tls"} /\ p # 0 /\ p \in 1 .. N
    BY <1>2, ClosureAssumption DEF ClosureInv, ClosureTypeOK, Idle, N
  <1>4. f \notin run.found
    BY <1>2 DEF ClosureInv, ProcessInv
  <1> DEFINE k == f.hp
             carried == scans[p].fps[f] = "not_observed"
             detected == IF carried THEN _detection_row(f) ELSE p
             before == Protocols(RowsAt(p, k)) \cup (IF carried THEN Protocols(RowsAt(detected, k)) ELSE {})
             assets == before \ NonAsset
             live == CurrentLive(k)
             check == IF assets # {} THEN assets ELSE Protocols(live)
  <1>5. /\ carried => assets # {} /\ detected # 0
        /\ \A pr \in check : Classified(pr)
        /\ _host_port_rechecked({Family[pr] : pr \in check}, _live_families_at(detected, k), live)
    BY <1>2 DEF Verified
  <1>6. detected \in 1 .. N /\ detected # 0 /\ scans[detected].fps[f] \in OpenLike
    <2>1. CASE carried
      <3>1. detected = LastRow(f, OpenLike) /\ detected # 0
        BY <1>5, <2>1 DEF _detection_row
      <3>2. detected \in 1 .. N - 1 /\ scans[detected].fps[f] \in OpenLike
        BY <1>2, <1>3, <3>1, LastRowFacts DEF ClosureInv
      <3>3. QED
        BY <1>3, <3>1, <3>2
    <2>2. CASE ~ carried
      BY <1>2, <1>3, <2>2 DEF Uncounted, OpenLike
    <2>3. QED
      BY <2>1, <2>2
  <1>7. OwnRow(scans[detected].rows, f)
    BY <1>2, <1>6 DEF ClosureInv, HistoryInv
  <1>8. PICK r \in scans[detected].rows : r.hp = f.hp /\ LiveRow(r) /\ Family[r.proto] = f.fam
    BY <1>7 DEF OwnRow
  <1>9. r.proto \in check
    <2>1. r \in RowsAt(detected, k)
      BY <1>6, <1>8 DEF RowsAt
    <2>2. r.proto \in before
      BY <2>1 DEF Protocols
    <2>3. r.proto \notin NonAsset
      BY <1>8 DEF LiveRow
    <2>4. QED
      BY <2>2, <2>3
  <1> HIDE DEF check, live, detected
  <1>h. signature.health = run.health
    BY DEF ClosureInv, SignatureInv
  <1>10. /\ probe_family_rechecked(run.health, f.fam)
         /\ LET own == {x \in live : Family[x.proto] = f.fam}
            IN  \/ \E x \in own : x.evid
                \/ /\ own = {} /\ f.fam = "http"
                   /\ \E x \in live : /\ x.proto \in {"SSH", "TLS"}
                                      /\ Family[x.proto] \notin _live_families_at(detected, k)
    <2>1. f.fam \in {Family[pr] : pr \in check}
      BY <1>8, <1>9
    <2>2. QED
      BY <1>5, <1>h, <2>1 DEF _host_port_rechecked
  <1>11. f.fam \in Families
    BY <1>3 DEF Families
  <1>12. (f \in run.found) \in Shows(f, scans[N].rows, f \in run.there)
    BY <1>2, <1>10, <1>11 DEF ClosureInv, ProcessInv
  <1>13. FALSE \in Shows(f, scans[N].rows, TRUE)
    <2>1. (f \in run.found) = FALSE /\ (f \in run.there) = TRUE
      BY <1>1, <1>4
    <2>2. QED
      BY <1>12, <2>1
  <1> DEFINE own == {x \in scans[N].rows : x.hp = f.hp /\ LiveRow(x) /\ Family[x.proto] = f.fam}
  <1>14. own = {} \/ (f.fam # "http" /\ \A x \in own : ~ x.evid)
    BY <1>13 DEF Shows
  <1>15. live \subseteq {x \in scans[N].rows : x.hp = f.hp /\ LiveRow(x)}
    BY <1>3 DEF live, CurrentLive, RowsAt
  <1>16. \A x \in live : Family[x.proto] = f.fam => ~ x.evid
    BY <1>14, <1>15
  <1>17. f.fam = "http" /\ \E x \in live : x.proto \in {"SSH", "TLS"}
    BY <1>10, <1>16
  <1>18. \A x \in scans[N].rows : x.hp = f.hp /\ x.proto \in {"SSH", "TLS"} => ~ LiveRow(x)
    BY <1>1, <1>17 DEF ClosureInv, ProcessInv
  <1>19. QED
    BY <1>15, <1>17, <1>18

LEMMA ClosureRunsStep ==
    ASSUME ClosureInv, ClosureRuns
    PROVE  ClosureInv'
  <1>1. PICK p : p = select_prior_scan_run_id
    OBVIOUS
  <1>2. Compared(p)
    BY <1>1, ComputeFacts
  <1>3. run.at = "signed" /\ ~ run.failed /\ run' = [run EXCEPT !.at = "closed"]
    BY DEF ClosureRuns
  <1>4. /\ run \in ScanProcess /\ N' = N /\ N > 0 /\ N \in 1 .. N /\ p \in 1 .. N - 1
        /\ scans' \in Seq(ScanRecord)
    BY <1>2, <1>3 DEF Compared, ClosureInv, ClosureTypeOK, Idle, N
  <1>5. /\ run' \in ScanProcess /\ run'.at = "closed" /\ run'.failed = run.failed
        /\ run'.found = run.found /\ run'.there = run.there /\ run'.health = run.health
    BY <1>3, <1>4 DEF ScanProcess
  <1>6. ClosureTypeOK'
    BY <1>4, <1>5 DEF ClosureTypeOK
  <1>7. scans'[N].rows = scans[N].rows
    BY <1>2, <1>4 DEF Compared
  <1>8. ProcessInv'
    <2>1. /\ \A f \in run'.found : OwnRow(scans'[N'].rows, f)
          /\ \A f \in run'.there : f.fam = "http" =>
                \A r \in scans'[N'].rows : r.hp = f.hp /\ r.proto \in {"SSH", "TLS"} => ~ LiveRow(r)
      BY <1>3, <1>4, <1>5, <1>7 DEF ClosureInv, ProcessInv
    <2>2. \/ \A f \in Findings : (f \in run'.found) \in Shows(f, scans'[N'].rows, f \in run'.there)
          \/ \A fam \in Families : ~ probe_family_rechecked(run'.health, fam)
      BY <1>3, <1>4, <1>5, <1>7 DEF ClosureInv, ProcessInv
    <2>3. \A f \in run'.found : scans'[N'].fps[f] # "none"
      <3>1. \A f \in run.found : f \in Findings /\ scans[N].fps[f] # "none"
        BY <1>3, <1>4 DEF ClosureInv, ProcessInv, ScanProcess
      <3>2. QED
        BY <1>2, <1>4, <1>5, <3>1, ComparedKeeps
    <2>4. QED
      BY <2>1, <2>2, <2>3 DEF ProcessInv
  <1>e. UNCHANGED signature
    BY DEF ClosureRuns
  <1>9. NoFalseClosureWhenSigned'
    <2>1. SUFFICES ASSUME NEW f \in Findings, scans'[N].fps[f] = "closed", ~ signature.stale
                   PROVE  f \notin run.there
      BY <1>4, <1>5, <1>e DEF NoFalseClosureWhenSigned, NoFalseClosure
    <2>2. CASE f \in Closes(p)
      BY <1>2, <1>3, <1>4, <2>1, <2>2, ClosedIsGone DEF Compared
    <2>3. CASE f \notin Closes(p)
      <3>1. scans[N].fps[f] = "closed"
        BY <1>2, <2>1, <2>3 DEF Compared, OpenLike
      <3>2. QED
        BY <1>3, <2>1, <3>1 DEF ClosureInv, NoFalseClosureWhenSigned, NoFalseClosure, Running
    <2>4. QED
      BY <2>2, <2>3
  <1>10. SignatureInv'
    BY <1>5, <1>e, SignatureStays
  <1>11. QED
    BY <1>1, <1>2, <1>6, <1>8, <1>9, <1>10, ComparedHistory, ComparedNewest, ComparedTracks DEF ClosureInv

LEMMA ClosureInductive ==
    ASSUME ClosureInv, ClosureNext \/ UNCHANGED closureVars
    PROVE  ClosureInv'
  <1>1. CASE UNCHANGED closureVars
    <2>1. UNCHANGED <<scans, signature, run>> /\ N' = N
      BY <1>1 DEF closureVars, N
    <2>2. ClosureTypeOK' /\ ProcessInv' /\ NoFalseClosureWhenSigned'
      BY <2>1 DEF ClosureInv, ClosureTypeOK, ProcessInv, NoFalseClosureWhenSigned, NoFalseClosure,
                  Running
    <2>3. SignatureInv'
      BY <2>1 DEF ClosureInv, SignatureInv, Signed
    <2>4. QED
      BY <2>1, <2>2, <2>3, TablesStay
  <1>2. ASSUME run.at # "idle" PROVE run \in ScanProcess
    BY <1>2 DEF ClosureInv, ClosureTypeOK, Idle
  <1>3. ASSUME run.at # "idle", NEW a, run' = [run EXCEPT !.at = a]
        PROVE  run' = [run EXCEPT !.at = a, !.failed = run.failed] /\ run.failed \in BOOLEAN
    <2>1. run \in ScanProcess
      BY <1>2, <1>3
    <2>2. run.failed \in BOOLEAN /\ [run EXCEPT !.at = a, !.failed = run.failed] = [run EXCEPT !.at = a]
      BY <2>1 DEF ScanProcess
    <2>3. QED
      BY <1>3, <2>2
  <1>4. CASE SnapshotFails
    <2>1. /\ run.at = "persisted" /\ run' = [run EXCEPT !.at = "snapshot", !.failed = TRUE]
          /\ UNCHANGED <<scans, signature>>
      BY <1>4 DEF SnapshotFails
    <2>2. run'.at # "signed"
      BY <1>2, <2>1 DEF ScanProcess
    <2>3. SignatureInv'
      BY <2>1, <2>2, SignatureStays
    <2>4. QED
      BY <2>1, <2>3, MoveStep
  <1>5. CASE SignatureFails
    <2>1. run.at = "snapshot" /\ run' = [run EXCEPT !.at = "signed"] /\ UNCHANGED scans
      BY <1>5 DEF SignatureFails
    <2>2. run' = [run EXCEPT !.at = "signed", !.failed = run.failed] /\ run.failed \in BOOLEAN
      BY <1>3, <2>1
    <2>3. PICK old \in BOOLEAN : old = (signature.stale \/ Signed(N))
      OBVIOUS
    <2>4. signature' = [signature EXCEPT !.stale = old] /\ signature \in SignatureRecord
      BY <1>5, <2>3 DEF SignatureFails, Signed, ClosureInv, SignatureInv
    <2>5. signature' \in SignatureRecord /\ signature'.stale = old
      BY <2>4 DEF SignatureRecord
    <2>6. Signed(N)' = Signed(N)
      BY <2>1 DEF Signed, N
    <2>7. SignatureInv'
      BY <2>3, <2>5, <2>6 DEF SignatureInv
    <2>8. signature.stale => signature'.stale
      BY <2>3, <2>5
    <2>9. QED
      BY <2>1, <2>2, <2>7, <2>8, MoveStep
  <1>6. CASE ClosureRefused \/ ClosureFails
    <2>1. /\ run.at = "signed" /\ run' = [run EXCEPT !.at = "closed"]
          /\ UNCHANGED <<scans, signature>>
      BY <1>6 DEF ClosureRefused, ClosureFails
    <2>2. run' = [run EXCEPT !.at = "closed", !.failed = run.failed] /\ run.failed \in BOOLEAN
      BY <1>3, <2>1
    <2>3. run'.at # "signed"
      BY <1>2, <2>1 DEF ScanProcess
    <2>4. SignatureInv'
      BY <2>1, <2>3, SignatureStays
    <2>5. QED
      BY <2>1, <2>2, <2>4, MoveStep
  <1>7. CASE Dies
    <2>1. /\ run.at # "idle" /\ run' = [run EXCEPT !.at = "dead"]
          /\ UNCHANGED <<scans, signature>>
      BY <1>7 DEF Dies
    <2>2. run' = [run EXCEPT !.at = "dead", !.failed = run.failed] /\ run.failed \in BOOLEAN
      BY <1>3, <2>1
    <2>3. run'.at # "signed"
      BY <1>2, <2>1 DEF ScanProcess
    <2>4. SignatureInv'
      BY <2>1, <2>3, SignatureStays
    <2>5. QED
      BY <2>1, <2>2, <2>4, MoveStep
  <1>8. CASE Reports
    <2>1. run' = Idle /\ run'.at = "idle" /\ UNCHANGED <<scans, signature>>
      BY <1>8 DEF Reports, Idle
    <2>2. ClosureTypeOK' /\ ProcessInv' /\ NoFalseClosureWhenSigned'
      BY <2>1 DEF ClosureInv, ClosureTypeOK, ProcessInv, NoFalseClosureWhenSigned, NoFalseClosure,
                  Running, Idle
    <2>3. SignatureInv'
      BY <2>1, SignatureStays
    <2>4. QED
      BY <2>1, <2>2, <2>3, TablesStay
  <1>9. QED
    BY <1>1, <1>4, <1>5, <1>6, <1>7, <1>8, StartScanStep, ResumeStep, SnapshotStep, SignatureStep,
       ClosureRunsStep DEF ClosureNext

LEMMA ClosureInvGivesTracked == ClosureInv => TrackedUntilClosed
  <1>1. SUFFICES ASSUME ClosureInv PROVE TrackedUntilClosed
    OBVIOUS
  <1>2. CASE N = 0
    BY <1>2 DEF TrackedUntilClosed
  <1>3. CASE N # 0
    <2>1. N \in 1 .. N
      BY <1>1, <1>3 DEF ClosureInv, ClosureTypeOK, N
    <2>2. TrackedAt(N)
      BY <1>1, <2>1 DEF ClosureInv
    <2>3. QED
      BY <2>2 DEF TrackedAt, TrackedUntilClosed, Signed
  <1>4. QED
    BY <1>2, <1>3

-----------------------------------------------------------------------------
(* The desks *)

DeskInv == TicketInv /\ QrammInv /\ ClosureInv

LEMMA DeskInitially == Init => DeskInv
  BY TicketInitially, QrammInitially, ClosureInitially DEF Init, DeskInv

LEMMA DeskInductive ==
    ASSUME DeskInv, [Next]_deskVars
    PROVE  DeskInv' /\ AnswersStay
  <1>1. /\ TicketNext \/ UNCHANGED ticketVars
        /\ QrammNext \/ UNCHANGED qrammVars
        /\ ClosureNext \/ UNCHANGED closureVars
    BY DEF Next, deskVars
  <1>2. QED
    BY <1>1, TicketInductive, QrammInductive, ClosureInductive DEF DeskInv

(* The inductive invariants of the ticketing command, of the questionnaire and
   of the remediation history hold in every state, for every estate, catalogue
   and sequence of findings files. *)
THEOREM DeskInvariant == Spec => []DeskInv
  <1>1. DeskInv /\ [Next]_deskVars => DeskInv'
    BY DeskInductive
  <1>2. QED
    BY <1>1, DeskInitially, PTL DEF Spec

(* A finding has one issue in a tracker, across scans, reworded titles, lost
   answers, kills and repeated runs; only two runs that look it up at once can
   open two (dispatch_finding, compute_fingerprint). *)
THEOREM TicketsAreNotDuplicated == Spec => []NoDuplicateTicket
  <1>1. DeskInv => NoDuplicateTicket
    BY TicketInvGivesNoDuplicate DEF DeskInv
  <1>2. QED
    BY <1>1, DeskInvariant, PTL

(* The ledger says of a run neither more nor less than it did: an audit row `ok'
   is about an issue that the tracker has, and a run that ends `done' has a row
   for every finding of its file (dispatch_finding, ticket create). *)
THEOREM LedgerAgreesWithTrackers == Spec => []LedgerIsRight
  <1>1. DeskInv => LedgerIsRight
    BY TicketInvGivesLedger DEF DeskInv
  <1>2. QED
    BY <1>1, DeskInvariant, PTL

(* A score shown as current, and a relevance shown for a dimension, was computed
   from exactly the questions that are answered now (whatever the answers are),
   however saves, the bridge and the scoring interleave (is_score_stale,
   row_coverage_status). *)
THEOREM SavedScoresCoverAnswers == Spec => []ScoreCoversAnswers
  <1>1. DeskInv => ScoreCoversAnswers
    BY QrammInvGivesCover DEF DeskInv
  <1>2. QED
    BY <1>1, DeskInvariant, PTL

(* No step takes an answer back while its session lives: not the bridge of
   populate_cvi_suggestions, not a late commit, not a deletion. *)
THEOREM AnswersAreKept == Spec => AnsweredStaysAnswered
  <1>1. DeskInv /\ [Next]_deskVars => [sessions' # sessions \/ rows' # rows =>
         \A x \in sessions : (\E y \in sessions' : y.born = x.born) =>
             Answered(x.id) \subseteq Answered(x.id)']_qrammVars
    BY DeskInductive DEF AnswersStay
  <1>2. QED
    BY <1>1, DeskInvariant, PTL DEF Spec, AnsweredStaysAnswered

(* A finding that the newest scan shows as closed was not there when that scan
   looked, unless the scan was resumed and could not replace the signature of
   the process that died (NoFalseClosure is violated there), and an item that reads closed on a scan has no finding on it that is
   not closed: for any number of scans, whichever probes failed, fell back, were
   skipped by a resume or answered from a cache (compute_closure). *)
THEOREM ClosuresAreSound == Spec => []ClosureIsSound
  <1>1. DeskInv => ClosureIsSound
    BY DEF DeskInv, ClosureInv, ClosureIsSound
  <1>2. QED
    BY <1>1, DeskInvariant, PTL

(* A detected finding keeps a row on the newest scan or was closed on the way,
   as long as its scan was signed and every scan since was compared
   (_carry_forward). *)
THEOREM FindingsAreTracked == Spec => []TrackedUntilClosed
  <1>1. DeskInv => TrackedUntilClosed
    BY ClosureInvGivesTracked DEF DeskInv
  <1>2. QED
    BY <1>1, DeskInvariant, PTL
=============================================================================
