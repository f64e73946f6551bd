------------------------------- MODULE Closure -------------------------------
(***************************************************************************)
(* Remediation history: what a scan leaves in the database about the       *)
(* findings of an estate, and the two-sided closure computed from it       *)
(* (intelligence/closure.py, scope_signature.py, remediation_persist.py,   *)
(* burndown.py, called in this order at the end of run_scan.main).         *)
(*                                                                         *)
(* The estate changes between scans in any way.  A scan sees it through    *)
(* probes that time out, fall back or are skipped, may be answered by a    *)
(* cached fingerprint, may die between its writes and be resumed.  The     *)
(* model follows the host:ports in HostPorts; `elsewhere' is what the rest *)
(* of the estate contributes to the health of a probe family.              *)
(***************************************************************************)
EXTENDS Naturals, Sequences, FiniteSets

CONSTANTS
    HostPorts,
    Findings,      \* records [hp, fam, slug]: the finding fam raises at hp
    Scopes,        \* digests of the scope signature
    CoResident,    \* protocols of other scanners found at the same host:port
    Services,      \* services the estate may run at a host:port
    Misses,        \* what fingerprinting may report instead of the service
    Outcomes,      \* outcomes of a probe: ok, bare (no evidence), failed
    MaxScans,      \* bound on the number of scans
    MaxMishaps     \* bound on deaths, failed writes, cached fingerprints and
                   \* changes of scope: by the end of each scan, how many

ASSUME ClosureAssumption ==
    /\ Findings \subseteq [hp : HostPorts, fam : {"http", "tls"}, slug : STRING]
    /\ CoResident \subseteq {"SAML", "SMTPS"}
    /\ Services \subseteq {"none", "HTTP", "TLS", "SSH"}
    /\ Misses \subseteq {"UNKNOWN", "CLOSED", "nothing"}
    /\ Outcomes \subseteq {"ok", "bare", "failed"}
    /\ MaxScans \in Nat /\ MaxMishaps \in [1 .. MaxScans -> Nat]

VARIABLES
    scans,     \* the database: one record per scan_run_id, oldest first
    events,    \* remediation_closure_events, per finding
    signature, \* what more the signature row of the newest scan says: the
               \* health of the probes, and (for the properties) whether a
               \* process that was to replace the row failed to
    run,       \* the memory of the scan process
    mishaps    \* mishaps so far

closureVars == <<scans, events, signature, run, mishaps>>

Slugs == {f.slug : f \in Findings}
Families == {"tls", "ssh", "http", "saml", "email"}
OpenLike == {"open", "resurfaced"}
NonAsset == {"CLOSED", "ADVISORY"}
N == Len(scans)

(* _FAMILY_SPEC, the families that can meet at a host:port here. *)
Family == [p \in {"TLS", "SSH", "HTTP", "SAML", "SMTPS"} |->
             CASE p = "TLS" -> "tls" [] p = "SSH" -> "ssh" [] p = "HTTP" -> "http"
               [] p = "SAML" -> "saml" [] p = "SMTPS" -> "email"]
Classified(p) == p \in DOMAIN Family

-----------------------------------------------------------------------------
(* What a scan sees *)

Row(k, p, outcome) ==
    [hp |-> k, proto |-> p, evid |-> outcome = "ok",
     err |-> outcome = "failed" /\ p # "SMTPS", blocked |-> outcome = "failed" /\ p = "SMTPS"]

(* The fingerprint stage names the one service at a port and leaves the TLS
   and SSH ones to their scanners, whose row may hold no evidence (sslyze fell
   back, ssh-audit gave nothing) or an error. *)
FingerprintRows(k, seen, outcome) ==
    CASE seen = "nothing" -> {}
      [] seen \in {"HTTP", "UNKNOWN", "CLOSED"} -> {Row(k, seen, "ok")}
      [] OTHER -> {Row(k, seen, outcome)}

LiveRow(r) ==
    /\ r.proto \notin NonAsset /\ ~r.err
    /\ Classified(r.proto)

(* The estate: the service at the port, and whether it is a weak one. *)
Vulnerable(f, service, weak) ==
    \/ f.fam = "http" /\ service = "HTTP"
    \/ f.fam = "tls" /\ service = "TLS" /\ weak

(* The rows of a finding's own probe show it when it is there; a TLS row
   without evidence may or may not. *)
Shows(f, rows, there) ==
    LET own == {r \in rows : r.hp = f.hp /\ LiveRow(r) /\ Family[r.proto] = f.fam}
    IN  IF own = {} THEN {FALSE}
        ELSE IF f.fam = "http" THEN {TRUE}
        ELSE IF \E r \in own : r.evid THEN {there}
        ELSE {FALSE, there}

-----------------------------------------------------------------------------
(* scope_signature.py *)

(* assess_probe_health: without a timing key the family did not run; evidence
   anywhere in the estate makes it healthy. *)
assess_probe_health(timed, rows, elsewhere) ==
    [fam \in Families |->
        LET seen == {r \in rows : Classified(r.proto) /\ Family[r.proto] = fam}
        IN  IF fam \notin timed THEN "not_run"
            ELSE IF fam \in elsewhere \/ \E r \in seen : r.evid THEN "healthy"
            ELSE IF seen = {} THEN "no_targets"
            ELSE "unhealthy"]

probe_family_rechecked(health, fam) ==
    health[fam] = "healthy" \/ (health[fam] = "no_targets" /\ fam = "http")

-----------------------------------------------------------------------------
(* The scan process up to its last writes *)

NoSignature == "none"
Unsigned == [health |-> [fam \in Families |-> "not_run"], stale |-> FALSE]
Idle == [at |-> "idle"]
Mishap == mishaps < MaxMishaps[N] /\ mishaps' = mishaps + 1
NoRow == [f \in Findings |-> "none"]
NoItem == [s \in Slugs |-> "none"]

(* What the fingerprint stage can report of a service: a probe may time out,
   a port may be closed or outside the discovered targets, and a cached result
   is that of another day. *)
Sights(service, cached) ==
    (Misses \X {"ok"})
    \cup (IF service = "HTTP" \/ cached THEN {<<"HTTP", "ok">>} ELSE {})
    \cup (IF service \in {"TLS", "SSH"} THEN {service} \X Outcomes ELSE {})
    \cup (IF cached THEN ({"TLS", "SSH"} \cap Services) \X {"failed"} ELSE {})

(* The endpoints the stages find, and the findings that are really there. *)
Probed(seen, beside) ==
    (UNION {FingerprintRows(k, seen[k][1], seen[k][2]) : k \in HostPorts})
    \cup {Row(c[1], c[2], beside[c]) : c \in {b \in HostPorts \X CoResident : beside[b] # "nothing"}}
There(service, weak) == {f \in Findings : Vulnerable(f, service[f.hp], f.hp \in weak)}
NewScan(probed) ==
    [rows |-> probed, fps |-> NoRow, items |-> NoItem, snapshot |-> FALSE, scope |-> NoSignature,
     computed |-> FALSE]

(* A new scan has run its stages and persisted its endpoints. *)
StartScan ==
    /\ run.at \in {"idle", "dead"} /\ N < MaxScans
    /\ \E service \in [HostPorts -> Services], weak \in SUBSET HostPorts, cached \in BOOLEAN,
          beside \in [HostPorts \X CoResident -> (Outcomes \ {"bare"}) \cup {"nothing"}],
          elsewhere \in {{}, {"http", "tls"}} :
       \E seen \in [HostPorts -> UNION {Sights(service[k], cached) : k \in HostPorts}],
          found \in SUBSET Findings :
        /\ \A k \in HostPorts : seen[k] \in Sights(service[k], cached)
        /\ \A k \in weak : service[k] = "TLS"
        /\ mishaps' = IF cached THEN mishaps + 1 ELSE mishaps
        /\ mishaps' <= MaxMishaps[N + 1]
        /\ \A f \in Findings :
             (f \in found) \in Shows(f, Probed(seen, beside), f \in There(service, weak))
        /\ scans' = Append(scans, NewScan(Probed(seen, beside)))
        /\ run' = [at |-> "persisted", found |-> found, there |-> There(service, weak),
                   failed |-> FALSE,
                   health |-> assess_probe_health(Families \ (IF cached THEN {"http"} ELSE {}),
                                                  Probed(seen, beside), elsewhere)]
    /\ signature' = Unsigned
    /\ UNCHANGED events

(* --resume-scan-id: a stage that is checkpointed does not run again and is
   not timed; its endpoints, and their findings, are loaded again or lost
   (run_scan.py filters them on the first second of the scan).  A TLS or SSH
   stage that had not run has lost its targets. *)
ResumeScan ==
    /\ run.at = "dead"
    /\ \E loaded \in {{}, scans[N].rows}, redone \in SUBSET {"tls", "ssh"} :
         /\ \A r \in scans[N].rows : Classified(r.proto) => Family[r.proto] \notin redone
         /\ run' = [run EXCEPT !.at = "persisted", !.failed = FALSE,
                               !.found = IF loaded = {} THEN {} ELSE @,
                               !.health = assess_probe_health(redone, loaded, {})]
    /\ UNCHANGED <<scans, events, signature, mishaps>>

(* persist_remediation_snapshot: one transaction; rows are added for the
   findings, never changed; items of the roadmap are upserted, and counters
   alone may call for one. *)
Recorded(f) == IF f \in run.found /\ scans[N].fps[f] = "none" THEN "open" ELSE scans[N].fps[f]
Upserted(s, counted) ==
    IF scans[N].items[s] # "none" THEN scans[N].items[s]
    ELSE IF \E f \in run.found : f.slug = s THEN "open"
    ELSE IF s \in counted THEN "not_observed" ELSE "none"

persist_remediation_snapshot ==
    /\ run.at = "persisted"
    /\ run' = [run EXCEPT !.at = "snapshot"]
    /\ \E counted \in SUBSET Slugs :
         scans' = [scans EXCEPT ![N].snapshot = TRUE,
                                ![N].fps = [f \in Findings |-> Recorded(f)],
                                ![N].items = [s \in Slugs |-> Upserted(s, counted)]]
    /\ UNCHANGED <<events, signature, mishaps>>

SnapshotFails ==
    /\ run.at = "persisted"
    /\ run' = [run EXCEPT !.at = "snapshot", !.failed = TRUE]
    /\ Mishap
    /\ UNCHANGED <<scans, events, signature>>

(* persist_scope_signature: the digest and the health of the probes, written
   at completion and replaced on a resume. *)
persist_scope_signature_FirstHealth ==
    /\ run.at = "snapshot"
    /\ \E scope \in Scopes :
         /\ scans' = [scans EXCEPT ![N].scope = scope]
         /\ IF \E n \in 1 .. N : scans[n].scope \notin {scope, NoSignature}
            THEN Mishap ELSE UNCHANGED mishaps
    /\ signature' = [signature EXCEPT !.health = IF scans[N].scope = NoSignature THEN run.health ELSE @]
    /\ run' = [run EXCEPT !.at = "signed"]
    /\ UNCHANGED events

persist_scope_signature ==
    /\ run.at = "snapshot"
    /\ \E scope \in Scopes :
         /\ scans' = [scans EXCEPT ![N].scope = scope]
         /\ IF \E n \in 1 .. N : scans[n].scope \notin {scope, NoSignature}
            THEN Mishap ELSE UNCHANGED mishaps
    /\ signature' = [signature EXCEPT !.health = run.health]
    /\ run' = [run EXCEPT !.at = "signed"]
    /\ UNCHANGED events

(* The write fails and is swallowed: on a resume the row of the process that
   died stays, its digest and its health with it. *)
SignatureFails ==
    /\ run.at = "snapshot" /\ Mishap
    /\ run' = [run EXCEPT !.at = "signed"]
    /\ signature' = [signature EXCEPT !.stale = @ \/ scans[N].scope # NoSignature]
    /\ UNCHANGED <<scans, events>>

-----------------------------------------------------------------------------
(* closure.py *)

select_prior_scan_run_id ==
    LET signed == {n \in 1 .. N - 1 : scans[n].scope # NoSignature}
    IN  IF signed = {} THEN 0 ELSE CHOOSE n \in signed : \A m \in signed : m <= n

scans_are_comparable(p) ==
    /\ p # 0
    /\ scans[N].scope # NoSignature
    /\ scans[N].scope = scans[p].scope

(* The last scan before this one that has a row of f in one of the states. *)
LastRow(f, states) ==
    LET with == {n \in 1 .. N - 1 : scans[n].fps[f] \in states}
    IN  IF with = {} THEN 0 ELSE CHOOSE n \in with : \A m \in with : m <= n

_detection_row(f) == LastRow(f, OpenLike)

RowsAt(n, k) == IF n = 0 THEN {} ELSE {r \in scans[n].rows : r.hp = k}
Protocols(rows) == {r.proto : r \in rows}

(* Families live at a host:port in a past scan; an e-mail row that was only
   blocked counts there. *)
_live_families_at(n, k) == {Family[r.proto] : r \in {q \in RowsAt(n, k) : LiveRow(q)}}

(* Rows of the current scan that are evidence of a recheck. *)
CurrentLive(k) == {r \in RowsAt(N, k) : LiveRow(r) /\ ~r.blocked}

(* A CLOSED row or a failed probe at the host:port, or a service no probe
   could classify. *)
Spoiled(k) ==
    \E r \in RowsAt(N, k) :
        \/ r.proto = "CLOSED" \/ r.err \/ r.blocked
        \/ r.proto \notin NonAsset /\ ~Classified(r.proto)

(* The health is the one of the signature row of the current scan. *)
_host_port_rechecked_EstateWide(families, baseline, live) ==
    /\ families # {}
    /\ \A fam \in families : probe_family_rechecked(signature.health, fam)

_host_port_rechecked(families, baseline, live) ==
    /\ families # {}
    /\ \A fam \in families :
         /\ probe_family_rechecked(signature.health, fam)
         /\ LET own == {r \in live : Family[r.proto] = fam}
            IN  \/ \E r \in own : r.evid
                \/ /\ own = {} /\ fam = "http"
                   /\ \E r \in live : /\ r.proto \in {"SSH", "TLS"}
                                      /\ Family[r.proto] \notin baseline

(* Clauses (c), (c') and (d) for a row of the prior scan p that has no row on
   the current one. *)
Verified(f, p) ==
    LET k == f.hp
        carried == scans[p].fps[f] = "not_observed"
        detected == IF carried THEN _detection_row(f) ELSE p
        before == Protocols(RowsAt(p, k)) \cup (IF carried THEN Protocols(RowsAt(detected, k)) ELSE {})
        assets == before \ NonAsset
        live == CurrentLive(k)
        check == IF assets # {} THEN assets ELSE Protocols(live)
    IN  /\ live # {} /\ ~Spoiled(k)
        /\ carried => assets # {} /\ detected # 0
        /\ \A pr \in check : Classified(pr)
        /\ _host_port_rechecked({Family[pr] : pr \in check}, _live_families_at(detected, k), live)

Closes(p) == {f \in Findings : /\ scans[p].fps[f] \in {"open", "resurfaced", "not_observed"}
                               /\ scans[N].fps[f] = "none"
                               /\ Verified(f, p)}

_carry_forward_OnlyOpen(p) == {f \in Findings : /\ scans[p].fps[f] \in OpenLike
                                                /\ scans[N].fps[f] = "none"
                                                /\ f \notin Closes(p)}

_carry_forward(p) == {f \in Findings : /\ scans[p].fps[f] \in {"open", "resurfaced", "not_observed"}
                                       /\ scans[N].fps[f] = "none"
                                       /\ f \notin Closes(p)}

(* A finding seen again whose last row says closed. *)
Resurfaces == {f \in Findings : /\ scans[N].fps[f] \in {"open", "not_observed"}
                                /\ LET l == LastRow(f, {"open", "resurfaced", "not_observed", "closed"})
                                   IN  l # 0 /\ scans[l].fps[f] = "closed"}

(* A carried row also closes the row of the scan that detected the finding,
   and is a reclosure when that was a resurfacing. *)
Flipped(p, n) == {f \in Closes(p) : n = p \/ (scans[p].fps[f] = "not_observed" /\ n = _detection_row(f))}
EventOf(f, p) ==
    LET lineage == IF scans[p].fps[f] = "not_observed" THEN _detection_row(f) ELSE p
    IN  IF scans[lineage].fps[f] = "resurfaced" THEN "reclosed" ELSE "closed"

(* Item roll-up: an item whose findings on its scan are all closed. *)
AllClosed(fps, s) ==
    LET own == {f \in Findings : f.slug = s /\ fps[f] # "none"}
    IN  own # {} /\ \A f \in own : fps[f] = "closed"

(* The rows of scan n after the computation against the prior scan p. *)
Decided(p, n) ==
    [f \in Findings |->
        IF f \in (IF n < N THEN Flipped(p, n) ELSE Closes(p)) THEN "closed"
        ELSE IF n = N /\ f \in _carry_forward(p) THEN "not_observed"
        ELSE IF n = N /\ f \in Resurfaces THEN "resurfaced"
        ELSE scans[n].fps[f]]

(* The scans whose item s is closed: the prior one, and those that detected a
   carried finding that closes. *)
Rolled(p, s) ==
    {n \in {p} \cup {_detection_row(f) : f \in {g \in Closes(p) :
                         g.slug = s /\ scans[p].fps[g] = "not_observed"}} :
        scans[n].items[s] \notin {"none", "closed"} /\ AllClosed(Decided(p, n), s)}

(* On the current scan an item that was on an earlier one is written, closed,
   when its findings of the prior scan are. *)
Written(p, s) ==
    /\ scans[N].items[s] = "none" /\ AllClosed(Decided(p, p), s)
    /\ Rolled(p, s) # {} \/ \E f \in Closes(p) : f.slug = s
    /\ \E m \in 1 .. N - 1 : scans[m].items[s] # "none"

compute_closure ==
    LET p == select_prior_scan_run_id
        items(n) == [s \in Slugs |-> IF n \in Rolled(p, s) \/ (n = N /\ Written(p, s)) THEN "closed"
                                     ELSE scans[n].items[s]]
    IN  /\ scans' = [n \in 1 .. N |-> [scans[n] EXCEPT !.fps = Decided(p, n), !.items = items(n),
                                                       !.computed = scans[n].computed \/ n = N]]
        /\ events' = [f \in Findings |->
             CASE f \in Closes(p) -> Append(events[f], EventOf(f, p))
               [] f \in Resurfaces -> Append(events[f], "resurfaced")
               [] OTHER -> events[f]]

(* closure_verify: skipped after a failed snapshot, and not computed on scans
   that cannot be compared or without a snapshot on this one. *)
ClosureRuns ==
    /\ run.at = "signed"
    /\ ~run.failed /\ scans[N].snapshot
    /\ scans_are_comparable(select_prior_scan_run_id)
    /\ compute_closure
    /\ run' = [run EXCEPT !.at = "closed"]
    /\ UNCHANGED <<signature, mishaps>>

ClosureRefused ==
    /\ run.at = "signed"
    /\ run.failed \/ ~scans[N].snapshot \/ ~scans_are_comparable(select_prior_scan_run_id)
    /\ run' = [run EXCEPT !.at = "closed"]
    /\ UNCHANGED <<scans, events, signature, mishaps>>

(* An exception of the computation rolls it back and is swallowed. *)
ClosureFails ==
    /\ run.at = "signed" /\ ~run.failed /\ Mishap
    /\ run' = [run EXCEPT !.at = "closed"]
    /\ UNCHANGED <<scans, events, signature>>

(* The reports are written; a process that dies before that can be resumed. *)
Reports ==
    /\ run.at = "closed"
    /\ run' = Idle
    /\ UNCHANGED <<scans, events, signature, mishaps>>

Dies ==
    /\ run.at \in {"persisted", "snapshot", "signed", "closed"} /\ Mishap
    /\ run' = [run EXCEPT !.at = "dead"]
    /\ UNCHANGED <<scans, events, signature>>

ClosureInit ==
    /\ scans = <<>> /\ events = [f \in Findings |-> <<>>] /\ signature = Unsigned
    /\ run = Idle /\ mishaps = 0

ClosureNext ==
    \/ StartScan \/ ResumeScan \/ persist_remediation_snapshot \/ SnapshotFails
    \/ persist_scope_signature \/ SignatureFails \/ ClosureRuns \/ ClosureRefused
    \/ ClosureFails \/ Reports \/ Dies

ClosureSpec == ClosureInit /\ [][ClosureNext]_closureVars

-----------------------------------------------------------------------------
(* Properties *)

Running == run.at # "idle"

(* `The failure being prevented is a client attestation claiming remediation
   that never happened': a finding that a scan shows as closed was not there
   when that scan looked.  The code does not keep it for a scan that was resumed
   and could not replace its signature: the health of the process that died
   then vouches for a snapshot taken by the next. *)
NoFalseClosure ==
    Running => \A f \in Findings : scans[N].fps[f] = "closed" => f \notin run.there

(* NoFalseClosure for a scan whose signature is its own: whichever probes
   failed, fell back, were skipped by a resume or answered from a cache, and
   whatever died or was not written, in this scan and in the ones before. *)
NoFalseClosureWhenSigned == ~signature.stale => NoFalseClosure

(* `A refusal is "not verified this scan", not "gone"': a finding that was
   once detected has a row on the newest scan, for burndown and the next
   closure to read, or was closed on the way, as long as the scan that detected
   it was signed and closure was computed on every scan since. *)
TrackedUntilClosed ==
    \A n \in 1 .. N, f \in Findings :
        /\ scans[n].fps[f] \in OpenLike /\ scans[n].scope # NoSignature
        /\ \A m \in n + 1 .. N : scans[m].computed
        =>
            \/ scans[N].fps[f] # "none"
            \/ \E m \in n .. N : scans[m].fps[f] = "closed"

(* An item that reads closed on a scan (RESOLVED in the VEX) has no finding on
   that scan that is not closed, also when its findings were closed by
   different later scans, through carried rows. *)
ItemClosedMeansAll ==
    \A n \in 1 .. N, s \in Slugs : scans[n].items[s] = "closed" =>
        \A f \in Findings : f.slug = s => scans[n].fps[f] \in {"none", "closed"}

(* What reads closed is gone: a finding, unless the signature of its scan is
   stale, and an item. *)
ClosureIsSound == NoFalseClosureWhenSigned /\ ItemClosedMeansAll

(* `the EVENT written is reclosed, so the retained event sequence (closed ->
   resurfaced -> reclosed) is what keeps the regression legible': a finding
   is closed for the first time only once. *)
RegressionIsLegible ==
    \A f \in Findings : \A i, j \in DOMAIN events[f] :
        events[f][i] = "closed" /\ events[f][j] = "closed" => i = j
=============================================================================
