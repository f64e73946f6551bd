-------------------------------- MODULE Assess --------------------------------
(***************************************************************************)
(* An assessment from probe to score.  The phases of run_scan.py probe one *)
(* target after another, in the order of the phases; each target behaves   *)
(* as it likes, and the scanner of its family writes rows about it.  The   *)
(* findings, the evidence and the score are functions of the rows.         *)
(*                                                                         *)
(* `exposed' is what the scan was up against: the places where a target    *)
(* that answered showed a weakness of the kind its scanner looks for.      *)
(***************************************************************************)
EXTENDS IdentityProbes, NetworkProbes, CloudProbes, ApiProbes, Score, Cbom

CONSTANTS Places,      \* host and port pairs that discovery finds
          Services,    \* targets that the configuration names
          MaxProbes    \* bound on the number of probes

ASSUME AssessAssumption == TlsPorts \subseteq Places /\ MaxProbes \in Nat

VARIABLES rows,      \* the endpoint rows in the order in which they are assembled
          phase,     \* the phase of the last probe
          probes,    \* how many probes were made
          ports,     \* the protocol of each place that was fingerprinted
          exposed,
          report     \* what the report says if the scan ends here
vars == <<rows, phase, probes, ports, exposed, report>>

Assessment(rs, profile) == compute_readiness_score(build_evidence_summary(rs), profile)

\* The balanced score, the domains that were assessed, and what may raise a
\* score: an observed post-quantum exchange or certificate, and a demand for
\* client certificates.
Report(rs) ==
    LET ev == build_evidence_summary(rs)
        balanced == compute_readiness_score(ev, "balanced") IN
    [domains |-> balanced.domains, score |-> balanced.score,
     earned |-> <<Count(ev, "pqc_hybrid") > 0, Count(ev, "key_pqc") > 0, ev.mtls > 0>>]

Init == rows = <<>> /\ phase = 1 /\ probes = 0 /\ ports = <<>> /\ exposed = {}
        /\ report = Report(<<>>)

\* A probe of one target: how it behaves decides an outcome, which is the rows
\* that are written and whether a weakness was shown.
Probe(n, at, outcomes) ==
    \E o \in outcomes :
        /\ phase <= n /\ phase' = n
        /\ probes' = probes + 1
        /\ rows' = rows \o o[1]
        /\ exposed' = IF o[2] THEN exposed \cup {at} ELSE exposed

\* Fingerprinting gives a port one protocol, and that decides which phase
\* writes about it: the inventory, or the scanner of TLS or SSH.
Port(n, at, protocol, outcomes) ==
    /\ at \notin DOMAIN ports
    /\ \E s \in Ports : fingerprint_service(s)[2] = protocol
    /\ ports' = [p \in DOMAIN ports \cup {at} |-> IF p = at THEN protocol ELSE ports[p]]
    /\ Probe(n, at, outcomes)

Inventory(at) == \E protocol \in {"CLOSED", "HTTP", "UNKNOWN"} :
    Port(1, at, protocol, {<<InventoryRows(at, s), protocol = "HTTP">> :
                           s \in {t \in Ports : fingerprint_service(t)[2] = protocol}})

ShownByTls(s) ==
    /\ s.handshake = "ok"
    /\ \/ s.expiry = "expired" \/ s.issuer = "self" \/ s.key = "RSA1024"
       \/ s.versions # "modern" /\ (s.sslyze # "unavailable" \/ s.library = "old")
Tls(at) == Port(2, at, "TLS", {<<<<scan_one(at, s)>>, ShownByTls(s)>> : s \in TlsServers})
Ssh(at) == Port(3, at, "SSH", {<<scan_ssh_one(at, s), FALSE>> : s \in SshServers})

\* Later phases go back to the ports where TLS was found.
OnTls(n, at, outcomes) ==
    at \in DOMAIN ports /\ ports[at] = "TLS" /\ phase < n /\ Probe(n, at, outcomes) /\ UNCHANGED ports
Pqc(at) == OnTls(4, at, {<<_run_pqc_phase(at, s), FALSE>> : s \in KexOffers})

Jwt(at) == Probe(5, at, {<<scan_jwt_endpoint(at, d), FALSE>> : d \in JwksDocs})
Container(at) == Probe(6, at, {<<scan_container_image(at, i), FALSE>> : i \in Images})
Source(at) == Probe(7, at, {<<scan_source_targets(at, r), FALSE>> : r \in RepoLists})
Bearer(at) == Probe(8, at, {<<_bearer_token_endpoints(at, t), t \in {"alg-none", "alg-absent"}>> : t \in BearerTokens})
OpenApi(at) == Probe(9, at, {<<scan_openapi_spec(at, s), s.read = "ok" /\ s.http>> : s \in Specs})
Fuzz(at) == Probe(10, at, {<<run_fuzz_scan(at, f), f.confirmed /\ f.extra /\ f.weakTls>> : f \in Fuzzed})

Aws(at) == Probe(11, at, {<<scan_aws_targets(at, a), a.kind = "s3" /\ a.answer \in {"no-rules", "not-found"}>> :
                          a \in AwsAssets})
Azure(at) == Probe(12, at, {<<scan_azure_targets(at, a), FALSE>> : a \in AzureAssets})
Gcp(at) == Probe(13, at, {<<scan_gcp_targets(at, a), FALSE>> : a \in GcpAssets})
Database(at) == Probe(14, at, {<<scan_db_target(at, d), d.connect = "plaintext" /\ ~ d.ssl>> : d \in Databases})
ShownByCluster(c) == c.provider = "gke" /\ c.sdk /\ c.answer = "unencrypted"
Kubernetes(at) == Probe(15, at, {<<scan_k8s_targets(at, c), ShownByCluster(c)>> : c \in Clusters})
Vault(at) == Probe(16, at, {<<scan_vault_targets(at, v), v.login = "ok" /\ v.auth = "token">> : v \in Vaults})

\* A KDC that names a weak type on TCP, on the second TCP attempt, or on UDP
\* when TCP gave nothing.
NamesEtypes(k) ==
    \/ k.tcp = "etypes"
    \/ k.tcp = "dropped" /\ k.timeLeft /\ k.retry = "etypes"
    \/ k.tcp \in {"dropped", "refused", "krb-error"} /\ ~ k.timeLeft /\ k.udp = "etypes"
ShownByKdc(k) == k.valid /\ NamesEtypes(k) /\ \E i \in DOMAIN k.etypes : k.etypes[i] # "aes256"
Kerberos(at) == Probe(17, at, {<<scan_kerberos_target(at, k), ShownByKdc(k)>> : k \in Kdcs})
ShownByIdp(i) == /\ i.fetch = "ok"
                 /\ \/ i.doc = "saml" /\ "RSA1024" \in {i.signing, i.encryption}
                    \/ i.doc = "oidc" /\ i.alg = "RS256"
Saml(at) == Probe(18, at, {<<scan_saml_target(at, i), ShownByIdp(i)>> : i \in Idps})
Dnssec(at) == Probe(19, at, {<<_scan_domain(at, z), z.ns = "ok" /\ z.dnskey = "RSASHA1">> : z \in Zones})
ShownByDirectory(d) == d.ldap = "ok" /\ WeakCertificate(d.cert)
Smime(at) == Probe(20, at, {<<scan_smime_target(at, d), ShownByDirectory(d)>> : d \in Directories})
Adcs(at) == Probe(20, at, {<<scan_adcs_target(at, c), c.ldap = "ok" /\ c.cert = "weak">> : c \in Cas})
CodesignLdap(at) == Probe(21, at, {<<scan_codesign_from_ldap(at, d), ShownByDirectory(d)>> : d \in Directories})
\* Certificates with the code-signing usage that the TLS phase has met.
CodesignTls(at) == OnTls(21, at, {<<scan_codesign_from_tls_endpoints(at, c), WeakCertificate(c)>> : c \in Certificates})

ShownByMail(m) == \/ m.answer = "no-starttls"
                  \/ m.answer = "tls" /\ m.cipher \in {"rsa-kex", "3des"}
Email(at) == Probe(22, at, {<<<<scan_one_email(at, m)>>, ShownByMail(m)>> : m \in MailServers})
ShownByBroker(b) == /\ b.open
                    /\ \/ b.port = "kafka"
                       \/ b.port = "amqp" /\ b.talks = "amqp"
                       \/ b.port = "redis" /\ b.talks = "redis"
Broker(at) == Probe(22, at, {<<_run_broker_phase(at, b), ShownByBroker(b)>> : b \in Brokers})

\* Applications, platforms and identity services are not told apart by port.
Service(at) ==
    \/ Jwt(at) \/ Container(at) \/ Source(at) \/ Bearer(at) \/ OpenApi(at) \/ Fuzz(at)
    \/ Aws(at) \/ Azure(at) \/ Gcp(at) \/ Database(at) \/ Kubernetes(at) \/ Vault(at)
    \/ Kerberos(at) \/ Saml(at) \/ Dnssec(at) \/ Smime(at) \/ Adcs(at) \/ CodesignLdap(at)
    \/ Email(at) \/ Broker(at)

Next ==
    /\ probes < MaxProbes
    /\ \/ \E at \in Places : Inventory(at) \/ Tls(at) \/ Ssh(at) \/ Pqc(at) \/ CodesignTls(at)
       \/ \E at \in Services : Service(at) /\ UNCHANGED ports
    /\ report' = Report(rows')

Spec == Init /\ [][Next]_vars

(* ---- Properties -------------------------------------------------------- *)

\* Finding more never raises the score: while the domains that were assessed
\* and the credits earned stay the same, more rows cannot give a higher score
\* (compute_readiness_score adds capped penalties, rounds, averages over the
\* domains and compresses under a ceiling that depends on the findings).
WeaknessNeverPays ==
    [][/\ report.domains # {} /\ report'.domains = report.domains
       /\ report'.earned = report.earned
       => report'.score <= report.score]_vars

SilentRow(e) ==
    \/ e.proto = "CLOSED"
    \/ e.proto = "ADVISORY" /\ e.tag # "pqc-hybrid-detected"
    \/ e.proto \in EMAIL_PROTOCOLS /\ e.blocker # "none"
Added == SubSeq(rows', Len(rows) + 1, Len(rows'))
AllAdded(P(_)) == Added # <<>> /\ \A i \in DOMAIN Added : P(Added[i])

\* Silence is not evidence: closed ports, mail ports that refuse or time out
\* and advisories open no domain of the score and do not raise it; a KDC that
\* named no encryption type does not open the identity domain.
SilenceOpensNothing ==
    [][/\ AllAdded(SilentRow) => /\ report'.domains = report.domains
                                 /\ report'.score <= report.score
       /\ AllAdded(LAMBDA e : e.proto = "KERBEROS" /\ e.tag # "etype")
          => ("identity_trust" \in report'.domains => "identity_trust" \in report.domains)]_vars

\* A certificate whose key the scanner could not name is never better than
\* one with an ordinary RSA key.
UnreadKeyNeverPays ==
    \A i \in DOMAIN rows :
        rows[i].cert # "none" /\ rows[i].key = "unknown"
        => report.score <= Assessment([rows EXCEPT ![i].key = "RSA2048"], "balanced").score

\* A stricter profile never gives a higher score for the same rows.
StrictNeverFlatters ==
    LET ev == build_evidence_summary(rows)
        Score(profile) == compute_readiness_score(ev, profile).score IN
    Score("strict") <= Score("balanced") /\ Score("balanced") <= Score("lenient")

\* The score never flatters: not by a lenient reading of an unknown key, and
\* not under a strict profile.
ScoreNeverFlatters == StrictNeverFlatters /\ UnreadKeyNeverPays

Terms(domain) == {w[1] : w \in Range(SCORE_WEIGHTS[domain])}
Penalties == (UNION {Terms(d) : d \in DOMAIN SCORE_WEIGHTS})
             \cup {"email_plaintext", "starttls_missing"}

\* A weakness that a target showed to its scanner reaches the report: some row
\* about the target lowers the score, or a finding about it is HIGH or CRITICAL.
WeaknessIsReported ==
    \A at \in exposed :
        \/ \E i \in DOMAIN rows : rows[i].at = at /\ Counters(rows, i) \cap (Penalties \ {"scan_error"}) # {}
        \/ \E x \in derive_report_findings(rows) : x[2].at = at /\ x[2].sev \in {"CRITICAL", "HIGH"}

KeyComponents(bill, e) ==
    bill.algorithms
    \cap ({KeyName(e.key), SizedName(e.key)} \cup _normalize_cloud_key_spec(e.proto, e.key))

\* Every key that a scanner reported has a component in the bill of materials,
\* and none that says of a key a quantum computer breaks that it is safe.
\* DNSSEC is left out of the second part: the classifier gives its elliptic
\* curves a NIST level.
KeysAreCatalogued(bill) ==
    \A i \in DOMAIN rows :
        rows[i].key \in Classical \cup {"RS256", "HS256", "SHA1", "AES", "MLDSA", "alg-none"}
        => /\ KeyComponents(bill, rows[i]) # {}
           /\ rows[i].key \in Classical /\ rows[i].proto # "DNSSEC"
              => \A n \in KeyComponents(bill, rows[i]) : quantum_safety_label(classify_algorithm(n)) # "quantum-safe"

\* The key reference of a certificate points to an algorithm of the bill: the
\* first pass registers the name that the second one computes again.  For
\* code signing and for the cloud, the first pass leaves the size out.
CertificateRefsResolve(bill) ==
    \A c \in bill.certificates :
        c.proto \notin {"CODE_SIGNING", "AWS", "AZURE"} => c.key \in bill.algorithms

\* The bill of materials has every key, and what it refers to (build_cbom).
BillIsComplete ==
    LET bill == build_cbom(rows) IN KeysAreCatalogued(bill) /\ CertificateRefsResolve(bill)

\* "identity_trust was assessed iff a certificate was observed or any identity
\* protocol produced real evidence" (_identity_assessed).  A failed S/MIME or
\* AD CS probe leaves a row, too.
IdentityNeedsEvidence ==
    "identity_trust" \in report.domains
    => \E i \in DOMAIN rows : rows[i].err = "none"
                              /\ (rows[i].cert # "none" \/ rows[i].proto \in _IDENTITY_PROTOCOL_KEYS)

\* "An estate with no observed hybrid post-quantum key exchange cannot reach
\* the top of the scale" (_pqc_readiness_ceiling).
TopNeedsHybrid ==
    report.score >= BAND_THRESHOLDS.EXCELLENT
    => \E i \in DOMAIN rows : rows[i].proto = "TLS" /\ rows[i].tag = "pqc-hybrid-detected"

\* "switch to ECDSA P-256" is what the evaluator recommends for a weak SAML
\* certificate, so that such a certificate is not itself CRITICAL.
RecommendedKeyIsAccepted ==
    \A i \in DOMAIN rows : rows[i].proto = "SAML" /\ rows[i].key = "EC256"
                             => evaluate_identity_endpoints(rows, i) = {}

\* The guide to the bill of materials says that ECDSA is quantum-vulnerable.
\* With its size, the name is not one the classifier knows.
ClassicalKeyIsVulnerable ==
    \A c \in build_cbom(rows).certificates :
        c.key \in {SizedName(k) : k \in Classical} => quantum_safety_label(classify_algorithm(c.key)) = "quantum-vulnerable"
=============================================================================
