------------------------------ MODULE Evidence ------------------------------
(***************************************************************************)
(* quirk/intelligence/evidence.py: build_evidence_summary counts the rows  *)
(* of a scan.  Counters(eps, i) is the set of counters that row i ticks;   *)
(* a summary gives each counter its number of rows, and the findings give  *)
(* it the severities and the HTTP and mTLS targets.                        *)
(***************************************************************************)
EXTENDS Findings

_NON_ASSET_PROTOCOLS == {"ADVISORY", "CLOSED"}
_IDENTITY_PROTOCOL_KEYS == {"KERBEROS", "SAML", "DNSSEC", "SMIME", "ADCS"}
_DAR_PROTOCOL_KEYS == {"POSTGRESQL", "MYSQL", "RDS", "S3", "AZURE_BLOB", "KUBERNETES", "VAULT"}
_MOTION_PROTOCOL_KEYS == EMAIL_PROTOCOLS \cup BrokerPlain \cup BrokerTls

\* Mutant: the rows of silent mail ports count like any other.
_is_unanswered_email_probe_Never(e) == FALSE

\* A mail port that refused or never answered says nothing about plaintext.
_is_unanswered_email_probe(e) ==
    /\ e.proto \in EMAIL_PROTOCOLS
    /\ e.blocker \in {"CONNECTION_REFUSED", "TIMEOUT"}
    /\ e.tls = "none"

Ticks(c, name) == IF c THEN {name} ELSE {}

IsKerberosPlaceholder(e) == e.proto = "KERBEROS" /\ e.err = "none" /\ e.tag # "etype"

CoverageCounters(e) ==
    LET assessable == e.proto \notin _NON_ASSET_PROTOCOLS IN
    UNION {Ticks(e.tag = "pqc-hybrid-detected", "pqc_hybrid"),
           Ticks(e.proto = "TLS" /\ e.versions # "none", "tls_enum_success"),
           Ticks(e.proto = "TLS" /\ has_legacy_tls_versions_signal(e), "legacy_tls"),
           Ticks(e.err # "none", "scan_error"),
           Ticks(IsKerberosPlaceholder(e), "kerberos_placeholder"),
           Ticks(e.proto = "KERBEROS" /\ e.err # "none", "kerberos_scan_error"),
           Ticks(assessable, "assessable"),
           Ticks(/\ assessable /\ e.proto # "UNKNOWN"
                 /\ e.err = "none" /\ ~ IsKerberosPlaceholder(e), "assessed_crypto"),
           Ticks(e.proto = "UNKNOWN", "unknown"),
           Ticks(e.proto \in _IDENTITY_PROTOCOL_KEYS, "identity_rows"),
           Ticks(e.proto \in _DAR_PROTOCOL_KEYS, "dar_rows"),
           Ticks(e.proto \in _MOTION_PROTOCOL_KEYS, "motion_rows")}

\* A post-quantum name earns credit on a certificate only; classical names
\* land in their bucket on any row.
CertificateCounters(e) ==
    UNION {Ticks(e.key = "MLDSA" /\ e.cert # "none", "key_pqc"),
           Ticks(e.key \in Classical, "key_classical"),
           Ticks(e.cert # "none", "certs_observed"),
           Ticks(e.cert = "expired", "cert_expired"),
           Ticks(e.cert = "expiring", "cert_expiring"),
           Ticks(e.issuer = "self", "cert_self_signed")}

\* The weakness of an identity row.  A SAML certificate published for two
\* uses is counted once when the row names its serial number.
IdentityCounters(eps, i) ==
    LET e == eps[i] IN
    CASE e.proto = "KERBEROS" -> Ticks(e.tag = "etype" /\ e.sev \in {"CRITICAL", "HIGH"}, "kerberos_weak")
      [] e.proto = "SAML" -> Ticks(/\ ~ SamlRepeats(eps, i)
                                      /\ (is_weak_cipher(e.key) \/ UndersizedSaml(e.key)), "saml_weak")
      [] e.proto = "DNSSEC" -> Ticks(e.key \in {"RSASHA1", "SHA1-DS", "NONE"}, "dnssec_weak")
      [] e.proto = "SMIME" ->
            UNION {Ticks(e.suites = "SHA1", "smime_weak_signing"),
                   Ticks(e.key \in {"RSA1024", "EC256"}, "smime_weak_key"),
                   Ticks(e.tag = "expired", "smime_expired")}
      [] e.proto = "ADCS" ->
            (IF e.tag = "weak-signing-alg" \/ e.suites = "SHA1" THEN {"adcs_weak_signing"}
             ELSE UNION {Ticks(e.tag = "esc1", "adcs_weak_template"),
                         Ticks(e.tag = "esc6", "adcs_misconfig"),
                         Ticks(e.tag = "coverage-gap", "adcs_coverage_gap")})
      [] OTHER -> {}

DataAtRestCounters(e) ==
    CASE e.proto = "POSTGRESQL" -> Ticks(e.err # "insufficient-privilege" /\ e.tag = "ssl-off", "db_plaintext")
      [] e.proto = "MYSQL" ->
            Ticks(e.tag = "ssl-off", "db_plaintext") \cup Ticks(e.tag = "ssl-weak", "db_weak_ssl")
      [] e.proto = "RDS" -> Ticks(e.tag = "none-encrypted", "db_plaintext")
      [] e.proto = "S3" ->
            Ticks(e.tag = "unencrypted", "storage_unencrypted") \cup Ticks(e.tag = "sse-kms-aws", "storage_aws_managed")
      [] e.proto = "AZURE_BLOB" -> Ticks(e.tag \in {"platform-managed", "unknown"}, "storage_aws_managed")
      [] e.proto = "KUBERNETES" ->
            (IF e.tag = "unencrypted" THEN {"k8s_unencrypted"}
             ELSE Ticks(\/ e.err \in {"insufficient-rbac-privileges", "encryption-config-inaccessible"}
                        \/ e.tag = "platform-managed", "k8s_inaccessible"))
      [] e.proto = "VAULT" -> Ticks(e.sev = "HIGH", "vault_weak")
      [] OTHER -> {}

ApiCounters(e) ==
    CASE e.proto = "BEARER_TOKEN" -> Ticks(e.key \notin {"alg-none", "alg-absent"}, "jwt_weak")
      [] e.proto = "OPENAPI" -> Ticks(e.tag = "plaintext_server", "openapi_plaintext")
      [] e.proto = "CODE_SIGNING" -> Ticks(e.tag = "weak", "codesign_weak")
      [] e.proto = "REST_FUZZ" -> Ticks(e.sev \in {"CRITICAL", "HIGH"}, "fuzz")
      [] OTHER -> {}

\* Implicit TLS without a version, and STARTTLS without one, both read as
\* plaintext mail; the score folds the two counters into one term.
MotionCounters(e) ==
    IF e.proto \in BrokerPlain THEN {"broker_plaintext"}
    ELSE IF e.proto \in BrokerTls THEN
            Ticks(e.tls = "TLSv1", "broker_weak_tls")
            \cup Ticks(e.cipher \in {"rsa-kex", "3des", "aes-sha"}, "broker_weak_cipher")
    ELSE IF e.proto \in EmailStartTls /\ e.tls = "none" THEN {"starttls_missing"}
    ELSE IF e.proto \in EmailStartTls THEN Ticks(e.cipher = "rsa-kex" \/ is_weak_cipher(e.cipher), "email_weak_cipher")
    ELSE IF e.proto \in EmailImplicit /\ e.tls = "none" THEN {"email_plaintext"}
    ELSE IF e.proto \in EmailImplicit THEN Ticks(e.cipher \in {"rsa-kex", "3des"}, "email_weak_cipher")
    ELSE {}

Counters(eps, i) ==
    IF _is_unanswered_email_probe(eps[i]) THEN {}
    ELSE UNION {CoverageCounters(eps[i]), CertificateCounters(eps[i]), IdentityCounters(eps, i),
                DataAtRestCounters(eps[i]), ApiCounters(eps[i]), MotionCounters(eps[i])}

\* The places whose findings carry a title, as counted for HTTP and mTLS.
_finding_targets(eps, title) == {f.at : f \in {g \in evaluate_endpoints(eps) : g.title = title}}

mtls_targets(eps) ==
    {eps[i].at : i \in {j \in DOMAIN eps : /\ eps[j].blocker = "MTLS_REQUIRED"
                                           /\ ~ _is_unanswered_email_probe(eps[j])}}
    \cup _finding_targets(eps, "mTLS required")

\* Configuration advisories are findings that the score does not read.
ScoredSeverity(eps, sev) ==
    Cardinality({x \in derive_report_findings(eps) : x[2].sev = sev /\ x[2].category # "config_advisory"})

build_evidence_summary(eps) ==
    LET ticked == [i \in DOMAIN eps |-> Counters(eps, i)]
        Count(name) == Cardinality({i \in DOMAIN eps : name \in ticked[i]}) IN
    [counters |-> [name \in UNION {ticked[i] : i \in DOMAIN eps} |-> Count(name)],
     plaintext_http |-> Cardinality(_finding_targets(eps, "Plaintext HTTP service detected")),
     http_on_tls |-> Cardinality(_finding_targets(eps, "HTTP on TLS-designated port")),
     mtls |-> Cardinality(mtls_targets(eps)),
     critical |-> ScoredSeverity(eps, "CRITICAL"),
     high |-> ScoredSeverity(eps, "HIGH")]
=============================================================================
