------------------------------ MODULE Findings ------------------------------
(***************************************************************************)
(* quirk/engine/findings_evaluator.py: the findings of a list of endpoint  *)
(* rows.  A finding keeps where it was found, its title and severity, its  *)
(* category and, as `rec', which wording of the recommendation it carries  *)
(* (part of the key by which findings are deduplicated).                   *)
(***************************************************************************)
EXTENDS Endpoints, SequencesExt

CONSTANT TlsPorts   \* places on well-known or designated TLS ports

Severities == <<"CRITICAL", "HIGH", "MEDIUM", "LOW", "INFO">>

NoFinding == [at |-> "none", title |-> "none", sev |-> "none", rec |-> "own", category |-> "none"]
_build_finding(e, sev, title) == [NoFinding EXCEPT !.at = e.at, !.title = title, !.sev = sev]
InCategory(f, category) == [f EXCEPT !.category = category]
If(c, f) == IF c THEN {f} ELSE {}

\* Scanner self-reports that the evaluator turns into findings of their own.
AdvisoryFindings(e) ==
    IF e.err \in {"missing_extra", "missing_binary"} THEN
            {InCategory(_build_finding(e, "INFO", "Scanner skipped"), "coverage_gap")}
    ELSE IF e.tag = "jwks-verify-disabled" THEN
            {InCategory(_build_finding(e, "HIGH", "JWKS fetched without verification"),
                        "config_advisory")}
    ELSE {}

\* A row with a scan error yields one finding about that and no other.
ErrorFinding(e) ==
    CASE e.proto = "TLS" /\ e.err \in {"TLS_HANDSHAKE_FAILED", "TIMEOUT"} ->
            _build_finding(e, "MEDIUM", "TLS handshake blocked assessment")
      [] e.proto = "TLS" /\ e.err = "MTLS_REQUIRED" -> _build_finding(e, "INFO", "mTLS required")
      [] e.proto = "SOURCE" -> _build_finding(e, "INFO", "Source scan incomplete")
      [] OTHER -> _build_finding(e, "INFO", "Informational protocol observation")

CertificateFindings(e) ==
    UNION {If(has_legacy_tls_versions_signal(e), _build_finding(e, "LOW", "Legacy TLS versions allowed")),
           If(e.suites = "legacy", _build_finding(e, "LOW", "Legacy TLS cipher suites accepted")),
           If(e.cert = "expired", _build_finding(e, "CRITICAL", "TLS certificate expired")),
           If(e.cert = "expiring", _build_finding(e, "MEDIUM", "TLS certificate expiring")),
           If(e.issuer = "self", _build_finding(e, "HIGH", "TLS certificate is self-signed")),
           If(e.issuer = "untrusted", _build_finding(e, "MEDIUM", "TLS certificate issued by untrusted CA")),
           If(e.key \in {"RSA1024", "EC192"}, _build_finding(e, "HIGH", "undersized certificate key")),
           If(e.key \in {"RSA2048", "EC256"}, _build_finding(e, "MEDIUM", "quantum-vulnerable certificate key"))}

\* Crypto packages of a container image, by what their version is.
_evaluate_container_package(e) ==
    CASE e.cipher = "openssl-1.0" -> _build_finding(e, "CRITICAL", "End-of-life OpenSSL in image")
      [] e.cipher \in {"openssl-1.1", "openssl-3.0"} -> _build_finding(e, "HIGH", "End-of-life OpenSSL in image")
      [] e.cipher = "cryptography-2" -> _build_finding(e, "HIGH", "Severely outdated cryptography package")
      [] e.cipher \in {"cryptography-40", "pyopenssl-19", "libgcrypt-1.8"} ->
            _build_finding(e, "MEDIUM", "Outdated crypto package")
      [] OTHER -> _build_finding(e, "LOW", "Container image contains crypto library")

ServiceFindings(e) ==
    CASE e.proto = "HTTP" -> {_build_finding(e, "HIGH", "Plaintext HTTP service detected")}
      [] e.proto = "TLS" -> CertificateFindings(e)
      [] e.proto = "SSH" -> {_build_finding(e, "INFO", "SSH quantum planning advisory")}
      [] e.proto = "CONTAINER" -> {_evaluate_container_package(e)}
      [] e.proto = "UNKNOWN" -> {_build_finding(e, "MEDIUM", "Unknown open service")}
      [] OTHER -> {}

RowFindings(e) ==
    IF e.proto = "ADVISORY" /\ AdvisoryFindings(e) # {} THEN AdvisoryFindings(e)
    ELSE IF e.err # "none" THEN {ErrorFinding(e)}
    ELSE ServiceFindings(e)

\* The row that the map from (host, port) to endpoint holds: the last one.
EndpointAt(eps, at) == eps[Max({i \in DOMAIN eps : eps[i].at = at})]

\* HTTP on a TLS port is a misconfiguration, unless the last row of that port
\* says that TLS is there and was blocked.
_postprocess_findings(eps, f) ==
    LET e == EndpointAt(eps, f.at)
        detail == IF e.blocker # "none" THEN e.blocker ELSE e.tls IN
    IF f.title # "Plaintext HTTP service detected" \/ f.at \notin TlsPorts THEN f
    ELSE IF e.proto = "TLS" /\ detail = "MTLS_REQUIRED"
         THEN [f EXCEPT !.sev = "INFO", !.title = "mTLS required", !.rec = "http"]
    ELSE IF e.proto = "TLS" /\ detail \in {"TLS_HANDSHAKE_FAILED", "TIMEOUT"}
         THEN [f EXCEPT !.sev = "MEDIUM", !.title = "TLS handshake blocked assessment", !.rec = "http"]
    ELSE [f EXCEPT !.sev = "HIGH", !.title = "HTTP on TLS-designated port"]

\* _dedupe_findings keeps one finding per place, title and recommendation:
\* each title has one severity, so the set of findings is the deduplicated list.
evaluate_endpoints(eps) ==
    {_postprocess_findings(eps, f) : f \in UNION {RowFindings(eps[i]) : i \in DOMAIN eps}}

evaluate_email_endpoints(e) ==
    If(e.proto = "SMTP-STARTTLS" /\ e.tag = "port25" /\ e.tls # "none",
       _build_finding(e, "MEDIUM", "STARTTLS downgrade risk on SMTP"))
    \cup (IF e.tls = "none" THEN {}
          ELSE IF e.cipher \in {"rsa-kex", "3des", "aes-sha"}
               THEN {_build_finding(e, "HIGH", "Weak cipher suite on email TLS endpoint")}
          ELSE If(e.pfs = "no" /\ e.tls # "TLSv1.3",
                  _build_finding(e, "MEDIUM", "Non-PFS cipher suite on email TLS endpoint")))

evaluate_broker_endpoints(e) ==
    If(e.proto \in BrokerPlain, _build_finding(e, "HIGH", "Plaintext broker listener"))
    \cup If(e.proto \in BrokerTls /\ e.tls # "none" /\ e.cipher \in {"rsa-kex", "3des", "aes-sha"},
            _build_finding(e, "HIGH", "Weak cipher suite on broker TLS endpoint"))

\* The first reason that applies decides, so that an expiry in the next 90
\* days hides a weak algorithm.
evaluate_codesign_endpoints(e) ==
    IF e.cert = "expired" THEN {_build_finding(e, "HIGH", "Code-signing certificate expired")}
    ELSE IF e.cert \in {"expiring", "soon"} THEN {_build_finding(e, "MEDIUM", "Code-signing certificate expiring")}
    ELSE IF e.suites = "SHA1" \/ e.key \in {"RSA1024", "EC192"} THEN
            {_build_finding(e, "HIGH", "Code-signing certificate uses weak algorithm")}
    ELSE {}

evaluate_bearer_token_endpoints(e) ==
    If(e.key \in {"alg-none", "alg-absent"}, _build_finding(e, "CRITICAL", "Bearer token is unsigned"))

\* The evaluators of email, brokers, code signing and tokens run row by row
\* and nothing deduplicates what they return.
evaluate_protocol_service_endpoints(e) ==
    UNION {IF e.proto \in EMAIL_PROTOCOLS THEN evaluate_email_endpoints(e) ELSE {},
           evaluate_broker_endpoints(e),
           IF e.proto = "CODE_SIGNING" THEN evaluate_codesign_endpoints(e) ELSE {},
           IF e.proto = "BEARER_TOKEN" THEN evaluate_bearer_token_endpoints(e) ELSE {}}

\* SAML rows; a weak certificate published for two uses is one finding when
\* the row names its serial number.
SamlRepeats(eps, i) ==
    /\ eps[i].tag \in Serials
    /\ \E j \in 1 .. i - 1 : /\ eps[j].proto = "SAML" /\ eps[j].at = eps[i].at
                             /\ eps[j].tag = eps[i].tag

\* The test is on the size alone: a 256-bit EC key is below 2048 too.
UndersizedSaml(key) == key \in {"RSA1024", "EC256"}
evaluate_identity_endpoints(eps, i) ==
    LET e == eps[i] IN
    IF e.proto # "SAML" THEN {}
    ELSE IF e.key = "RS256" THEN {_build_finding(e, "HIGH", "OIDC RS-family algorithm")}
    ELSE IF e.key = "SHA1" THEN {_build_finding(e, "HIGH", "SHA-1 algorithm URI in SAML metadata")}
    ELSE IF UndersizedSaml(e.key) /\ ~ SamlRepeats(eps, i) THEN
            {_build_finding(e, "CRITICAL", "Weak SAML certificate")}
    ELSE {}

\* The list of the report, as pairs: 0 with the findings that were
\* deduplicated, the row with the ones that were not.
derive_report_findings(eps) ==
    ({0} \X evaluate_endpoints(eps))
    \cup UNION {{i} \X (evaluate_protocol_service_endpoints(eps[i]) \cup evaluate_identity_endpoints(eps, i)) :
               i \in DOMAIN eps}
=============================================================================
