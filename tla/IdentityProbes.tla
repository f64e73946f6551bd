--------------------------- MODULE IdentityProbes ---------------------------
(***************************************************************************)
(* The identity scanners: for each, what a target does when it is probed   *)
(* and the rows the scanner writes about it.                               *)
(***************************************************************************)
EXTENDS Endpoints, SequencesExt

(* ---- kerberos_scanner.py -------------------------------------------- *)

KERBEROS_ETYPE_MAP == [des |-> "CRITICAL", rc4 |-> "HIGH", aes128 |-> "HIGH", aes256 |-> "SAFE"]

\* What a KDC may do with one request.  The first five are complete replies.
EtypeReplies == {<<"aes256">>, <<"aes256", "rc4">>, <<"des">>}
Replies == {"no-preauth", "no-etype-info", "principal-unknown", "krb-error", "unparsable"}
KdcTcpReplies == Replies \cup {"etypes", "truncated", "dropped", "refused"}
KdcUdpReplies == Replies \cup {"etypes", "refused"}

\* A TCP connection closed before any reply byte is tried once more against
\* the same address, while enough of the deadline is left.
_is_retryable_tcp_drop(reply) == reply = "dropped"
\* Mutant: the second attempt is never made.
TcpOutcome_NoRetry(kdc) == kdc.tcp
TcpOutcome(kdc) ==
    IF _is_retryable_tcp_drop(kdc.tcp) /\ kdc.timeLeft THEN kdc.retry ELSE kdc.tcp

KerberosRow(at, tag) == [Blank("KERBEROS", at) EXCEPT !.tag = tag]
KerberosError(at, tag) == [KerberosRow(at, tag) EXCEPT !.err = "exception"]
EtypeRow(at, etype) == [KerberosRow(at, "etype") EXCEPT !.sev = KERBEROS_ETYPE_MAP[etype]]

\* The row for a complete reply.
ReplyRows(at, reply, etypes) ==
    CASE reply = "etypes" -> [i \in DOMAIN etypes |-> EtypeRow(at, etypes[i])]
      [] reply = "no-preauth" -> <<KerberosRow(at, "kerberos-no-preauth")>>
      [] reply = "no-etype-info" -> <<KerberosRow(at, "preauth-no-etype-info")>>
      [] reply = "principal-unknown" -> <<KerberosRow(at, "principal-unknown")>>
      [] reply = "krb-error" -> <<KerberosError(at, "krb-error")>>
      [] OTHER -> <<KerberosError(at, "unrecognised-reply")>>

\* UDP is tried after a TCP attempt that got no answer, or a KRB-ERROR.
scan_kerberos_target(at, kdc) ==
    LET tcp == TcpOutcome(kdc) IN
    IF ~ kdc.valid THEN <<Failed("KERBEROS", at, "invalid_input")>>
    ELSE IF tcp \notin {"dropped", "refused", "krb-error"} THEN ReplyRows(at, tcp, kdc.etypes)
    ELSE IF kdc.udp # "refused" THEN ReplyRows(at, kdc.udp, kdc.etypes)
    ELSE IF tcp = "krb-error" THEN ReplyRows(at, tcp, kdc.etypes)
    ELSE <<KerberosError(at, "kerberos-unreachable")>>

Kdcs ==
    [valid : {TRUE}, tcp : KdcTcpReplies, retry : {"refused"}, timeLeft : {FALSE},
     udp : {"refused", "etypes", "krb-error"}, etypes : {<<"aes256", "rc4">>}]
    \cup [valid : {TRUE}, tcp : {"dropped"}, retry : KdcTcpReplies, timeLeft : BOOLEAN,
          udp : KdcUdpReplies, etypes : {<<"des">>}]
    \cup [valid : BOOLEAN, tcp : {"etypes"}, retry : {"refused"}, timeLeft : {FALSE},
          udp : {"refused"}, etypes : EtypeReplies]

(* ---- saml_scanner.py ------------------------------------------------- *)

_classify_key_severity(key) ==
    CASE key = "RSA1024" -> "CRITICAL" [] key = "RSA2048" -> "HIGH" [] OTHER -> "none"

SamlCertRow(at, key, serial) ==
    [Blank("SAML", at) EXCEPT !.key = key, !.tag = serial, !.sev = _classify_key_severity(key)]

\* Signing certificates, then encryption certificates, then SHA-1 URIs; a
\* certificate that does not parse is left out.
_parse_saml_metadata(at, idp) ==
    (IF idp.signing = "none" THEN <<>> ELSE <<SamlCertRow(at, idp.signing, SigningSerial[idp.signing])>>)
    \o (IF idp.encryption = "none" THEN <<>>
        ELSE <<SamlCertRow(at, idp.encryption, IF idp.shared THEN SigningSerial[idp.signing]
                                               ELSE EncryptionSerial[idp.encryption])>>)
    \o (IF idp.sha1 THEN <<[Blank("SAML", at) EXCEPT !.key = "SHA1"]>> ELSE <<>>)

\* Only the RS and PS families have a severity, and so a row.
_parse_oidc_discovery(at, idp) ==
    IF idp.alg = "RS256"
    THEN <<[Blank("SAML", at) EXCEPT !.key = "RS256", !.sev = "HIGH", !.tag = "oidc-discovery"]>>
    ELSE <<>>

\* What cannot be fetched, classified or parsed leaves no row.
scan_saml_target(at, idp) ==
    IF idp.fetch # "ok" THEN <<>>
    ELSE (IF idp.internal
          THEN <<[Blank("ADVISORY", at) EXCEPT !.tag = "internal-target-fetched", !.sev = "HIGH"]>> ELSE <<>>)
         \o CASE idp.doc = "oidc" -> _parse_oidc_discovery(at, idp)
              [] idp.doc = "saml" -> _parse_saml_metadata(at, idp)
              [] OTHER -> <<>>

Idps ==
    {i \in [fetch : {"ok"}, internal : {FALSE}, doc : {"saml"}, alg : {"none"}, sha1 : BOOLEAN, shared : BOOLEAN,
            signing : {"RSA1024", "RSA2048", "EC256"}, encryption : {"none", "RSA1024", "RSA2048", "EC256"}] :
        /\ i.shared => i.encryption = i.signing
        /\ i.sha1 => i.encryption = "none"}
    \cup [fetch : {"ok", "rejected"}, internal : BOOLEAN, doc : {"oidc", "unknown", "broken"},
          alg : {"RS256", "ES256"}, sha1 : {FALSE}, shared : {FALSE}, signing : {"none"}, encryption : {"none"}]

(* ---- dnssec_scanner.py ----------------------------------------------- *)

DnssecRow(at, key, tag) == [Blank("DNSSEC", at) EXCEPT !.key = key, !.tag = tag]

\* No DNSKEY in the answer is an unsigned zone, also when there was no answer.
_scan_domain(at, zone) ==
    IF zone.ns = "unresolved" THEN <<>>
    ELSE IF zone.dnskey \in {"timeout", "none"} THEN <<DnssecRow(at, "NONE", "unsigned-zone")>>
    ELSE <<DnssecRow(at, zone.dnskey, "dnskey")>>
         \o (IF zone.nsec THEN <<DnssecRow(at, "NSEC", "nsec-exposure")>> ELSE <<>>)
         \o (IF zone.ds = "mismatch" THEN <<DnssecRow(at, "DS-MISMATCH", "ds-chain-broken")>> ELSE <<>>)
         \o (IF zone.ds = "sha1" THEN <<DnssecRow(at, "SHA1-DS", "sha1-ds-digest")>> ELSE <<>>)

Zones == [ns : {"ok"}, dnskey : {"RSASHA1", "RSASHA256", "ECDSAP256"}, nsec : BOOLEAN,
          ds : {"none", "sha256", "sha1", "mismatch"}]
         \cup [ns : {"ok", "unresolved"}, dnskey : {"timeout", "none"}, nsec : {FALSE}, ds : {"none"}]

(* ---- smime_scanner.py, adcs_scanner.py and codesign_scanner.py -------- *)

\* A certificate found in a directory: its key, its hash and its expiry.
Certificates == [key : {"RSA1024", "RSA2048", "EC256"}, hash : {"SHA1", "SHA256"}, expiry : {"valid"}]
                \cup [key : {"RSA2048"}, hash : {"SHA1", "SHA256"}, expiry : {"soon", "expiring", "expired"}]
WeakCertificate(c) == c.hash = "SHA1" \/ c.key \in {"RSA1024", "EC192"}

SmimeRow(at, c) ==
    [Blank("SMIME", at) EXCEPT !.key = c.key, !.suites = c.hash,
        !.tag = IF c.expiry = "expired" THEN "expired" ELSE "none",
        !.sev = IF WeakCertificate(c) THEN "HIGH" ELSE "MEDIUM"]

\* A rejected bind reads as a directory without certificates.
scan_smime_target(at, dir) ==
    CASE dir.ldap = "no-base" \/ dir.ldap = "bind-rejected" -> <<>>
      [] dir.ldap = "unreachable" -> <<[Failed("SMIME", at, "exception") EXCEPT !.tag = "smime-unreachable"]>>
      [] OTHER -> IF WeakCertificate(dir.cert) \/ dir.cert.expiry = "expired"
                  THEN <<SmimeRow(at, dir.cert)>> ELSE <<>>

Directories == [ldap : {"ok"}, cert : Certificates]
               \cup [ldap : {"no-base", "bind-rejected", "unreachable"},
                     cert : {[key |-> "RSA2048", hash |-> "SHA256", expiry |-> "valid"]}]

_classify_template_escs(template) ==
    CASE template = "enrollee-supplies-subject" -> <<"esc1">>
      [] template = "any-purpose-agent" -> <<"esc1", "esc1">>   \* ESC2 and ESC3
      [] template = "subordinate-ca" -> <<"esc6">>
      [] OTHER -> <<>>

AdcsRow(at, tag, sev) == [Blank("ADCS", at) EXCEPT !.tag = tag, !.sev = sev]
AdcsUnreachable(at) == [AdcsRow(at, "adcs-unreachable", "LOW") EXCEPT !.err = "exception"]

\* CA certificates, templates, and four classes that LDAP cannot show; each
\* of the two searches may fail without stopping the scan.
scan_adcs_target(at, ca) ==
    IF ca.ldap # "ok" THEN <<AdcsUnreachable(at)>>
    ELSE (CASE ca.cert = "search-failed" -> <<AdcsUnreachable(at)>>
            [] ca.cert = "weak" ->
                 <<[AdcsRow(at, "weak-signing-alg", "HIGH") EXCEPT !.key = "RSA2048", !.suites = "SHA1"]>>
            [] ca.cert = "weak-rsa-key" -> <<[AdcsRow(at, "weak-rsa-key", "HIGH") EXCEPT !.key = "RSA1024"]>>
            [] OTHER -> <<>>)
         \o (IF ca.template = "search-failed" THEN <<AdcsUnreachable(at)>>
             ELSE LET escs == _classify_template_escs(ca.template) IN
                  [i \in DOMAIN escs |-> AdcsRow(at, escs[i], "HIGH")])
         \o [i \in 1 .. 4 |-> AdcsRow(at, "coverage-gap", "LOW")]

Cas == [ldap : {"ok"}, cert : {"none", "search-failed", "weak", "weak-rsa-key"},
        template : {"none", "search-failed", "enrollee-supplies-subject", "any-purpose-agent", "subordinate-ca"}]
       \cup [ldap : {"bind-rejected", "no-context"}, cert : {"none"}, template : {"none"}]

_classify_codesign_severity(c) ==
    IF WeakCertificate(c) \/ c.expiry = "expired" THEN "HIGH"
    ELSE IF c.expiry \in {"expiring", "soon"} THEN "MEDIUM"
    ELSE "none"

CodesignRow(at, c, tag) ==
    [Blank("CODE_SIGNING", at) EXCEPT !.key = c.key, !.suites = c.hash, !.cert = c.expiry, !.tag = tag,
        !.sev = _classify_codesign_severity(c)]

\* A certificate from LDAP is tagged weak whatever its severity.
scan_codesign_from_ldap(at, dir) ==
    CASE dir.ldap = "no-base" \/ dir.ldap = "bind-rejected" -> <<>>
      [] dir.ldap = "unreachable" -> <<[Failed("CODE_SIGNING", at, "exception") EXCEPT !.tag = "codesign-unreachable"]>>
      [] OTHER -> IF _classify_codesign_severity(dir.cert) = "none" THEN <<>>
                  ELSE <<CodesignRow(at, dir.cert, "weak")>>

\* A TLS endpoint whose certificate has the code-signing usage gets a row of
\* its own, tagged weak only when the severity is HIGH.
scan_codesign_from_tls_endpoints(at, c) ==
    <<CodesignRow(at, c, IF _classify_codesign_severity(c) = "HIGH" THEN "weak" ELSE "none")>>
=============================================================================
