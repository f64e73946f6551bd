---------------------------- MODULE NetworkProbes ----------------------------
(***************************************************************************)
(* Fingerprinting and the scanners of the protocols it finds: TLS, SSH,    *)
(* the post-quantum probe, mail and message brokers.  A service is a       *)
(* record of how the other side behaves; an operator gives the rows.       *)
(***************************************************************************)
EXTENDS Endpoints, SequencesExt

(* ---- fingerprint.py and the inventory of run_scan.py ----------------- *)

\* _tls_handshake, then _http_probe_plain where the handshake says that the
\* port may not be TLS.  The result is <<open, protocol, detail>>.
fingerprint_service(s) ==
    IF s.tcp # "open" THEN <<FALSE, "CLOSED", s.tcp>>
    ELSE IF s.banner = "ssh" THEN <<TRUE, "SSH", "banner">>
    ELSE IF s.tls \in {"ok", "MTLS_REQUIRED", "TIMEOUT"} THEN <<TRUE, "TLS", s.tls>>
    ELSE IF s.tls \notin {"NOT_TLS_ON_PORT", "TLS_HANDSHAKE_FAILED"} THEN <<TRUE, "UNKNOWN", s.tls>>
    ELSE IF s.http = "answers" THEN <<TRUE, "HTTP", "status-line">>
    ELSE IF s.http = "HTTP_TO_HTTPS_PORT_REJECTED" THEN <<TRUE, "TLS", "TLS_PRESENT_HTTP_REJECTED">>
    ELSE IF s.tls = "TLS_HANDSHAKE_FAILED" THEN <<TRUE, "TLS", s.tls>>
    ELSE <<TRUE, "UNKNOWN", "OPEN_NOT_TLS">>

Ports == [tcp : {"TIMEOUT", "REFUSED", "UNREACHABLE"}, banner : {"none"}, tls : {"ok"}, http : {"none"}]
         \cup [tcp : {"open"}, banner : {"ssh"}, tls : {"NOT_TLS_ON_PORT"}, http : {"none"}]
         \cup [tcp : {"open"}, banner : {"none"}, http : {"none", "answers", "HTTP_TO_HTTPS_PORT_REJECTED"},
               tls : {"ok", "MTLS_REQUIRED", "TIMEOUT", "NOT_TLS_ON_PORT", "TLS_HANDSHAKE_FAILED", "REFUSED"}]

\* Everything but TLS and SSH is an inventory row; the detail is also written
\* to tls_version, where only the plain HTTP check reads it.
InventoryRows(at, s) ==
    LET fp == fingerprint_service(s) IN
    CASE fp[2] = "CLOSED" -> <<Failed("CLOSED", at, "CLOSED")>>
      [] fp[2] \in {"HTTP", "UNKNOWN"} -> <<[Blank(fp[2], at) EXCEPT !.tls = fp[3]]>>
      [] OTHER -> <<>>

(* ---- tls_scanner.py and tls_capabilities.py -------------------------- *)

\* _pubkey_info names RSA, ECDSA and EdDSA keys; any other is Unknown.
_pubkey_info(key) == IF key = "MLDSA" THEN "unknown" ELSE key

WithCertificate(row, s) ==
    [row EXCEPT !.cert = s.expiry, !.key = _pubkey_info(s.key), !.issuer = s.issuer]

\* sslyze enumerates every version and suite.  When its certificate command
\* fails, the row has no certificate and says that the chain is not verified.
_scan_one_sslyze(at, s) ==
    LET row == [Blank("TLS", at) EXCEPT !.tls = IF s.versions = "legacy-only" THEN "TLSv1" ELSE "TLSv1.3",
                                        !.versions = IF s.versions = "modern" THEN "modern" ELSE "legacy",
                                        !.suites = IF s.versions = "modern" THEN "none" ELSE "legacy",
                                        !.cipher = "aead"] IN
    IF s.sslyze = "ok" THEN WithCertificate(row, s) ELSE row

\* Two handshakes with the system library: one to verify the chain, one to
\* read the certificate; then constrained handshakes.  A build of the library
\* that refuses TLS 1.0 and 1.1 does not see that the server accepts them.
enumerate_tls_capabilities(s) ==
    [versions |-> IF s.versions = "legacy" /\ s.library = "old" THEN "legacy" ELSE "modern",
     suites |-> IF s.versions = "legacy" THEN "legacy" ELSE "none"]

_scan_one_fallback(at, s) ==
    IF s.handshake # "ok"
    THEN [Failed("TLS", at, s.handshake) EXCEPT !.blocker = s.handshake]
    ELSE LET caps == enumerate_tls_capabilities(s) IN
         WithCertificate([Blank("TLS", at) EXCEPT !.tls = "TLSv1.3", !.cipher = "aead",
                              !.versions = caps.versions, !.suites = caps.suites], s)

\* A certificate that sslyze could not read comes from the fallback, but the
\* chain verdict of sslyze stays: it is False, not missing.
MergedWithFallback(row, fb) ==
    [row EXCEPT !.cert = fb.cert, !.key = fb.key,
                !.issuer = IF fb.issuer = "trusted" THEN "untrusted" ELSE fb.issuer]

scan_one(at, s) ==
    CASE s.sslyze = "ok" -> _scan_one_sslyze(at, s)
      [] s.sslyze = "no-certificate" -> MergedWithFallback(_scan_one_sslyze(at, s), _scan_one_fallback(at, s))
      [] OTHER -> _scan_one_fallback(at, s)

TlsServers ==
    [sslyze : {"ok", "no-certificate", "unavailable"}, library : {"new", "old"}, handshake : {"ok"},
     versions : {"modern", "legacy"}, expiry : {"valid", "expired"}, issuer : {"trusted", "self"}, key : {"RSA2048"}]
    \cup [sslyze : {"ok"}, library : {"new"}, handshake : {"ok"}, versions : {"modern", "legacy-only"},
          expiry : {"valid", "expiring"}, issuer : {"untrusted", "trusted"},
          key : {"RSA1024", "EC256", "EDDSA", "MLDSA"}]
    \cup [sslyze : {"unavailable", "no-certificate"}, library : {"new"}, versions : {"modern"}, expiry : {"valid"},
          issuer : {"trusted"}, key : {"RSA2048"},
          handshake : {"CONNECTION_REFUSED", "TIMEOUT", "NOT_TLS_ON_PORT", "MTLS_REQUIRED",
                       "TLS_HANDSHAKE_FAILED", "RESET_BY_PEER", "TLS_ERROR"}]

(* ---- ssh_scanner.py --------------------------------------------------- *)

\* ssh-audit, or a banner read when it is not installed or fails.
scan_ssh_one(at, s) ==
    IF s.audit = "ok" \/ s.banner = "ok" THEN <<Blank("SSH", at)>> ELSE <<Failed("SSH", at, "exception")>>
SshServers == [audit : {"ok", "missing"}, banner : {"ok", "refused"}]

(* ---- pqc_probe.py ----------------------------------------------------- *)

\* A scanner host whose OpenSSL lacks ML-KEM writes the same marker as a
\* negotiated hybrid group.
_run_pqc_phase(at, s) ==
    CASE s.local = "mlkem" /\ s.group = "X25519MLKEM768" ->
            <<[Blank("TLS", at) EXCEPT !.tls = "TLSv1.3", !.tag = "pqc-hybrid-detected"]>>
      [] s.local # "mlkem" -> <<[Failed("ADVISORY", at, "coverage_gap") EXCEPT !.tag = "pqc-hybrid-detected"]>>
      [] OTHER -> <<>>
KexOffers == [local : {"mlkem", "too-old"}, group : {"X25519MLKEM768", "x25519"}]

(* ---- email_scanner.py -------------------------------------------------- *)

\* sslyze asks for TLS 1.2 and 1.3 only: a server with older versions alone
\* gives a row without a version.  Mail rows never hold the expiry date.
_scan_one_sslyze_email(at, m) ==
    IF m.tls = "TLSv1" THEN Blank(m.proto, at)
    ELSE [Blank(m.proto, at) EXCEPT !.tls = m.tls, !.cipher = m.cipher, !.key = m.key,
                                    !.pfs = IF m.cipher = "aead" THEN "yes" ELSE "no"]

\* A refused or silent port is a blocker; every other failure is a scan error.
_scan_one_fallback_email(at, m) ==
    CASE m.answer = "refused" -> [Blank(m.proto, at) EXCEPT !.blocker = "CONNECTION_REFUSED"]
      [] m.answer = "silent" -> [Blank(m.proto, at) EXCEPT !.blocker = "TIMEOUT"]
      [] m.answer \in {"no-starttls", "network-error"} -> Failed(m.proto, at, "exception")
      [] OTHER -> [Blank(m.proto, at) EXCEPT !.tls = m.tls, !.cipher = m.cipher, !.key = m.key,
                                             !.pfs = IF m.cipher = "aead" THEN "yes" ELSE "no"]

scan_one_email(at, m) ==
    LET row == IF m.sslyze THEN _scan_one_sslyze_email(at, m) ELSE _scan_one_fallback_email(at, m) IN
    [row EXCEPT !.tag = m.port]

MailServers ==
    [proto : {"SMTP-STARTTLS", "SMTPS"}, port : {"port25", "other"}, sslyze : BOOLEAN, answer : {"tls"},
     tls : {"TLSv1.2"}, cipher : {"aead", "rsa-kex", "3des", "aes-sha"}, key : {"RSA2048"}]
    \cup [proto : EMAIL_PROTOCOLS, port : {"other"}, sslyze : {TRUE}, answer : {"tls"}, tls : {"TLSv1"},
          cipher : {"none"}, key : {"none"}]
    \cup [proto : EMAIL_PROTOCOLS, port : {"other"}, sslyze : {FALSE}, tls : {"none"}, cipher : {"none"},
          key : {"none"}, answer : {"refused", "silent", "no-starttls", "network-error"}]

(* ---- broker_scanner.py ------------------------------------------------- *)

\* Each family decides plaintext by what the port says: Kafka by any TCP
\* connection, AMQP by any byte, Redis by a reply to PING.
_detect_kafka_plaintext(b) == b.open
_detect_amqp_plaintext(b) == b.open /\ b.talks \in {"amqp", "other"}
_detect_redis_plaintext(b) == b.open /\ b.talks = "redis"

BrokerTlsRow(at, proto, b) == [Blank(proto, at) EXCEPT !.tls = b.tls, !.cipher = b.cipher, !.key = "RSA2048"]

\* Redis reports a failed handshake, except on a port that was only named by
\* the operator.
_probe_redis_tls(at, b, mode) ==
    IF ~ b.open THEN <<>>
    ELSE IF b.tls # "none" THEN <<BrokerTlsRow(at, "REDIS-TLS", b)>>
    ELSE IF mode = "named" THEN <<>> ELSE <<Failed("REDIS-TLS", at, "exception")>>

scan_one_kafka(at, b, plaintext) ==
    IF plaintext THEN IF _detect_kafka_plaintext(b) THEN <<Blank("KAFKA-PLAIN", at)>> ELSE <<>>
    ELSE IF b.open /\ b.tls # "none" THEN <<BrokerTlsRow(at, "KAFKA-TLS", b)>> ELSE <<>>
scan_one_rabbitmq(at, b, plaintext, label) ==
    IF plaintext THEN IF _detect_amqp_plaintext(b) THEN <<Blank("AMQP-PLAIN", at)>> ELSE <<>>
    ELSE IF b.open /\ b.tls # "none" THEN <<BrokerTlsRow(at, label, b)>> ELSE <<>>
scan_one_redis(at, b, plaintext, mode) ==
    IF plaintext THEN IF _detect_redis_plaintext(b) THEN <<Blank("REDIS-PLAIN", at)>> ELSE <<>>
    ELSE _probe_redis_tls(at, b, mode)

\* A default port belongs to one family and is plain or TLS by its number; a
\* port that the operator named is probed by every family in both ways.
BrokerRows(at, b) ==
    CASE b.port = "kafka" -> scan_one_kafka(at, b, TRUE)
      [] b.port = "kafka-tls" -> scan_one_kafka(at, b, FALSE)
      [] b.port = "amqp" -> scan_one_rabbitmq(at, b, TRUE, "AMQPS")
      [] b.port \in {"AMQPS", "AMQPS/AZURE-SERVICEBUS", "HTTPS/AWS-SQS"} -> scan_one_rabbitmq(at, b, FALSE, b.port)
      [] b.port = "redis" -> scan_one_redis(at, b, TRUE, "default")
      [] b.port = "redis-tls" -> scan_one_redis(at, b, FALSE, "default")
      [] OTHER -> scan_one_kafka(at, b, TRUE) \o scan_one_kafka(at, b, FALSE)
                  \o scan_one_rabbitmq(at, b, TRUE, "AMQPS") \o scan_one_rabbitmq(at, b, FALSE, "AMQPS")
                  \o scan_one_redis(at, b, TRUE, "named") \o scan_one_redis(at, b, FALSE, "named")

\* A named target is reached when some row about it has no error.
build_unreached_target_advisories(at, b, found) ==
    IF b.port = "named" /\ (\A i \in DOMAIN found : found[i].err # "none" /\ found[i].tls = "none")
    THEN <<[Failed("ADVISORY", at, "config") EXCEPT !.tag = "broker-target-unreached"]>> ELSE <<>>

\* Reading the management interface of RabbitMQ in clear is an advisory.
MgmtAdvisories(at, b) ==
    IF b.port = "amqp" /\ b.cleartext
    THEN <<[Blank("ADVISORY", at) EXCEPT !.tag = "broker-cleartext-mgmt-api", !.sev = "HIGH"]>> ELSE <<>>

_run_broker_phase(at, b) ==
    LET found == BrokerRows(at, b) IN
    found \o MgmtAdvisories(at, b) \o build_unreached_target_advisories(at, b, found)

Brokers ==
    [port : {"kafka", "amqp", "redis", "named"}, open : BOOLEAN, talks : {"amqp", "redis", "other", "nothing"},
     tls : {"none"}, cipher : {"none"}, cleartext : BOOLEAN]
    \cup [port : {"kafka-tls", "AMQPS", "AMQPS/AZURE-SERVICEBUS", "HTTPS/AWS-SQS", "redis-tls", "named"},
          open : BOOLEAN, talks : {"nothing"}, tls : {"TLSv1.2"}, cipher : {"aead", "rsa-kex", "3des"},
          cleartext : {FALSE}]
    \cup [port : {"kafka-tls", "AMQPS", "redis-tls", "named"}, open : {TRUE}, talks : {"nothing"},
          tls : {"none", "TLSv1.3"}, cipher : {"aead"}, cleartext : {FALSE}]
=============================================================================
