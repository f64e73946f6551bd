------------------------------ MODULE Endpoints ------------------------------
(***************************************************************************)
(* The endpoint row that scanners write and that the findings evaluator,   *)
(* the evidence summary and the score read.  Fields hold the classes of    *)
(* value that those readers tell apart:                                    *)
(*   err       scan_error / scan_error_category, "none" when empty         *)
(*   blocker   tls_blocker_reason                                          *)
(*   tls       tls_version: none, TLSv1, TLSv1.2, TLSv1.3                  *)
(*   versions  tls_supported_versions: none, modern, legacy                *)
(*   cipher    cipher_suite: none, rsa-kex (a TLS_RSA_WITH_ suite), 3des,   *)
(*             aes-sha (AES128-SHA without DHE), aead; or an image package *)
(*   cert      cert_not_after: none, expired, expiring (in 30 days), soon  *)
(*             (in 90 days), valid                                         *)
(*   issuer    none, self, untrusted (chain_verified False), trusted       *)
(*   key       cert_pubkey_alg and size                                    *)
(*   tag       what service_detail says                                    *)
(***************************************************************************)
EXTENDS Naturals, Sequences, FiniteSets

BlankRow ==
    [proto |-> "none", at |-> "none", err |-> "none", blocker |-> "none", tls |-> "none",
     versions |-> "none", suites |-> "none", cipher |-> "none", pfs |-> "unknown",
     cert |-> "none", issuer |-> "none", key |-> "none", tag |-> "none", sev |-> "none"]
Blank(proto, at) == [BlankRow EXCEPT !.proto = proto, !.at = at]

\* A row that only says that the target could not be assessed.
Failed(proto, at, err) == [Blank(proto, at) EXCEPT !.err = err]

EmailStartTls == {"SMTP-STARTTLS", "IMAP-STARTTLS", "POP3-STARTTLS"}
EmailImplicit == {"SMTPS", "IMAPS", "POP3S"}
EMAIL_PROTOCOLS == EmailStartTls \cup EmailImplicit
BrokerPlain == {"KAFKA-PLAIN", "AMQP-PLAIN", "REDIS-PLAIN"}
BrokerTls == {"KAFKA-TLS", "AMQPS", "AMQPS/AZURE-SERVICEBUS", "HTTPS/AWS-SQS", "REDIS-TLS"}

\* Names that start with RSA, EC or ED, whatever the row is about.
Classical == {"RSA1024", "RSA2048", "EC192", "EC256", "EDDSA", "RSASHA1", "RSASHA256", "ECDSAP256"}

\* Serial numbers of certificates in SAML metadata: one per certificate, for
\* the keys that sign and, where a certificate is not shared, that encrypt.
SigningSerial == [RSA1024 |-> "serial-1", RSA2048 |-> "serial-2", EC256 |-> "serial-3"]
EncryptionSerial == [RSA1024 |-> "serial-4", RSA2048 |-> "serial-5", EC256 |-> "serial-6"]
Serials == {"serial-1", "serial-2", "serial-3", "serial-4", "serial-5", "serial-6"}

\* has_legacy_tls_versions_signal, shared by the evaluator and the evidence.
has_legacy_tls_versions_signal(e) == e.tls = "TLSv1" \/ e.versions = "legacy"

\* is_weak_cipher knows tokens; a TLS_RSA_WITH_AES suite holds none of them.
is_weak_cipher(c) == c \in {"3des", "SHA1"}
=============================================================================
