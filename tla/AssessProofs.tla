---------------------------- MODULE AssessProofs ----------------------------
(***************************************************************************)
(* The assessment, for every set of places and services and any number of  *)
(* probes.                                                                 *)
(*                                                                         *)
(* EstateInv says what the rows look like: each scanner writes rows that   *)
(* fit (RowFits), a port that was fingerprinted has one protocol           *)
(* (PortFits), and what was shown has been reported.  The properties       *)
(* follow for every list of such rows: the bill of materials row by row,   *)
(* the score because each step that leads to it is monotone (WorseScores). *)
(***************************************************************************)
EXTENDS Assess, FiniteSetTheorems, NaturalsInduction, SequenceTheorems, WellFoundedInduction, TLAPS

-----------------------------------------------------------------------------
(* Rows *)

Fields == DOMAIN BlankRow
IsSeq(s) == s \in Seq({s[i] : i \in DOMAIN s})

Catalogued == Classical \cup {"RS256", "HS256", "SHA1", "AES", "MLDSA", "alg-none"}

(* A serial number belongs to one certificate, and so to one key. *)
SerialFits(e) ==
    e.proto = "SAML"
    => \A key \in {"RSA1024", "RSA2048", "EC256"} :
           e.tag \in {SigningSerial[key], EncryptionSerial[key]} => e.key = key

(* What every scanner sees to: which rows hold a key, a certificate, a serial
   number, the mark of a hybrid key exchange, or the reason why TLS was
   blocked. *)
RowFits(e) ==
    /\ DOMAIN e = Fields
    /\ SerialFits(e)
    /\ e.key \in Catalogued => e.proto \notin NoAlgorithm \cup {"S3", "AZURE_BLOB"}
    /\ e.key = "ECDSAP256" => e.proto = "DNSSEC"
    /\ e.cert # "none" => e.proto \in {"TLS", "CODE_SIGNING"}
    /\ e.tag = "pqc-hybrid-detected" => e.proto \in {"TLS", "ADVISORY"}
    /\ e.blocker # "none" => e.proto = "TLS" \/ _is_unanswered_email_probe(e)

Written(rs, at, P) ==
    /\ IsSeq(rs)
    /\ \A i \in DOMAIN rs : rs[i].at = at /\ rs[i].proto \in P /\ RowFits(rs[i])

LEMMA FieldsAre ==
    Fields = {"proto", "at", "err", "blocker", "tls", "versions", "suites", "cipher", "pfs",
              "cert", "issuer", "key", "tag", "sev"}
  BY DEF Fields, BlankRow

LEMMA BlankIs ==
    ASSUME NEW p, NEW at
    PROVE  /\ DOMAIN Blank(p, at) = Fields
           /\ Blank(p, at).proto = p /\ Blank(p, at).at = at
           /\ Blank(p, at).err = "none" /\ Blank(p, at).blocker = "none"
           /\ Blank(p, at).tls = "none" /\ Blank(p, at).versions = "none"
           /\ Blank(p, at).suites = "none" /\ Blank(p, at).cipher = "none"
           /\ Blank(p, at).cert = "none" /\ Blank(p, at).issuer = "none"
           /\ Blank(p, at).key = "none" /\ Blank(p, at).tag = "none" /\ Blank(p, at).sev = "none"
  BY DEF Blank, BlankRow, Fields

LEMMA FailedIs ==
    ASSUME NEW p, NEW at, NEW err
    PROVE  /\ DOMAIN Failed(p, at, err) = Fields
           /\ Failed(p, at, err).proto = p /\ Failed(p, at, err).at = at
           /\ Failed(p, at, err).err = err /\ Failed(p, at, err).blocker = "none"
           /\ Failed(p, at, err).tls = "none"
           /\ Failed(p, at, err).cert = "none" /\ Failed(p, at, err).issuer = "none"
           /\ Failed(p, at, err).key = "none" /\ Failed(p, at, err).tag = "none"
           /\ Failed(p, at, err).sev = "none"
  BY BlankIs, FieldsAre DEF Failed

LEMMA NoneWritten == ASSUME NEW at, NEW P PROVE Written(<<>>, at, P)
  BY DEF Written, IsSeq

LEMMA OneWritten ==
    ASSUME NEW at, NEW P, NEW e, e.at = at, e.proto \in P, RowFits(e)
    PROVE  Written(<<e>>, at, P)
  BY DEF Written, IsSeq

LEMMA ShortIsSeq == IsSeq(<<>>) /\ \A e : IsSeq(<<e>>)
  BY DEF IsSeq

LEMMA FunctionIsSeq == ASSUME NEW V, NEW n \in Nat, NEW s \in [1 .. n -> V] PROVE s \in Seq(V)
  OBVIOUS

LEMMA SeqIsSeq == ASSUME NEW V, NEW s \in Seq(V) PROVE IsSeq(s)
  <1>1. Len(s) \in Nat /\ s \in [1 .. Len(s) -> V]
    OBVIOUS
  <1>2. s \in [1 .. Len(s) -> {s[i] : i \in DOMAIN s}]
    BY <1>1
  <1>3. QED
    BY <1>1, <1>2 DEF IsSeq

LEMMA IsSeqConcat ==
    ASSUME NEW r, NEW s, IsSeq(r), IsSeq(s)
    PROVE  /\ IsSeq(r \o s)
           /\ DOMAIN r = 1 .. Len(r) /\ Len(r) \in Nat /\ Len(s) \in Nat /\ DOMAIN s = 1 .. Len(s)
           /\ DOMAIN (r \o s) = 1 .. Len(r) + Len(s)
           /\ \A i \in 1 .. Len(r) : (r \o s)[i] = r[i]
           /\ \A i \in 1 .. Len(s) : (r \o s)[Len(r) + i] = s[i]
           /\ \A i \in 1 .. Len(r) + Len(s) : i > Len(r) => (r \o s)[i] = s[i - Len(r)]
           /\ Len(r \o s) = Len(r) + Len(s)
  <1> DEFINE V == {r[i] : i \in DOMAIN r} \cup {s[i] : i \in DOMAIN s}
  <1>1. r \in Seq(V) /\ s \in Seq(V)
    BY DEF IsSeq
  <1> HIDE DEF V
  <1>2. r \o s \in Seq(V) /\ Len(r \o s) = Len(r) + Len(s)
    BY <1>1
  <1>3. DOMAIN (r \o s) = 1 .. Len(r) + Len(s)
    BY <1>1, <1>2
  <1>4. IsSeq(r \o s)
    BY <1>2, SeqIsSeq
  <1>5. /\ DOMAIN r = 1 .. Len(r) /\ Len(r) \in Nat /\ Len(s) \in Nat /\ DOMAIN s = 1 .. Len(s)
    BY <1>1
  <1>6. \A i \in 1 .. Len(r) : (r \o s)[i] = r[i]
    BY <1>1
  <1>7. \A i \in 1 .. Len(s) : (r \o s)[Len(r) + i] = s[i]
    BY <1>1
  <1>8. \A i \in 1 .. Len(r) + Len(s) : i > Len(r) => (r \o s)[i] = s[i - Len(r)]
    BY <1>1, <1>5
  <1>9. QED
    BY <1>2, <1>3, <1>4, <1>5, <1>6, <1>7, <1>8, Zenon

LEMMA ConcatWritten ==
    ASSUME NEW at, NEW P, NEW r, NEW s, Written(r, at, P), Written(s, at, P)
    PROVE  Written(r \o s, at, P)
  <1>1. IsSeq(r) /\ IsSeq(s)
    BY DEF Written
  <1>2. IsSeq(r \o s)
    BY <1>1, IsSeqConcat
  <1>3. ASSUME NEW i \in DOMAIN (r \o s)
        PROVE (\E j \in DOMAIN r : (r \o s)[i] = r[j]) \/ (\E j \in DOMAIN s : (r \o s)[i] = s[j])
    <2> DEFINE m == Len(r)
               n == Len(s)
               c == r \o s
    <2>1. /\ m \in Nat /\ n \in Nat /\ DOMAIN r = 1 .. m /\ DOMAIN s = 1 .. n /\ DOMAIN c = 1 .. m + n
          /\ \A j \in 1 .. m : c[j] = r[j]
          /\ \A j \in 1 .. m + n : j > m => c[j] = s[j - m]
      BY <1>1, IsSeqConcat
    <2>2. i \in DOMAIN c
      BY <1>3
    <2> HIDE DEF m, n, c
    <2>3. CASE i <= m
      BY <2>1, <2>2, <2>3 DEF c
    <2>4. CASE i > m
      <3>1. i - m \in DOMAIN s /\ c[i] = s[i - m]
        BY <2>1, <2>2, <2>4
      <3>2. QED
        BY <3>1 DEF c
    <2>5. QED
      BY <2>1, <2>2, <2>3, <2>4
  <1>4. QED
    BY <1>2, <1>3 DEF Written

LEMMA EachWritten ==
    ASSUME NEW at, NEW P, NEW n \in Nat, NEW f, DOMAIN f = 1 .. n, f = [i \in 1 .. n |-> f[i]],
           \A i \in 1 .. n : f[i].at = at /\ f[i].proto \in P /\ RowFits(f[i])
    PROVE  Written(f, at, P)
  BY DEF Written, IsSeq

-----------------------------------------------------------------------------
(* What each scanner writes *)

LEMMA SerialsAre ==
    ASSUME NEW key \in {"RSA1024", "RSA2048", "EC256"}
    PROVE  SigningSerial[key] \in Serials /\ EncryptionSerial[key] \in Serials
  BY DEF SigningSerial, EncryptionSerial, Serials

LEMMA SerialNames == {"none", "oidc-discovery"} \cap Serials = {}
  BY DEF Serials

LEMMA NoSerial == ASSUME NEW e, e.proto # "SAML" \/ e.tag \notin Serials PROVE SerialFits(e)
  BY SerialsAre DEF SerialFits

LEMMA PlainFits ==
    ASSUME NEW e, DOMAIN e = Fields, e.key = "none", e.cert = "none", e.blocker = "none",
           e.tag # "pqc-hybrid-detected", e.proto # "SAML" \/ e.tag \notin Serials
    PROVE  RowFits(e)
  BY NoSerial DEF RowFits, Catalogued, Classical

LEMMA FailedWritten ==
    ASSUME NEW p, NEW at, NEW err, NEW P, p \in P
    PROVE  Written(<<Failed(p, at, err)>>, at, P)
  BY FailedIs, PlainFits, SerialNames, OneWritten

LEMMA InventoryWritten ==
    ASSUME NEW at, NEW s \in Ports
    PROVE  Written(InventoryRows(at, s), at, {"CLOSED", "HTTP", "UNKNOWN"} \cap {fingerprint_service(s)[2]})
  <1> DEFINE fp == fingerprint_service(s)
             e == [Blank(fp[2], at) EXCEPT !.tls = fp[3]]
  <1> HIDE DEF fp
  <1>1. CASE fp[2] = "CLOSED"
    BY <1>1, FailedWritten DEF InventoryRows, fp
  <1>2. CASE fp[2] \in {"HTTP", "UNKNOWN"}
    <2>1. DOMAIN e = Fields /\ e.key = "none" /\ e.cert = "none" /\ e.blocker = "none" /\ e.tag = "none"
          /\ e.at = at /\ e.proto = fp[2]
      BY BlankIs, FieldsAre
    <2>2. RowFits(e)
      BY <2>1, PlainFits, SerialNames
    <2>3. InventoryRows(at, s) = <<e>>
      BY <1>2 DEF InventoryRows, fp
    <2> HIDE DEF e
    <2>4. QED
      BY <1>2, <2>1, <2>2, <2>3, OneWritten DEF fp
  <1>3. CASE fp[2] \notin {"CLOSED", "HTTP", "UNKNOWN"}
    BY <1>3, NoneWritten DEF InventoryRows, fp
  <1>4. QED
    BY <1>1, <1>2, <1>3

LEMMA TlsWritten ==
    ASSUME NEW at, NEW s \in TlsServers
    PROVE  Written(<<scan_one(at, s)>>, at, {"TLS"})
  <1> DEFINE e == scan_one(at, s)
  <1>1. s.key \in {"RSA2048", "RSA1024", "EC256", "EDDSA", "MLDSA"}
    BY DEF TlsServers
  <1>2. DOMAIN _scan_one_fallback(at, s) = Fields
        /\ _scan_one_fallback(at, s).key \in {"none", "RSA2048", "RSA1024", "EC256", "EDDSA", "unknown"}
        /\ _scan_one_fallback(at, s).at = at /\ _scan_one_fallback(at, s).proto = "TLS"
        /\ _scan_one_fallback(at, s).tag = "none"
    BY <1>1, BlankIs, FailedIs, FieldsAre DEF _scan_one_fallback, WithCertificate, _pubkey_info
  <1>3. DOMAIN _scan_one_sslyze(at, s) = Fields
        /\ _scan_one_sslyze(at, s).key \in {"none", "RSA2048", "RSA1024", "EC256", "EDDSA", "unknown"}
        /\ _scan_one_sslyze(at, s).at = at /\ _scan_one_sslyze(at, s).proto = "TLS"
        /\ _scan_one_sslyze(at, s).tag = "none"
    BY <1>1, BlankIs, FieldsAre DEF _scan_one_sslyze, WithCertificate, _pubkey_info
  <1>4. DOMAIN e = Fields /\ e.key \in {"none", "RSA2048", "RSA1024", "EC256", "EDDSA", "unknown"}
        /\ e.at = at /\ e.proto = "TLS" /\ e.tag = "none"
    BY <1>2, <1>3, FieldsAre DEF scan_one, MergedWithFallback
  <1> HIDE DEF e
  <1>5. RowFits(e)
    BY <1>4, NoSerial DEF RowFits, NoAlgorithm, MOTION_PLAINTEXT_PROTOCOLS, BrokerPlain
  <1>6. QED
    BY <1>4, <1>5, OneWritten DEF e

LEMMA SshWritten ==
    ASSUME NEW at, NEW s \in SshServers
    PROVE  Written(scan_ssh_one(at, s), at, {"SSH"})
  <1>1. Written(<<Blank("SSH", at)>>, at, {"SSH"})
    BY BlankIs, PlainFits, OneWritten
  <1>2. QED
    BY <1>1, FailedWritten DEF scan_ssh_one

LEMMA PqcWritten ==
    ASSUME NEW at, NEW s \in KexOffers
    PROVE  Written(_run_pqc_phase(at, s), at, {"TLS", "ADVISORY"})
  <1> DEFINE hybrid == [Blank("TLS", at) EXCEPT !.tls = "TLSv1.3", !.tag = "pqc-hybrid-detected"]
             gap == [Failed("ADVISORY", at, "coverage_gap") EXCEPT !.tag = "pqc-hybrid-detected"]
  <1>1. Written(<<hybrid>>, at, {"TLS", "ADVISORY"})
    <2>1. DOMAIN hybrid = Fields /\ hybrid.key = "none" /\ hybrid.cert = "none" /\ hybrid.blocker = "none"
          /\ hybrid.at = at /\ hybrid.proto = "TLS"
      BY BlankIs, FieldsAre
    <2> HIDE DEF hybrid
    <2>2. RowFits(hybrid)
      BY <2>1, NoSerial DEF RowFits, Catalogued, Classical
    <2>3. QED
      BY <2>1, <2>2, OneWritten
  <1>2. Written(<<gap>>, at, {"TLS", "ADVISORY"})
    <2>1. DOMAIN gap = Fields /\ gap.key = "none" /\ gap.cert = "none" /\ gap.blocker = "none"
          /\ gap.at = at /\ gap.proto = "ADVISORY"
      BY FailedIs, FieldsAre
    <2> HIDE DEF gap
    <2>2. RowFits(gap)
      BY <2>1, NoSerial DEF RowFits, Catalogued, Classical
    <2>3. QED
      BY <2>1, <2>2, OneWritten
  <1> HIDE DEF hybrid, gap
  <1>3. _run_pqc_phase(at, s) \in {<<hybrid>>, <<gap>>, <<>>}
    BY DEF _run_pqc_phase, hybrid, gap
  <1>4. QED
    BY <1>1, <1>2, <1>3, NoneWritten

(* The protocols of applications, platforms and identity services, none of
   which is the protocol of a port. *)
ServiceProtocols ==
    {"ADVISORY", "ERROR", "JWT", "CONTAINER", "SOURCE", "BEARER_TOKEN", "OPENAPI", "REST_FUZZ",
     "AWS", "AZURE", "GCP", "RDS", "S3", "AZURE_BLOB", "KUBERNETES", "CLOUD_SQL", "POSTGRESQL", "MYSQL",
     "VAULT", "KERBEROS", "SAML", "DNSSEC", "SMIME", "ADCS", "CODE_SIGNING"}
    \cup EMAIL_PROTOCOLS \cup BrokerPlain \cup BrokerTls
FromService(rs, at) == Written(rs, at, ServiceProtocols)

(* A row without a certificate, with a tag, a severity and perhaps a key. *)
LEMMA SimpleFits ==
    ASSUME NEW p \in ServiceProtocols, NEW at, NEW e, DOMAIN e = Fields, e.proto = p, e.at = at,
           e.cert = "none", e.blocker = "none", e.tag # "pqc-hybrid-detected",
           p # "SAML" \/ e.tag \notin Serials,
           \/ e.key \notin Catalogued
           \/ e.key \in Catalogued \ {"ECDSAP256"} /\ p \notin NoAlgorithm \cup {"S3", "AZURE_BLOB"}
    PROVE  RowFits(e) /\ FromService(<<e>>, at)
  <1>1. "ECDSAP256" \in Catalogued
    BY DEF Catalogued, Classical
  <1>2. RowFits(e)
    BY <1>1, NoSerial DEF RowFits
  <1>3. QED
    BY <1>2, OneWritten DEF FromService

LEMMA NoneFromService == ASSUME NEW at PROVE FromService(<<>>, at)
  BY NoneWritten DEF FromService

LEMMA ConcatFromService ==
    ASSUME NEW at, NEW r, NEW s, FromService(r, at), FromService(s, at)
    PROVE  FromService(r \o s, at)
  BY ConcatWritten DEF FromService

LEMMA FailedFromService ==
    ASSUME NEW p \in ServiceProtocols, NEW at, NEW err
    PROVE  FromService(<<Failed(p, at, err)>>, at)
  BY FailedWritten DEF FromService

LEMMA NoKeyKnown == {"none", "NONE", "unknown", "NSEC", "DS-MISMATCH", "SHA1-DS", "GCS-SUMMARY", "alg-absent",
                     "CMEK", "Google-Managed"} \cap Catalogued = {}
  BY DEF Catalogued, Classical

LEMMA TaggedIs ==
    ASSUME NEW p, NEW at, NEW tag, NEW sev
    PROVE  /\ DOMAIN Tagged(p, at, tag, sev) = Fields
           /\ Tagged(p, at, tag, sev).proto = p /\ Tagged(p, at, tag, sev).at = at
           /\ Tagged(p, at, tag, sev).err = "none"
           /\ Tagged(p, at, tag, sev).tag = tag /\ Tagged(p, at, tag, sev).sev = sev
           /\ Tagged(p, at, tag, sev).key = "none" /\ Tagged(p, at, tag, sev).cert = "none"
           /\ Tagged(p, at, tag, sev).tls = "none" /\ Tagged(p, at, tag, sev).blocker = "none"
  BY BlankIs, FieldsAre DEF Tagged

LEMMA TaggedFits ==
    ASSUME NEW p, NEW at, NEW tag, NEW sev, tag # "pqc-hybrid-detected", p # "SAML"
    PROVE  RowFits(Tagged(p, at, tag, sev))
  BY TaggedIs, PlainFits

LEMMA TaggedFromService ==
    ASSUME NEW p \in ServiceProtocols, NEW at, NEW tag, NEW sev, tag # "pqc-hybrid-detected", p # "SAML"
    PROVE  FromService(<<Tagged(p, at, tag, sev)>>, at)
  BY TaggedIs, TaggedFits, OneWritten DEF FromService

LEMMA KeyFromService ==
    ASSUME NEW p \in ServiceProtocols, NEW at, NEW key,
           \/ key \notin Catalogued
           \/ key \in Catalogued \ {"ECDSAP256"} /\ p \notin NoAlgorithm \cup {"S3", "AZURE_BLOB"}
    PROVE  /\ FromService(<<KeyRow(p, at, key)>>, at)
           /\ DOMAIN KeyRow(p, at, key) = Fields
           /\ KeyRow(p, at, key).proto = p /\ KeyRow(p, at, key).at = at
           /\ KeyRow(p, at, key).cert = "none" /\ KeyRow(p, at, key).blocker = "none"
           /\ KeyRow(p, at, key).tag = "none" /\ KeyRow(p, at, key).key = key
           /\ KeyRow(p, at, key).err = "none"
  <1> DEFINE e == KeyRow(p, at, key)
  <1>1. /\ DOMAIN e = Fields /\ e.proto = p /\ e.at = at /\ e.cert = "none" /\ e.blocker = "none"
        /\ e.tag = "none" /\ e.key = key /\ e.err = "none"
    BY BlankIs, FieldsAre DEF KeyRow
  <1> HIDE DEF e
  <1>2. RowFits(e) /\ FromService(<<e>>, at)
    BY <1>1, SerialNames, SimpleFits
  <1>3. QED
    BY <1>1, <1>2 DEF e

(* Cloud, platforms and databases *)

LEMMA OrdinaryKeys ==
    /\ {"RSA1024", "RSA2048", "EC256", "AES", "MLDSA", "RS256", "HS256", "SHA1", "alg-none"}
         \subseteq Catalogued \ {"ECDSAP256"}
    /\ {"AWS", "AZURE", "GCP", "VAULT", "JWT", "BEARER_TOKEN", "SAML", "SMIME", "ADCS", "CODE_SIGNING",
        "DNSSEC", "REDIS-TLS", "KAFKA-TLS"} \cup EMAIL_PROTOCOLS \cup BrokerTls
         \subseteq ServiceProtocols \ (NoAlgorithm \cup {"S3", "AZURE_BLOB"})
  BY DEF Catalogued, Classical, ServiceProtocols, NoAlgorithm, MOTION_PLAINTEXT_PROTOCOLS, BrokerPlain,
         EMAIL_PROTOCOLS, EmailStartTls, EmailImplicit, BrokerTls

LEMMA ServiceNames ==
    {"ADVISORY", "ERROR", "JWT", "CONTAINER", "SOURCE", "BEARER_TOKEN", "OPENAPI", "REST_FUZZ",
     "AWS", "AZURE", "GCP", "RDS", "S3", "AZURE_BLOB", "KUBERNETES", "CLOUD_SQL", "POSTGRESQL", "MYSQL",
     "VAULT", "KERBEROS", "SAML", "DNSSEC", "SMIME", "ADCS", "CODE_SIGNING"} \subseteq ServiceProtocols
  BY DEF ServiceProtocols

OrdinaryKey == {"RSA1024", "RSA2048", "EC256", "AES", "MLDSA", "RS256", "HS256", "SHA1", "alg-none"}

LEMMA OrdinaryKeyFromService ==
    ASSUME NEW p \in {"AWS", "AZURE", "GCP", "VAULT"}, NEW at, NEW key \in OrdinaryKey
    PROVE  FromService(<<KeyRow(p, at, key)>>, at)
  <1>1. key \in Catalogued \ {"ECDSAP256"}
    BY OrdinaryKeys DEF OrdinaryKey
  <1>2. p \in ServiceProtocols /\ p \notin NoAlgorithm \cup {"S3", "AZURE_BLOB"}
    BY OrdinaryKeys
  <1>3. QED
    BY <1>1, <1>2, KeyFromService

LEMMA AwsWritten ==
    ASSUME NEW at, NEW a \in AwsAssets
    PROVE  FromService(scan_aws_targets(at, a), at)
  <1>1. CASE a.kind = "acm"
    <2>1. a.answer \in {"failed", "RSA2048", "EC256"}
      BY <1>1 DEF AwsAssets
    <2>2. scan_aws_targets(at, a) = IF a.answer = "failed" THEN <<>> ELSE <<KeyRow("AWS", at, a.answer)>>
      BY <1>1 DEF scan_aws_targets, _scan_acm
    <2>3. QED
      BY <2>1, <2>2, NoneFromService, OrdinaryKeyFromService DEF OrdinaryKey
  <1>2. CASE a.kind = "kms"
    <2>1. a.answer \in {"denied", "failed", "Disabled", "RSA2048", "AES"}
      BY <1>2 DEF AwsAssets
    <2>2. \/ scan_aws_targets(at, a) = <<>>
          \/ scan_aws_targets(at, a) = <<Failed("AWS", at, "aws-iam-denied")>>
          \/ a.answer \in {"RSA2048", "AES"} /\ scan_aws_targets(at, a) = <<KeyRow("AWS", at, a.answer)>>
      BY <1>2, <2>1 DEF scan_aws_targets, _scan_kms, _KMS_SKIP_STATES
    <2>3. QED
      BY <2>2, NoneFromService, FailedFromService, OrdinaryKeyFromService, ServiceNames DEF OrdinaryKey
  <1>3. CASE a.kind = "listener"
    <2>1. Blank("AWS", at) = Blank("AWS", at) /\ RowFits(Blank("AWS", at)) /\ FromService(<<Blank("AWS", at)>>, at)
      BY BlankIs, NoKeyKnown, OrdinaryKeys, SimpleFits
    <2>2. QED
      BY <1>3, <2>1, NoneFromService DEF scan_aws_targets, _scan_listeners
  <1>4. CASE a.kind = "rds"
    BY <1>4, NoneFromService, TaggedFromService, ServiceNames DEF scan_aws_targets, _scan_rds_encryption
  <1>5. CASE a.kind = "eks"
    <2>1. a.entries \in {<<>>, <<"secrets">>, <<"other">>, <<"secrets", "other">>}
      BY <1>5 DEF AwsAssets
    <2> DEFINE r == scan_aws_targets(at, a)
               t == Tagged("KUBERNETES", at, "unencrypted", "HIGH")
               u == Tagged("KUBERNETES", at, "encrypted", "none")
    <2>2. r = IF a.entries = <<>> THEN <<t>>
              ELSE [i \in DOMAIN a.entries |-> IF a.entries[i] = "secrets" THEN u ELSE t]
      BY <1>5 DEF scan_aws_targets, _scan_eks_encryption
    <2>0. "KUBERNETES" \in ServiceProtocols
      BY ServiceNames
    <2>3. FromService(<<t>>, at) /\ RowFits(t) /\ t.at = at /\ t.proto = "KUBERNETES"
      BY <2>0, TaggedFromService, TaggedFits, TaggedIs
    <2>6. RowFits(u) /\ u.at = at /\ u.proto = "KUBERNETES"
      BY TaggedFits, TaggedIs
    <2> HIDE DEF t, u, r
    <2>4. CASE a.entries # <<>>
      <3>1. DOMAIN a.entries = 1 .. Len(a.entries) /\ Len(a.entries) \in Nat
        <4>1. a.entries \in Seq({"secrets", "other"})
          <5>1. /\ <<>> \in Seq({"secrets", "other"}) /\ <<"secrets">> \in Seq({"secrets", "other"})
                /\ <<"other">> \in Seq({"secrets", "other"})
            OBVIOUS
          <5>2. <<"secrets", "other">> \in Seq({"secrets", "other"})
            OBVIOUS
          <5>3. QED
            BY <2>1, <5>1, <5>2
        <4>2. QED
          BY <4>1
      <3> DEFINE n == Len(a.entries)
      <3> HIDE DEF n
      <3>5. DOMAIN a.entries = 1 .. n /\ n \in Nat
        BY <3>1 DEF n
      <3>2. r = [i \in 1 .. n |-> IF a.entries[i] = "secrets" THEN u ELSE t]
        BY <2>2, <2>4, <3>5
      <3>3. DOMAIN r = 1 .. n /\ r = [i \in 1 .. n |-> r[i]] /\ \A i \in 1 .. n : r[i] \in {u, t}
        BY <3>2
      <3>4. QED
        <4>1. \A i \in 1 .. n : r[i].at = at /\ r[i].proto \in ServiceProtocols /\ RowFits(r[i])
          BY <2>0, <2>3, <2>6, <3>3
        <4>2. QED
          BY <3>3, <3>5, <4>1, EachWritten DEF FromService, r
    <2>5. QED
      BY <2>2, <2>3, <2>4 DEF r
  <1>6. CASE a.kind \notin {"acm", "kms", "listener", "rds", "eks"}
    <2>1. a.answer # "pqc-hybrid-detected"
      BY <1>6 DEF AwsAssets
    <2>2. QED
      BY <1>6, <2>1, NoneFromService, TaggedFromService, ServiceNames DEF scan_aws_targets, _scan_s3_encryption
  <1>7. QED
    BY <1>1, <1>2, <1>3, <1>4, <1>5, <1>6

LEMMA AzureWritten ==
    ASSUME NEW at, NEW a \in AzureAssets
    PROVE  FromService(scan_azure_targets(at, a), at)
  <1>1. CASE a.kind = "key"
    <2>1. a.answer \in {"failed", "RSA2048", "EC256"}
      BY <1>1 DEF AzureAssets
    <2>2. scan_azure_targets(at, a) = IF a.answer = "failed" THEN <<>> ELSE <<KeyRow("AZURE", at, a.answer)>>
      BY <1>1 DEF scan_azure_targets, _scan_keyvault_keys
    <2>3. QED
      BY <2>1, <2>2, NoneFromService, OrdinaryKeyFromService DEF OrdinaryKey
  <1>2. CASE a.kind = "gateway"
    <2>1. FromService(<<Blank("AZURE", at)>>, at)
      BY BlankIs, NoKeyKnown, OrdinaryKeys, SimpleFits
    <2>2. QED
      BY <1>2, <2>1, NoneFromService DEF scan_azure_targets, _scan_app_gateways
  <1>3. CASE a.kind \notin {"key", "gateway"}
    <2>1. a.containers \in 0 .. 2
      BY <1>3 DEF AzureAssets
    <2> DEFINE r == scan_azure_targets(at, a)
    <2>2. \/ r = <<>>
          \/ \E tag \in {"cmk", "platform-managed", "unknown"}, sev \in {"none", "MEDIUM"} :
                r = [i \in 1 .. a.containers |-> Tagged("AZURE_BLOB", at, tag, sev)]
      BY <1>3 DEF scan_azure_targets, _scan_blob_encryption
    <2> HIDE DEF r
    <2>3. ASSUME NEW tag \in {"cmk", "platform-managed", "unknown"}, NEW sev \in {"none", "MEDIUM"},
                 r = [i \in 1 .. a.containers |-> Tagged("AZURE_BLOB", at, tag, sev)]
          PROVE  FromService(r, at)
      <3> DEFINE t == Tagged("AZURE_BLOB", at, tag, sev)
      <3>0. "AZURE_BLOB" \in ServiceProtocols
        BY ServiceNames
      <3>1. RowFits(t) /\ t.at = at /\ t.proto \in ServiceProtocols
        BY <3>0, TaggedFits, TaggedIs
      <3>2. r = [i \in 1 .. a.containers |-> t]
        BY <2>3
      <3> HIDE DEF t
      <3>3. DOMAIN r = 1 .. a.containers /\ r = [i \in 1 .. a.containers |-> r[i]]
            /\ \A i \in 1 .. a.containers : r[i] = t
        BY <3>2
      <3>4. QED
        <4>1. \A i \in 1 .. a.containers : r[i].at = at /\ r[i].proto \in ServiceProtocols /\ RowFits(r[i])
          BY <3>1, <3>3
        <4>2. a.containers \in Nat
          BY <2>1
        <4> DEFINE n == a.containers
        <4> HIDE DEF n
        <4>3. n \in Nat /\ DOMAIN r = 1 .. n /\ r = [i \in 1 .. n |-> r[i]]
          BY <3>3, <4>2 DEF n
        <4>4. \A i \in 1 .. n : r[i].at = at /\ r[i].proto \in ServiceProtocols /\ RowFits(r[i])
          BY <4>1 DEF n
        <4>5. QED
          BY <4>3, <4>4, EachWritten DEF FromService
    <2>4. QED
      BY <2>2, <2>3, NoneFromService DEF r
  <1>4. QED
    BY <1>1, <1>2, <1>3

LEMMA GcpWritten ==
    ASSUME NEW at, NEW a \in GcpAssets
    PROVE  FromService(scan_gcp_targets(at, a), at)
  <1>1. CASE ~ a.credentials
    BY <1>1, FailedFromService, ServiceNames DEF scan_gcp_targets
  <1>2. CASE a.credentials /\ a.kind = "kms"
    <2>1. a.answer \in {"denied", "failed", "too-many-pages", "not-enabled", "unspecified", "RSA2048", "MLDSA"}
      BY <1>2 DEF GcpAssets
    <2>2. \/ scan_gcp_targets(at, a) = <<>>
          \/ scan_gcp_targets(at, a) = <<Failed("GCP", at, "gcp-iam-denied")>>
          \/ a.answer \in {"RSA2048", "MLDSA"} /\ scan_gcp_targets(at, a) = <<KeyRow("GCP", at, a.answer)>>
      BY <1>2, <2>1 DEF scan_gcp_targets, ScanGcpKms, GcpDenied
    <2>3. QED
      BY <2>2, NoneFromService, FailedFromService, OrdinaryKeyFromService, ServiceNames DEF OrdinaryKey
  <1>3. CASE a.credentials /\ a.kind = "sql"
    BY <1>3, NoneFromService, FailedFromService, TaggedFromService, ServiceNames
       DEF scan_gcp_targets, _scan_cloud_sql, GcpDenied
  <1>4. CASE a.credentials /\ a.kind \notin {"kms", "sql"}
    <2>1. a.answer \in {"denied", "failed", "CMEK", "Google-Managed"}
      BY <1>4 DEF GcpAssets
    <2>2. \/ scan_gcp_targets(at, a) = <<>>
          \/ scan_gcp_targets(at, a) = <<Failed("GCP", at, "gcp-iam-denied")>>
          \/ scan_gcp_targets(at, a) = <<KeyRow("GCP", at, "GCS-SUMMARY")>> \o <<KeyRow("GCP", at, "CMEK")>>
          \/ scan_gcp_targets(at, a) = <<KeyRow("GCP", at, "GCS-SUMMARY")>> \o <<KeyRow("GCP", at, "Google-Managed")>>
      BY <1>4, <2>1 DEF scan_gcp_targets, _scan_gcs, GcpDenied
    <2>3. FromService(<<KeyRow("GCP", at, "GCS-SUMMARY")>>, at)
          /\ FromService(<<KeyRow("GCP", at, "CMEK")>>, at)
          /\ FromService(<<KeyRow("GCP", at, "Google-Managed")>>, at)
      BY KeyFromService, NoKeyKnown, ServiceNames
    <2>4. FromService(<<Failed("GCP", at, "gcp-iam-denied")>>, at)
      BY FailedFromService, ServiceNames
    <2> DEFINE r1 == <<KeyRow("GCP", at, "GCS-SUMMARY")>>
               r2 == <<KeyRow("GCP", at, "CMEK")>>
               r3 == <<KeyRow("GCP", at, "Google-Managed")>>
    <2> HIDE DEF r1, r2, r3
    <2>5. FromService(r1 \o r2, at) /\ FromService(r1 \o r3, at)
      BY <2>3, ConcatFromService DEF r1, r2, r3
    <2>6. QED
      BY <2>2, <2>4, <2>5, NoneFromService DEF r1, r2, r3
  <1>5. QED
    BY <1>1, <1>2, <1>3, <1>4

LEMMA KubernetesWritten ==
    ASSUME NEW at, NEW c \in Clusters
    PROVE  FromService(scan_k8s_targets(at, c), at)
  <1> DEFINE inaccessible == _emit_inaccessible_finding(at)
             secrets == _enumerate_secret_types(at, c.secrets)
             gke == _scan_gke_encryption(at, c.answer)
             aks == _scan_aks_encryption(at, c.answer)
             first == IF c.answer = "no-credential" THEN inaccessible
                      ELSE IF c.provider = "gke" THEN gke
                      ELSE IF c.provider = "aks" THEN aks ELSE <<>>
  <1>1. FromService(inaccessible, at)
    BY FailedFromService, ServiceNames DEF _emit_inaccessible_finding
  <1>2. FromService(secrets, at)
    BY FailedFromService, TaggedFromService, NoneFromService, ServiceNames DEF _enumerate_secret_types
  <1>3. FromService(gke, at)
    BY TaggedFromService, NoneFromService, ServiceNames DEF _scan_gke_encryption
  <1>4. FromService(aks, at)
    BY TaggedFromService, NoneFromService, ServiceNames DEF _scan_aks_encryption
  <1>5. scan_k8s_targets(at, c) \in {inaccessible, first \o secrets}
    BY DEF scan_k8s_targets
  <1> HIDE DEF inaccessible, secrets, gke, aks
  <1>6. FromService(first, at)
    BY <1>1, <1>3, <1>4, NoneFromService
  <1> HIDE DEF first
  <1>7. FromService(first \o secrets, at)
    BY <1>2, <1>6, ConcatFromService
  <1>8. QED
    BY <1>1, <1>5, <1>7

LEMMA DatabaseWritten ==
    ASSUME NEW at, NEW d \in Databases
    PROVE  FromService(scan_db_target(at, d), at)
  <1> DEFINE e == [Failed("POSTGRESQL", at, "insufficient-privilege") EXCEPT !.sev = "INFO"]
  <1>1. DOMAIN e = Fields /\ e.proto = "POSTGRESQL" /\ e.at = at /\ e.cert = "none" /\ e.blocker = "none"
        /\ e.tag = "none" /\ e.key = "none"
    BY FailedIs, FieldsAre
  <1> HIDE DEF e
  <1>2. FromService(<<e>>, at)
    BY <1>1, NoKeyKnown, SimpleFits, ServiceNames
  <1>3. FromService(scan_pg_target(at, d), at)
    BY <1>2, FailedFromService, TaggedFromService, ServiceNames DEF scan_pg_target, e
  <1>4. FromService(scan_mysql_target(at, d), at)
    BY FailedFromService, TaggedFromService, ServiceNames DEF scan_mysql_target
  <1>5. QED
    BY <1>3, <1>4 DEF scan_db_target

LEMMA VaultParts ==
    ASSUME NEW at, NEW v \in Vaults, v.login = "ok"
    PROVE  /\ FromService(_scan_transit_keys(at, v), at) /\ FromService(_scan_pki_mounts(at, v), at)
           /\ FromService(_scan_auth_methods(at, v), at)
  <1>1. /\ v.transit \in {"failed", "RSA2048", "AES"} /\ v.auth \in {"token", "userpass", "approle"}
        /\ v.pki \in {<<>>, <<[key |-> "RSA2048", hash |-> "SHA256"]>>,
                      <<[key |-> "EC256", hash |-> "SHA1"], [key |-> "EC256", hash |-> "SHA256"]>>}
    BY DEF Vaults
  <1>2. FromService(_scan_transit_keys(at, v), at)
    <2> DEFINE e == [KeyRow("VAULT", at, v.transit) EXCEPT !.sev = IF v.exportable THEN "MEDIUM" ELSE "none"]
    <2>1. "VAULT" \in ServiceProtocols /\ "VAULT" \notin NoAlgorithm \cup {"S3", "AZURE_BLOB"}
      BY OrdinaryKeys
    <2>2. v.transit # "failed" => v.transit \in Catalogued \ {"ECDSAP256"}
      BY <1>1, OrdinaryKeys
    <2>3. DOMAIN e = Fields /\ e.proto = "VAULT" /\ e.at = at /\ e.cert = "none" /\ e.blocker = "none"
          /\ e.tag = "none" /\ e.key = v.transit
      BY BlankIs, FieldsAre DEF KeyRow
    <2> HIDE DEF e
    <2>4. v.transit # "failed" => FromService(<<e>>, at)
      BY <2>1, <2>2, <2>3, SimpleFits
    <2>5. QED
      BY <2>4, NoneFromService DEF _scan_transit_keys, e
  <1>3. FromService(_scan_pki_mounts(at, v), at)
    <2> DEFINE r == _scan_pki_mounts(at, v)
    <2>1. /\ DOMAIN v.pki = 1 .. Len(v.pki) /\ Len(v.pki) \in Nat
          /\ \A i \in 1 .. Len(v.pki) : v.pki[i].key \in {"RSA2048", "EC256"}
      BY <1>1
    <2> DEFINE n == Len(v.pki)
               E(i) == [KeyRow("VAULT", at, v.pki[i].key) EXCEPT !.sev = _classify_pki_cert(v.pki[i])]
    <2>2. r = [i \in 1 .. n |-> E(i)]
      BY <2>1 DEF _scan_pki_mounts
    <2>3. ASSUME NEW i \in 1 .. n
          PROVE  E(i).at = at /\ E(i).proto \in ServiceProtocols /\ RowFits(E(i))
      <3> DEFINE e == E(i)
      <3>1. DOMAIN e = Fields /\ e.proto = "VAULT" /\ e.at = at /\ e.cert = "none" /\ e.blocker = "none"
            /\ e.tag = "none" /\ e.key = v.pki[i].key
        BY BlankIs, FieldsAre DEF KeyRow
      <3>2. "VAULT" \in ServiceProtocols /\ "VAULT" \notin NoAlgorithm \cup {"S3", "AZURE_BLOB"}
        BY OrdinaryKeys
      <3>3. e.key \in Catalogued \ {"ECDSAP256"}
        BY <2>1, <3>1, OrdinaryKeys
      <3> HIDE DEF e
      <3>4. e.at = at /\ e.proto \in ServiceProtocols /\ RowFits(e)
        BY <3>1, <3>2, <3>3, SimpleFits
      <3>5. QED
        BY <3>4 DEF e
    <2> HIDE DEF r, E
    <2>4. DOMAIN r = 1 .. n /\ r = [i \in 1 .. n |-> r[i]]
          /\ \A i \in 1 .. n : r[i].at = at /\ r[i].proto \in ServiceProtocols /\ RowFits(r[i])
      BY <2>2, <2>3
    <2>5. n \in Nat
      BY <2>1
    <2> HIDE DEF n
    <2>6. QED
      BY <2>4, <2>5, EachWritten DEF FromService, r
  <1>4. FromService(_scan_auth_methods(at, v), at)
    <2>1. v.auth # "pqc-hybrid-detected"
      BY <1>1
    <2>2. QED
      BY <2>1, NoneFromService, TaggedFromService, ServiceNames DEF _scan_auth_methods
  <1>5. QED
    BY <1>2, <1>3, <1>4

LEMMA VaultWritten ==
    ASSUME NEW at, NEW v \in Vaults
    PROVE  FromService(scan_vault_targets(at, v), at)
  <1>1. CASE v.login # "ok"
    BY <1>1, FailedFromService, ServiceNames DEF scan_vault_targets
  <1>2. CASE v.login = "ok"
    <2>1. scan_vault_targets(at, v)
            = _scan_transit_keys(at, v) \o _scan_pki_mounts(at, v) \o _scan_auth_methods(at, v)
      BY <1>2 DEF scan_vault_targets
    <2>2. QED
      BY <1>2, <2>1, VaultParts, ConcatFromService
  <1>3. QED
    BY <1>1, <1>2

(* Identity *)

LEMMA KerberosRowIs ==
    ASSUME NEW at, NEW tag
    PROVE  /\ DOMAIN KerberosRow(at, tag) = Fields
           /\ KerberosRow(at, tag).proto = "KERBEROS" /\ KerberosRow(at, tag).at = at
           /\ KerberosRow(at, tag).tag = tag /\ KerberosRow(at, tag).key = "none"
           /\ KerberosRow(at, tag).cert = "none" /\ KerberosRow(at, tag).blocker = "none"
           /\ KerberosRow(at, tag).err = "none" /\ KerberosRow(at, tag).tls = "none"
  BY BlankIs, FieldsAre DEF KerberosRow

LEMMA KerberosRowFromService ==
    ASSUME NEW at, NEW tag, tag # "pqc-hybrid-detected"
    PROVE  FromService(<<KerberosRow(at, tag)>>, at) /\ FromService(<<KerberosError(at, tag)>>, at)
  <1>1. "KERBEROS" \in ServiceProtocols
    BY ServiceNames
  <1>2. FromService(<<KerberosRow(at, tag)>>, at)
    BY <1>1, KerberosRowIs, NoKeyKnown, SimpleFits
  <1> DEFINE e == KerberosError(at, tag)
  <1>3. DOMAIN e = Fields /\ e.proto = "KERBEROS" /\ e.at = at /\ e.cert = "none" /\ e.blocker = "none"
        /\ e.tag = tag /\ e.key = "none"
    BY KerberosRowIs, FieldsAre DEF KerberosError
  <1> HIDE DEF e
  <1>4. FromService(<<e>>, at)
    BY <1>1, <1>3, NoKeyKnown, SimpleFits
  <1>5. QED
    BY <1>2, <1>4 DEF e

LEMMA EtypeRowIs ==
    ASSUME NEW at, NEW etype
    PROVE  /\ DOMAIN EtypeRow(at, etype) = Fields /\ EtypeRow(at, etype).proto = "KERBEROS"
           /\ EtypeRow(at, etype).at = at /\ EtypeRow(at, etype).cert = "none"
           /\ EtypeRow(at, etype).blocker = "none" /\ EtypeRow(at, etype).tag = "etype"
           /\ EtypeRow(at, etype).key = "none" /\ EtypeRow(at, etype).sev = KERBEROS_ETYPE_MAP[etype]
  BY KerberosRowIs, FieldsAre DEF EtypeRow

LEMMA KdcTyped ==
    ASSUME NEW k \in Kdcs
    PROVE  /\ DOMAIN k.etypes = 1 .. Len(k.etypes) /\ Len(k.etypes) \in Nat
           /\ \A i \in DOMAIN k.etypes : k.etypes[i] \in DOMAIN KERBEROS_ETYPE_MAP
           /\ k.valid \in BOOLEAN /\ k.timeLeft \in BOOLEAN
           /\ k.tcp \in KdcTcpReplies /\ k.retry \in KdcTcpReplies /\ k.udp \in KdcUdpReplies
  <1>1. k.etypes \in {<<"aes256">>, <<"aes256", "rc4">>, <<"des">>}
    BY DEF Kdcs, EtypeReplies
  <1>2. {"aes256", "rc4", "des"} \subseteq DOMAIN KERBEROS_ETYPE_MAP
    BY DEF KERBEROS_ETYPE_MAP
  <1>3. \A i \in DOMAIN k.etypes : k.etypes[i] \in {"aes256", "rc4", "des"}
    BY <1>1
  <1>4. DOMAIN k.etypes = 1 .. Len(k.etypes) /\ Len(k.etypes) \in Nat
    BY <1>1
  <1>5. k.valid \in BOOLEAN /\ k.timeLeft \in BOOLEAN
    BY DEF Kdcs
  <1>6. k.tcp \in KdcTcpReplies /\ k.retry \in KdcTcpReplies /\ k.udp \in KdcUdpReplies
    BY DEF Kdcs, KdcTcpReplies, KdcUdpReplies, Replies
  <1>7. QED
    BY <1>2, <1>3, <1>4, <1>5, <1>6

LEMMA ReplyWritten ==
    ASSUME NEW at, NEW k \in Kdcs, NEW reply
    PROVE  FromService(ReplyRows(at, reply, k.etypes), at)
  <1>1. CASE reply = "etypes"
    <2> DEFINE r == ReplyRows(at, reply, k.etypes)
               n == Len(k.etypes)
    <2>1. r = [i \in 1 .. n |-> EtypeRow(at, k.etypes[i])] /\ n \in Nat
      BY <1>1, KdcTyped DEF ReplyRows
    <2>2. ASSUME NEW i \in 1 .. n
          PROVE  /\ EtypeRow(at, k.etypes[i]).at = at /\ EtypeRow(at, k.etypes[i]).proto \in ServiceProtocols
                 /\ RowFits(EtypeRow(at, k.etypes[i]))
      BY EtypeRowIs, PlainFits, ServiceNames
    <2> HIDE DEF r, n
    <2>3. DOMAIN r = 1 .. n /\ r = [i \in 1 .. n |-> r[i]]
          /\ \A i \in 1 .. n : r[i].at = at /\ r[i].proto \in ServiceProtocols /\ RowFits(r[i])
      BY <2>1, <2>2
    <2>4. QED
      BY <2>1, <2>3, EachWritten DEF FromService, r
  <1>2. CASE reply # "etypes"
    BY <1>2, KerberosRowFromService DEF ReplyRows
  <1>3. QED
    BY <1>1, <1>2

LEMMA KerberosWritten ==
    ASSUME NEW at, NEW k \in Kdcs
    PROVE  FromService(scan_kerberos_target(at, k), at)
  BY ReplyWritten, FailedFromService, KerberosRowFromService, ServiceNames DEF scan_kerberos_target

LEMMA SamlCertRowIs ==
    ASSUME NEW at, NEW key, NEW serial
    PROVE  /\ DOMAIN SamlCertRow(at, key, serial) = Fields
           /\ SamlCertRow(at, key, serial).proto = "SAML" /\ SamlCertRow(at, key, serial).at = at
           /\ SamlCertRow(at, key, serial).tag = serial /\ SamlCertRow(at, key, serial).key = key
           /\ SamlCertRow(at, key, serial).cert = "none" /\ SamlCertRow(at, key, serial).blocker = "none"
           /\ SamlCertRow(at, key, serial).err = "none"
  BY BlankIs, FieldsAre DEF SamlCertRow

LEMMA SerialNamesKey ==
    ASSUME NEW a \in {"RSA1024", "RSA2048", "EC256"}, NEW b \in {"RSA1024", "RSA2048", "EC256"},
           {SigningSerial[a], EncryptionSerial[a]} \cap {SigningSerial[b], EncryptionSerial[b]} # {}
    PROVE  a = b
  BY DEF SigningSerial, EncryptionSerial

LEMMA SamlCertWritten ==
    ASSUME NEW at, NEW key \in {"RSA1024", "RSA2048", "EC256"},
           NEW serial \in {SigningSerial[key], EncryptionSerial[key]}
    PROVE  FromService(<<SamlCertRow(at, key, serial)>>, at)
  <1>1. key \in Catalogued \ {"ECDSAP256"}
    BY OrdinaryKeys
  <1>2. "SAML" \in ServiceProtocols /\ "SAML" \notin NoAlgorithm \cup {"S3", "AZURE_BLOB"}
    BY OrdinaryKeys
  <1>3. serial # "pqc-hybrid-detected"
    BY SerialsAre DEF Serials
  <1> DEFINE e == SamlCertRow(at, key, serial)
  <1>4. /\ DOMAIN e = Fields /\ e.proto = "SAML" /\ e.at = at /\ e.tag = serial /\ e.key = key
        /\ e.cert = "none" /\ e.blocker = "none"
    BY SamlCertRowIs
  <1> HIDE DEF e
  <1>5. SerialFits(e)
    BY <1>4, SerialNamesKey DEF SerialFits
  <1>6. RowFits(e)
    BY <1>1, <1>2, <1>3, <1>4, <1>5 DEF RowFits
  <1>7. FromService(<<e>>, at)
    BY <1>2, <1>4, <1>6, OneWritten DEF FromService
  <1>8. QED
    BY <1>7 DEF e

LEMMA IdpTyped ==
    ASSUME NEW i \in Idps
    PROVE  /\ i.fetch = "ok" /\ i.doc = "saml" =>
                /\ i.signing \in {"RSA1024", "RSA2048", "EC256"}
                /\ i.encryption \in {"none", "RSA1024", "RSA2048", "EC256"}
                /\ i.shared => i.encryption = i.signing
                /\ i.sha1 \in BOOLEAN /\ i.shared \in BOOLEAN /\ i.internal = FALSE
           /\ i.internal \in BOOLEAN
  BY DEF Idps

LEMMA SamlWritten ==
    ASSUME NEW at, NEW idp \in Idps
    PROVE  FromService(scan_saml_target(at, idp), at)
  <1>0. "SAML" \in ServiceProtocols /\ "SAML" \notin NoAlgorithm \cup {"S3", "AZURE_BLOB"}
    BY OrdinaryKeys
  <1>1. FromService(_parse_oidc_discovery(at, idp), at)
    <2> DEFINE e == [Blank("SAML", at) EXCEPT !.key = "RS256", !.sev = "HIGH", !.tag = "oidc-discovery"]
    <2>1. DOMAIN e = Fields /\ e.proto = "SAML" /\ e.at = at /\ e.cert = "none" /\ e.blocker = "none"
          /\ e.tag = "oidc-discovery" /\ e.key = "RS256"
      BY BlankIs, FieldsAre
    <2>2. e.key \in Catalogued \ {"ECDSAP256"}
      BY <2>1, OrdinaryKeys
    <2> HIDE DEF e
    <2>3. FromService(<<e>>, at)
      BY <1>0, <2>1, <2>2, SerialNames, SimpleFits
    <2>4. QED
      BY <2>3, NoneFromService DEF _parse_oidc_discovery, e
  <1>2. ASSUME idp.fetch = "ok", idp.doc = "saml"
        PROVE  FromService(_parse_saml_metadata(at, idp), at)
    <2> DEFINE a == IF idp.signing = "none" THEN <<>>
                    ELSE <<SamlCertRow(at, idp.signing, SigningSerial[idp.signing])>>
               serial == IF idp.shared THEN SigningSerial[idp.signing] ELSE EncryptionSerial[idp.encryption]
               b == IF idp.encryption = "none" THEN <<>> ELSE <<SamlCertRow(at, idp.encryption, serial)>>
               e == [Blank("SAML", at) EXCEPT !.key = "SHA1"]
               c == IF idp.sha1 THEN <<e>> ELSE <<>>
    <2>1. FromService(a, at)
      BY <1>2, IdpTyped, SerialsAre, SamlCertWritten, NoneFromService
    <2>2. idp.encryption # "none" => serial \in {SigningSerial[idp.encryption], EncryptionSerial[idp.encryption]}
      BY <1>2, IdpTyped
    <2> HIDE DEF serial
    <2>3. FromService(b, at)
      BY <1>2, <2>2, IdpTyped, SamlCertWritten, NoneFromService
    <2>4. DOMAIN e = Fields /\ e.proto = "SAML" /\ e.at = at /\ e.cert = "none" /\ e.blocker = "none"
          /\ e.tag = "none" /\ e.key = "SHA1"
      BY BlankIs, FieldsAre
    <2>5. e.key \in Catalogued \ {"ECDSAP256"}
      BY <2>4, OrdinaryKeys
    <2> HIDE DEF e
    <2>6. FromService(c, at)
      BY <1>0, <2>4, <2>5, SerialNames, SimpleFits, NoneFromService
    <2>7. _parse_saml_metadata(at, idp) = a \o b \o c
      BY DEF _parse_saml_metadata, e, serial
    <2> HIDE DEF a, b, c
    <2>8. QED
      BY <2>1, <2>3, <2>6, <2>7, ConcatFromService
  <1> DEFINE adv == [Blank("ADVISORY", at) EXCEPT !.tag = "internal-target-fetched", !.sev = "HIGH"]
             head == IF idp.internal THEN <<adv>> ELSE <<>>
             tail == CASE idp.doc = "oidc" -> _parse_oidc_discovery(at, idp)
                       [] idp.doc = "saml" -> _parse_saml_metadata(at, idp)
                       [] OTHER -> <<>>
  <1>3. FromService(head, at)
    <2>1. DOMAIN adv = Fields /\ adv.proto = "ADVISORY" /\ adv.at = at /\ adv.cert = "none" /\ adv.blocker = "none"
          /\ adv.tag = "internal-target-fetched" /\ adv.key = "none"
      BY BlankIs, FieldsAre
    <2> HIDE DEF adv
    <2>2. FromService(<<adv>>, at)
      BY <2>1, NoKeyKnown, SimpleFits, ServiceNames
    <2>3. QED
      BY <2>2, NoneFromService
  <1>4. CASE idp.fetch = "ok"
    <2>1. FromService(tail, at)
      BY <1>1, <1>2, <1>4, NoneFromService
    <2>2. scan_saml_target(at, idp) = head \o tail
      BY <1>4 DEF scan_saml_target
    <2> HIDE DEF head, tail
    <2>3. QED
      BY <1>3, <2>1, <2>2, ConcatFromService
  <1>5. QED
    BY <1>4, NoneFromService DEF scan_saml_target

LEMMA DnssecWritten ==
    ASSUME NEW at, NEW z \in Zones
    PROVE  FromService(_scan_domain(at, z), at)
  <1>0. "DNSSEC" \in ServiceProtocols /\ "DNSSEC" \notin NoAlgorithm \cup {"S3", "AZURE_BLOB"}
    BY OrdinaryKeys
  <1>1. ASSUME NEW key, NEW tag, tag # "pqc-hybrid-detected"
        PROVE  FromService(<<DnssecRow(at, key, tag)>>, at)
    <2> DEFINE e == DnssecRow(at, key, tag)
    <2>1. DOMAIN e = Fields /\ e.proto = "DNSSEC" /\ e.at = at /\ e.cert = "none" /\ e.blocker = "none"
          /\ e.tag = tag /\ e.key = key
      BY BlankIs, FieldsAre DEF DnssecRow
    <2> HIDE DEF e
    <2>2. RowFits(e)
      BY <1>0, <1>1, <2>1, NoSerial DEF RowFits
    <2>3. QED
      BY <1>0, <2>1, <2>2, OneWritten DEF FromService, e
  <1> DEFINE a == <<DnssecRow(at, z.dnskey, "dnskey")>>
             b == IF z.nsec THEN <<DnssecRow(at, "NSEC", "nsec-exposure")>> ELSE <<>>
             c == IF z.ds = "mismatch" THEN <<DnssecRow(at, "DS-MISMATCH", "ds-chain-broken")>> ELSE <<>>
             d == IF z.ds = "sha1" THEN <<DnssecRow(at, "SHA1-DS", "sha1-ds-digest")>> ELSE <<>>
             none == <<DnssecRow(at, "NONE", "unsigned-zone")>>
  <1>2. FromService(a, at) /\ FromService(b, at) /\ FromService(c, at) /\ FromService(d, at)
        /\ FromService(none, at)
    BY <1>1, NoneFromService
  <1>3. _scan_domain(at, z) \in {<<>>, none, a \o b \o c \o d}
    BY DEF _scan_domain
  <1> HIDE DEF a, b, c, d, none
  <1>4. FromService(a \o b \o c, at)
    BY <1>2, ConcatFromService
  <1>5. FromService(a \o b \o c \o d, at)
    BY <1>2, <1>4, ConcatFromService
  <1>6. QED
    BY <1>2, <1>3, <1>5, NoneFromService

LEMMA CertificateTyped ==
    ASSUME NEW c \in Certificates
    PROVE  c.key \in {"RSA1024", "RSA2048", "EC256"} /\ c.hash \in {"SHA1", "SHA256"}
           /\ c.expiry \in {"valid", "soon", "expiring", "expired"}
  BY DEF Certificates

LEMMA DirectoryTyped ==
    ASSUME NEW d \in Directories
    PROVE  d.cert \in Certificates
  BY DEF Directories, Certificates

LEMMA UnreachableWritten ==
    ASSUME NEW p \in ServiceProtocols, NEW at, NEW tag, tag # "pqc-hybrid-detected", p # "SAML"
    PROVE  FromService(<<[Failed(p, at, "exception") EXCEPT !.tag = tag]>>, at)
  <1> DEFINE e == [Failed(p, at, "exception") EXCEPT !.tag = tag]
  <1>1. DOMAIN e = Fields /\ e.proto = p /\ e.at = at /\ e.cert = "none" /\ e.blocker = "none"
        /\ e.tag = tag /\ e.key = "none"
    BY FailedIs, FieldsAre
  <1> HIDE DEF e
  <1>2. FromService(<<e>>, at)
    BY <1>1, NoKeyKnown, SimpleFits
  <1>3. QED
    BY <1>2 DEF e

LEMMA SmimeRowIs ==
    ASSUME NEW at, NEW c
    PROVE  /\ DOMAIN SmimeRow(at, c) = Fields /\ SmimeRow(at, c).proto = "SMIME" /\ SmimeRow(at, c).at = at
           /\ SmimeRow(at, c).cert = "none" /\ SmimeRow(at, c).blocker = "none"
           /\ SmimeRow(at, c).key = c.key /\ SmimeRow(at, c).suites = c.hash
           /\ SmimeRow(at, c).tag = IF c.expiry = "expired" THEN "expired" ELSE "none"
  BY BlankIs, FieldsAre DEF SmimeRow

LEMMA SmimeWritten ==
    ASSUME NEW at, NEW d \in Directories
    PROVE  FromService(scan_smime_target(at, d), at)
  <1>1. "SMIME" \in ServiceProtocols /\ "SMIME" \notin NoAlgorithm \cup {"S3", "AZURE_BLOB"}
    BY OrdinaryKeys
  <1>2. d.cert.key \in Catalogued \ {"ECDSAP256"}
    BY DirectoryTyped, CertificateTyped, OrdinaryKeys
  <1>3. FromService(<<SmimeRow(at, d.cert)>>, at)
    BY <1>1, <1>2, SmimeRowIs, SimpleFits
  <1>4. QED
    BY <1>1, <1>3, NoneFromService, UnreachableWritten DEF scan_smime_target

LEMMA AdcsRowIs ==
    ASSUME NEW at, NEW tag, NEW sev
    PROVE  /\ DOMAIN AdcsRow(at, tag, sev) = Fields /\ AdcsRow(at, tag, sev).proto = "ADCS"
           /\ AdcsRow(at, tag, sev).at = at /\ AdcsRow(at, tag, sev).cert = "none"
           /\ AdcsRow(at, tag, sev).blocker = "none" /\ AdcsRow(at, tag, sev).tag = tag
           /\ AdcsRow(at, tag, sev).key = "none" /\ AdcsRow(at, tag, sev).suites = "none"
  BY BlankIs, FieldsAre DEF AdcsRow

LEMMA AdcsRowFits ==
    ASSUME NEW at, NEW tag, NEW sev, tag # "pqc-hybrid-detected"
    PROVE  RowFits(AdcsRow(at, tag, sev))
  BY AdcsRowIs, PlainFits

LEMMA AdcsWritten ==
    ASSUME NEW at, NEW ca \in Cas
    PROVE  FromService(scan_adcs_target(at, ca), at)
  <1>0. "ADCS" \in ServiceProtocols /\ "ADCS" \notin NoAlgorithm \cup {"S3", "AZURE_BLOB"}
    BY OrdinaryKeys
  <1>1. FromService(<<AdcsUnreachable(at)>>, at)
    <2> DEFINE e == AdcsUnreachable(at)
    <2>1. DOMAIN e = Fields /\ e.proto = "ADCS" /\ e.at = at /\ e.cert = "none" /\ e.blocker = "none"
          /\ e.tag = "adcs-unreachable" /\ e.key = "none"
      BY AdcsRowIs, FieldsAre DEF AdcsUnreachable
    <2> HIDE DEF e
    <2>2. FromService(<<e>>, at)
      BY <1>0, <2>1, NoKeyKnown, SimpleFits
    <2>3. QED
      BY <2>2 DEF e
  <1> DEFINE weak == [AdcsRow(at, "weak-signing-alg", "HIGH") EXCEPT !.key = "RSA2048", !.suites = "SHA1"]
             short == [AdcsRow(at, "weak-rsa-key", "HIGH") EXCEPT !.key = "RSA1024"]
  <1>2. FromService(<<weak>>, at)
    <2>1. DOMAIN weak = Fields /\ weak.proto = "ADCS" /\ weak.at = at /\ weak.cert = "none"
          /\ weak.blocker = "none" /\ weak.tag = "weak-signing-alg" /\ weak.key = "RSA2048"
      BY AdcsRowIs, FieldsAre
    <2>2. weak.key \in Catalogued \ {"ECDSAP256"}
      BY <2>1, OrdinaryKeys
    <2> HIDE DEF weak
    <2>3. QED
      BY <1>0, <2>1, <2>2, SimpleFits
  <1>3. FromService(<<short>>, at)
    <2>1. DOMAIN short = Fields /\ short.proto = "ADCS" /\ short.at = at /\ short.cert = "none"
          /\ short.blocker = "none" /\ short.tag = "weak-rsa-key" /\ short.key = "RSA1024"
      BY AdcsRowIs, FieldsAre
    <2>2. short.key \in Catalogued \ {"ECDSAP256"}
      BY <2>1, OrdinaryKeys
    <2> HIDE DEF short
    <2>3. QED
      BY <1>0, <2>1, <2>2, SimpleFits
  <1> DEFINE certs == CASE ca.cert = "search-failed" -> <<AdcsUnreachable(at)>>
                        [] ca.cert = "weak" -> <<weak>>
                        [] ca.cert = "weak-rsa-key" -> <<short>>
                        [] OTHER -> <<>>
             escs == _classify_template_escs(ca.template)
             found == [i \in DOMAIN escs |-> AdcsRow(at, escs[i], "HIGH")]
             templates == IF ca.template = "search-failed" THEN <<AdcsUnreachable(at)>> ELSE found
             gaps == [i \in 1 .. 4 |-> AdcsRow(at, "coverage-gap", "LOW")]
  <1>4. FromService(certs, at)
    BY <1>1, <1>2, <1>3, NoneFromService
  <1>5. FromService(found, at)
    <2>1. escs \in {<<>>, <<"esc1">>, <<"esc1", "esc1">>, <<"esc6">>}
      BY DEF _classify_template_escs
    <2> HIDE DEF escs
    <2>2. /\ DOMAIN escs = 1 .. Len(escs) /\ Len(escs) \in Nat
          /\ \A i \in 1 .. Len(escs) : escs[i] \in {"esc1", "esc6"}
      BY <2>1
    <2> DEFINE n == Len(escs)
    <2>3. found = [i \in 1 .. n |-> AdcsRow(at, escs[i], "HIGH")]
      BY <2>2
    <2>4. ASSUME NEW i \in 1 .. n
          PROVE  /\ AdcsRow(at, escs[i], "HIGH").at = at /\ AdcsRow(at, escs[i], "HIGH").proto \in ServiceProtocols
                 /\ RowFits(AdcsRow(at, escs[i], "HIGH"))
      <3>1. escs[i] # "pqc-hybrid-detected"
        BY <2>2
      <3>2. QED
        BY <1>0, <3>1, AdcsRowIs, AdcsRowFits
    <2> HIDE DEF found, n
    <2>5. DOMAIN found = 1 .. n /\ found = [i \in 1 .. n |-> found[i]]
          /\ \A i \in 1 .. n : found[i].at = at /\ found[i].proto \in ServiceProtocols /\ RowFits(found[i])
      BY <2>3, <2>4
    <2>6. n \in Nat
      BY <2>2 DEF n
    <2>7. QED
      BY <2>5, <2>6, EachWritten DEF FromService
  <1>6. FromService(gaps, at)
    <2> DEFINE e == AdcsRow(at, "coverage-gap", "LOW")
    <2>1. e.at = at /\ e.proto \in ServiceProtocols /\ RowFits(e)
      BY <1>0, AdcsRowIs, AdcsRowFits
    <2> HIDE DEF e
    <2>2. DOMAIN gaps = 1 .. 4 /\ gaps = [i \in 1 .. 4 |-> gaps[i]] /\ \A i \in 1 .. 4 : gaps[i] = e
      BY DEF e
    <2> HIDE DEF gaps
    <2>3. QED
      BY <2>1, <2>2, EachWritten DEF FromService
  <1>7. ca.ldap = "ok" => scan_adcs_target(at, ca) = certs \o templates \o gaps
    BY DEF scan_adcs_target
  <1>8. ca.ldap # "ok" => scan_adcs_target(at, ca) = <<AdcsUnreachable(at)>>
    BY DEF scan_adcs_target
  <1> HIDE DEF found, certs, gaps
  <1>9. FromService(templates, at)
    BY <1>1, <1>5
  <1> HIDE DEF templates
  <1>10. FromService(certs \o templates \o gaps, at)
    BY <1>4, <1>6, <1>9, ConcatFromService
  <1>11. QED
    BY <1>1, <1>7, <1>8, <1>10

LEMMA CodesignRowIs ==
    ASSUME NEW at, NEW c, NEW tag
    PROVE  /\ DOMAIN CodesignRow(at, c, tag) = Fields /\ CodesignRow(at, c, tag).proto = "CODE_SIGNING"
           /\ CodesignRow(at, c, tag).at = at /\ CodesignRow(at, c, tag).cert = c.expiry
           /\ CodesignRow(at, c, tag).blocker = "none" /\ CodesignRow(at, c, tag).tag = tag
           /\ CodesignRow(at, c, tag).key = c.key /\ CodesignRow(at, c, tag).suites = c.hash
  BY BlankIs, FieldsAre DEF CodesignRow

LEMMA CodesignRowWritten ==
    ASSUME NEW at, NEW c \in Certificates, NEW tag, tag # "pqc-hybrid-detected"
    PROVE  Written(<<CodesignRow(at, c, tag)>>, at, {"CODE_SIGNING"})
           /\ FromService(<<CodesignRow(at, c, tag)>>, at)
  <1>1. "CODE_SIGNING" \in ServiceProtocols /\ "CODE_SIGNING" \notin NoAlgorithm \cup {"S3", "AZURE_BLOB"}
    BY OrdinaryKeys
  <1>2. c.key # "ECDSAP256"
    BY CertificateTyped
  <1>3. RowFits(CodesignRow(at, c, tag))
    BY <1>1, <1>2, CodesignRowIs, NoSerial DEF RowFits
  <1>4. QED
    BY <1>1, <1>3, CodesignRowIs, OneWritten DEF FromService

LEMMA CodesignWritten ==
    ASSUME NEW at
    PROVE  /\ \A d \in Directories : FromService(scan_codesign_from_ldap(at, d), at)
           /\ \A c \in Certificates : Written(scan_codesign_from_tls_endpoints(at, c), at, {"CODE_SIGNING"})
  <1>1. "CODE_SIGNING" \in ServiceProtocols
    BY ServiceNames
  <1>2. ASSUME NEW d \in Directories PROVE FromService(scan_codesign_from_ldap(at, d), at)
    BY <1>1, DirectoryTyped, CodesignRowWritten, UnreachableWritten, NoneFromService
       DEF scan_codesign_from_ldap
  <1>3. ASSUME NEW c \in Certificates
        PROVE  Written(scan_codesign_from_tls_endpoints(at, c), at, {"CODE_SIGNING"})
    BY CodesignRowWritten DEF scan_codesign_from_tls_endpoints
  <1>4. QED
    BY <1>2, <1>3

(* Mail, brokers and interfaces of programs *)

LEMMA EmailNames ==
    ASSUME NEW p \in EMAIL_PROTOCOLS
    PROVE  /\ p \in ServiceProtocols /\ p \notin NoAlgorithm \cup {"S3", "AZURE_BLOB"}
           /\ p \notin {"TLS", "HTTP", "ADVISORY", "CODE_SIGNING", "DNSSEC", "SAML"}
           /\ p \notin BrokerPlain \cup BrokerTls
  BY OrdinaryKeys DEF EMAIL_PROTOCOLS, EmailStartTls, EmailImplicit, BrokerPlain, BrokerTls

LEMMA MailTyped ==
    ASSUME NEW m \in MailServers
    PROVE  /\ m.proto \in EMAIL_PROTOCOLS /\ m.port \in {"port25", "other"} /\ m.sslyze \in BOOLEAN
           /\ m.key \in {"none", "RSA2048"}
           /\ \/ /\ m.answer = "tls" /\ m.tls = "TLSv1.2" /\ m.cipher \in {"aead", "rsa-kex", "3des", "aes-sha"}
              \/ m.answer = "tls" /\ m.tls = "TLSv1" /\ m.sslyze
              \/ m.answer \in {"refused", "silent", "no-starttls", "network-error"} /\ ~ m.sslyze
  BY DEF MailServers, EMAIL_PROTOCOLS, EmailStartTls, EmailImplicit

LEMMA MailRowIs ==
    ASSUME NEW at, NEW m \in MailServers
    PROVE  LET e == scan_one_email(at, m) IN
           /\ DOMAIN e = Fields /\ e.proto = m.proto /\ e.at = at /\ e.cert = "none" /\ e.tag = m.port
           /\ e.key \in {"none", m.key}
           /\ e.blocker # "none" => e.blocker \in {"CONNECTION_REFUSED", "TIMEOUT"} /\ e.tls = "none"
           /\ m.answer = "tls" /\ m.tls = "TLSv1.2"
                => e.blocker = "none" /\ e.tls = "TLSv1.2" /\ e.cipher = m.cipher /\ e.err = "none"
           /\ m.answer = "no-starttls" => e.blocker = "none" /\ e.tls = "none"
  <1> DEFINE a == _scan_one_sslyze_email(at, m)
             b == _scan_one_fallback_email(at, m)
             e == scan_one_email(at, m)
  <1>1. /\ DOMAIN a = Fields /\ a.proto = m.proto /\ a.at = at /\ a.cert = "none"
        /\ a.key \in {"none", m.key} /\ a.blocker = "none" /\ a.err = "none"
        /\ m.tls # "TLSv1" => a.tls = m.tls /\ a.cipher = m.cipher
    BY BlankIs, FieldsAre DEF _scan_one_sslyze_email
  <1>2. /\ DOMAIN b = Fields /\ b.proto = m.proto /\ b.at = at /\ b.cert = "none" /\ b.key \in {"none", m.key}
    BY BlankIs, FailedIs, FieldsAre DEF _scan_one_fallback_email
  <1>3. /\ b.blocker # "none" => b.blocker \in {"CONNECTION_REFUSED", "TIMEOUT"} /\ b.tls = "none"
        /\ m.answer = "tls" => b.blocker = "none" /\ b.tls = m.tls /\ b.cipher = m.cipher /\ b.err = "none"
        /\ m.answer = "no-starttls" => b.blocker = "none" /\ b.tls = "none"
    BY BlankIs, FailedIs, FieldsAre DEF _scan_one_fallback_email
  <1>4. e = [(IF m.sslyze THEN a ELSE b) EXCEPT !.tag = m.port]
    BY DEF scan_one_email
  <1> HIDE DEF a, b, e
  <1>5. DOMAIN e = Fields /\ e.tag = m.port
    BY <1>1, <1>2, <1>4, FieldsAre
  <1>6. \A f \in Fields \ {"tag"} : e[f] = IF m.sslyze THEN a[f] ELSE b[f]
    BY <1>1, <1>2, <1>4
  <1>7. /\ e.proto = m.proto /\ e.at = at /\ e.cert = "none" /\ e.key \in {"none", m.key}
        /\ e.blocker = (IF m.sslyze THEN a.blocker ELSE b.blocker)
        /\ e.tls = (IF m.sslyze THEN a.tls ELSE b.tls) /\ e.cipher = (IF m.sslyze THEN a.cipher ELSE b.cipher)
        /\ e.err = (IF m.sslyze THEN a.err ELSE b.err)
    BY <1>1, <1>2, <1>6, FieldsAre
  <1>8. QED
    BY <1>1, <1>3, <1>5, <1>7, MailTyped DEF e

LEMMA EmailWritten ==
    ASSUME NEW at, NEW m \in MailServers
    PROVE  FromService(<<scan_one_email(at, m)>>, at)
  <1> DEFINE e == scan_one_email(at, m)
  <1>1. /\ DOMAIN e = Fields /\ e.proto = m.proto /\ e.at = at /\ e.cert = "none" /\ e.tag = m.port
        /\ e.key \in {"none", m.key}
        /\ e.blocker # "none" => e.blocker \in {"CONNECTION_REFUSED", "TIMEOUT"} /\ e.tls = "none"
    BY MailRowIs
  <1> HIDE DEF e
  <1>2. m.proto \in EMAIL_PROTOCOLS /\ m.port # "pqc-hybrid-detected" /\ m.key # "ECDSAP256"
    BY MailTyped
  <1>3. m.proto \in ServiceProtocols /\ m.proto \notin NoAlgorithm \cup {"S3", "AZURE_BLOB"}
    BY <1>2, EmailNames
  <1>4. RowFits(e)
    BY <1>1, <1>2, <1>3, EmailNames, NoSerial DEF RowFits, _is_unanswered_email_probe
  <1>5. FromService(<<e>>, at)
    BY <1>1, <1>3, <1>4, OneWritten DEF FromService
  <1>6. QED
    BY <1>5 DEF e

LEMMA BrokerNames ==
    ASSUME NEW p \in BrokerTls
    PROVE  p \in ServiceProtocols /\ p \notin NoAlgorithm \cup {"S3", "AZURE_BLOB"} /\ p # "DNSSEC"
  BY OrdinaryKeys DEF BrokerTls

LEMMA BrokerTlsRowIs ==
    ASSUME NEW p, NEW at, NEW b
    PROVE  LET e == BrokerTlsRow(at, p, b) IN
           /\ DOMAIN e = Fields /\ e.proto = p /\ e.at = at /\ e.cert = "none" /\ e.tag = "none"
           /\ e.key = "RSA2048" /\ e.blocker = "none" /\ e.err = "none"
           /\ e.tls = b.tls /\ e.cipher = b.cipher
  BY BlankIs, FieldsAre DEF BrokerTlsRow

LEMMA BrokerTlsWritten ==
    ASSUME NEW p \in BrokerTls, NEW at, NEW b
    PROVE  FromService(<<BrokerTlsRow(at, p, b)>>, at)
  <1>1. "RSA2048" \in Catalogued \ {"ECDSAP256"}
    BY OrdinaryKeys
  <1>2. QED
    BY <1>1, BrokerNames, BrokerTlsRowIs, SerialNames, SimpleFits

LEMMA BlankFromService ==
    ASSUME NEW p \in ServiceProtocols, NEW at
    PROVE  FromService(<<Blank(p, at)>>, at)
  BY BlankIs, NoKeyKnown, SerialNames, SimpleFits

LEMMA BrokerPhaseWritten ==
    ASSUME NEW at, NEW b \in Brokers
    PROVE  FromService(_run_broker_phase(at, b), at)
  <1>0. BrokerPlain \subseteq ServiceProtocols /\ {"KAFKA-TLS", "AMQPS", "AMQPS/AZURE-SERVICEBUS",
            "HTTPS/AWS-SQS", "REDIS-TLS"} = BrokerTls
        /\ "KAFKA-PLAIN" \in BrokerPlain /\ "AMQP-PLAIN" \in BrokerPlain /\ "REDIS-PLAIN" \in BrokerPlain
        /\ "REDIS-TLS" \in ServiceProtocols /\ "ADVISORY" \in ServiceProtocols
    BY DEF ServiceProtocols, BrokerPlain, BrokerTls
  <1>1. ASSUME NEW plaintext \in BOOLEAN PROVE FromService(scan_one_kafka(at, b, plaintext), at)
    BY <1>0, BlankFromService, BrokerTlsWritten, NoneFromService DEF scan_one_kafka
  <1>2. ASSUME NEW plaintext \in BOOLEAN, NEW label \in BrokerTls
        PROVE  FromService(scan_one_rabbitmq(at, b, plaintext, label), at)
    BY <1>0, BlankFromService, BrokerTlsWritten, NoneFromService DEF scan_one_rabbitmq
  <1>3. ASSUME NEW mode PROVE FromService(_probe_redis_tls(at, b, mode), at)
    BY <1>0, BrokerTlsWritten, FailedFromService, NoneFromService DEF _probe_redis_tls
  <1>4. ASSUME NEW plaintext \in BOOLEAN, NEW mode
        PROVE  FromService(scan_one_redis(at, b, plaintext, mode), at)
    BY <1>0, <1>3, BlankFromService, NoneFromService DEF scan_one_redis
  <1>5. FromService(BrokerRows(at, b), at)
    <2> DEFINE k1 == scan_one_kafka(at, b, TRUE)
               k2 == scan_one_kafka(at, b, FALSE)
               a1 == scan_one_rabbitmq(at, b, TRUE, "AMQPS")
               a2 == scan_one_rabbitmq(at, b, FALSE, "AMQPS")
               a3 == scan_one_rabbitmq(at, b, FALSE, b.port)
               r1 == scan_one_redis(at, b, TRUE, "default")
               r2 == scan_one_redis(at, b, FALSE, "default")
               n1 == scan_one_redis(at, b, TRUE, "named")
               n2 == scan_one_redis(at, b, FALSE, "named")
    <2>1. /\ FromService(k1, at) /\ FromService(k2, at) /\ FromService(a1, at) /\ FromService(a2, at)
          /\ FromService(r1, at) /\ FromService(r2, at) /\ FromService(n1, at) /\ FromService(n2, at)
      BY <1>0, <1>1, <1>2, <1>4
    <2>2. b.port \in {"AMQPS", "AMQPS/AZURE-SERVICEBUS", "HTTPS/AWS-SQS"} => FromService(a3, at)
      BY <1>0, <1>2
    <2>3. \/ BrokerRows(at, b) \in {k1, k2, a1, r1, r2, k1 \o k2 \o a1 \o a2 \o n1 \o n2}
          \/ b.port \in {"AMQPS", "AMQPS/AZURE-SERVICEBUS", "HTTPS/AWS-SQS"} /\ BrokerRows(at, b) = a3
      BY DEF BrokerRows
    <2> HIDE DEF k1, k2, a1, a2, a3, r1, r2, n1, n2
    <2>4. FromService(k1 \o k2 \o a1, at)
      BY <2>1, ConcatFromService
    <2>5. FromService(k1 \o k2 \o a1 \o a2 \o n1, at)
      BY <2>1, <2>4, ConcatFromService
    <2>6. FromService(k1 \o k2 \o a1 \o a2 \o n1 \o n2, at)
      BY <2>1, <2>5, ConcatFromService
    <2>7. QED
      BY <2>1, <2>2, <2>3, <2>6
  <1>6. FromService(MgmtAdvisories(at, b), at)
    <2> DEFINE e == [Blank("ADVISORY", at) EXCEPT !.tag = "broker-cleartext-mgmt-api", !.sev = "HIGH"]
    <2>1. DOMAIN e = Fields /\ e.proto = "ADVISORY" /\ e.at = at /\ e.cert = "none" /\ e.blocker = "none"
          /\ e.tag = "broker-cleartext-mgmt-api" /\ e.key = "none"
      BY BlankIs, FieldsAre
    <2> HIDE DEF e
    <2>2. FromService(<<e>>, at)
      BY <1>0, <2>1, NoKeyKnown, SimpleFits
    <2>3. QED
      BY <2>2, NoneFromService DEF MgmtAdvisories, e
  <1>7. ASSUME NEW found PROVE FromService(build_unreached_target_advisories(at, b, found), at)
    <2> DEFINE e == [Failed("ADVISORY", at, "config") EXCEPT !.tag = "broker-target-unreached"]
    <2>1. DOMAIN e = Fields /\ e.proto = "ADVISORY" /\ e.at = at /\ e.cert = "none" /\ e.blocker = "none"
          /\ e.tag = "broker-target-unreached" /\ e.key = "none"
      BY FailedIs, FieldsAre
    <2> HIDE DEF e
    <2>2. FromService(<<e>>, at)
      BY <1>0, <2>1, NoKeyKnown, SimpleFits
    <2>3. QED
      BY <2>2, NoneFromService DEF build_unreached_target_advisories, e
  <1> DEFINE found == BrokerRows(at, b)
  <1>8. FromService(found \o MgmtAdvisories(at, b), at)
    BY <1>5, <1>6, ConcatFromService
  <1>9. _run_broker_phase(at, b)
          = found \o MgmtAdvisories(at, b) \o build_unreached_target_advisories(at, b, found)
    BY DEF _run_broker_phase
  <1> HIDE DEF found
  <1>10. QED
    BY <1>7, <1>8, <1>9, ConcatFromService

-----------------------------------------------------------------------------
(* Steps that are repeated *)

LEMMA LeastNat ==
    ASSUME NEW T \in SUBSET Nat, T # {}
    PROVE  \E x \in T : \A y \in T : x <= y
  <1>1. \E x \in T : \A y \in T : ~ (<<y, x>> \in OpToRel(<, Nat))
    BY NatLessThanWellFounded, WFMin
  <1>2. PICK x \in T : \A y \in T : ~ (<<y, x>> \in OpToRel(<, Nat))
    BY <1>1
  <1>3. \A y \in T : ~ (y < x)
    BY <1>2 DEF OpToRel
  <1>4. QED
    BY <1>3

LEMMA MinIs ==
    ASSUME NEW T \in SUBSET Nat, T # {}
    PROVE  Min(T) \in T /\ \A y \in T : Min(T) <= y
  BY LeastNat DEF Min

LEMMA MaxIs ==
    ASSUME NEW n \in Nat, NEW T \in SUBSET (0 .. n), T # {}
    PROVE  Max(T) \in T /\ \A y \in T : Max(T) >= y
  <1> DEFINE U == {n - x : x \in T}
  <1>0. \A x \in T : x \in 0 .. n /\ n - x \in Nat
    OBVIOUS
  <1>1. U \in SUBSET Nat /\ U # {}
    BY <1>0
  <1>2. PICK u \in U : \A v \in U : u <= v
    BY <1>1, LeastNat
  <1>3. PICK x \in T : u = n - x
    BY <1>2
  <1>4. ASSUME NEW y \in T PROVE x >= y
    <2>1. n - y \in U
      OBVIOUS
    <2>2. n - x <= n - y
      BY <1>2, <1>3, <2>1
    <2>3. QED
      BY <1>0, <2>2
  <1>5. QED
    BY <1>4 DEF Max

(* The states of N steps from a. *)
IsRun(g, N, S, a, step) ==
    g \in [0 .. N -> S] /\ g[0] = a /\ \A n \in 1 .. N : g[n] = step[n][g[n - 1]]

(* Steps that stay in S have a run. *)
LEMMA IteratesExist ==
    ASSUME NEW N \in Nat, NEW S, NEW a \in S, NEW step \in [1 .. N -> [S -> S]]
    PROVE  \E g : IsRun(g, N, S, a, step)
  <1> DEFINE Is(g, k) == IsRun(g, k, S, a, step)
             T == {k \in 0 .. N : ~ \E g : Is(g, k)}
  <1>1. SUFFICES ASSUME T # {} PROVE FALSE
    BY N \in 0 .. N
  <1>2. T \in SUBSET Nat
    OBVIOUS
  <1>3. PICK k \in T : \A m \in T : k <= m
    BY <1>1, <1>2, LeastNat
  <1>4. Is([n \in 0 .. 0 |-> a], 0)
    BY DEF IsRun
  <1>5. k # 0
    BY <1>3, <1>4
  <1>6. k - 1 \in 0 .. N /\ k - 1 \notin T /\ k \in 1 .. N
    <2>1. k \in 0 .. N
      OBVIOUS
    <2> HIDE DEF T
    <2>2. k - 1 \in 0 .. N /\ k \in 1 .. N
      BY <1>5, <2>1
    <2>3. QED
      BY <1>3, <2>2
  <1>7. PICK g : Is(g, k - 1)
    BY <1>6
  <1> DEFINE h == [n \in 0 .. k |-> IF n = k THEN step[k][g[k - 1]] ELSE g[n]]
  <1>8. step[k][g[k - 1]] \in S
    BY <1>6, <1>7 DEF IsRun
  <1>9. h \in [0 .. k -> S] /\ h[0] = a
    BY <1>5, <1>6, <1>7, <1>8 DEF IsRun
  <1>10. ASSUME NEW n \in 1 .. k PROVE h[n] = step[n][h[n - 1]]
    BY <1>6, <1>7, <1>9 DEF IsRun
  <1>11. Is(h, k)
    BY <1>9, <1>10 DEF IsRun
  <1>12. QED
    BY <1>3, <1>11

(* The rows of a source scan after each repository. *)
LEMMA SourceStates ==
    ASSUME NEW at, NEW repos, Len(repos) \in Nat, NEW V,
           \A n \in 1 .. Len(repos) : RepoRows(at, repos[n]) \in Seq(V)
    PROVE  \A n \in 0 .. Len(repos) : SourceRows(at, repos)[n] \in Seq(V)
  <1> DEFINE N == Len(repos)
             R(n) == RepoRows(at, repos[n])
             F(g) == [n \in 0 .. N |-> IF n = 0 THEN <<>> ELSE g[n - 1] \o R(n)]
             h == SourceRows(at, repos)
  <1>1. h = CHOOSE g : g = F(g)
    BY DEF SourceRows
  <1>2. N \in Nat /\ \A n \in 1 .. N : R(n) \in Seq(V)
    OBVIOUS
  <1> HIDE DEF N, R, h
  <1> DEFINE step == [n \in 1 .. N |-> [r \in Seq(V) |-> r \o R(n)]]
  <1>3. \A n \in 1 .. N, r \in Seq(V) : r \o R(n) \in Seq(V)
    BY <1>2
  <1>4. step \in [1 .. N -> [Seq(V) -> Seq(V)]]
    BY <1>3
  <1>5. \A n \in 1 .. N, r \in Seq(V) : step[n][r] = r \o R(n)
    OBVIOUS
  <1>6. <<>> \in Seq(V)
    OBVIOUS
  <1> DEFINE S == Seq(V)
  <1> HIDE DEF step, S
  <1>7. PICK g : g \in [0 .. N -> S] /\ g[0] = <<>> /\ \A n \in 1 .. N : g[n] = step[n][g[n - 1]]
    <2>1. step \in [1 .. N -> [S -> S]] /\ <<>> \in S
      BY <1>4, <1>6 DEF S
    <2>2. \E g : IsRun(g, N, S, <<>>, step)
      BY <1>2, <2>1, IteratesExist
    <2>3. QED
      BY <2>2 DEF IsRun
  <1>8. \A n \in 1 .. N : n - 1 \in 0 .. N /\ n # 0
    BY <1>2
  <1>9. \A n \in 1 .. N : g[n] = g[n - 1] \o R(n)
    BY <1>5, <1>7, <1>8 DEF S
  <1>10. \A n \in 0 .. N : n # 0 => n \in 1 .. N
    BY <1>2
  <1>11. g = F(g)
    <2>1. \A n \in 0 .. N : g[n] = F(g)[n]
      BY <1>7, <1>9, <1>10
    <2>2. QED
      BY <1>7, <2>1
  <1>12. h = F(h)
    BY <1>1, <1>11
  <1>13. h[0] = <<>> /\ \A n \in 1 .. N : h[n] = h[n - 1] \o R(n)
    <2>1. \A n \in 0 .. N : h[n] = F(h)[n]
      BY <1>12
    <2>2. 0 \in 0 .. N /\ \A n \in 1 .. N : n \in 0 .. N
      BY <1>2
    <2>3. \A n \in 0 .. N : h[n] = IF n = 0 THEN <<>> ELSE h[n - 1] \o R(n)
      BY <2>1
    <2>4. QED
      BY <1>8, <2>2, <2>3
  <1> DEFINE T == {n \in 0 .. N : h[n] \notin Seq(V)}
  <1>14. T = {}
    <2>1. SUFFICES ASSUME T # {} PROVE FALSE
      OBVIOUS
    <2>2. T \in SUBSET Nat
      BY <1>2
    <2>3. PICK n \in T : \A m \in T : n <= m
      BY <2>1, <2>2, LeastNat
    <2>4. n # 0
      BY <1>6, <1>13, <2>3
    <2>5. n - 1 \in 0 .. N /\ n \in 1 .. N /\ ~ (n <= n - 1)
      BY <1>2, <2>3, <2>4
    <2>6. h[n - 1] \in Seq(V)
      BY <2>3, <2>5
    <2>7. h[n] \in Seq(V)
      BY <1>3, <1>13, <2>5, <2>6
    <2>8. QED
      BY <2>3, <2>7
  <1>15. QED
    BY <1>14 DEF h, N

LEMMA SourceWritten ==
    ASSUME NEW at, NEW repos \in RepoLists
    PROVE  FromService(scan_source_targets(at, repos), at)
  <1> DEFINE e1 == Failed("SOURCE", at, "invalid_input")
             e2 == Failed("SOURCE", at, "exception")
             e3 == Failed("SOURCE", at, "partial")
             e4 == Blank("SOURCE", at)
             V == {e1, e2, e3, e4}
  <1>1. \A e \in V : e.at = at /\ e.proto = "SOURCE" /\ RowFits(e)
    BY BlankIs, FailedIs, PlainFits
  <1> HIDE DEF e1, e2, e3, e4
  <1>2. ASSUME NEW repo PROVE RepoRows(at, repo) \in Seq(V)
    <2>1. RepoRows(at, repo) \in {<<e1>>, <<e2>>, <<>>, <<e4, e3>>, <<e4>>}
      BY DEF RepoRows, scan_source_repo, e1, e2, e3, e4
    <2>2. <<e1>> \in Seq(V) /\ <<e2>> \in Seq(V) /\ <<>> \in Seq(V) /\ <<e4>> \in Seq(V)
      OBVIOUS
    <2>3. <<e4, e3>> \in Seq(V)
      OBVIOUS
    <2>4. QED
      BY <2>1, <2>2, <2>3
  <1>3. Len(repos) \in Nat
    BY DEF RepoLists
  <1> HIDE DEF V
  <1>4. SourceRows(at, repos)[Len(repos)] \in Seq(V)
    BY <1>2, <1>3, SourceStates
  <1>5. ASSUME NEW r \in Seq(V) PROVE FromService(r, at)
    <2>1. IsSeq(r) /\ \A i \in DOMAIN r : r[i] \in V
      BY SeqIsSeq
    <2>2. QED
      BY <1>1, <2>1, ServiceNames DEF FromService, Written
  <1>6. QED
    BY <1>4, <1>5, FailedFromService, ServiceNames DEF scan_source_targets

LEMMA FuzzRowIs ==
    ASSUME NEW at, NEW tag, NEW sev
    PROVE  /\ DOMAIN FuzzRow(at, tag, sev) = Fields /\ FuzzRow(at, tag, sev).proto = "REST_FUZZ"
           /\ FuzzRow(at, tag, sev).at = at /\ FuzzRow(at, tag, sev).cert = "none"
           /\ FuzzRow(at, tag, sev).blocker = "none" /\ FuzzRow(at, tag, sev).tag = tag
           /\ FuzzRow(at, tag, sev).key = "none" /\ FuzzRow(at, tag, sev).sev = sev
  BY BlankIs, FieldsAre DEF FuzzRow

FuzzTags == {"probe_skipped", "tls_downgrade_accepted", "cipher_weak", "hsts_missing", "http_creds",
             "alg_confusion"}
FuzzState == [used : Nat, sent : Nat, failures : Nat, ended : BOOLEAN, tags : Seq(FuzzTags)]

(* What is reported is kept. *)
Keeps(s, t) == \A i \in DOMAIN s.tags : \E j \in DOMAIN t.tags : t.tags[j] = s.tags[i]

LEMMA FuzzTyped ==
    ASSUME NEW f \in Fuzzed
    PROVE  /\ f.budget \in Nat /\ f.budget >= 2 /\ Len(f.answers) \in Nat
           /\ f.weakTls \in BOOLEAN /\ f.https = TRUE
  <1>1. f.budget \in {2, 4} /\ f.weakTls \in BOOLEAN /\ f.https = TRUE
    BY DEF Fuzzed
  <1>2. f.answers \in {<<"no-hsts", "ok", "no-hsts">>, <<"5xx", "raises", "5xx", "ok">>,
                       <<"raises", "raises", "raises">>, <<"ok", "out-of-scope", "ok", "ok">>, <<"ok">>}
    BY DEF Fuzzed
  <1>3. Len(f.answers) \in Nat
    BY <1>2
  <1>4. QED
    BY <1>1, <1>3

LEMMA TagAppended ==
    ASSUME NEW s \in Seq(FuzzTags), NEW tag \in FuzzTags
    PROVE  /\ Append(s, tag) \in Seq(FuzzTags)
           /\ \A i \in DOMAIN s : \E j \in DOMAIN Append(s, tag) : Append(s, tag)[j] = s[i]
           /\ \E j \in DOMAIN Append(s, tag) : Append(s, tag)[j] = tag
  <1> DEFINE t == Append(s, tag)
  <1>1. t \in Seq(FuzzTags) /\ DOMAIN t = 1 .. Len(s) + 1 /\ DOMAIN s = 1 .. Len(s) /\ Len(s) \in Nat
    OBVIOUS
  <1>2. (\A i \in 1 .. Len(s) : t[i] = s[i]) /\ t[Len(s) + 1] = tag
    OBVIOUS
  <1> HIDE DEF t
  <1>3. Len(s) + 1 \in DOMAIN t /\ \A i \in DOMAIN s : i \in DOMAIN t
    BY <1>1
  <1>4. QED
    BY <1>1, <1>2, <1>3 DEF t

LEMMA FuzzTlsProbeKeeps ==
    ASSUME NEW st \in FuzzState, NEW f \in Fuzzed, NEW tag \in FuzzTags
    PROVE  /\ FuzzTlsProbe(st, f, tag) \in FuzzState /\ Keeps(st, FuzzTlsProbe(st, f, tag))
           /\ st.used < f.budget /\ f.weakTls
                => \E j \in DOMAIN FuzzTlsProbe(st, f, tag).tags : FuzzTlsProbe(st, f, tag).tags[j] = tag
  <1>1. st.tags \in Seq(FuzzTags) /\ st.used \in Nat /\ st.sent \in Nat
    BY DEF FuzzState
  <1> DEFINE t == [st EXCEPT !.used = @ + 1, !.sent = @ + 1, !.tags = IF f.weakTls THEN Append(@, tag) ELSE @]
  <1>2. t \in FuzzState /\ t.tags = IF f.weakTls THEN Append(st.tags, tag) ELSE st.tags
    <2> DEFINE new == IF f.weakTls THEN Append(st.tags, tag) ELSE st.tags
    <2>1. new \in Seq(FuzzTags)
      BY <1>1, TagAppended
    <2>2. t = [st EXCEPT !.used = st.used + 1, !.sent = st.sent + 1, !.tags = new]
      BY DEF FuzzState
    <2> HIDE DEF new, t
    <2>3. /\ DOMAIN st = {"used", "sent", "failures", "ended", "tags"}
          /\ st.failures \in Nat /\ st.ended \in BOOLEAN
      BY DEF FuzzState
    <2>5. t = [used |-> st.used + 1, sent |-> st.sent + 1, failures |-> st.failures, ended |-> st.ended,
               tags |-> new]
      BY <2>2, <2>3
    <2>6. t \in FuzzState /\ t.tags = new
      BY <1>1, <2>1, <2>3, <2>5 DEF FuzzState
    <2>4. QED
      BY <2>6 DEF new
  <1>3. FuzzTlsProbe(st, f, tag) = IF ~ f.https \/ st.used >= f.budget THEN st ELSE t
    BY DEF FuzzTlsProbe
  <1> HIDE DEF t
  <1>4. Keeps(st, st)
    BY DEF Keeps
  <1>5. CASE f.weakTls
    <2> DEFINE s == st.tags
    <2>1. s \in Seq(FuzzTags) /\ t.tags = Append(s, tag)
      BY <1>1, <1>2, <1>5
    <2> HIDE DEF s
    <2>2. /\ \A i \in DOMAIN s : \E j \in DOMAIN Append(s, tag) : Append(s, tag)[j] = s[i]
          /\ \E j \in DOMAIN Append(s, tag) : Append(s, tag)[j] = tag
      BY <2>1, TagAppended
    <2>3. Keeps(st, t)
      BY <2>1, <2>2 DEF Keeps, s
    <2>4. \E j \in DOMAIN t.tags : t.tags[j] = tag
      BY <2>1, <2>2
    <2>5. f.budget \in Nat /\ (st.used < f.budget => ~ (st.used >= f.budget)) /\ f.https = TRUE
      <3>1. f.budget \in Nat /\ f.https = TRUE
        BY FuzzTyped
      <3> DEFINE b == f.budget
                 u == st.used
      <3>2. b \in Nat /\ u \in Nat
        BY <1>1, <3>1
      <3> HIDE DEF b, u
      <3>3. u < b => ~ (u >= b)
        BY <3>2
      <3>4. QED
        BY <3>1, <3>3 DEF b, u
    <2>6. QED
      BY <1>2, <1>3, <1>4, <1>5, <2>3, <2>4, <2>5
  <1>6. CASE ~ f.weakTls
    <2>1. Keeps(st, t)
      BY <1>2, <1>6 DEF Keeps
    <2>2. QED
      BY <1>2, <1>3, <1>4, <1>6, <2>1
  <1>7. QED
    BY <1>5, <1>6

Fuzzing(a, b, c, d, new) == [used |-> a, sent |-> b, failures |-> c, ended |-> d, tags |-> new]

LEMMA FuzzingIs ==
    ASSUME NEW a \in Nat, NEW b \in Nat, NEW c \in Nat, NEW d \in BOOLEAN, NEW new \in Seq(FuzzTags)
    PROVE  Fuzzing(a, b, c, d, new) \in FuzzState /\ Fuzzing(a, b, c, d, new).tags = new
  BY DEF Fuzzing, FuzzState

LEMMA FuzzDomain ==
    ASSUME NEW st \in FuzzState
    PROVE  DOMAIN st = {"used", "sent", "failures", "ended", "tags"}
  BY DEF FuzzState

LEMMA FuzzStateIs ==
    ASSUME NEW st \in FuzzState
    PROVE  /\ st.used \in Nat /\ st.sent \in Nat /\ st.failures \in Nat /\ st.ended \in BOOLEAN
           /\ st.tags \in Seq(FuzzTags)
           /\ st.used + 1 \in Nat /\ st.sent + 1 \in Nat /\ st.failures + 1 \in Nat
  BY DEF FuzzState

Kept(s, t) == t \in FuzzState /\ Keeps(s, t)

LEMMA SameTagsKept ==
    ASSUME NEW st, NEW a \in Nat, NEW b \in Nat, NEW c \in Nat, NEW d \in BOOLEAN, st.tags \in Seq(FuzzTags)
    PROVE  Kept(st, Fuzzing(a, b, c, d, st.tags))
  <1> DEFINE t == Fuzzing(a, b, c, d, st.tags)
  <1>1. t \in FuzzState /\ t.tags = st.tags
    BY FuzzingIs
  <1> HIDE DEF t
  <1>2. QED
    BY <1>1 DEF Kept, Keeps, t

LEMMA NewTagKept ==
    ASSUME NEW st, NEW a \in Nat, NEW b \in Nat, NEW c \in Nat, NEW d \in BOOLEAN, st.tags \in Seq(FuzzTags),
           NEW tag \in FuzzTags
    PROVE  Kept(st, Fuzzing(a, b, c, d, Append(st.tags, tag)))
  <1> DEFINE new == Append(st.tags, tag)
             t == Fuzzing(a, b, c, d, new)
  <1>1. new \in Seq(FuzzTags)
    BY TagAppended
  <1>2. \A i \in DOMAIN st.tags : \E j \in DOMAIN new : new[j] = st.tags[i]
    BY TagAppended
  <1> HIDE DEF new
  <1>3. t \in FuzzState /\ t.tags = new
    BY <1>1, FuzzingIs
  <1> HIDE DEF t
  <1>4. QED
    BY <1>2, <1>3 DEF Kept, Keeps, t, new

LEMMA KeptTransitive ==
    ASSUME NEW s, NEW t, NEW u, Kept(s, t), Kept(t, u)
    PROVE  Kept(s, u)
  <1>1. ASSUME NEW i \in DOMAIN s.tags PROVE \E k \in DOMAIN u.tags : u.tags[k] = s.tags[i]
    <2>1. PICK j \in DOMAIN t.tags : t.tags[j] = s.tags[i]
      BY DEF Kept, Keeps
    <2>2. QED
      BY <2>1 DEF Kept, Keeps
  <1>2. QED
    BY <1>1 DEF Kept, Keeps

LEMMA FuzzFailedKept ==
    ASSUME NEW st \in FuzzState, NEW counted \in {0, 1}
    PROVE  Kept(st, FuzzFailed(st, counted))
  <1> DEFINE t == FuzzFailed(st, counted)
             d == st.failures + 1 >= _CONSECUTIVE_5XX_LIMIT
  <1>1. t = [st EXCEPT !.sent = @ + 1, !.used = @ + counted, !.failures = @ + 1, !.ended = d]
    BY DEF FuzzFailed
  <1>2. st.used + counted \in Nat /\ st.sent + 1 \in Nat /\ st.failures + 1 \in Nat /\ d \in BOOLEAN
        /\ st.tags \in Seq(FuzzTags)
    BY FuzzStateIs
  <1> HIDE DEF t, d
  <1>3. t = [used |-> st.used + counted, sent |-> st.sent + 1, failures |-> st.failures + 1, ended |-> d,
             tags |-> st.tags]
    BY <1>1, FuzzDomain
  <1>4. t = Fuzzing(st.used + counted, st.sent + 1, st.failures + 1, d, st.tags)
    BY <1>3 DEF Fuzzing
  <1>5. Kept(st, t)
    BY <1>2, <1>4, SameTagsKept
  <1>6. QED
    BY <1>5 DEF t

LEMMA KeptSelf == ASSUME NEW st \in FuzzState PROVE Kept(st, st)
  BY DEF Kept, Keeps

LEMMA FuzzNoteKept ==
    ASSUME NEW st \in FuzzState, NEW c, NEW tag \in FuzzTags
    PROVE  Kept(st, FuzzNote(st, c, tag))
  <1> DEFINE t == [st EXCEPT !.tags = Append(@, tag)]
  <1>1. t = [st EXCEPT !.tags = Append(@, tag)]
    OBVIOUS
  <1>2. FuzzNote(st, c, tag) \in {st, t}
    BY DEF FuzzNote
  <1> HIDE DEF t
  <1>3. t = [used |-> st.used, sent |-> st.sent, failures |-> st.failures, ended |-> st.ended,
             tags |-> Append(st.tags, tag)]
    BY <1>1, FuzzDomain
  <1>4. t = Fuzzing(st.used, st.sent, st.failures, st.ended, Append(st.tags, tag))
    BY <1>3 DEF Fuzzing
  <1>5. Kept(st, t)
    BY <1>4, FuzzStateIs, NewTagKept
  <1>6. QED
    BY <1>2, <1>5, KeptSelf

LEMMA FuzzForgedKept ==
    ASSUME NEW st \in FuzzState, NEW f
    PROVE  Kept(st, FuzzForged(st, f))
  <1> DEFINE new == IF f.accepts THEN Append(st.tags, "alg_confusion") ELSE st.tags
             t == [st EXCEPT !.used = @ + 1, !.sent = @ + 1, !.failures = 0, !.tags = new]
  <1>1. t = [st EXCEPT !.used = @ + 1, !.sent = @ + 1, !.failures = 0, !.tags = new]
    OBVIOUS
  <1>2. FuzzForged(st, f) \in {st, t}
    BY DEF FuzzForged
  <1> HIDE DEF t
  <1>3. t = [used |-> st.used + 1, sent |-> st.sent + 1, failures |-> 0, ended |-> st.ended, tags |-> new]
    BY <1>1, FuzzDomain
  <1>4. t = Fuzzing(st.used + 1, st.sent + 1, 0, st.ended, new)
    BY <1>3 DEF Fuzzing
  <1>5. st.used + 1 \in Nat /\ st.sent + 1 \in Nat /\ st.ended \in BOOLEAN /\ st.tags \in Seq(FuzzTags)
    BY FuzzStateIs
  <1>6. CASE f.accepts
    <2>1. new = Append(st.tags, "alg_confusion") /\ "alg_confusion" \in FuzzTags
      BY <1>6 DEF FuzzTags
    <2>2. Kept(st, t)
      BY <1>4, <1>5, <2>1, NewTagKept
    <2>3. QED
      BY <1>2, <2>2, KeptSelf
  <1>7. CASE ~ f.accepts
    <2>1. new = st.tags
      BY <1>7
    <2>2. Kept(st, t)
      BY <1>4, <1>5, <2>1, SameTagsKept
    <2>3. QED
      BY <1>2, <2>2, KeptSelf
  <1>8. QED
    BY <1>6, <1>7

LEMMA FuzzOperationKept ==
    ASSUME NEW st \in FuzzState, NEW f, NEW answer
    PROVE  Kept(st, FuzzOperation(st, f, answer))
  <1> DEFINE ended == [st EXCEPT !.ended = TRUE]
             ok == [st EXCEPT !.sent = @ + 1, !.used = @ + 1, !.failures = 0]
             counted == IF answer = "5xx" THEN FuzzFailed(st, 1) ELSE ok
             noted == FuzzNote(counted, answer = "no-hsts", "hsts_missing")
             told == FuzzNote(noted, ~ f.https /\ f.credential, "http_creds")
  <1>0. st.used + 1 \in Nat /\ st.sent + 1 \in Nat /\ st.used \in Nat /\ st.sent \in Nat /\ st.failures \in Nat
        /\ st.ended \in BOOLEAN /\ st.tags \in Seq(FuzzTags)
    BY FuzzStateIs
  <1>1. Kept(st, ended)
    <2>1. ended = [st EXCEPT !.ended = TRUE]
      OBVIOUS
    <2> HIDE DEF ended
    <2>2. ended = [used |-> st.used, sent |-> st.sent, failures |-> st.failures, ended |-> TRUE, tags |-> st.tags]
      BY <2>1, FuzzDomain
    <2>3. ended = Fuzzing(st.used, st.sent, st.failures, TRUE, st.tags)
      BY <2>2 DEF Fuzzing
    <2>4. QED
      BY <1>0, <2>3, SameTagsKept
  <1>2. Kept(st, ok)
    <2>1. ok = [st EXCEPT !.sent = @ + 1, !.used = @ + 1, !.failures = 0]
      OBVIOUS
    <2> HIDE DEF ok
    <2>2. ok = [used |-> st.used + 1, sent |-> st.sent + 1, failures |-> 0, ended |-> st.ended, tags |-> st.tags]
      BY <2>1, FuzzDomain
    <2>3. ok = Fuzzing(st.used + 1, st.sent + 1, 0, st.ended, st.tags)
      BY <2>2 DEF Fuzzing
    <2>4. QED
      BY <1>0, <2>3, SameTagsKept
  <1>3. FuzzOperation(st, f, answer)
          \in {ended, st, FuzzFailed(st, 0), FuzzFailed(st, 1), FuzzForged(told, f)}
    BY DEF FuzzOperation
  <1> HIDE DEF ended, ok
  <1>4. Kept(st, counted)
    BY <1>2, FuzzFailedKept
  <1> HIDE DEF counted
  <1>5. Kept(counted, noted)
    BY <1>4, FuzzNoteKept DEF Kept, FuzzTags
  <1> HIDE DEF noted
  <1>6. Kept(noted, told)
    BY <1>5, FuzzNoteKept DEF Kept, FuzzTags
  <1> HIDE DEF told
  <1>7. Kept(told, FuzzForged(told, f))
    BY <1>6, FuzzForgedKept DEF Kept
  <1>8. Kept(st, FuzzForged(told, f))
    BY <1>4, <1>5, <1>6, <1>7, KeptTransitive
  <1>9. QED
    BY <1>1, <1>3, <1>8, FuzzFailedKept, KeptSelf

LEMMA FuzzStatesKept ==
    ASSUME NEW f \in Fuzzed, FuzzBegin(f) \in FuzzState
    PROVE  Kept(FuzzBegin(f), FuzzScan(f))
  <1> DEFINE N == Len(f.answers)
             a == FuzzBegin(f)
             op(st, n) == FuzzOperation(st, f, f.answers[n])
             F(g) == [n \in 0 .. N |-> IF n = 0 THEN a ELSE op(g[n - 1], n)]
             h == FuzzStates(f)
             step == [n \in 1 .. N |-> [st \in FuzzState |-> op(st, n)]]
  <1>1. h = CHOOSE g : g = F(g)
    BY DEF FuzzStates
  <1>2. N \in Nat /\ a \in FuzzState
    BY FuzzTyped
  <1>3. \A n \in 1 .. N, st \in FuzzState : Kept(st, op(st, n))
    BY FuzzOperationKept
  <1> HIDE DEF N, a, h, op
  <1>4. step \in [1 .. N -> [FuzzState -> FuzzState]]
    BY <1>3 DEF Kept
  <1>5. \A n \in 1 .. N, st \in FuzzState : step[n][st] = op(st, n)
    OBVIOUS
  <1> HIDE DEF step
  <1>6. PICK g : g \in [0 .. N -> FuzzState] /\ g[0] = a /\ \A n \in 1 .. N : g[n] = step[n][g[n - 1]]
    <2>1. \E g : IsRun(g, N, FuzzState, a, step)
      BY <1>2, <1>4, IteratesExist
    <2>2. QED
      BY <2>1 DEF IsRun
  <1>7. \A n \in 1 .. N : n - 1 \in 0 .. N /\ n # 0
    BY <1>2
  <1>8. \A n \in 1 .. N : g[n] = op(g[n - 1], n)
    BY <1>5, <1>6, <1>7
  <1>9. \A n \in 0 .. N : n # 0 => n \in 1 .. N
    BY <1>2
  <1>10. g = F(g)
    <2>1. \A n \in 0 .. N : g[n] = F(g)[n]
      BY <1>6, <1>8, <1>9
    <2>2. QED
      BY <1>6, <2>1
  <1>11. h = F(h)
    BY <1>1, <1>10
  <1>12. h[0] = a /\ \A n \in 1 .. N : h[n] = op(h[n - 1], n)
    <2>1. \A n \in 0 .. N : h[n] = F(h)[n]
      BY <1>11
    <2>2. 0 \in 0 .. N /\ \A n \in 1 .. N : n \in 0 .. N
      BY <1>2
    <2>3. \A n \in 0 .. N : h[n] = IF n = 0 THEN a ELSE op(h[n - 1], n)
      BY <2>1
    <2>4. QED
      BY <1>7, <2>2, <2>3
  <1> DEFINE T == {n \in 0 .. N : ~ Kept(a, h[n])}
  <1>13. T = {}
    <2>1. SUFFICES ASSUME T # {} PROVE FALSE
      OBVIOUS
    <2>2. T \in SUBSET Nat
      BY <1>2
    <2>3. PICK n \in T : \A m \in T : n <= m
      BY <2>1, <2>2, LeastNat
    <2>4. n # 0
      BY <1>2, <1>12, <2>3, KeptSelf
    <2>5. n - 1 \in 0 .. N /\ n \in 1 .. N /\ ~ (n <= n - 1)
      BY <1>2, <2>3, <2>4
    <2>6. Kept(a, h[n - 1])
      BY <2>3, <2>5
    <2>7. Kept(h[n - 1], h[n])
      BY <1>3, <1>12, <2>5, <2>6 DEF Kept
    <2>8. QED
      BY <2>3, <2>6, <2>7, KeptTransitive
  <1>14. Kept(a, h[N])
    BY <1>2, <1>13
  <1>15. QED
    BY <1>14 DEF a, h, N, FuzzScan

LEMMA FuzzBegun ==
    ASSUME NEW f \in Fuzzed
    PROVE  /\ FuzzBegin(f) \in FuzzState
           /\ f.weakTls => \E j \in DOMAIN FuzzBegin(f).tags : FuzzBegin(f).tags[j] = "tls_downgrade_accepted"
  <1> DEFINE new == IF f.confusion = "no-key" THEN <<"probe_skipped">> ELSE <<>>
             start == [FuzzStart EXCEPT !.tags = new]
             one == FuzzTlsProbe(start, f, "tls_downgrade_accepted")
             two == FuzzTlsProbe(one, f, "cipher_weak")
  <1>1. new \in Seq(FuzzTags)
    <2>1. "probe_skipped" \in FuzzTags
      BY DEF FuzzTags
    <2>2. <<"probe_skipped">> \in Seq(FuzzTags) /\ <<>> \in Seq(FuzzTags)
      BY <2>1
    <2>3. QED
      BY <2>2
  <1>2. FuzzBegin(f) = two
    BY DEF FuzzBegin
  <1> HIDE DEF new
  <1>3. start = Fuzzing(0, 0, 0, FALSE, new)
    <2>1. start = [FuzzStart EXCEPT !.tags = new]
      OBVIOUS
    <2> HIDE DEF start
    <2>2. start = [used |-> 0, sent |-> 0, failures |-> 0, ended |-> FALSE, tags |-> new]
      BY <2>1 DEF FuzzStart
    <2>3. QED
      BY <2>2 DEF Fuzzing
  <1> HIDE DEF start
  <1>4. start \in FuzzState /\ start.used = 0
    <2>1. start \in FuzzState
      BY <1>1, <1>3, FuzzingIs
    <2>2. QED
      BY <1>3, <2>1 DEF Fuzzing
  <1>5. start.used < f.budget
    <2> DEFINE b == f.budget
    <2>1. b \in Nat /\ b >= 2
      BY FuzzTyped
    <2> HIDE DEF b
    <2>2. 0 < b
      BY <2>1
    <2>3. QED
      BY <1>4, <2>2 DEF b
  <1>6. /\ one \in FuzzState
        /\ f.weakTls => \E j \in DOMAIN one.tags : one.tags[j] = "tls_downgrade_accepted"
    <2>1. PICK tag \in FuzzTags : tag = "tls_downgrade_accepted"
      BY DEF FuzzTags
    <2>2. one = FuzzTlsProbe(start, f, tag)
      BY <2>1
    <2> HIDE DEF one
    <2>3. one \in FuzzState /\ (f.weakTls => \E j \in DOMAIN one.tags : one.tags[j] = tag)
      BY <1>4, <1>5, <2>2, FuzzTlsProbeKeeps
    <2>4. QED
      BY <2>1, <2>3
  <1> HIDE DEF one
  <1>7. two \in FuzzState /\ Keeps(one, two)
    BY <1>6, FuzzTlsProbeKeeps DEF FuzzTags
  <1> HIDE DEF two
  <1>8. QED
    BY <1>2, <1>6, <1>7 DEF Keeps

LEMMA FuzzWritten ==
    ASSUME NEW at, NEW f \in Fuzzed
    PROVE  /\ FromService(run_fuzz_scan(at, f), at)
           /\ f.confirmed /\ f.extra /\ f.weakTls
                => \E i \in DOMAIN run_fuzz_scan(at, f) :
                       /\ run_fuzz_scan(at, f)[i].proto = "REST_FUZZ" /\ run_fuzz_scan(at, f)[i].sev = "HIGH"
  <1> DEFINE tags == FuzzScan(f).tags
             rs == [i \in DOMAIN tags |-> FuzzRow(at, tags[i], FuzzSeverity(tags[i]))]
             one == <<FuzzRow(at, "schemathesis not installed", "INFO")>>
  <1>0. "REST_FUZZ" \in ServiceProtocols
    BY ServiceNames
  <1>1. ASSUME NEW tag, NEW sev, tag # "pqc-hybrid-detected" PROVE RowFits(FuzzRow(at, tag, sev))
    BY <1>1, FuzzRowIs, PlainFits
  <1>2. FromService(one, at)
    <2>1. ASSUME NEW tag, NEW sev, tag # "pqc-hybrid-detected" PROVE FromService(<<FuzzRow(at, tag, sev)>>, at)
      <3> DEFINE e == FuzzRow(at, tag, sev)
      <3>1. e.proto = "REST_FUZZ" /\ e.at = at
        BY FuzzRowIs
      <3>2. RowFits(e)
        BY <1>1, <2>1
      <3> HIDE DEF e
      <3>3. QED
        BY <1>0, <3>1, <3>2, OneWritten DEF FromService, e
    <2>2. QED
      BY <2>1
  <1>3. Kept(FuzzBegin(f), FuzzScan(f))
    BY FuzzBegun, FuzzStatesKept
  <1>4. tags \in Seq(FuzzTags)
    BY <1>3 DEF Kept, FuzzState
  <1> DEFINE N == Len(tags)
  <1>5. N \in Nat /\ DOMAIN tags = 1 .. N /\ \A i \in 1 .. N : tags[i] \in FuzzTags
    BY <1>4
  <1>7. f.weakTls => \E i \in DOMAIN tags : tags[i] = "tls_downgrade_accepted"
    BY <1>3, FuzzBegun DEF Kept, Keeps
  <1>8. run_fuzz_scan(at, f) = IF ~ f.confirmed THEN <<>> ELSE IF ~ f.extra THEN one ELSE rs
    BY DEF run_fuzz_scan
  <1> HIDE DEF tags, N, one
  <1>9. DOMAIN rs = 1 .. N /\ \A i \in 1 .. N : rs[i] = FuzzRow(at, tags[i], FuzzSeverity(tags[i]))
    BY <1>5
  <1>10. rs = [i \in 1 .. N |-> rs[i]]
    BY <1>5
  <1> HIDE DEF rs
  <1>11. \A i \in 1 .. N : /\ rs[i].at = at /\ rs[i].proto = "REST_FUZZ" /\ RowFits(rs[i])
                           /\ rs[i].sev = FuzzSeverity(tags[i])
    <2>1. \A i \in 1 .. N : tags[i] # "pqc-hybrid-detected"
      BY <1>5 DEF FuzzTags
    <2>2. QED
      BY <1>1, <1>9, <2>1, FuzzRowIs
  <1>12. FromService(rs, at)
    BY <1>0, <1>5, <1>9, <1>10, <1>11, EachWritten DEF FromService
  <1>13. f.weakTls => \E i \in DOMAIN rs : rs[i].proto = "REST_FUZZ" /\ rs[i].sev = "HIGH"
    BY <1>5, <1>7, <1>9, <1>11 DEF FuzzSeverity
  <1>14. QED
    BY <1>2, <1>8, <1>12, <1>13, NoneFromService

LEMMA JwtWritten ==
    ASSUME NEW at, NEW doc \in JwksDocs
    PROVE  FromService(scan_jwt_endpoint(at, doc), at)
  <1> DEFINE got == _fetch_jwks(doc)
             e == [Blank("ADVISORY", at) EXCEPT !.tag = "jwks-verify-disabled", !.sev = "HIGH"]
             row(k) == [Blank("JWT", at) EXCEPT !.key = k]
             rs == [i \in DOMAIN got.keys |-> row(got.keys[i])]
  <1>1. FromService(<<e>>, at)
    <2>1. DOMAIN e = Fields /\ e.proto = "ADVISORY" /\ e.at = at /\ e.cert = "none" /\ e.blocker = "none"
          /\ e.tag = "jwks-verify-disabled" /\ e.key = "none"
      BY BlankIs, FieldsAre
    <2> HIDE DEF e
    <2>2. "ADVISORY" \in ServiceProtocols
      BY ServiceNames
    <2>3. QED
      BY <2>1, <2>2, NoKeyKnown, SimpleFits
  <1>2. ASSUME NEW k \in {"RS256", "EC256"} PROVE FromService(<<row(k)>>, at)
    <2> DEFINE j == row(k)
    <2>1. DOMAIN j = Fields /\ j.proto = "JWT" /\ j.at = at /\ j.cert = "none" /\ j.blocker = "none"
          /\ j.tag = "none" /\ j.key = k
      BY BlankIs, FieldsAre
    <2> HIDE DEF j
    <2>2. "JWT" \in ServiceProtocols /\ "JWT" \notin NoAlgorithm \cup {"S3", "AZURE_BLOB"}
          /\ k \in Catalogued \ {"ECDSAP256"}
      BY OrdinaryKeys
    <2>3. FromService(<<j>>, at)
      BY <2>1, <2>2, SimpleFits
    <2>4. QED
      BY <2>3 DEF j
  <1>3. got.keys = <<>> \/ \E k \in {"RS256", "EC256"} : got.keys = <<k>>
    <2> DEFINE good == {i \in DOMAIN doc.paths : doc.paths[i] # "failed"}
               first == doc.paths[Min(good)]
    <2>1. doc.paths \in {<<"RS256">>, <<"failed", "EC256">>, <<"failed", "failed", "empty">>,
                         <<"failed", "failed", "failed">>}
      BY DEF JwksDocs
    <2>2. good \in SUBSET Nat
      BY <2>1
    <2>3. good # {} => Min(good) \in good
      <3> HIDE DEF good
      <3>1. QED
        BY <2>2, MinIs
    <2>4. \A i \in good : doc.paths[i] \in {"RS256", "EC256", "empty"}
      BY <2>1
    <2>5. got.keys = IF good = {} \/ first = "empty" THEN <<>> ELSE <<first>>
      BY DEF _fetch_jwks
    <2> HIDE DEF good
    <2>6. QED
      BY <2>3, <2>4, <2>5
  <1>4. scan_jwt_endpoint(at, doc) = rs \o (IF doc.insecure /\ got.fetched THEN <<e>> ELSE <<>>)
    BY DEF scan_jwt_endpoint, JwksAdvisory
  <1> HIDE DEF got, e, row
  <1>5. FromService(rs, at)
    <2>1. CASE got.keys = <<>>
      <3>1. rs = <<>>
        BY <2>1
      <3>2. QED
        BY <3>1, NoneFromService
    <2>2. ASSUME NEW k \in {"RS256", "EC256"}, got.keys = <<k>> PROVE FromService(rs, at)
      <3>1. rs = <<row(k)>>
        BY <2>2
      <3>2. QED
        BY <1>2, <3>1
    <2>3. QED
      BY <1>3, <2>1, <2>2
  <1> HIDE DEF rs
  <1>6. QED
    BY <1>1, <1>4, <1>5, NoneFromService, ConcatFromService

LEMMA BearerWritten ==
    ASSUME NEW at, NEW t \in BearerTokens
    PROVE  /\ FromService(_bearer_token_endpoints(at, t), at)
           /\ t # "opaque" => /\ DOMAIN _bearer_token_endpoints(at, t) = 1 .. 1
                              /\ _bearer_token_endpoints(at, t)[1].proto = "BEARER_TOKEN"
                              /\ _bearer_token_endpoints(at, t)[1].key = t
  <1> DEFINE e == [Blank("BEARER_TOKEN", at) EXCEPT !.key = t]
  <1>1. DOMAIN e = Fields /\ e.proto = "BEARER_TOKEN" /\ e.at = at /\ e.cert = "none" /\ e.blocker = "none"
        /\ e.tag = "none" /\ e.key = t
    BY BlankIs, FieldsAre
  <1>2. _bearer_token_endpoints(at, t) = IF t = "opaque" THEN <<>> ELSE <<e>>
    BY DEF _bearer_token_endpoints
  <1> HIDE DEF e
  <1>3. "BEARER_TOKEN" \in ServiceProtocols /\ "BEARER_TOKEN" \notin NoAlgorithm \cup {"S3", "AZURE_BLOB"}
    BY OrdinaryKeys
  <1>4. t # "opaque" => t \notin Catalogued \/ t \in Catalogued \ {"ECDSAP256"}
    BY DEF BearerTokens
  <1>5. t # "opaque" => FromService(<<e>>, at)
    BY <1>1, <1>3, <1>4, SimpleFits
  <1>6. QED
    BY <1>1, <1>2, <1>5, NoneFromService

LEMMA OpenApiWritten ==
    ASSUME NEW at, NEW s \in Specs
    PROVE  /\ FromService(scan_openapi_spec(at, s), at)
           /\ s.read = "ok" /\ s.http
                => \E i \in DOMAIN scan_openapi_spec(at, s) :
                       /\ scan_openapi_spec(at, s)[i].proto = "OPENAPI"
                       /\ scan_openapi_spec(at, s)[i].tag = "plaintext_server"
  <1> DEFINE row(tag, sev) == [Blank("OPENAPI", at) EXCEPT !.tag = tag, !.sev = sev]
             x == IF s.scheme THEN <<row("security_scheme", "INFO")>> ELSE <<>>
             y == IF s.http THEN <<row("plaintext_server", "HIGH")>> ELSE <<>>
             z == IF s.operation = "open" \/ (s.operation = "inherits" /\ ~ s.global)
                  THEN <<row("unauthenticated_endpoint", "MEDIUM")>> ELSE <<>>
  <1>1. ASSUME NEW tag, NEW sev
        PROVE /\ DOMAIN row(tag, sev) = Fields /\ row(tag, sev).proto = "OPENAPI" /\ row(tag, sev).at = at
              /\ row(tag, sev).cert = "none" /\ row(tag, sev).blocker = "none" /\ row(tag, sev).tag = tag
              /\ row(tag, sev).key = "none"
    BY BlankIs, FieldsAre
  <1>2. "OPENAPI" \in ServiceProtocols /\ "ERROR" \in ServiceProtocols
    BY ServiceNames
  <1>3. scan_openapi_spec(at, s) \in {<<row("missing_extra", "INFO")>>, <<Failed("ERROR", at, "exception")>>, x \o y \o z}
        /\ (s.read = "ok" => scan_openapi_spec(at, s) = x \o y \o z)
    BY DEF scan_openapi_spec, extract_crypto_posture, SpecErrors
  <1> HIDE DEF row
  <1>4. ASSUME NEW tag, NEW sev, tag # "pqc-hybrid-detected" PROVE FromService(<<row(tag, sev)>>, at)
    <2>1. RowFits(row(tag, sev))
      BY <1>1, <1>4, PlainFits
    <2>2. QED
      BY <1>1, <1>2, <2>1, OneWritten DEF FromService
  <1>5. FromService(x, at) /\ FromService(y, at) /\ FromService(z, at)
    BY <1>4, NoneFromService
  <1>6. s.http => y = <<row("plaintext_server", "HIGH")>>
    OBVIOUS
  <1> HIDE DEF x, y, z
  <1>7. FromService(x \o y, at)
    BY <1>5, ConcatFromService
  <1>8. FromService(x \o y \o z, at)
    BY <1>5, <1>7, ConcatFromService
  <1>9. s.http => \E i \in DOMAIN (x \o y \o z) : (x \o y \o z)[i] = row("plaintext_server", "HIGH")
    <2>1. SUFFICES ASSUME s.http
                   PROVE \E i \in DOMAIN (x \o y \o z) : (x \o y \o z)[i] = row("plaintext_server", "HIGH")
      OBVIOUS
    <2>2. IsSeq(x) /\ IsSeq(y) /\ IsSeq(z) /\ IsSeq(x \o y)
      BY <1>5, <1>7 DEF FromService, Written
    <2> DEFINE i == Len(x) + 1
    <2>3. Len(y) = 1 /\ y[1] = row("plaintext_server", "HIGH")
      BY <1>6, <2>1
    <2>4. i \in DOMAIN (x \o y) /\ (x \o y)[i] = row("plaintext_server", "HIGH")
      BY <2>2, <2>3, IsSeqConcat
    <2> HIDE DEF i
    <2>5. QED
      BY <2>2, <2>4, IsSeqConcat
  <1>10. FromService(scan_openapi_spec(at, s), at)
    <2>1. FromService(<<row("missing_extra", "INFO")>>, at)
      BY <1>4
    <2>2. FromService(<<Failed("ERROR", at, "exception")>>, at)
      BY <1>2, FailedFromService
    <2>3. QED
      BY <1>3, <1>8, <2>1, <2>2
  <1>11. row("plaintext_server", "HIGH").proto = "OPENAPI"
         /\ row("plaintext_server", "HIGH").tag = "plaintext_server"
    BY <1>1
  <1> DEFINE rs == scan_openapi_spec(at, s)
             w == x \o y \o z
             e == row("plaintext_server", "HIGH")
  <1>12. s.read = "ok" => rs = w
    BY <1>3
  <1> HIDE DEF rs, w, e
  <1>13. s.read = "ok" /\ s.http => \E i \in DOMAIN rs : rs[i] = e
    BY <1>9, <1>12 DEF w, e
  <1>14. s.read = "ok" /\ s.http
           => \E i \in DOMAIN rs : rs[i].proto = "OPENAPI" /\ rs[i].tag = "plaintext_server"
    BY <1>11, <1>13 DEF e
  <1>15. QED
    BY <1>10, <1>14 DEF rs

LEMMA ContainerWritten ==
    ASSUME NEW at, NEW image \in Images
    PROVE  FromService(scan_container_image(at, image), at)
  <1> DEFINE e == [Blank("CONTAINER", at) EXCEPT !.cipher = image]
  <1>1. DOMAIN e = Fields /\ e.proto = "CONTAINER" /\ e.at = at /\ e.cert = "none" /\ e.blocker = "none"
        /\ e.tag = "none" /\ e.key = "none"
    BY BlankIs, FieldsAre
  <1>2. scan_container_image(at, image) \in {<<Failed("CONTAINER", at, "invalid_input")>>, <<>>, <<e>>}
    BY DEF scan_container_image
  <1> HIDE DEF e
  <1>3. "CONTAINER" \in ServiceProtocols
    BY ServiceNames
  <1>4. FromService(<<e>>, at)
    BY <1>1, <1>3, PlainFits, OneWritten DEF FromService
  <1>5. QED
    BY <1>2, <1>3, <1>4, NoneFromService, FailedFromService

-----------------------------------------------------------------------------
(* Weaknesses *)

(* A row that tells of a weakness. *)
Tells(e) ==
    \/ e.proto = "HTTP" /\ e.err = "none"
    \/ e.proto = "TLS" /\ \/ e.cert = "expired" \/ e.issuer = "self"
                          \/ e.key = "RSA1024" /\ e.err = "none"
                          \/ has_legacy_tls_versions_signal(e)
    \/ e.proto = "BEARER_TOKEN" /\ e.key \in {"alg-none", "alg-absent"}
    \/ e.proto = "OPENAPI" /\ e.tag = "plaintext_server"
    \/ e.proto = "REST_FUZZ" /\ e.sev = "HIGH"
    \/ e.proto \in {"S3", "KUBERNETES"} /\ e.tag = "unencrypted"
    \/ e.proto \in {"POSTGRESQL", "MYSQL"} /\ e.err = "none" /\ e.tag = "ssl-off"
    \/ e.proto = "VAULT" /\ e.sev = "HIGH"
    \/ e.proto = "KERBEROS" /\ e.tag = "etype" /\ e.sev \in {"CRITICAL", "HIGH"}
    \/ e.proto = "SAML" /\ e.key \in {"RS256", "RSA1024"}
    \/ e.proto = "DNSSEC" /\ e.key = "RSASHA1"
    \/ e.proto = "SMIME" /\ (e.suites = "SHA1" \/ e.key = "RSA1024")
    \/ e.proto = "ADCS" /\ e.tag = "weak-signing-alg"
    \/ e.proto = "CODE_SIGNING" /\ e.tag = "weak"
    \/ e.proto \in EMAIL_PROTOCOLS /\ e.blocker = "none" /\ (e.tls = "none" \/ e.cipher \in {"rsa-kex", "3des"})
    \/ e.proto \in BrokerPlain
Telling(rs) == \E i \in DOMAIN rs : Tells(rs[i])

LEMMA OneTells == ASSUME NEW e, Tells(e) PROVE Telling(<<e>>)
  BY DEF Telling

LEMMA ConcatTells ==
    ASSUME NEW r, NEW s, IsSeq(r), IsSeq(s), Telling(r) \/ Telling(s)
    PROVE  Telling(r \o s)
  <1>1. CASE Telling(r)
    <2>1. PICK i \in DOMAIN r : Tells(r[i])
      BY <1>1 DEF Telling
    <2>2. i \in DOMAIN (r \o s) /\ (r \o s)[i] = r[i]
      BY <2>1, IsSeqConcat
    <2>3. QED
      BY <2>1, <2>2 DEF Telling
  <1>2. CASE Telling(s)
    <2>1. PICK i \in DOMAIN s : Tells(s[i])
      BY <1>2 DEF Telling
    <2>2. Len(r) + i \in DOMAIN (r \o s) /\ (r \o s)[Len(r) + i] = s[i]
      <3> DEFINE m == Len(r)
                 n == Len(s)
                 t == r \o s
      <3>1. /\ m \in Nat /\ n \in Nat /\ DOMAIN s = 1 .. n /\ DOMAIN t = 1 .. m + n
            /\ \A j \in 1 .. n : t[m + j] = s[j]
        BY IsSeqConcat
      <3> HIDE DEF m, n, t
      <3>2. i \in 1 .. n
        BY <3>1
      <3>3. m + i \in 1 .. m + n
        BY <3>1, <3>2
      <3>4. QED
        BY <3>1, <3>2, <3>3 DEF m, n, t
    <2>3. QED
      BY <2>1, <2>2 DEF Telling
  <1>3. QED
    BY <1>1, <1>2

LEMMA InventoryTells ==
    ASSUME NEW at, NEW s \in Ports, fingerprint_service(s)[2] = "HTTP"
    PROVE  Telling(InventoryRows(at, s))
  <1> DEFINE fp == fingerprint_service(s)
             e == [Blank("HTTP", at) EXCEPT !.tls = fp[3]]
  <1> HIDE DEF fp
  <1>1. InventoryRows(at, s) = <<e>>
    BY DEF InventoryRows, fp
  <1>2. e.proto = "HTTP" /\ e.err = "none"
    BY BlankIs, FieldsAre
  <1> HIDE DEF e
  <1>3. QED
    BY <1>1, <1>2, OneTells DEF Tells

LEMMA TlsTells ==
    ASSUME NEW at, NEW s \in TlsServers, ShownByTls(s)
    PROVE  Telling(<<scan_one(at, s)>>)
  <1> DEFINE e == scan_one(at, s)
             a == _scan_one_sslyze(at, s)
             b == _scan_one_fallback(at, s)
  <1>1. /\ s.sslyze \in {"ok", "no-certificate", "unavailable"} /\ s.versions \in {"modern", "legacy", "legacy-only"}
        /\ s.key \in {"RSA1024", "EC256", "EDDSA", "MLDSA", "RSA2048"} /\ (s.key = "RSA1024" => s.sslyze = "ok")
        /\ s.versions = "legacy-only" => s.sslyze = "ok"
        /\ s.issuer \in {"trusted", "self", "untrusted"}
    BY DEF TlsServers
  <1>2. /\ s.handshake = "ok"
        /\ \/ s.expiry = "expired" \/ s.issuer = "self" \/ s.key = "RSA1024"
           \/ s.versions # "modern" /\ (s.sslyze # "unavailable" \/ s.library = "old")
    BY DEF ShownByTls
  <1>3. /\ DOMAIN a = Fields /\ a.proto = "TLS" /\ a.err = "none"
        /\ s.versions # "modern" => a.versions = "legacy"
        /\ s.sslyze = "ok" => a.cert = s.expiry /\ a.issuer = s.issuer /\ a.key = _pubkey_info(s.key)
    BY BlankIs, FieldsAre DEF _scan_one_sslyze, WithCertificate
  <1>4. /\ DOMAIN b = Fields /\ b.proto = "TLS" /\ b.err = "none"
        /\ b.cert = s.expiry /\ b.issuer = s.issuer
        /\ s.versions = "legacy" /\ s.library = "old" => b.versions = "legacy"
    BY <1>2, BlankIs, FieldsAre DEF _scan_one_fallback, WithCertificate, enumerate_tls_capabilities
  <1>5. CASE s.sslyze = "ok"
    <2>1. e = a
      BY <1>5 DEF scan_one
    <2> HIDE DEF a, e
    <2>2. Tells(e)
      BY <1>2, <1>3, <1>5, <2>1 DEF Tells, has_legacy_tls_versions_signal, _pubkey_info
    <2>3. QED
      BY <2>2, OneTells DEF e
  <1>6. CASE s.sslyze = "no-certificate"
    <2>1. e = MergedWithFallback(a, b)
      BY <1>6 DEF scan_one
    <2> HIDE DEF a, b, e
    <2>2. e.proto = "TLS" /\ e.versions = a.versions /\ e.cert = b.cert
          /\ e.issuer = (IF b.issuer = "trusted" THEN "untrusted" ELSE b.issuer)
      BY <1>3, <2>1, FieldsAre DEF MergedWithFallback
    <2>3. Tells(e)
      BY <1>1, <1>2, <1>3, <1>4, <1>6, <2>2 DEF Tells, has_legacy_tls_versions_signal
    <2>4. QED
      BY <2>3, OneTells DEF e
  <1>7. CASE s.sslyze = "unavailable"
    <2>1. e = b
      BY <1>7 DEF scan_one
    <2> HIDE DEF b, e
    <2>2. Tells(e)
      BY <1>1, <1>2, <1>4, <1>7, <2>1 DEF Tells, has_legacy_tls_versions_signal
    <2>3. QED
      BY <2>2, OneTells DEF e
  <1>8. QED
    BY <1>1, <1>5, <1>6, <1>7

LEMMA ApisTell ==
    ASSUME NEW at
    PROVE  /\ \A t \in {"alg-none", "alg-absent"} : Telling(_bearer_token_endpoints(at, t))
           /\ \A s \in Specs : s.read = "ok" /\ s.http => Telling(scan_openapi_spec(at, s))
           /\ \A f \in Fuzzed : f.confirmed /\ f.extra /\ f.weakTls => Telling(run_fuzz_scan(at, f))
  <1>1. ASSUME NEW t \in {"alg-none", "alg-absent"} PROVE Telling(_bearer_token_endpoints(at, t))
    <2> DEFINE rs == _bearer_token_endpoints(at, t)
    <2>1. t \in BearerTokens /\ t # "opaque"
      BY DEF BearerTokens
    <2>2. DOMAIN rs = 1 .. 1 /\ rs[1].proto = "BEARER_TOKEN" /\ rs[1].key = t
      BY <2>1, BearerWritten
    <2> HIDE DEF rs
    <2>3. Tells(rs[1]) /\ 1 \in DOMAIN rs
      BY <2>2 DEF Tells
    <2>4. QED
      BY <2>3 DEF Telling, rs
  <1>2. ASSUME NEW s \in Specs, s.read = "ok" /\ s.http PROVE Telling(scan_openapi_spec(at, s))
    BY <1>2, OpenApiWritten DEF Telling, Tells
  <1>3. ASSUME NEW f \in Fuzzed, f.confirmed /\ f.extra /\ f.weakTls PROVE Telling(run_fuzz_scan(at, f))
    BY <1>3, FuzzWritten DEF Telling, Tells
  <1>4. QED
    BY <1>1, <1>2, <1>3

LEMMA AwsTells ==
    ASSUME NEW at, NEW a \in AwsAssets, a.kind = "s3" /\ a.answer \in {"no-rules", "not-found"}
    PROVE  Telling(scan_aws_targets(at, a))
  <1> DEFINE e == Tagged("S3", at, "unencrypted", "HIGH")
  <1>1. scan_aws_targets(at, a) = <<e>>
    BY DEF scan_aws_targets, _scan_s3_encryption
  <1>2. e.proto = "S3" /\ e.tag = "unencrypted"
    BY TaggedIs
  <1> HIDE DEF e
  <1>3. QED
    BY <1>1, <1>2, OneTells DEF Tells

LEMMA DatabaseTells ==
    ASSUME NEW at, NEW d \in Databases, d.connect = "plaintext" /\ ~ d.ssl
    PROVE  Telling(scan_db_target(at, d))
  <1> DEFINE e == Tagged("POSTGRESQL", at, "ssl-off", "HIGH")
             f == Tagged("MYSQL", at, "ssl-off", "HIGH")
  <1>1. scan_db_target(at, d) \in {<<e>>, <<f>>}
    BY DEF scan_db_target, scan_pg_target, scan_mysql_target
  <1>2. e.proto = "POSTGRESQL" /\ e.tag = "ssl-off" /\ e.err = "none"
    BY TaggedIs
  <1>3. f.proto = "MYSQL" /\ f.tag = "ssl-off" /\ f.err = "none"
    BY TaggedIs
  <1> HIDE DEF e, f
  <1>4. Tells(e) /\ Tells(f)
    BY <1>2, <1>3 DEF Tells
  <1>5. QED
    BY <1>1, <1>4, OneTells

LEMMA KubernetesTells ==
    ASSUME NEW at, NEW c \in Clusters, ShownByCluster(c)
    PROVE  Telling(scan_k8s_targets(at, c))
  <1> DEFINE e == Tagged("KUBERNETES", at, "unencrypted", "HIGH")
             secrets == _enumerate_secret_types(at, c.secrets)
             rs == <<e>> \o secrets
  <1>0. "KUBERNETES" \in ServiceProtocols
    BY ServiceNames
  <1>1. scan_k8s_targets(at, c) = IF rs = <<>> THEN _emit_inaccessible_finding(at) ELSE rs
    BY DEF ShownByCluster, scan_k8s_targets, _scan_gke_encryption
  <1>2. e.proto = "KUBERNETES" /\ e.tag = "unencrypted"
    BY TaggedIs
  <1>3. FromService(secrets, at) /\ FromService(<<e>>, at)
    BY <1>0, FailedFromService, TaggedFromService, NoneFromService DEF _enumerate_secret_types
  <1> HIDE DEF e, secrets
  <1>4. Telling(<<e>>)
    BY <1>2, OneTells DEF Tells
  <1>5. Telling(rs)
    BY <1>3, <1>4, ConcatTells DEF FromService, Written
  <1>6. rs # <<>>
    BY <1>5 DEF Telling
  <1>7. QED
    BY <1>1, <1>5, <1>6

LEMMA VaultTells ==
    ASSUME NEW at, NEW v \in Vaults, v.login = "ok" /\ v.auth = "token"
    PROVE  Telling(scan_vault_targets(at, v))
  <1> DEFINE e == Tagged("VAULT", at, "token", "HIGH")
             a == _scan_transit_keys(at, v)
             b == _scan_pki_mounts(at, v)
  <1>1. scan_vault_targets(at, v) = a \o b \o <<e>>
    BY DEF scan_vault_targets, _scan_auth_methods, AUTH_RISK_MAP
  <1>2. e.proto = "VAULT" /\ e.sev = "HIGH"
    BY TaggedIs
  <1>3. IsSeq(a) /\ IsSeq(b)
    BY VaultParts DEF FromService, Written
  <1> HIDE DEF a, b, e
  <1>4. Telling(<<e>>) /\ IsSeq(<<e>>)
    BY <1>2, OneTells DEF Tells, IsSeq
  <1>5. IsSeq(a \o b)
    BY <1>3, IsSeqConcat
  <1>6. QED
    BY <1>1, <1>4, <1>5, ConcatTells

LEMMA KerberosTells ==
    ASSUME NEW at, NEW k \in Kdcs, ShownByKdc(k)
    PROVE  Telling(scan_kerberos_target(at, k))
  <1> DEFINE n == Len(k.etypes)
             r == ReplyRows(at, "etypes", k.etypes)
  <1>1. /\ DOMAIN k.etypes = 1 .. n /\ n \in Nat
        /\ \A i \in DOMAIN k.etypes : k.etypes[i] \in DOMAIN KERBEROS_ETYPE_MAP
    BY KdcTyped
  <1>2. PICK i \in DOMAIN k.etypes : k.etypes[i] # "aes256"
    BY DEF ShownByKdc
  <1>3. r = [j \in 1 .. n |-> EtypeRow(at, k.etypes[j])]
    BY <1>1 DEF ReplyRows
  <1>4. KERBEROS_ETYPE_MAP[k.etypes[i]] \in {"CRITICAL", "HIGH"}
    BY <1>1, <1>2 DEF KERBEROS_ETYPE_MAP
  <1>5. i \in DOMAIN r /\ r[i] = EtypeRow(at, k.etypes[i])
    BY <1>1, <1>3
  <1>6. Tells(EtypeRow(at, k.etypes[i]))
    BY <1>4, EtypeRowIs DEF Tells
  <1>7. Telling(r)
    BY <1>5, <1>6 DEF Telling
  <1> HIDE DEF r
  <1>8. scan_kerberos_target(at, k) = r
    BY KdcTyped DEF ShownByKdc, NamesEtypes, scan_kerberos_target, TcpOutcome, _is_retryable_tcp_drop, r
  <1>9. QED
    BY <1>7, <1>8

LEMMA SamlTells ==
    ASSUME NEW at, NEW idp \in Idps, ShownByIdp(idp)
    PROVE  Telling(scan_saml_target(at, idp))
  <1> DEFINE adv == [Blank("ADVISORY", at) EXCEPT !.tag = "internal-target-fetched", !.sev = "HIGH"]
             head == IF idp.internal THEN <<adv>> ELSE <<>>
             tail == CASE idp.doc = "oidc" -> _parse_oidc_discovery(at, idp)
                       [] idp.doc = "saml" -> _parse_saml_metadata(at, idp)
                       [] OTHER -> <<>>
  <1>1. idp.fetch = "ok" /\ scan_saml_target(at, idp) = head \o tail
    BY DEF ShownByIdp, scan_saml_target
  <1>2. IsSeq(head)
    BY ShortIsSeq
  <1>3. CASE idp.doc = "oidc" /\ idp.alg = "RS256"
    <2> DEFINE e == [Blank("SAML", at) EXCEPT !.key = "RS256", !.sev = "HIGH", !.tag = "oidc-discovery"]
    <2>1. tail = <<e>>
      BY <1>3 DEF _parse_oidc_discovery
    <2>2. e.proto = "SAML" /\ e.key = "RS256"
      BY BlankIs, FieldsAre
    <2> HIDE DEF head, tail, e
    <2>3. Telling(<<e>>) /\ IsSeq(<<e>>)
      BY <2>2, OneTells DEF Tells, IsSeq
    <2>4. QED
      BY <1>1, <1>2, <2>1, <2>3, ConcatTells
  <1>4. CASE idp.doc = "saml" /\ "RSA1024" \in {idp.signing, idp.encryption}
    <2> DEFINE x == SamlCertRow(at, idp.signing, SigningSerial[idp.signing])
               serial == IF idp.shared THEN SigningSerial[idp.signing] ELSE EncryptionSerial[idp.encryption]
               y == SamlCertRow(at, idp.encryption, serial)
               b == IF idp.encryption = "none" THEN <<>> ELSE <<y>>
               c == IF idp.sha1 THEN <<[Blank("SAML", at) EXCEPT !.key = "SHA1"]>> ELSE <<>>
    <2>1. /\ idp.signing \in {"RSA1024", "RSA2048", "EC256"} /\ idp.internal = FALSE
          /\ idp.encryption \in {"none", "RSA1024", "RSA2048", "EC256"}
      BY <1>1, <1>4, IdpTyped
    <2>2. tail = <<x>> \o b \o c
      BY <1>4, <2>1 DEF _parse_saml_metadata
    <2>3. head = <<>>
      BY <2>1
    <2>4. x.proto = "SAML" /\ x.key = idp.signing /\ y.proto = "SAML" /\ y.key = idp.encryption
      BY SamlCertRowIs
    <2>5. IsSeq(b) /\ IsSeq(c) /\ IsSeq(<<x>>)
      BY ShortIsSeq
    <2> HIDE DEF x, y, serial, head, tail
    <2>6. idp.signing = "RSA1024" => Telling(<<x>>)
      BY <2>4, OneTells DEF Tells
    <2>7. idp.encryption = "RSA1024" => Telling(b)
      BY <2>4, OneTells DEF Tells
    <2> HIDE DEF b, c
    <2>8. Telling(<<x>> \o b) /\ IsSeq(<<x>> \o b)
      BY <1>4, <2>5, <2>6, <2>7, ConcatTells, IsSeqConcat
    <2>9. Telling(<<x>> \o b \o c) /\ IsSeq(<<x>> \o b \o c)
      BY <2>5, <2>8, ConcatTells, IsSeqConcat
    <2>10. QED
      BY <1>1, <1>2, <2>2, <2>9, ConcatTells
  <1>5. QED
    BY <1>3, <1>4 DEF ShownByIdp

LEMMA DnssecTells ==
    ASSUME NEW at, NEW z \in Zones, z.ns = "ok" /\ z.dnskey = "RSASHA1"
    PROVE  Telling(_scan_domain(at, z))
  <1> DEFINE e == DnssecRow(at, "RSASHA1", "dnskey")
             b == IF z.nsec THEN <<DnssecRow(at, "NSEC", "nsec-exposure")>> ELSE <<>>
             c == IF z.ds = "mismatch" THEN <<DnssecRow(at, "DS-MISMATCH", "ds-chain-broken")>> ELSE <<>>
             d == IF z.ds = "sha1" THEN <<DnssecRow(at, "SHA1-DS", "sha1-ds-digest")>> ELSE <<>>
  <1>1. _scan_domain(at, z) = <<e>> \o b \o c \o d
    BY DEF _scan_domain
  <1>2. e.proto = "DNSSEC" /\ e.key = "RSASHA1"
    BY BlankIs, FieldsAre DEF DnssecRow
  <1>3. IsSeq(b) /\ IsSeq(c) /\ IsSeq(d) /\ IsSeq(<<e>>)
    BY ShortIsSeq
  <1> HIDE DEF e, b, c, d
  <1>4. Telling(<<e>>)
    BY <1>2, OneTells DEF Tells
  <1>5. Telling(<<e>> \o b) /\ IsSeq(<<e>> \o b)
    BY <1>3, <1>4, ConcatTells, IsSeqConcat
  <1>6. Telling(<<e>> \o b \o c) /\ IsSeq(<<e>> \o b \o c)
    BY <1>3, <1>5, ConcatTells, IsSeqConcat
  <1>7. QED
    BY <1>1, <1>3, <1>6, ConcatTells

LEMMA DirectoriesTell ==
    ASSUME NEW at, NEW d \in Directories, ShownByDirectory(d)
    PROVE  Telling(scan_smime_target(at, d)) /\ Telling(scan_codesign_from_ldap(at, d))
  <1>1. d.ldap = "ok" /\ WeakCertificate(d.cert)
    BY DEF ShownByDirectory
  <1>2. d.cert.key # "EC192"
    BY DirectoryTyped, CertificateTyped
  <1>3. d.cert.hash = "SHA1" \/ d.cert.key = "RSA1024"
    BY <1>1, <1>2 DEF WeakCertificate
  <1>4. scan_smime_target(at, d) = <<SmimeRow(at, d.cert)>>
    BY <1>1 DEF scan_smime_target
  <1>5. Tells(SmimeRow(at, d.cert))
    BY <1>3, SmimeRowIs DEF Tells
  <1>6. scan_codesign_from_ldap(at, d) = <<CodesignRow(at, d.cert, "weak")>>
    BY <1>1 DEF scan_codesign_from_ldap, _classify_codesign_severity
  <1>7. Tells(CodesignRow(at, d.cert, "weak"))
    BY CodesignRowIs DEF Tells
  <1>8. QED
    BY <1>4, <1>5, <1>6, <1>7, OneTells

LEMMA AdcsTells ==
    ASSUME NEW at, NEW ca \in Cas, ca.ldap = "ok" /\ ca.cert = "weak"
    PROVE  Telling(scan_adcs_target(at, ca))
  <1> DEFINE e == [AdcsRow(at, "weak-signing-alg", "HIGH") EXCEPT !.key = "RSA2048", !.suites = "SHA1"]
             escs == _classify_template_escs(ca.template)
             found == [i \in DOMAIN escs |-> AdcsRow(at, escs[i], "HIGH")]
             b == IF ca.template = "search-failed" THEN <<AdcsUnreachable(at)>> ELSE found
             c == [i \in 1 .. 4 |-> AdcsRow(at, "coverage-gap", "LOW")]
  <1>1. scan_adcs_target(at, ca) = <<e>> \o b \o c
    BY DEF scan_adcs_target
  <1>2. e.proto = "ADCS" /\ e.tag = "weak-signing-alg"
    BY AdcsRowIs, FieldsAre
  <1>3. IsSeq(c) /\ IsSeq(<<e>>)
    BY DEF IsSeq
  <1>4. IsSeq(b)
    <2>1. escs \in {<<>>, <<"esc1">>, <<"esc1", "esc1">>, <<"esc6">>}
      BY DEF _classify_template_escs
    <2> HIDE DEF escs
    <2>2. DOMAIN escs = 1 .. Len(escs) /\ Len(escs) \in Nat
      BY <2>1
    <2>3. IsSeq(found)
      BY <2>2 DEF IsSeq
    <2>4. QED
      BY <2>3, ShortIsSeq
  <1> HIDE DEF e, b, c
  <1>5. Telling(<<e>>)
    BY <1>2, OneTells DEF Tells
  <1>6. Telling(<<e>> \o b) /\ IsSeq(<<e>> \o b)
    BY <1>3, <1>4, <1>5, ConcatTells, IsSeqConcat
  <1>7. QED
    BY <1>1, <1>3, <1>6, ConcatTells

LEMMA CodesignTlsTells ==
    ASSUME NEW at, NEW c \in Certificates, WeakCertificate(c)
    PROVE  Telling(scan_codesign_from_tls_endpoints(at, c))
  <1>1. scan_codesign_from_tls_endpoints(at, c) = <<CodesignRow(at, c, "weak")>>
    BY DEF scan_codesign_from_tls_endpoints, _classify_codesign_severity
  <1>2. Tells(CodesignRow(at, c, "weak"))
    BY CodesignRowIs DEF Tells
  <1>3. QED
    BY <1>1, <1>2, OneTells

LEMMA EmailTells ==
    ASSUME NEW at, NEW m \in MailServers, ShownByMail(m)
    PROVE  Telling(<<scan_one_email(at, m)>>)
  <1> DEFINE e == scan_one_email(at, m)
  <1>1. m.answer = "tls" /\ m.cipher \in {"rsa-kex", "3des"} => m.tls = "TLSv1.2"
    BY DEF MailServers
  <1>2. e.proto \in EMAIL_PROTOCOLS
    BY MailRowIs, MailTyped
  <1>3. /\ m.answer = "tls" /\ m.tls = "TLSv1.2" => e.blocker = "none" /\ e.cipher = m.cipher
        /\ m.answer = "no-starttls" => e.blocker = "none" /\ e.tls = "none"
    BY MailRowIs
  <1> HIDE DEF e
  <1>4. Tells(e)
    BY <1>1, <1>2, <1>3 DEF ShownByMail, Tells
  <1>5. QED
    BY <1>4, OneTells DEF e

LEMMA BrokerTells ==
    ASSUME NEW at, NEW b \in Brokers, ShownByBroker(b)
    PROVE  Telling(_run_broker_phase(at, b))
  <1> DEFINE found == BrokerRows(at, b)
             adv == MgmtAdvisories(at, b)
             unreached == build_unreached_target_advisories(at, b, found)
             x == Blank("KAFKA-PLAIN", at)
             y == Blank("AMQP-PLAIN", at)
             z == Blank("REDIS-PLAIN", at)
  <1>1. _run_broker_phase(at, b) = found \o adv \o unreached
    BY DEF _run_broker_phase
  <1>2. found \in {<<x>>, <<y>>, <<z>>}
    BY DEF ShownByBroker, BrokerRows, scan_one_kafka, scan_one_rabbitmq, scan_one_redis,
           _detect_kafka_plaintext, _detect_amqp_plaintext, _detect_redis_plaintext
  <1>3. x.proto = "KAFKA-PLAIN" /\ y.proto = "AMQP-PLAIN" /\ z.proto = "REDIS-PLAIN"
    BY BlankIs
  <1>4. IsSeq(adv) /\ IsSeq(unreached)
    BY ShortIsSeq DEF MgmtAdvisories, build_unreached_target_advisories
  <1> HIDE DEF adv, unreached, x, y, z
  <1>5. Tells(x) /\ Tells(y) /\ Tells(z)
    BY <1>3 DEF Tells, BrokerPlain
  <1>6. Telling(found) /\ IsSeq(found)
    BY <1>2, <1>5, OneTells DEF IsSeq
  <1> HIDE DEF found
  <1>7. Telling(found \o adv) /\ IsSeq(found \o adv)
    BY <1>4, <1>6, ConcatTells, IsSeqConcat
  <1>8. QED
    BY <1>1, <1>4, <1>7, ConcatTells

-----------------------------------------------------------------------------
(* The inductive invariant *)

(* TLS and HTTP are seen only where fingerprinting saw them. *)
PortFits(e) == e.proto \in {"TLS", "HTTP"} => e.at \in DOMAIN ports /\ ports[e.at] = e.proto

EstateInv ==
    /\ IsSeq(rows)
    /\ \A i \in DOMAIN rows : RowFits(rows[i]) /\ PortFits(rows[i])
    /\ \A at \in exposed : \E i \in DOMAIN rows : rows[i].at = at /\ Tells(rows[i])
    /\ report = Report(rows)

(* What a probe adds: rows about its target, one of which tells of the
   weakness that the target showed. *)
Adds(at, P) ==
    \E rs : /\ Written(rs, at, P)
            /\ rows' = rows \o rs
            /\ \/ exposed' = exposed
               \/ exposed' = exposed \cup {at} /\ Telling(rs)

LEMMA ProbeAdds ==
    ASSUME NEW n, NEW at, NEW P, NEW outcomes, Probe(n, at, outcomes),
           \A o \in outcomes : Written(o[1], at, P) /\ (o[2] => Telling(o[1]))
    PROVE  Adds(at, P)
  BY DEF Probe, Adds

LEMMA ServiceAdds ==
    ASSUME NEW at, Service(at)
    PROVE  Adds(at, ServiceProtocols)
  <1>1. CASE Jwt(at)
    <2> DEFINE Shown(d) == FALSE
               outcomes == {<<scan_jwt_endpoint(at, d), Shown(d)>> : d \in JwksDocs}
    <2>1. Probe(5, at, outcomes)
      BY <1>1 DEF Jwt
    <2>2. \A d \in JwksDocs : ~ Shown(d)
      OBVIOUS
    <2> HIDE DEF Shown
    <2>3. \A o \in outcomes : Written(o[1], at, ServiceProtocols) /\ (o[2] => Telling(o[1]))
      BY <2>2, JwtWritten DEF FromService
    <2> HIDE DEF outcomes
    <2>4. QED
      BY <2>1, <2>3, ProbeAdds
  <1>2. CASE Container(at)
    <2> DEFINE Shown(i) == FALSE
               outcomes == {<<scan_container_image(at, i), Shown(i)>> : i \in Images}
    <2>1. Probe(6, at, outcomes)
      BY <1>2 DEF Container
    <2>2. \A i \in Images : ~ Shown(i)
      OBVIOUS
    <2> HIDE DEF Shown
    <2>3. \A o \in outcomes : Written(o[1], at, ServiceProtocols) /\ (o[2] => Telling(o[1]))
      BY <2>2, ContainerWritten DEF FromService
    <2> HIDE DEF outcomes
    <2>4. QED
      BY <2>1, <2>3, ProbeAdds
  <1>3. CASE Source(at)
    <2> DEFINE Shown(r) == FALSE
               outcomes == {<<scan_source_targets(at, r), Shown(r)>> : r \in RepoLists}
    <2>1. Probe(7, at, outcomes)
      BY <1>3 DEF Source
    <2>2. \A r \in RepoLists : ~ Shown(r)
      OBVIOUS
    <2> HIDE DEF Shown
    <2>3. \A o \in outcomes : Written(o[1], at, ServiceProtocols) /\ (o[2] => Telling(o[1]))
      BY <2>2, SourceWritten DEF FromService
    <2> HIDE DEF outcomes
    <2>4. QED
      BY <2>1, <2>3, ProbeAdds
  <1>4. CASE Bearer(at)
    <2> DEFINE Shown(t) == t \in {"alg-none", "alg-absent"}
               outcomes == {<<_bearer_token_endpoints(at, t), Shown(t)>> : t \in BearerTokens}
    <2>1. Probe(8, at, outcomes)
      BY <1>4 DEF Bearer
    <2>2. \A t \in BearerTokens : Shown(t) => Telling(_bearer_token_endpoints(at, t))
      BY ApisTell
    <2> HIDE DEF Shown
    <2>3. \A o \in outcomes : Written(o[1], at, ServiceProtocols) /\ (o[2] => Telling(o[1]))
      BY <2>2, BearerWritten DEF FromService
    <2> HIDE DEF outcomes
    <2>4. QED
      BY <2>1, <2>3, ProbeAdds
  <1>5. CASE OpenApi(at)
    <2> DEFINE Shown(s) == s.read = "ok" /\ s.http
               outcomes == {<<scan_openapi_spec(at, s), Shown(s)>> : s \in Specs}
    <2>1. Probe(9, at, outcomes)
      BY <1>5 DEF OpenApi
    <2>2. \A s \in Specs : Shown(s) => Telling(scan_openapi_spec(at, s))
      BY ApisTell
    <2> HIDE DEF Shown
    <2>3. \A o \in outcomes : Written(o[1], at, ServiceProtocols) /\ (o[2] => Telling(o[1]))
      BY <2>2, OpenApiWritten DEF FromService
    <2> HIDE DEF outcomes
    <2>4. QED
      BY <2>1, <2>3, ProbeAdds
  <1>6. CASE Fuzz(at)
    <2> DEFINE Shown(f) == f.confirmed /\ f.extra /\ f.weakTls
               outcomes == {<<run_fuzz_scan(at, f), Shown(f)>> : f \in Fuzzed}
    <2>1. Probe(10, at, outcomes)
      BY <1>6 DEF Fuzz
    <2>2. \A f \in Fuzzed : Shown(f) => Telling(run_fuzz_scan(at, f))
      BY ApisTell
    <2> HIDE DEF Shown
    <2>3. \A o \in outcomes : Written(o[1], at, ServiceProtocols) /\ (o[2] => Telling(o[1]))
      BY <2>2, FuzzWritten DEF FromService
    <2> HIDE DEF outcomes
    <2>4. QED
      BY <2>1, <2>3, ProbeAdds
  <1>7. CASE Aws(at)
    <2> DEFINE Shown(a) == a.kind = "s3" /\ a.answer \in {"no-rules", "not-found"}
               outcomes == {<<scan_aws_targets(at, a), Shown(a)>> : a \in AwsAssets}
    <2>1. Probe(11, at, outcomes)
      BY <1>7 DEF Aws
    <2>2. \A a \in AwsAssets : Shown(a) => Telling(scan_aws_targets(at, a))
      BY AwsTells
    <2> HIDE DEF Shown
    <2>3. \A o \in outcomes : Written(o[1], at, ServiceProtocols) /\ (o[2] => Telling(o[1]))
      BY <2>2, AwsWritten DEF FromService
    <2> HIDE DEF outcomes
    <2>4. QED
      BY <2>1, <2>3, ProbeAdds
  <1>8. CASE Azure(at)
    <2> DEFINE Shown(a) == FALSE
               outcomes == {<<scan_azure_targets(at, a), Shown(a)>> : a \in AzureAssets}
    <2>1. Probe(12, at, outcomes)
      BY <1>8 DEF Azure
    <2>2. \A a \in AzureAssets : ~ Shown(a)
      OBVIOUS
    <2> HIDE DEF Shown
    <2>3. \A o \in outcomes : Written(o[1], at, ServiceProtocols) /\ (o[2] => Telling(o[1]))
      BY <2>2, AzureWritten DEF FromService
    <2> HIDE DEF outcomes
    <2>4. QED
      BY <2>1, <2>3, ProbeAdds
  <1>9. CASE Gcp(at)
    <2> DEFINE Shown(a) == FALSE
               outcomes == {<<scan_gcp_targets(at, a), Shown(a)>> : a \in GcpAssets}
    <2>1. Probe(13, at, outcomes)
      BY <1>9 DEF Gcp
    <2>2. \A a \in GcpAssets : ~ Shown(a)
      OBVIOUS
    <2> HIDE DEF Shown
    <2>3. \A o \in outcomes : Written(o[1], at, ServiceProtocols) /\ (o[2] => Telling(o[1]))
      BY <2>2, GcpWritten DEF FromService
    <2> HIDE DEF outcomes
    <2>4. QED
      BY <2>1, <2>3, ProbeAdds
  <1>10. CASE Database(at)
    <2> DEFINE Shown(d) == d.connect = "plaintext" /\ ~ d.ssl
               outcomes == {<<scan_db_target(at, d), Shown(d)>> : d \in Databases}
    <2>1. Probe(14, at, outcomes)
      BY <1>10 DEF Database
    <2>2. \A d \in Databases : Shown(d) => Telling(scan_db_target(at, d))
      BY DatabaseTells
    <2> HIDE DEF Shown
    <2>3. \A o \in outcomes : Written(o[1], at, ServiceProtocols) /\ (o[2] => Telling(o[1]))
      BY <2>2, DatabaseWritten DEF FromService
    <2> HIDE DEF outcomes
    <2>4. QED
      BY <2>1, <2>3, ProbeAdds
  <1>11. CASE Kubernetes(at)
    BY <1>11, KubernetesWritten, KubernetesTells, ProbeAdds DEF Kubernetes, FromService
  <1>12. CASE Vault(at)
    <2> DEFINE Shown(v) == v.login = "ok" /\ v.auth = "token"
               outcomes == {<<scan_vault_targets(at, v), Shown(v)>> : v \in Vaults}
    <2>1. Probe(16, at, outcomes)
      BY <1>12 DEF Vault
    <2>2. \A v \in Vaults : Shown(v) => Telling(scan_vault_targets(at, v))
      BY VaultTells
    <2> HIDE DEF Shown
    <2>3. \A o \in outcomes : Written(o[1], at, ServiceProtocols) /\ (o[2] => Telling(o[1]))
      BY <2>2, VaultWritten DEF FromService
    <2> HIDE DEF outcomes
    <2>4. QED
      BY <2>1, <2>3, ProbeAdds
  <1>13. CASE Kerberos(at)
    BY <1>13, KerberosWritten, KerberosTells, ProbeAdds DEF Kerberos, FromService
  <1>14. CASE Saml(at)
    BY <1>14, SamlWritten, SamlTells, ProbeAdds DEF Saml, FromService
  <1>15. CASE Dnssec(at)
    <2> DEFINE Shown(z) == z.ns = "ok" /\ z.dnskey = "RSASHA1"
               outcomes == {<<_scan_domain(at, z), Shown(z)>> : z \in Zones}
    <2>1. Probe(19, at, outcomes)
      BY <1>15 DEF Dnssec
    <2>2. \A z \in Zones : Shown(z) => Telling(_scan_domain(at, z))
      BY DnssecTells
    <2> HIDE DEF Shown
    <2>3. \A o \in outcomes : Written(o[1], at, ServiceProtocols) /\ (o[2] => Telling(o[1]))
      BY <2>2, DnssecWritten DEF FromService
    <2> HIDE DEF outcomes
    <2>4. QED
      BY <2>1, <2>3, ProbeAdds
  <1>16. CASE Smime(at)
    BY <1>16, SmimeWritten, DirectoriesTell, ProbeAdds DEF Smime, FromService
  <1>17. CASE Adcs(at)
    <2> DEFINE Shown(c) == c.ldap = "ok" /\ c.cert = "weak"
               outcomes == {<<scan_adcs_target(at, c), Shown(c)>> : c \in Cas}
    <2>1. Probe(20, at, outcomes)
      BY <1>17 DEF Adcs
    <2>2. \A c \in Cas : Shown(c) => Telling(scan_adcs_target(at, c))
      BY AdcsTells
    <2> HIDE DEF Shown
    <2>3. \A o \in outcomes : Written(o[1], at, ServiceProtocols) /\ (o[2] => Telling(o[1]))
      BY <2>2, AdcsWritten DEF FromService
    <2> HIDE DEF outcomes
    <2>4. QED
      BY <2>1, <2>3, ProbeAdds
  <1>18. CASE CodesignLdap(at)
    BY <1>18, CodesignWritten, DirectoriesTell, ProbeAdds DEF CodesignLdap, FromService
  <1>19. CASE Email(at)
    BY <1>19, EmailWritten, EmailTells, ProbeAdds DEF Email, FromService
  <1>20. CASE Broker(at)
    BY <1>20, BrokerPhaseWritten, BrokerTells, ProbeAdds DEF Broker, FromService
  <1>21. QED
    BY <1>1, <1>2, <1>3, <1>4, <1>5, <1>6, <1>7, <1>8, <1>9, <1>10, <1>11, <1>12, <1>13, <1>14, <1>15,
       <1>16, <1>17, <1>18, <1>19, <1>20 DEF Service

(* What a step does to the ports: nothing is forgotten, and rows of TLS and
   HTTP are about ports that were fingerprinted as such. *)
Fingerprinted(at, P) ==
    /\ \A q \in DOMAIN ports : q \in DOMAIN ports' /\ ports'[q] = ports[q]
    /\ \A p \in P \cap {"TLS", "HTTP"} : at \in DOMAIN ports' /\ ports'[at] = p

LEMMA PortRemembered ==
    ASSUME NEW at, NEW p, at \notin DOMAIN ports,
           ports' = [q \in DOMAIN ports \cup {at} |-> IF q = at THEN p ELSE ports[q]]
    PROVE  /\ \A q \in DOMAIN ports : q \in DOMAIN ports' /\ ports'[q] = ports[q]
           /\ at \in DOMAIN ports' /\ ports'[at] = p
  OBVIOUS

LEMMA PlaceAdds ==
    ASSUME NEW at, Inventory(at) \/ Tls(at) \/ Ssh(at) \/ Pqc(at) \/ CodesignTls(at)
    PROVE  \E P : Adds(at, P) /\ Fingerprinted(at, P)
  <1>1. CASE Inventory(at)
    <2>1. PICK p \in {"CLOSED", "HTTP", "UNKNOWN"} :
              Port(1, at, p, {<<InventoryRows(at, s), p = "HTTP">> :
                              s \in {t \in Ports : fingerprint_service(t)[2] = p}})
      BY <1>1 DEF Inventory
    <2> DEFINE Shown(s) == p = "HTTP"
               S == {t \in Ports : fingerprint_service(t)[2] = p}
               outcomes == {<<InventoryRows(at, s), Shown(s)>> : s \in S}
    <2>2. Port(1, at, p, outcomes)
      BY <2>1
    <2>3. \A s \in S : Shown(s) => Telling(InventoryRows(at, s))
      BY InventoryTells
    <2> HIDE DEF Shown
    <2>4. \A o \in outcomes : Written(o[1], at, {p}) /\ (o[2] => Telling(o[1]))
      <3>1. \A s \in S : Written(InventoryRows(at, s), at, {p})
        BY InventoryWritten DEF Written
      <3>2. QED
        BY <2>3, <3>1
    <2> HIDE DEF outcomes
    <2>5. Adds(at, {p})
      BY <2>2, <2>4, ProbeAdds DEF Port
    <2>6. Fingerprinted(at, {p})
      BY <2>2, PortRemembered DEF Port, Fingerprinted
    <2>7. QED
      BY <2>5, <2>6
  <1>2. CASE Tls(at)
    <2> DEFINE outcomes == {<<<<scan_one(at, s)>>, ShownByTls(s)>> : s \in TlsServers}
    <2>1. Port(2, at, "TLS", outcomes)
      BY <1>2 DEF Tls
    <2>2. \A o \in outcomes : Written(o[1], at, {"TLS"}) /\ (o[2] => Telling(o[1]))
      BY TlsWritten, TlsTells
    <2> HIDE DEF outcomes
    <2>3. Adds(at, {"TLS"})
      BY <2>1, <2>2, ProbeAdds DEF Port
    <2>4. Fingerprinted(at, {"TLS"})
      BY <2>1, PortRemembered DEF Port, Fingerprinted
    <2>5. QED
      BY <2>3, <2>4
  <1>3. CASE Ssh(at)
    <2> DEFINE Shown(s) == FALSE
               outcomes == {<<scan_ssh_one(at, s), Shown(s)>> : s \in SshServers}
    <2>1. Port(3, at, "SSH", outcomes)
      BY <1>3 DEF Ssh
    <2>2. \A s \in SshServers : ~ Shown(s)
      OBVIOUS
    <2> HIDE DEF Shown
    <2>3. \A o \in outcomes : Written(o[1], at, {"SSH"}) /\ (o[2] => Telling(o[1]))
      BY <2>2, SshWritten
    <2> HIDE DEF outcomes
    <2>4. Adds(at, {"SSH"})
      BY <2>1, <2>3, ProbeAdds DEF Port
    <2>5. Fingerprinted(at, {"SSH"})
      BY <2>1, PortRemembered DEF Port, Fingerprinted
    <2>6. QED
      BY <2>4, <2>5
  <1>4. CASE Pqc(at)
    <2> DEFINE Shown(s) == FALSE
               outcomes == {<<_run_pqc_phase(at, s), Shown(s)>> : s \in KexOffers}
    <2>1. OnTls(4, at, outcomes)
      BY <1>4 DEF Pqc
    <2>2. \A s \in KexOffers : ~ Shown(s)
      OBVIOUS
    <2> HIDE DEF Shown
    <2>3. \A o \in outcomes : Written(o[1], at, {"TLS", "ADVISORY"}) /\ (o[2] => Telling(o[1]))
      BY <2>2, PqcWritten
    <2> HIDE DEF outcomes
    <2>4. Adds(at, {"TLS", "ADVISORY"})
      BY <2>1, <2>3, ProbeAdds DEF OnTls
    <2>5. Fingerprinted(at, {"TLS", "ADVISORY"})
      BY <2>1 DEF OnTls, Fingerprinted
    <2>6. QED
      BY <2>4, <2>5
  <1>5. CASE CodesignTls(at)
    <2> DEFINE outcomes == {<<scan_codesign_from_tls_endpoints(at, c), WeakCertificate(c)>> : c \in Certificates}
    <2>1. OnTls(21, at, outcomes)
      BY <1>5 DEF CodesignTls
    <2>2. \A o \in outcomes : Written(o[1], at, {"CODE_SIGNING"}) /\ (o[2] => Telling(o[1]))
      BY CodesignWritten, CodesignTlsTells
    <2> HIDE DEF outcomes
    <2>3. Adds(at, {"CODE_SIGNING"})
      BY <2>1, <2>2, ProbeAdds DEF OnTls
    <2>4. Fingerprinted(at, {"CODE_SIGNING"})
      BY <2>1 DEF OnTls, Fingerprinted
    <2>5. QED
      BY <2>3, <2>4
  <1>6. QED
    BY <1>1, <1>2, <1>3, <1>4, <1>5

LEMMA AddsKeeps ==
    ASSUME EstateInv, NEW at, NEW P, Adds(at, P), Fingerprinted(at, P), report' = Report(rows')
    PROVE  EstateInv'
  <1>1. PICK rs : /\ Written(rs, at, P)
                  /\ rows' = rows \o rs
                  /\ \/ exposed' = exposed
                     \/ exposed' = exposed \cup {at} /\ Telling(rs)
    BY DEF Adds
  <1>2. IsSeq(rows) /\ IsSeq(rs)
    BY <1>1 DEF EstateInv, Written
  <1> DEFINE n == Len(rows)
             new == rows \o rs
  <1>3. /\ IsSeq(new) /\ n \in Nat /\ Len(rs) \in Nat
        /\ DOMAIN rows = 1 .. n /\ DOMAIN rs = 1 .. Len(rs) /\ DOMAIN new = 1 .. n + Len(rs)
        /\ \A i \in 1 .. n : new[i] = rows[i]
        /\ \A i \in 1 .. Len(rs) : new[n + i] = rs[i]
        /\ \A i \in 1 .. n + Len(rs) : i > n => new[i] = rs[i - n]
    BY <1>2, IsSeqConcat
  <1>4. rows' = new
    BY <1>1
  <1> HIDE DEF n, new
  <1>5. ASSUME NEW i \in DOMAIN new PROVE (\E j \in DOMAIN rows : new[i] = rows[j]) \/ (\E j \in DOMAIN rs : new[i] = rs[j])
    <2> DEFINE m == Len(rs)
    <2>1. /\ n \in Nat /\ m \in Nat /\ DOMAIN rows = 1 .. n /\ DOMAIN rs = 1 .. m /\ DOMAIN new = 1 .. n + m
          /\ \A k \in 1 .. n : new[k] = rows[k]
          /\ \A k \in 1 .. n + m : k > n => new[k] = rs[k - n]
      BY <1>3
    <2> HIDE DEF m
    <2>2. i \in 1 .. n + m
      BY <2>1
    <2>3. CASE i \in 1 .. n
      BY <2>1, <2>3
    <2>4. CASE i > n
      <3>1. i - n \in 1 .. m
        BY <2>1, <2>2, <2>4
      <3>2. QED
        BY <2>1, <2>2, <2>4, <3>1
    <2>5. QED
      BY <2>1, <2>2, <2>3, <2>4
  <1>6. \A i \in DOMAIN rows : i \in DOMAIN new /\ new[i] = rows[i]
    <2> DEFINE m == Len(rs)
    <2>1. n \in Nat /\ m \in Nat /\ DOMAIN rows = 1 .. n /\ DOMAIN new = 1 .. n + m
          /\ \A i \in 1 .. n : new[i] = rows[i]
      BY <1>3
    <2> HIDE DEF m
    <2>2. \A i \in 1 .. n : i \in 1 .. n + m
      BY <2>1
    <2>3. QED
      BY <2>1, <2>2
  <1>7. \A i \in DOMAIN rs : n + i \in DOMAIN new /\ new[n + i] = rs[i]
    <2> DEFINE m == Len(rs)
    <2>1. n \in Nat /\ m \in Nat /\ DOMAIN rs = 1 .. m /\ DOMAIN new = 1 .. n + m
          /\ \A i \in 1 .. m : new[n + i] = rs[i]
      BY <1>3
    <2> HIDE DEF m
    <2>2. \A i \in 1 .. m : n + i \in 1 .. n + m
      BY <2>1
    <2>3. QED
      BY <2>1, <2>2
  <1>8. \A i \in DOMAIN rows : RowFits(rows[i]) /\ (rows[i].proto \in {"TLS", "HTTP"} =>
            rows[i].at \in DOMAIN ports' /\ ports'[rows[i].at] = rows[i].proto)
    BY DEF EstateInv, PortFits, Fingerprinted
  <1>9. \A i \in DOMAIN rs : RowFits(rs[i]) /\ (rs[i].proto \in {"TLS", "HTTP"} =>
            rs[i].at \in DOMAIN ports' /\ ports'[rs[i].at] = rs[i].proto)
    BY <1>1 DEF Written, Fingerprinted
  <1>10. \A i \in DOMAIN new : RowFits(new[i]) /\ (new[i].proto \in {"TLS", "HTTP"} =>
            new[i].at \in DOMAIN ports' /\ ports'[new[i].at] = new[i].proto)
    BY <1>5, <1>8, <1>9
  <1>11. ASSUME NEW a \in exposed' PROVE \E i \in DOMAIN new : new[i].at = a /\ Tells(new[i])
    <2>1. CASE a \in exposed
      BY <1>6, <2>1 DEF EstateInv
    <2>2. CASE a = at /\ Telling(rs)
      <3>1. PICK j \in DOMAIN rs : Tells(rs[j])
        BY <2>2 DEF Telling
      <3>2. rs[j].at = at
        BY <1>1 DEF Written
      <3>3. QED
        BY <1>7, <2>2, <3>1, <3>2
    <2>3. QED
      BY <1>1, <2>1, <2>2
  <1>12. (\A i \in DOMAIN rows : RowFits(rows[i]) /\ PortFits(rows[i]))'
    BY <1>4, <1>10 DEF PortFits
  <1>13. (\A a \in exposed : \E i \in DOMAIN rows : rows[i].at = a /\ Tells(rows[i]))'
    BY <1>4, <1>11
  <1>14. QED
    BY <1>3, <1>4, <1>12, <1>13 DEF EstateInv

LEMMA EstateInit == Init => EstateInv
  BY DEF Init, EstateInv, IsSeq

LEMMA EstateNext == EstateInv /\ [Next]_vars => EstateInv'
  <1> SUFFICES ASSUME EstateInv, [Next]_vars PROVE EstateInv'
    OBVIOUS
  <1>1. ASSUME NEW at \in Places, Inventory(at) \/ Tls(at) \/ Ssh(at) \/ Pqc(at) \/ CodesignTls(at),
               report' = Report(rows')
        PROVE  EstateInv'
    BY <1>1, PlaceAdds, AddsKeeps
  <1>2. ASSUME NEW at \in Services, Service(at), UNCHANGED ports, report' = Report(rows') PROVE EstateInv'
    <2>1. Adds(at, ServiceProtocols)
      BY <1>2, ServiceAdds
    <2>2. Fingerprinted(at, ServiceProtocols)
      <3>1. ServiceProtocols \cap {"TLS", "HTTP"} = {}
        BY DEF ServiceProtocols, EMAIL_PROTOCOLS, EmailStartTls, EmailImplicit, BrokerPlain, BrokerTls
      <3>2. QED
        BY <1>2, <3>1 DEF Fingerprinted
    <2>3. QED
      BY <1>2, <2>1, <2>2, AddsKeeps
  <1>3. CASE UNCHANGED vars
    BY <1>3 DEF vars, EstateInv, PortFits
  <1>4. QED
    BY <1>1, <1>2, <1>3 DEF Next

(* Every row keeps the shape that its scanner gives it, and every place that
   showed a weakness has a row that tells of it. *)
THEOREM EstateHolds == Spec => []EstateInv
  BY EstateInit, EstateNext, PTL DEF Spec

-----------------------------------------------------------------------------
(* The bill of materials *)

LEMMA KeyNames ==
    ASSUME NEW key \in Catalogued, NEW proto
    PROVE  /\ key \notin NotRegistered
           /\ KeyName(key) \in {KeyName(key), SizedName(key)}
           /\ key \in Classical \ {"ECDSAP256"} =>
                \A n \in {KeyName(key), SizedName(key)} \cup _normalize_cloud_key_spec(proto, key) :
                    quantum_safety_label(classify_algorithm(n)) # "quantum-safe"
  <1>1. key \notin NotRegistered
    BY DEF Catalogued, Classical, NotRegistered
  <1>2. ASSUME key \in Classical \ {"ECDSAP256"},
               NEW n \in {KeyName(key), SizedName(key)} \cup _normalize_cloud_key_spec(proto, key)
        PROVE  quantum_safety_label(classify_algorithm(n)) # "quantum-safe"
    <2>1. n \in {"RSA", "ECDSA", "Ed25519", "RSASHA1", "RSASHA256", "RSA-1024", "RSA-2048", "ECDSA-192",
                 "ECDSA-256", "Ed25519-256", "EC_prime256v1", "EC192", "EDDSA"}
      BY <1>2 DEF Classical, KeyName, SizedName, _normalize_cloud_key_spec
    <2>2. classify_algorithm(n) \in {0, Unlevelled}
      BY <2>1 DEF classify_algorithm, _ALGORITHM_TABLE
    <2>3. QED
      BY <2>2 DEF quantum_safety_label
  <1>3. QED
    BY <1>1, <1>2

LEMMA AlgorithmOfKey ==
    ASSUME NEW e, RowFits(e), e.key \in Catalogued
    PROVE  Algorithms(e) \cap ({KeyName(e.key), SizedName(e.key)} \cup _normalize_cloud_key_spec(e.proto, e.key)) # {}
  <1>1. e.proto \notin NoAlgorithm /\ e.proto \notin {"S3", "AZURE_BLOB"}
    BY DEF RowFits
  <1>2. e.key \notin NotRegistered /\ e.key # "none"
    BY KeyNames DEF Catalogued, Classical
  <1>3. Bare(e) = {KeyName(e.key)}
    BY <1>2 DEF Bare
  <1>4. _normalize_cloud_key_spec(e.proto, e.key) # {}
    BY DEF _normalize_cloud_key_spec
  <1>5. \/ Algorithms(e) = _normalize_cloud_key_spec(e.proto, e.key)
        \/ KeyName(e.key) \in Algorithms(e)
        \/ SizedName(e.key) \in Algorithms(e)
    BY <1>1, <1>2, <1>3 DEF Algorithms, TlsAlgorithms
  <1>6. QED
    BY <1>4, <1>5

LEMMA CertificateResolves ==
    ASSUME NEW e, e.key # "none", Certified(e), e.proto \notin {"AWS", "AZURE"}, RowFits(e)
    PROVE  SizedName(e.key) \in Algorithms(e)
  <1>1. e.proto \notin {"JWT", "BEARER_TOKEN", "SAML", "SMIME", "ADCS", "CODE_SIGNING", "DNSSEC", "KERBEROS",
                        "CONTAINER", "SOURCE", "POSTGRESQL", "MYSQL", "RDS", "S3", "AZURE_BLOB", "KUBERNETES",
                        "VAULT", "GCP", "CLOUD_SQL", "SSH"} \cup MOTION_PLAINTEXT_PROTOCOLS
    BY DEF Certified, NotTransport, DAR_SKIP_PROTOCOLS
  <1>2. Algorithms(e) = TlsAlgorithms(e)
    BY <1>1 DEF Algorithms, NoAlgorithm, ByBareName
  <1>3. QED
    BY <1>2 DEF TlsAlgorithms

(* The bill of materials of any rows that have the shape the scanners give
   them is complete (build_cbom): every key that was reported has a component,
   none of which calls a key quantum-safe that is not, and the references of
   certificates resolve. *)
LEMMA BillOfRows == EstateInv => BillIsComplete
  <1> SUFFICES ASSUME EstateInv PROVE BillIsComplete
    OBVIOUS
  <1> DEFINE bill == build_cbom(rows)
  <1>1. \A i \in DOMAIN rows : RowFits(rows[i])
    BY DEF EstateInv
  <1>2. bill.algorithms = UNION {Algorithms(rows[i]) : i \in DOMAIN rows}
    BY DEF build_cbom
  <1>3. bill.certificates =
            {Certificate(rows[i]) : i \in {k \in DOMAIN rows : Certified(rows[k])}}
            \cup {Certificate(rows[i]) : i \in {k \in DOMAIN rows :
                     rows[k].proto = "CODE_SIGNING" /\ rows[k].key # "none" /\ ~ OfTls(rows, rows[k])}}
    BY DEF build_cbom
  <1> HIDE DEF bill
  <1>4. ASSUME NEW i \in DOMAIN rows, rows[i].key \in Catalogued
        PROVE  /\ KeyComponents(bill, rows[i]) # {}
               /\ rows[i].key \in Classical /\ rows[i].proto # "DNSSEC"
                    => \A n \in KeyComponents(bill, rows[i]) :
                           quantum_safety_label(classify_algorithm(n)) # "quantum-safe"
    <2> DEFINE e == rows[i]
    <2>1. RowFits(e) /\ e.key \in Catalogued /\ Algorithms(e) \subseteq bill.algorithms
      BY <1>1, <1>2, <1>4
    <2> HIDE DEF e
    <2>2. KeyComponents(bill, e) # {}
      BY <2>1, AlgorithmOfKey DEF KeyComponents
    <2>3. ASSUME e.key \in Classical, e.proto # "DNSSEC", NEW n \in KeyComponents(bill, e)
          PROVE  quantum_safety_label(classify_algorithm(n)) # "quantum-safe"
      <3>1. e.key \in Classical \ {"ECDSAP256"}
        BY <2>1, <2>3 DEF RowFits
      <3>2. n \in {KeyName(e.key), SizedName(e.key)} \cup _normalize_cloud_key_spec(e.proto, e.key)
        BY <2>3 DEF KeyComponents
      <3>3. QED
        BY <2>1, <3>1, <3>2, KeyNames
    <2>4. QED
      BY <2>2, <2>3 DEF e
  <1>5. KeysAreCatalogued(bill)
    BY <1>4 DEF KeysAreCatalogued, Catalogued
  <1>6. CertificateRefsResolve(bill)
    <2>1. SUFFICES ASSUME NEW c \in bill.certificates, c.proto \notin {"CODE_SIGNING", "AWS", "AZURE"}
                   PROVE  c.key \in bill.algorithms
      BY DEF CertificateRefsResolve
    <2>2. PICK i \in DOMAIN rows : c = Certificate(rows[i]) /\ (Certified(rows[i]) \/ rows[i].proto = "CODE_SIGNING")
      BY <1>3
    <2>3. c.proto = rows[i].proto /\ c.key = SizedName(rows[i].key)
      BY <2>2 DEF Certificate
    <2>4. Certified(rows[i]) /\ rows[i].key # "none" /\ rows[i].proto \notin {"AWS", "AZURE"}
      BY <2>1, <2>2, <2>3 DEF Certified
    <2>5. SizedName(rows[i].key) \in Algorithms(rows[i])
      BY <1>1, <2>4, CertificateResolves
    <2>6. QED
      BY <1>2, <2>3, <2>5
  <1>7. QED
    BY <1>5, <1>6 DEF BillIsComplete, bill

(* Every key that a scanner reports reaches the bill of materials, under a
   name that does not call it safe, and what the bill refers to is in it:
   build_cbom's first pass registers under the same names that the second one
   computes again, because no scanner writes a key on a row whose protocol the
   first pass skips. *)
THEOREM BillHolds == Spec => []BillIsComplete
  BY EstateHolds, BillOfRows, PTL

-----------------------------------------------------------------------------
(* What a row says is reported *)

LEMMA PenaltyNames ==
    {"legacy_tls", "cert_expired", "cert_self_signed", "kerberos_weak", "saml_weak", "dnssec_weak",
     "smime_weak_signing", "smime_weak_key", "adcs_weak_signing", "openapi_plaintext", "codesign_weak",
     "fuzz", "db_plaintext", "storage_unencrypted", "k8s_unencrypted", "vault_weak", "email_weak_cipher",
     "broker_plaintext", "email_plaintext", "starttls_missing"} \subseteq Penalties \ {"scan_error"}
  <1> DEFINE W == SCORE_WEIGHTS
  <1>1. ASSUME NEW d \in DOMAIN W, NEW i \in DOMAIN W[d] PROVE W[d][i][1] \in Penalties
    <2>1. W[d][i] \in Range(W[d])
      BY DEF Range
    <2>2. W[d][i][1] \in Terms(d)
      BY <2>1 DEF Terms
    <2>3. QED
      BY <2>2 DEF Penalties
  <1>2. DOMAIN W = {"hygiene", "modern_tls", "identity_trust", "agility_signals", "data_at_rest", "data_in_motion"}
    BY DEF SCORE_WEIGHTS
  <1>3. 1 \in DOMAIN W["modern_tls"] /\ W["modern_tls"][1][1] = "legacy_tls"
    BY DEF SCORE_WEIGHTS
  <1>4. /\ 1 \in DOMAIN W["identity_trust"] /\ W["identity_trust"][1][1] = "cert_expired"
        /\ 3 \in DOMAIN W["identity_trust"] /\ W["identity_trust"][3][1] = "cert_self_signed"
        /\ 4 \in DOMAIN W["identity_trust"] /\ W["identity_trust"][4][1] = "kerberos_weak"
        /\ 5 \in DOMAIN W["identity_trust"] /\ W["identity_trust"][5][1] = "saml_weak"
        /\ 6 \in DOMAIN W["identity_trust"] /\ W["identity_trust"][6][1] = "dnssec_weak"
        /\ 7 \in DOMAIN W["identity_trust"] /\ W["identity_trust"][7][1] = "smime_weak_signing"
        /\ 9 \in DOMAIN W["identity_trust"] /\ W["identity_trust"][9][1] = "smime_weak_key"
        /\ 12 \in DOMAIN W["identity_trust"] /\ W["identity_trust"][12][1] = "adcs_weak_signing"
    BY DEF SCORE_WEIGHTS
  <1>5. /\ 3 \in DOMAIN W["agility_signals"] /\ W["agility_signals"][3][1] = "openapi_plaintext"
        /\ 4 \in DOMAIN W["agility_signals"] /\ W["agility_signals"][4][1] = "codesign_weak"
        /\ 5 \in DOMAIN W["agility_signals"] /\ W["agility_signals"][5][1] = "fuzz"
    BY DEF SCORE_WEIGHTS
  <1>6. /\ 1 \in DOMAIN W["data_at_rest"] /\ W["data_at_rest"][1][1] = "db_plaintext"
        /\ 3 \in DOMAIN W["data_at_rest"] /\ W["data_at_rest"][3][1] = "storage_unencrypted"
        /\ 5 \in DOMAIN W["data_at_rest"] /\ W["data_at_rest"][5][1] = "k8s_unencrypted"
        /\ 7 \in DOMAIN W["data_at_rest"] /\ W["data_at_rest"][7][1] = "vault_weak"
    BY DEF SCORE_WEIGHTS
  <1>7. /\ 2 \in DOMAIN W["data_in_motion"] /\ W["data_in_motion"][2][1] = "email_weak_cipher"
        /\ 3 \in DOMAIN W["data_in_motion"] /\ W["data_in_motion"][3][1] = "broker_plaintext"
    BY DEF SCORE_WEIGHTS
  <1> HIDE DEF W
  <1>8. {"legacy_tls", "cert_expired", "cert_self_signed", "kerberos_weak", "saml_weak", "dnssec_weak",
         "smime_weak_signing", "smime_weak_key", "adcs_weak_signing"} \subseteq Penalties
    BY <1>1, <1>2, <1>3, <1>4
  <1>9. {"openapi_plaintext", "codesign_weak", "fuzz", "db_plaintext", "storage_unencrypted",
         "k8s_unencrypted", "vault_weak", "email_weak_cipher", "broker_plaintext"} \subseteq Penalties
    BY <1>1, <1>2, <1>5, <1>6, <1>7
  <1>10. {"email_plaintext", "starttls_missing"} \subseteq Penalties
    BY DEF Penalties
  <1>11. QED
    BY <1>8, <1>9, <1>10

Lowering(i) == Counters(rows, i) \cap (Penalties \ {"scan_error"}) # {}
Alarming(at) == \E x \in derive_report_findings(rows) : x[2].at = at /\ x[2].sev \in {"CRITICAL", "HIGH"}

LEMMA CounterLowers ==
    ASSUME NEW i, ~ _is_unanswered_email_probe(rows[i]),
           NEW name \in Penalties \ {"scan_error"},
           name \in UNION {CoverageCounters(rows[i]), CertificateCounters(rows[i]), IdentityCounters(rows, i),
                           DataAtRestCounters(rows[i]), ApiCounters(rows[i]), MotionCounters(rows[i])}
    PROVE  Lowering(i)
  <1>1. name \in Counters(rows, i)
    BY DEF Counters
  <1>2. QED
    BY <1>1 DEF Lowering

LEMMA FindingIs ==
    ASSUME NEW e, NEW sev
    PROVE  \A title :
           /\ _build_finding(e, sev, title).at = e.at
           /\ _build_finding(e, sev, title).sev = sev
           /\ _build_finding(e, sev, title).title = title
           /\ _build_finding(e, sev, title).category = "none"
           /\ DOMAIN _build_finding(e, sev, title) = {"at", "title", "sev", "rec", "category"}
  BY DEF _build_finding, NoFinding

(* A finding about a row that is not about plaintext HTTP is not changed
   afterwards. *)
LEMMA RowFindingAlarms ==
    ASSUME NEW i \in DOMAIN rows, NEW f \in RowFindings(rows[i]), f.title # "Plaintext HTTP service detected",
           f.at = rows[i].at, f.sev \in {"CRITICAL", "HIGH"}
    PROVE  Alarming(rows[i].at)
  <1>1. _postprocess_findings(rows, f) = f
    BY DEF _postprocess_findings
  <1>2. f \in evaluate_endpoints(rows)
    BY <1>1 DEF evaluate_endpoints
  <1>3. <<0, f>> \in derive_report_findings(rows)
    BY <1>2 DEF derive_report_findings
  <1>4. QED
    BY <1>3 DEF Alarming

LEMMA ServiceFindingAlarms ==
    ASSUME NEW i \in DOMAIN rows,
           NEW f \in evaluate_protocol_service_endpoints(rows[i]) \cup evaluate_identity_endpoints(rows, i),
           f.at = rows[i].at, f.sev \in {"CRITICAL", "HIGH"}
    PROVE  Alarming(rows[i].at)
  <1>1. <<i, f>> \in derive_report_findings(rows)
    BY DEF derive_report_findings
  <1>2. QED
    BY <1>1 DEF Alarming

(* Plaintext HTTP: the port was fingerprinted as HTTP, so no row of it is one
   of TLS that could turn the finding into a lesser one. *)
LEMMA HttpAlarms ==
    ASSUME EstateInv, NEW i \in DOMAIN rows, rows[i].proto = "HTTP", rows[i].err = "none"
    PROVE  Alarming(rows[i].at)
  <1> DEFINE at == rows[i].at
             title == "Plaintext HTTP service detected"
             f == _build_finding(rows[i], "HIGH", title)
             e == EndpointAt(rows, at)
  <1>1. RowFindings(rows[i]) = {f}
    BY DEF RowFindings, ServiceFindings
  <1>2. /\ f.at = at /\ f.sev = "HIGH" /\ f.title = title
        /\ DOMAIN f = {"at", "title", "sev", "rec", "category"}
    <2>1. \A t : /\ _build_finding(rows[i], "HIGH", t).at = at
                 /\ _build_finding(rows[i], "HIGH", t).sev = "HIGH"
                 /\ _build_finding(rows[i], "HIGH", t).title = t
                 /\ DOMAIN _build_finding(rows[i], "HIGH", t) = {"at", "title", "sev", "rec", "category"}
      BY FindingIs
    <2>2. QED
      BY <2>1
  <1>3. e.proto # "TLS"
    <2> DEFINE n == Len(rows)
               T == {j \in DOMAIN rows : rows[j].at = at}
    <2>1. n \in Nat /\ DOMAIN rows = 1 .. n
      BY DEF EstateInv, IsSeq
    <2>2. i \in T
      OBVIOUS
    <2>3. e = rows[Max(T)]
      BY DEF EndpointAt
    <2> HIDE DEF n, e
    <2>4. T \subseteq 0 .. n
      BY <2>1
    <2>5. Max(T) \in T
      BY <2>1, <2>2, <2>4, MaxIs
    <2>6. PICK j \in DOMAIN rows : e = rows[j] /\ rows[j].at = at
      BY <2>3, <2>5
    <2>7. PortFits(rows[i]) /\ PortFits(rows[j])
      BY DEF EstateInv
    <2>8. QED
      BY <2>6, <2>7 DEF PortFits
  <1> DEFINE g == _postprocess_findings(rows, f)
  <1> HIDE DEF f, e
  <1>4. g = f \/ g = [f EXCEPT !.sev = "HIGH", !.title = "HTTP on TLS-designated port"]
    BY <1>2, <1>3 DEF _postprocess_findings, e
  <1>5. g.at = at /\ g.sev = "HIGH"
    BY <1>2, <1>4
  <1>6. g \in evaluate_endpoints(rows)
    BY <1>1 DEF evaluate_endpoints
  <1> HIDE DEF g
  <1>7. <<0, g>> \in derive_report_findings(rows)
    BY <1>6 DEF derive_report_findings
  <1>8. QED
    BY <1>5, <1>7 DEF Alarming

LEMMA TlsReported ==
    ASSUME NEW i \in DOMAIN rows, rows[i].proto = "TLS", Tells(rows[i])
    PROVE  Lowering(i) \/ Alarming(rows[i].at)
  <1> DEFINE e == rows[i]
  <1>1. ~ _is_unanswered_email_probe(e)
    BY DEF _is_unanswered_email_probe, EMAIL_PROTOCOLS, EmailStartTls, EmailImplicit
  <1>2. \/ e.cert = "expired" \/ e.issuer = "self" \/ has_legacy_tls_versions_signal(e)
        \/ e.key = "RSA1024" /\ e.err = "none"
    BY DEF Tells, EMAIL_PROTOCOLS, EmailStartTls, EmailImplicit, BrokerPlain
  <1>3. CASE e.cert = "expired"
    <2>1. "cert_expired" \in CertificateCounters(rows[i])
      BY <1>3 DEF CertificateCounters, Ticks
    <2>2. QED
      BY <1>1, <2>1, PenaltyNames, CounterLowers
  <1>4. CASE e.issuer = "self"
    <2>1. "cert_self_signed" \in CertificateCounters(rows[i])
      BY <1>4 DEF CertificateCounters, Ticks
    <2>2. QED
      BY <1>1, <2>1, PenaltyNames, CounterLowers
  <1>5. CASE has_legacy_tls_versions_signal(e)
    <2>1. "legacy_tls" \in CoverageCounters(rows[i])
      BY <1>5 DEF CoverageCounters, Ticks
    <2>2. QED
      BY <1>1, <2>1, PenaltyNames, CounterLowers
  <1>6. CASE e.key = "RSA1024" /\ e.err = "none"
    <2> DEFINE f == _build_finding(e, "HIGH", "undersized certificate key")
    <2>1. f \in CertificateFindings(e)
      BY <1>6 DEF CertificateFindings, If
    <2>2. RowFindings(e) = CertificateFindings(e)
      BY <1>6 DEF RowFindings, ServiceFindings
    <2>3. f.at = e.at /\ f.sev = "HIGH" /\ f.title # "Plaintext HTTP service detected"
      <3>1. \A t : /\ _build_finding(e, "HIGH", t).at = e.at
                   /\ _build_finding(e, "HIGH", t).sev = "HIGH"
                   /\ _build_finding(e, "HIGH", t).title = t
        BY FindingIs
      <3>2. QED
        BY <3>1
    <2> HIDE DEF f
    <2>4. QED
      BY <2>1, <2>2, <2>3, RowFindingAlarms
  <1>7. QED
    BY <1>2, <1>3, <1>4, <1>5, <1>6

(* The first row of a certificate's serial number is no repetition. *)
LEMMA SamlLowers ==
    ASSUME EstateInv, NEW i \in DOMAIN rows, rows[i].proto = "SAML", rows[i].key = "RSA1024"
    PROVE  \E j \in DOMAIN rows : rows[j].at = rows[i].at /\ Lowering(j)
  <1> DEFINE n == Len(rows)
             Same(j) == rows[j].proto = "SAML" /\ rows[j].at = rows[i].at /\ rows[j].tag = rows[i].tag
             T == {j \in 1 .. n : Same(j)}
  <1>1. n \in Nat /\ DOMAIN rows = 1 .. n
    BY DEF EstateInv, IsSeq
  <1> HIDE DEF n
  <1>2. PICK j \in T : \A k \in T : j <= k
    <2>1. T \subseteq Nat /\ i \in T
      BY <1>1
    <2> HIDE DEF T
    <2>2. QED
      BY <2>1, LeastNat
  <1>3. j \in DOMAIN rows /\ rows[j].proto = "SAML" /\ rows[j].at = rows[i].at /\ rows[j].tag = rows[i].tag
    BY <1>1, <1>2
  <1>4. ~ SamlRepeats(rows, j)
    <2>1. SUFFICES ASSUME NEW k \in 1 .. j - 1, Same(k) PROVE FALSE
      BY <1>3 DEF SamlRepeats
    <2>2. k \in T /\ k < j
      BY <1>1, <1>2, <2>1
    <2>3. QED
      BY <1>1, <1>2, <2>2
  <1>5. CASE rows[i].tag \in Serials
    <2>1. PICK key \in {"RSA1024", "RSA2048", "EC256"} : rows[i].tag \in {SigningSerial[key], EncryptionSerial[key]}
      BY <1>5 DEF Serials, SigningSerial, EncryptionSerial
    <2>2. SerialFits(rows[i]) /\ SerialFits(rows[j])
      BY <1>3 DEF EstateInv, RowFits
    <2>3. rows[j].key = "RSA1024"
      BY <1>3, <2>1, <2>2 DEF SerialFits
    <2>4. "saml_weak" \in IdentityCounters(rows, j)
      BY <1>3, <1>4, <2>3 DEF IdentityCounters, UndersizedSaml, Ticks
    <2>5. ~ _is_unanswered_email_probe(rows[j])
      BY <1>3 DEF _is_unanswered_email_probe, EMAIL_PROTOCOLS, EmailStartTls, EmailImplicit
    <2>6. QED
      BY <1>3, <2>4, <2>5, PenaltyNames, CounterLowers
  <1>6. CASE rows[i].tag \notin Serials
    <2>1. ~ SamlRepeats(rows, i)
      BY <1>6 DEF SamlRepeats
    <2>2. "saml_weak" \in IdentityCounters(rows, i)
      BY <2>1 DEF IdentityCounters, UndersizedSaml, Ticks
    <2>3. ~ _is_unanswered_email_probe(rows[i])
      BY DEF _is_unanswered_email_probe, EMAIL_PROTOCOLS, EmailStartTls, EmailImplicit
    <2>4. QED
      BY <2>2, <2>3, PenaltyNames, CounterLowers
  <1>7. QED
    BY <1>5, <1>6

LEMMA IdentityReported ==
    ASSUME NEW i \in DOMAIN rows, Tells(rows[i]),
           rows[i].proto \in {"KERBEROS", "DNSSEC", "SMIME", "ADCS"}
    PROVE  Lowering(i)
  <1> DEFINE e == rows[i]
  <1>1. ~ _is_unanswered_email_probe(e)
    BY DEF _is_unanswered_email_probe, EMAIL_PROTOCOLS, EmailStartTls, EmailImplicit
  <1>2. \/ e.proto = "KERBEROS" /\ e.tag = "etype" /\ e.sev \in {"CRITICAL", "HIGH"}
        \/ e.proto = "DNSSEC" /\ e.key = "RSASHA1"
        \/ e.proto = "SMIME" /\ (e.suites = "SHA1" \/ e.key = "RSA1024")
        \/ e.proto = "ADCS" /\ e.tag = "weak-signing-alg"
    BY DEF Tells, EMAIL_PROTOCOLS, EmailStartTls, EmailImplicit, BrokerPlain
  <1>3. IdentityCounters(rows, i)
        \cap {"kerberos_weak", "dnssec_weak", "smime_weak_signing", "smime_weak_key", "adcs_weak_signing"} # {}
    BY <1>2 DEF IdentityCounters, Ticks
  <1>4. QED
    BY <1>1, <1>3, PenaltyNames, CounterLowers

LEMMA StorageReported ==
    ASSUME NEW i \in DOMAIN rows, Tells(rows[i]),
           rows[i].proto \in {"S3", "KUBERNETES", "POSTGRESQL", "MYSQL", "VAULT"}
    PROVE  Lowering(i)
  <1> DEFINE e == rows[i]
  <1>1. ~ _is_unanswered_email_probe(e)
    BY DEF _is_unanswered_email_probe, EMAIL_PROTOCOLS, EmailStartTls, EmailImplicit
  <1>2. \/ e.proto \in {"S3", "KUBERNETES"} /\ e.tag = "unencrypted"
        \/ e.proto \in {"POSTGRESQL", "MYSQL"} /\ e.err = "none" /\ e.tag = "ssl-off"
        \/ e.proto = "VAULT" /\ e.sev = "HIGH"
    BY DEF Tells, EMAIL_PROTOCOLS, EmailStartTls, EmailImplicit, BrokerPlain
  <1>3. DataAtRestCounters(e)
        \cap {"storage_unencrypted", "k8s_unencrypted", "db_plaintext", "vault_weak"} # {}
    BY <1>2 DEF DataAtRestCounters, Ticks
  <1>4. QED
    BY <1>1, <1>3, PenaltyNames, CounterLowers

LEMMA ApiReported ==
    ASSUME NEW i \in DOMAIN rows, Tells(rows[i]),
           rows[i].proto \in {"OPENAPI", "REST_FUZZ", "CODE_SIGNING"}
    PROVE  Lowering(i)
  <1> DEFINE e == rows[i]
  <1>1. ~ _is_unanswered_email_probe(e)
    BY DEF _is_unanswered_email_probe, EMAIL_PROTOCOLS, EmailStartTls, EmailImplicit
  <1>2. \/ e.proto = "OPENAPI" /\ e.tag = "plaintext_server"
        \/ e.proto = "REST_FUZZ" /\ e.sev = "HIGH"
        \/ e.proto = "CODE_SIGNING" /\ e.tag = "weak"
    BY DEF Tells, EMAIL_PROTOCOLS, EmailStartTls, EmailImplicit, BrokerPlain
  <1>3. ApiCounters(e) \cap {"openapi_plaintext", "fuzz", "codesign_weak"} # {}
    BY <1>2 DEF ApiCounters, Ticks
  <1>4. QED
    BY <1>1, <1>3, PenaltyNames, CounterLowers

LEMMA MotionReported ==
    ASSUME NEW i \in DOMAIN rows, Tells(rows[i]), rows[i].proto \in EMAIL_PROTOCOLS \cup BrokerPlain
    PROVE  Lowering(i)
  <1> DEFINE e == rows[i]
  <1>1. CASE e.proto \in BrokerPlain
    <2>1. ~ _is_unanswered_email_probe(e)
      BY <1>1 DEF _is_unanswered_email_probe, EMAIL_PROTOCOLS, EmailStartTls, EmailImplicit, BrokerPlain
    <2>2. "broker_plaintext" \in MotionCounters(e)
      BY <1>1 DEF MotionCounters
    <2>3. QED
      BY <2>1, <2>2, PenaltyNames, CounterLowers
  <1>2. CASE e.proto \in EMAIL_PROTOCOLS
    <2>1. e.blocker = "none" /\ (e.tls = "none" \/ e.cipher \in {"rsa-kex", "3des"})
      BY <1>2 DEF Tells, EMAIL_PROTOCOLS, EmailStartTls, EmailImplicit, BrokerPlain
    <2>2. ~ _is_unanswered_email_probe(e)
      BY <2>1 DEF _is_unanswered_email_probe
    <2>3. e.proto \notin BrokerPlain /\ e.proto \notin BrokerTls
      BY <1>2 DEF EMAIL_PROTOCOLS, EmailStartTls, EmailImplicit, BrokerPlain, BrokerTls
    <2>4. MotionCounters(e) \cap {"starttls_missing", "email_plaintext", "email_weak_cipher"} # {}
      BY <1>2, <2>1, <2>3 DEF MotionCounters, EMAIL_PROTOCOLS, Ticks, is_weak_cipher
    <2>5. QED
      BY <2>2, <2>4, PenaltyNames, CounterLowers
  <1>3. QED
    BY <1>1, <1>2

LEMMA TokenAlarms ==
    ASSUME NEW i \in DOMAIN rows, rows[i].proto = "BEARER_TOKEN", rows[i].key \in {"alg-none", "alg-absent"}
    PROVE  Alarming(rows[i].at)
  <1> DEFINE e == rows[i]
  <1>1. PICK t : t = "Bearer token is unsigned"
    OBVIOUS
  <1> DEFINE f == _build_finding(e, "CRITICAL", t)
  <1>2. f \in evaluate_bearer_token_endpoints(e)
    BY <1>1, Zenon DEF evaluate_bearer_token_endpoints, If
  <1>3. f.at = e.at /\ f.sev = "CRITICAL"
    BY FindingIs
  <1> HIDE DEF f
  <1>4. f \in evaluate_protocol_service_endpoints(e)
    BY <1>2 DEF evaluate_protocol_service_endpoints
  <1>5. QED
    BY <1>3, <1>4, ServiceFindingAlarms

LEMMA OidcAlarms ==
    ASSUME NEW i \in DOMAIN rows, rows[i].proto = "SAML", rows[i].key = "RS256"
    PROVE  Alarming(rows[i].at)
  <1> DEFINE e == rows[i]
  <1>1. PICK t : t = "OIDC RS-family algorithm"
    OBVIOUS
  <1> DEFINE f == _build_finding(e, "HIGH", t)
  <1>2. f \in evaluate_identity_endpoints(rows, i)
    BY <1>1, Zenon DEF evaluate_identity_endpoints
  <1>3. f.at = e.at /\ f.sev = "HIGH"
    BY FindingIs
  <1> HIDE DEF f
  <1>4. QED
    BY <1>2, <1>3, ServiceFindingAlarms

LEMMA TellingIsReported ==
    ASSUME EstateInv, NEW i \in DOMAIN rows, Tells(rows[i])
    PROVE  \/ \E j \in DOMAIN rows : rows[j].at = rows[i].at /\ Lowering(j)
           \/ Alarming(rows[i].at)
  <1> DEFINE e == rows[i]
  <1>1. CASE e.proto = "HTTP" /\ e.err = "none"
    BY <1>1, HttpAlarms
  <1>2. CASE e.proto = "TLS"
    BY <1>2, TlsReported
  <1>3. CASE e.proto = "BEARER_TOKEN" /\ e.key \in {"alg-none", "alg-absent"}
    BY <1>3, TokenAlarms
  <1>4. CASE e.proto \in {"OPENAPI", "REST_FUZZ", "CODE_SIGNING"}
    BY <1>4, ApiReported
  <1>5. CASE e.proto \in {"S3", "KUBERNETES", "POSTGRESQL", "MYSQL", "VAULT"}
    BY <1>5, StorageReported
  <1>6. CASE e.proto \in {"KERBEROS", "DNSSEC", "SMIME", "ADCS"}
    BY <1>6, IdentityReported
  <1>7. CASE e.proto = "SAML" /\ e.key = "RSA1024"
    BY <1>7, SamlLowers
  <1>8. CASE e.proto = "SAML" /\ e.key = "RS256"
    BY <1>8, OidcAlarms
  <1>9. CASE e.proto \in EMAIL_PROTOCOLS \cup BrokerPlain
    BY <1>9, MotionReported
  <1>10. QED
    <2>1. \/ e.proto = "HTTP" /\ e.err = "none"
          \/ e.proto = "TLS"
          \/ e.proto = "BEARER_TOKEN" /\ e.key \in {"alg-none", "alg-absent"}
          \/ e.proto \in {"OPENAPI", "REST_FUZZ", "CODE_SIGNING"}
          \/ e.proto \in {"S3", "KUBERNETES", "POSTGRESQL", "MYSQL", "VAULT"}
          \/ e.proto \in {"KERBEROS", "DNSSEC", "SMIME", "ADCS"}
          \/ e.proto = "SAML" /\ e.key \in {"RS256", "RSA1024"}
          \/ e.proto \in EMAIL_PROTOCOLS \cup BrokerPlain
      BY DEF Tells
    <2>2. QED
      BY <1>1, <1>2, <1>3, <1>4, <1>5, <1>6, <1>7, <1>8, <1>9, <2>1

LEMMA ReportedFromRows == EstateInv => WeaknessIsReported
  <1>1. SUFFICES ASSUME EstateInv, NEW at \in exposed
                 PROVE  (\E i \in DOMAIN rows : rows[i].at = at /\ Lowering(i)) \/ Alarming(at)
    BY DEF WeaknessIsReported, Lowering, Alarming
  <1>2. PICK i \in DOMAIN rows : rows[i].at = at /\ Tells(rows[i])
    BY <1>1 DEF EstateInv
  <1>3. QED
    BY <1>1, <1>2, TellingIsReported

(* No weakness that a target showed is lost between the scanner that saw it
   and the report: whatever was probed before and after, a row about the
   target ticks a counter that the score charges for (build_evidence_summary),
   or a finding about it is HIGH or CRITICAL (derive_report_findings).  That a
   certificate is counted once when its metadata names it twice, and that HTTP
   on a TLS port is reworded, loses none. *)
THEOREM WeaknessHolds == Spec => []WeaknessIsReported
  BY EstateHolds, ReportedFromRows, PTL

-----------------------------------------------------------------------------
(* The arithmetic of the score *)

(* A sequence of N numbers, and its partial sums. *)
Numbers(s, N) == N \in Nat /\ Len(s) = N /\ \A n \in 1 .. N : s[n] \in Int

LEMMA PartialSumsAre ==
    ASSUME NEW s, NEW N, Numbers(s, N)
    PROVE  /\ PartialSums(s)[0] = 0
           /\ \A n \in 1 .. N : PartialSums(s)[n] = PartialSums(s)[n - 1] + s[n]
           /\ Total(s) = PartialSums(s)[N]
  <1> DEFINE F(g) == [n \in 0 .. N |-> IF n = 0 THEN 0 ELSE g[n - 1] + s[n]]
             h == PartialSums(s)
             step == [n \in 1 .. N |-> [x \in Int |-> x + s[n]]]
  <1>1. N \in Nat /\ Len(s) = N /\ \A n \in 1 .. N : s[n] \in Int
    BY DEF Numbers
  <1>2. h = CHOOSE g : g = F(g)
    BY <1>1 DEF PartialSums
  <1> HIDE DEF h
  <1>3. step \in [1 .. N -> [Int -> Int]]
    BY <1>1
  <1>4. \A n \in 1 .. N, x \in Int : step[n][x] = x + s[n]
    OBVIOUS
  <1> HIDE DEF step
  <1>5. PICK g : g \in [0 .. N -> Int] /\ g[0] = 0 /\ \A n \in 1 .. N : g[n] = step[n][g[n - 1]]
    <2> DEFINE S == Int
               o == 0
    <2>1. step \in [1 .. N -> [S -> S]] /\ o \in S
      BY <1>3
    <2> HIDE DEF S, o
    <2>2. \E g : IsRun(g, N, S, o, step)
      BY <1>1, <2>1, IteratesExist
    <2>3. QED
      BY <2>2 DEF IsRun, S, o
  <1>6. \A n \in 1 .. N : n - 1 \in 0 .. N /\ n # 0
    BY <1>1
  <1>7. \A n \in 1 .. N : g[n] = g[n - 1] + s[n]
    BY <1>4, <1>5, <1>6
  <1>8. \A n \in 0 .. N : n # 0 => n \in 1 .. N
    BY <1>1
  <1>9. g = F(g)
    <2>1. \A n \in 0 .. N : g[n] = F(g)[n]
      BY <1>5, <1>7, <1>8
    <2>2. QED
      BY <1>5, <2>1
  <1>10. h = F(h)
    BY <1>2, <1>9
  <1>11. \A n \in 0 .. N : h[n] = IF n = 0 THEN 0 ELSE h[n - 1] + s[n]
    <2>1. \A n \in 0 .. N : h[n] = F(h)[n]
      BY <1>10
    <2>2. QED
      BY <2>1
  <1>12. 0 \in 0 .. N /\ \A n \in 1 .. N : n \in 0 .. N
    BY <1>1
  <1>13. h[0] = 0 /\ \A n \in 1 .. N : h[n] = h[n - 1] + s[n]
    BY <1>6, <1>11, <1>12
  <1>14. QED
    BY <1>1, <1>13 DEF h, Total

LEMMA TotalMonotone ==
    ASSUME NEW s, NEW t, NEW N, Numbers(s, N), Numbers(t, N), \A n \in 1 .. N : s[n] <= t[n]
    PROVE  Total(s) \in Int /\ Total(t) \in Int /\ Total(s) <= Total(t)
  <1> DEFINE a == PartialSums(s)
             b == PartialSums(t)
  <1>1. N \in Nat /\ \A n \in 1 .. N : s[n] \in Int /\ t[n] \in Int
    BY DEF Numbers
  <1>2. /\ a[0] = 0 /\ \A n \in 1 .. N : a[n] = a[n - 1] + s[n]
        /\ b[0] = 0 /\ \A n \in 1 .. N : b[n] = b[n - 1] + t[n]
        /\ Total(s) = a[N] /\ Total(t) = b[N]
    BY PartialSumsAre
  <1> HIDE DEF a, b
  <1> DEFINE Good(n) == a[n] \in Int /\ b[n] \in Int /\ a[n] <= b[n]
             T == {n \in 0 .. N : ~ Good(n)}
  <1>3. T = {}
    <2>1. SUFFICES ASSUME T # {} PROVE FALSE
      OBVIOUS
    <2>2. PICK n \in T : \A m \in T : n <= m
      <3>1. T \in SUBSET Nat
        BY <1>1
      <3>2. QED
        BY <2>1, <3>1, LeastNat
    <2>3. n # 0
      BY <1>2, <2>2
    <2>4. n - 1 \in 0 .. N /\ n \in 1 .. N /\ ~ (n <= n - 1)
      BY <1>1, <2>2, <2>3
    <2>5. Good(n - 1)
      BY <2>2, <2>4
    <2>6. Good(n)
      <3> DEFINE x == a[n - 1]
                 y == b[n - 1]
                 u == s[n]
                 v == t[n]
      <3>1. a[n] = x + u /\ b[n] = y + v /\ x \in Int /\ y \in Int /\ x <= y /\ u \in Int /\ v \in Int /\ u <= v
        BY <1>1, <1>2, <2>4, <2>5
      <3> HIDE DEF x, y, u, v
      <3>2. QED
        BY <3>1
    <2>7. QED
      BY <2>2, <2>6
  <1>4. Good(N)
    BY <1>1, <1>3
  <1>5. QED
    BY <1>2, <1>4

LEMMA TotalNat ==
    ASSUME NEW s, NEW N, Numbers(s, N), \A n \in 1 .. N : s[n] \in Nat
    PROVE  0 <= Total(s)
  <1> DEFINE a == PartialSums(s)
  <1>1. N \in Nat
    BY DEF Numbers
  <1>2. a[0] = 0 /\ (\A n \in 1 .. N : a[n] = a[n - 1] + s[n]) /\ Total(s) = a[N]
    BY PartialSumsAre
  <1> HIDE DEF a
  <1> DEFINE T == {n \in 0 .. N : a[n] \notin Nat}
  <1>3. T = {}
    <2>1. SUFFICES ASSUME T # {} PROVE FALSE
      OBVIOUS
    <2>2. PICK n \in T : \A m \in T : n <= m
      <3>1. T \in SUBSET Nat
        BY <1>1
      <3>2. QED
        BY <2>1, <3>1, LeastNat
    <2>3. n # 0
      BY <1>2, <2>2
    <2>4. n - 1 \in 0 .. N /\ n \in 1 .. N /\ ~ (n <= n - 1)
      BY <1>1, <2>2, <2>3
    <2>5. a[n - 1] \in Nat /\ s[n] \in Nat
      BY <2>2, <2>4
    <2>6. a[n] \in Nat
      BY <1>2, <2>4, <2>5
    <2>7. QED
      BY <2>2, <2>6
  <1>4. a[N] \in Nat
    BY <1>1, <1>3
  <1>5. QED
    BY <1>2, <1>4

LEMMA RoundMonotone ==
    ASSUME NEW d \in Nat \ {0}, NEW m \in Int, NEW n \in Int, m <= n
    PROVE  Round(m, d) \in Int /\ Round(n, d) \in Int /\ Round(m, d) <= Round(n, d)
  <1> DEFINE a == m \div d
             b == n \div d
             r == m % d
             s == n % d
  <1>1. /\ a \in Int /\ r \in 0 .. d - 1 /\ m = d * a + r
        /\ b \in Int /\ s \in 0 .. d - 1 /\ n = d * b + s
    BY SMT
  <1>2. /\ Round(m, d) = IF 2 * r > d \/ (2 * r = d /\ a % 2 = 1) THEN a + 1 ELSE a
        /\ Round(n, d) = IF 2 * s > d \/ (2 * s = d /\ b % 2 = 1) THEN b + 1 ELSE b
    BY DEF Round
  <1> HIDE DEF a, b, r, s
  <1>3. a <= b
    <2>1. SUFFICES ASSUME b + 1 <= a PROVE FALSE
      BY <1>1, SMT
    <2>2. d * (b + 1) <= d * a
      BY <1>1, <2>1, SMT
    <2>3. d * (b + 1) = d * b + d
      BY <1>1, SMT
    <2>4. QED
      BY <1>1, <2>2, <2>3, SMT
  <1>4. CASE a < b
    BY <1>1, <1>2, <1>4, SMT
  <1>5. CASE a = b
    <2>1. r <= s
      BY <1>1, <1>5, SMT
    <2>2. QED
      BY <1>1, <1>2, <1>5, <2>1, SMT
  <1>6. QED
    BY <1>1, <1>3, <1>4, <1>5, SMT

IsRoot(r, x) == r * r <= x /\ (r + 1) * (r + 1) > x

LEMMA RootIs ==
    ASSUME NEW x \in Nat, x <= 100000000
    PROVE  Root(x) \in Nat /\ IsRoot(Root(x), x)
  <1> DEFINE T == {r \in Nat : (r + 1) * (r + 1) > x}
             R == 0 .. 10000
  <1>1. 10000 \in T
    BY SMT
  <1>2. T \in SUBSET Nat
    BY SMT
  <1>3. PICK r \in T : \A y \in T : r <= y
    <2> HIDE DEF T
    <2>1. T # {}
      BY <1>1, SMT
    <2>2. QED
      BY <1>2, <2>1, LeastNat
  <1> HIDE DEF T
  <1>4. r \in Nat /\ r <= 10000 /\ r \in R
    <2>1. r \in Nat /\ r <= 10000
      BY <1>1, <1>2, <1>3, SMT
    <2>2. QED
      BY <2>1, SMTT(20)
  <1> HIDE DEF R
  <1>5. r * r <= x
    <2>1. CASE r = 0
      BY <2>1, SMT
    <2>2. CASE r # 0
      <3> DEFINE q == r - 1
      <3>1. q \in Nat /\ r = q + 1 /\ ~ (r <= q)
        BY <1>4, <2>2, SMTT(20)
      <3> HIDE DEF q
      <3>2. q \notin T
        BY <1>3, <3>1, SMT
      <3>3. QED
        BY <3>1, <3>2, SMT DEF T
    <2>3. QED
      BY <2>1, <2>2, SMT
  <1>6. r \in R /\ IsRoot(r, x)
    <2>1. (r + 1) * (r + 1) > x
      BY <1>3, SMT DEF T
    <2>2. IsRoot(r, x)
      BY <1>5, <2>1, SMTT(20) DEF IsRoot
    <2>3. QED
      BY <1>4, <2>2, SMT
  <1>7. Root(x) = CHOOSE y \in R : IsRoot(y, x)
    BY DEF Root, IsRoot, R
  <1>8. Root(x) \in R /\ IsRoot(Root(x), x)
    BY <1>6, <1>7
  <1>9. \A y \in R : y \in Nat
    BY SMTT(20) DEF R
  <1>10. QED
    BY <1>8, <1>9

LEMMA RootMonotone ==
    ASSUME NEW r \in Nat, NEW s \in Nat, NEW x \in Nat, NEW y \in Nat, x <= y, IsRoot(r, x), IsRoot(s, y)
    PROVE  r <= s
  <1>1. r * r < (s + 1) * (s + 1)
    BY SMT DEF IsRoot
  <1>2. SUFFICES ASSUME s + 1 <= r PROVE FALSE
    BY SMT
  <1>3. (s + 1) * (s + 1) <= (s + 1) * r /\ (s + 1) * r <= r * r
    BY <1>2, SMT
  <1>4. QED
    BY <1>1, <1>3, SMT

LEMMA CurveMonotone ==
    ASSUME NEW m \in Nat, NEW n \in Nat, m <= n
    PROVE  _count_curve(m) \in Nat /\ _count_curve(n) \in Nat /\ _count_curve(m) <= _count_curve(n)
  <1> DEFINE a == IF m > N_REF THEN N_REF ELSE m
             b == IF n > N_REF THEN N_REF ELSE n
             x == 2500000 * a
             y == 2500000 * b
  <1>1. a \in 0 .. N_REF /\ b \in 0 .. N_REF /\ a <= b
    BY SMT DEF N_REF
  <1>2. _count_curve(m) = Root(x) /\ _count_curve(n) = Root(y)
    BY <1>1 DEF _count_curve, CurveTable
  <1>3. x \in Nat /\ y \in Nat /\ x <= y /\ x <= 100000000 /\ y <= 100000000
    BY <1>1, SMT DEF N_REF
  <1> HIDE DEF a, b, x, y
  <1>4. Root(x) \in Nat /\ IsRoot(Root(x), x) /\ Root(y) \in Nat /\ IsRoot(Root(y), y)
    BY <1>3, RootIs
  <1>5. Root(x) <= Root(y)
    BY <1>3, <1>4, RootMonotone
  <1>6. QED
    BY <1>2, <1>4, <1>5

Domains == DOMAIN SCORE_WEIGHTS
Counted(ev) == \A name : Count(ev, name) \in Nat

LEMMA DomainNames ==
    /\ Domains = {"hygiene", "modern_tls", "identity_trust", "agility_signals", "data_at_rest", "data_in_motion"}
    /\ DOMAIN CATEGORIES = 1 .. 6 /\ \A i \in 1 .. 6 : CATEGORIES[i] \in Domains
  BY SMT DEF Domains, SCORE_WEIGHTS, CATEGORIES

LEMMA WeightsAre ==
    ASSUME NEW d \in Domains
    PROVE  /\ Len(SCORE_WEIGHTS[d]) \in Nat /\ DOMAIN SCORE_WEIGHTS[d] = 1 .. Len(SCORE_WEIGHTS[d])
           /\ \A i \in 1 .. Len(SCORE_WEIGHTS[d]) : SCORE_WEIGHTS[d][i][2] \in Nat
  <1>1. CASE d = "hygiene"
    BY <1>1, SMT DEF SCORE_WEIGHTS
  <1>2. CASE d = "modern_tls"
    BY <1>2, SMT DEF SCORE_WEIGHTS
  <1>3. CASE d = "identity_trust"
    BY <1>3, SMT DEF SCORE_WEIGHTS
  <1>4. CASE d = "agility_signals"
    BY <1>4, SMT DEF SCORE_WEIGHTS
  <1>5. CASE d = "data_at_rest"
    BY <1>5, SMT DEF SCORE_WEIGHTS
  <1>6. CASE d = "data_in_motion"
    BY <1>6, SMT DEF SCORE_WEIGHTS
  <1>7. QED
    BY <1>1, <1>2, <1>3, <1>4, <1>5, <1>6, DomainNames

LEMMA LenIs ==
    ASSUME NEW N \in Nat, NEW s, s = [i \in 1 .. N |-> s[i]]
    PROVE  Len(s) = N
  <1>1. s \in [1 .. N -> {s[i] : i \in 1 .. N}]
    OBVIOUS
  <1>2. QED
    BY <1>1

(* A summary that counts at least as much of what is charged for is charged
   at least as much. *)
LEMMA ImpactsGrow ==
    ASSUME NEW ev, NEW ew, Counted(ev), Counted(ew), NEW d \in Domains,
           \A i \in DOMAIN SCORE_WEIGHTS[d] : Count(ev, SCORE_WEIGHTS[d][i][1]) <= Count(ew, SCORE_WEIGHTS[d][i][1])
    PROVE  /\ Total(Impacts(ev, d)) \in Int /\ Total(Impacts(ew, d)) \in Int
           /\ Total(Impacts(ev, d)) <= Total(Impacts(ew, d))
  <1> DEFINE N == Len(SCORE_WEIGHTS[d])
             s == Impacts(ev, d)
             t == Impacts(ew, d)
             a(i) == Prevalence(ev, SCORE_WEIGHTS[d][i][1])
             b(i) == Prevalence(ew, SCORE_WEIGHTS[d][i][1])
             w(i) == SCORE_WEIGHTS[d][i][2]
  <1>1. N \in Nat /\ DOMAIN SCORE_WEIGHTS[d] = 1 .. N /\ \A i \in 1 .. N : w(i) \in Nat
    BY WeightsAre
  <1>2. \A i \in 1 .. N : a(i) \in Nat /\ b(i) \in Nat /\ a(i) <= b(i)
    BY <1>1, CurveMonotone DEF Counted, Prevalence
  <1>3. s = [i \in 1 .. N |-> a(i) * w(i)] /\ t = [i \in 1 .. N |-> b(i) * w(i)]
    BY <1>1 DEF Impacts
  <1> HIDE DEF N, s, t, a, b, w
  <1>4. ASSUME NEW i \in 1 .. N
        PROVE  a(i) * w(i) \in Int /\ b(i) * w(i) \in Int /\ a(i) * w(i) <= b(i) * w(i)
    <2> DEFINE x == a(i)
               y == b(i)
               z == w(i)
    <2>1. x \in Nat /\ y \in Nat /\ z \in Nat /\ x <= y
      BY <1>1, <1>2
    <2> HIDE DEF x, y, z
    <2>2. x * z \in Int /\ y * z \in Int /\ x * z <= y * z
      BY <2>1, SMT
    <2>3. QED
      BY <2>2 DEF x, y, z
  <1>5. \A i \in 1 .. N : s[i] \in Int /\ t[i] \in Int /\ s[i] <= t[i]
    BY <1>3, <1>4
  <1>6. Len(s) = N /\ Len(t) = N
    <2>1. s = [i \in 1 .. N |-> s[i]] /\ t = [i \in 1 .. N |-> t[i]]
      BY <1>3
    <2>2. QED
      BY <1>1, <2>1, LenIs
  <1>7. Numbers(s, N) /\ Numbers(t, N)
    BY <1>1, <1>5, <1>6 DEF Numbers
  <1>8. QED
    BY <1>5, <1>7, TotalMonotone DEF s, t

(* The points of a domain: its raw score, cut at 0 and 25 and rounded. *)
Points(raw) == Round(IF raw < 0 THEN 0 ELSE IF raw > 2500000 THEN 2500000 ELSE raw, 100000)

LEMMA PointsAre == ASSUME NEW ev, NEW d, NEW p PROVE _apply_weighted_impacts(ev, d, p) = Points(Raw(ev, d, p))
  BY SMT DEF _apply_weighted_impacts, Points

LEMMA RoundZero == ASSUME NEW d \in Nat \ {0} PROVE Round(0, d) = 0
  <1>1. 0 \div d = 0 /\ 0 % d = 0
    BY SMT
  <1>2. QED
    BY <1>1, SMT DEF Round

LEMMA PointsMonotone ==
    ASSUME NEW x \in Int, NEW y \in Int, x <= y
    PROVE  Points(x) \in Nat /\ Points(y) \in Nat /\ Points(x) <= Points(y)
  <1> DEFINE d == 100000
             a == IF x < 0 THEN 0 ELSE IF x > 2500000 THEN 2500000 ELSE x
             b == IF y < 0 THEN 0 ELSE IF y > 2500000 THEN 2500000 ELSE y
  <1>1. d \in Nat \ {0} /\ a \in Int /\ b \in Int /\ 0 <= a /\ a <= b
    BY SMT
  <1>2. Points(x) = Round(a, d) /\ Points(y) = Round(b, d)
    BY SMT DEF Points
  <1> HIDE DEF d, a, b
  <1>3. Round(0, d) = 0
    BY <1>1, RoundZero
  <1>4. Round(0, d) <= Round(a, d) /\ Round(a, d) \in Int
    BY <1>1, RoundMonotone
  <1>5. Round(a, d) <= Round(b, d) /\ Round(b, d) \in Int
    BY <1>1, RoundMonotone
  <1>6. QED
    BY <1>2, <1>3, <1>4, <1>5

LEMMA PointsFull == ASSUME NEW x \in Int, NEW y \in Int, x >= 2500000, y >= 2500000 PROVE Points(x) = Points(y)
  BY SMT DEF Points

LEMMA CeilingIs ==
    ASSUME NEW ev, NEW ew, Count(ew, "pqc_hybrid") > 0 => Count(ev, "pqc_hybrid") > 0,
           _consequence_ceiling(ew.critical, ew.high) <= _consequence_ceiling(ev.critical, ev.high)
    PROVE  Ceiling(ev) \in Nat /\ Ceiling(ew) \in Nat /\ Ceiling(ew) <= Ceiling(ev)
  <1> DEFINE a == _consequence_ceiling(ev.critical, ev.high)
             b == _consequence_ceiling(ew.critical, ew.high)
             c == _pqc_readiness_ceiling(ev)
             e == _pqc_readiness_ceiling(ew)
  <1>1. a \in Nat /\ b \in Nat /\ b <= a
    BY DEF _consequence_ceiling, BAND_THRESHOLDS
  <1>2. c \in Nat /\ e \in Nat /\ e <= c
    BY DEF _pqc_readiness_ceiling, BAND_THRESHOLDS
  <1>3. Ceiling(ev) = Min({a, c}) /\ Ceiling(ew) = Min({b, e})
    BY DEF Ceiling
  <1> HIDE DEF a, b, c, e
  <1>4. \A x, y \in Nat : Min({x, y}) \in {x, y} /\ Min({x, y}) <= x /\ Min({x, y}) <= y
    <2>1. SUFFICES ASSUME NEW x \in Nat, NEW y \in Nat
                   PROVE  Min({x, y}) \in {x, y} /\ \A z \in {x, y} : Min({x, y}) <= z
      OBVIOUS
    <2>2. {x, y} \in SUBSET Nat /\ {x, y} # {}
      OBVIOUS
    <2>3. QED
      BY <2>2, MinIs
  <1>5. QED
    BY <1>1, <1>2, <1>3, <1>4

LEMMA AssessedIs == ASSUME NEW ev PROVE Assessed(ev) \subseteq Domains /\ IsFiniteSet(Assessed(ev))
  <1> DEFINE a == {"hygiene"} \cup {"modern_tls"}
             b == {"identity_trust"} \cup {"agility_signals"}
             c == {"data_at_rest"} \cup {"data_in_motion"}
  <1>1. IsFiniteSet(a) /\ IsFiniteSet(b) /\ IsFiniteSet(c)
    BY FS_Singleton, FS_Union
  <1>2. Domains = a \cup b \cup c
    BY DomainNames
  <1> HIDE DEF a, b, c
  <1>3. IsFiniteSet(a \cup b)
    BY <1>1, FS_Union
  <1>4. IsFiniteSet(Domains)
    BY <1>1, <1>2, <1>3, FS_Union
  <1>5. Assessed(ev) \subseteq Domains
    BY DomainNames DEF Assessed
  <1>6. QED
    BY <1>4, <1>5, FS_Subset

(* The score follows the points of its domains and its ceiling. *)
LEMMA ScoreFollows ==
    ASSUME NEW ev, NEW ew, NEW p, NEW q, Assessed(ew) = Assessed(ev), Assessed(ev) # {},
           \A d \in Domains : /\ _apply_weighted_impacts(ev, d, p) \in Nat
                              /\ _apply_weighted_impacts(ew, d, q) \in Nat
                              /\ _apply_weighted_impacts(ew, d, q) <= _apply_weighted_impacts(ev, d, p),
           Ceiling(ev) \in Nat, Ceiling(ew) \in Nat, Ceiling(ew) <= Ceiling(ev)
    PROVE  compute_readiness_score(ew, q).score <= compute_readiness_score(ev, p).score
  <1> DEFINE s == assessed_scores(ev, p)
             t == assessed_scores(ew, q)
             n == Cardinality(Assessed(ev))
             x == Round(4 * Total(s), n)
             y == Round(4 * Total(t), n)
             a == Ceiling(ev)
             b == Ceiling(ew)
  <1>1. n \in Nat \ {0}
    BY AssessedIs, FS_CardinalityType, FS_EmptySet
  <1>2. compute_readiness_score(ev, p).score = Round(a * x, 100)
    BY DEF compute_readiness_score, Compress
  <1>3. compute_readiness_score(ew, q).score = Round(b * y, 100)
    BY DEF compute_readiness_score, Compress
  <1>4. /\ s = [i \in 1 .. 6 |-> IF CATEGORIES[i] \in Assessed(ev) THEN _apply_weighted_impacts(ev, CATEGORIES[i], p) ELSE 0]
        /\ t = [i \in 1 .. 6 |-> IF CATEGORIES[i] \in Assessed(ew) THEN _apply_weighted_impacts(ew, CATEGORIES[i], q) ELSE 0]
    BY DomainNames DEF assessed_scores
  <1>5. \A i \in 1 .. 6 : s[i] \in Nat /\ t[i] \in Nat /\ t[i] <= s[i]
    BY <1>4, DomainNames
  <1>6. Numbers(s, 6) /\ Numbers(t, 6)
    <2>1. s = [i \in 1 .. 6 |-> s[i]] /\ t = [i \in 1 .. 6 |-> t[i]]
      BY <1>4
    <2> HIDE DEF s, t
    <2>2. Len(s) = 6 /\ Len(t) = 6
      BY <2>1, LenIs
    <2>3. QED
      BY <1>5, <2>2 DEF Numbers
  <1> HIDE DEF s, t
  <1>7. Total(t) \in Int /\ Total(s) \in Int /\ Total(t) <= Total(s)
    BY <1>5, <1>6, TotalMonotone
  <1>8. 0 <= Total(t)
    BY <1>5, <1>6, TotalNat
  <1> HIDE DEF n, a, b
  <1>9. 4 * Total(t) \in Int /\ 4 * Total(s) \in Int /\ 0 <= 4 * Total(t) /\ 4 * Total(t) <= 4 * Total(s)
    <2> DEFINE u == Total(s)
               v == Total(t)
    <2>1. u \in Int /\ v \in Int /\ v <= u /\ 0 <= v
      BY <1>7, <1>8
    <2> HIDE DEF u, v
    <2>2. QED
      BY <2>1 DEF u, v
  <1>10. x \in Int /\ y \in Int /\ y <= x /\ 0 <= y
    <2>1. Round(4 * Total(t), n) <= Round(4 * Total(s), n) /\ Round(4 * Total(s), n) \in Int
      BY <1>1, <1>9, RoundMonotone
    <2>2. Round(0, n) <= Round(4 * Total(t), n) /\ Round(4 * Total(t), n) \in Int
      BY <1>1, <1>9, RoundMonotone
    <2>3. Round(0, n) = 0
      BY <1>1, RoundZero
    <2>4. QED
      BY <2>1, <2>2, <2>3
  <1> HIDE DEF x, y
  <1>11. a \in Nat /\ b \in Nat /\ b <= a
    BY DEF a, b
  <1>12. b * y \in Int /\ a * x \in Int /\ b * y <= a * x
    <2>1. b * y <= a * y /\ a * y <= a * x
      BY <1>10, <1>11, SMT
    <2>2. QED
      BY <1>10, <1>11, <2>1, SMT
  <1>13. Round(b * y, 100) <= Round(a * x, 100)
    <2> DEFINE d == 100
               k == b * y
               l == a * x
    <2>1. d \in Nat \ {0} /\ k \in Int /\ l \in Int /\ k <= l
      BY <1>12
    <2> HIDE DEF d, k, l
    <2>2. Round(k, d) <= Round(l, d)
      BY <2>1, RoundMonotone
    <2>3. QED
      BY <2>2 DEF d, k, l
  <1>14. QED
    BY <1>2, <1>3, <1>13

LEMMA CreditsAre == ASSUME NEW ev, NEW d PROVE Credits(ev, d) \in Int
  BY DEF Credits, KeyTypePoints, RSA_ONLY_PENALTY, PQC_BONUS, MTLS_BONUS

LEMMA RawIs ==
    ASSUME NEW ev, Counted(ev), NEW d \in Domains, NEW p \in DOMAIN PROFILE_MULTIPLIERS
    PROVE  \E k \in Int : /\ k = 10000 * Credits(ev, d) - Total(Impacts(ev, d))
                          /\ Raw(ev, d, p) = 2500000 + Multiplier(p, d) * k
  <1>1. Total(Impacts(ev, d)) \in Int
    <2>1. \A i \in DOMAIN SCORE_WEIGHTS[d] : Count(ev, SCORE_WEIGHTS[d][i][1]) <= Count(ev, SCORE_WEIGHTS[d][i][1])
      BY DEF Counted
    <2>2. QED
      BY <2>1, ImpactsGrow
  <1> DEFINE c == Credits(ev, d)
             t == Total(Impacts(ev, d))
  <1>2. c \in Int /\ t \in Int
    BY <1>1, CreditsAre
  <1>3. Raw(ev, d, p) = 2500000 + Multiplier(p, d) * (10000 * c - t)
    BY SMT DEF Raw
  <1> HIDE DEF c, t
  <1>4. 10000 * c - t \in Int
    BY <1>2, SMT
  <1>5. QED
    BY <1>3, <1>4, SMT DEF c, t

LEMMA MultipliersAre ==
    ASSUME NEW d
    PROVE  \/ Multiplier("strict", d) = 14 /\ Multiplier("balanced", d) = 10 /\ Multiplier("lenient", d) = 7
           \/ Multiplier("strict", d) = 10 /\ Multiplier("balanced", d) = 10 /\ Multiplier("lenient", d) = 10
  BY DEF Multiplier, PROFILE_MULTIPLIERS

(* A heavier multiplier lowers the points of a domain that lost any, and leaves
   a domain that lost none at its full 25. *)
LEMMA StricterIsLower ==
    ASSUME NEW k \in Int, NEW m \in 7 .. 14, NEW n \in 7 .. 14, m <= n
    PROVE  /\ Points(2500000 + m * k) \in Nat /\ Points(2500000 + n * k) \in Nat
           /\ Points(2500000 + n * k) <= Points(2500000 + m * k)
  <1> DEFINE x == 2500000 + m * k
             y == 2500000 + n * k
  <1>1. x \in Int /\ y \in Int
    BY SMT
  <1>2. CASE k >= 0
    <2>1. x >= 2500000 /\ y >= 2500000
      BY <1>2, SMT
    <2> HIDE DEF x, y
    <2>2. Points(x) = Points(y)
      BY <1>1, <2>1, PointsFull, SMT
    <2>3. x <= x /\ y <= y
      BY <1>1, SMT
    <2>4. Points(x) \in Nat /\ Points(y) \in Nat
      BY <1>1, <2>3, PointsMonotone
    <2>5. QED
      BY <2>2, <2>4 DEF x, y
  <1>3. CASE ~ k >= 0
    <2>1. n * k <= m * k
      BY <1>3, SMT
    <2>2. y <= x
      BY <2>1, SMT
    <2> HIDE DEF x, y
    <2>3. Points(x) \in Nat /\ Points(y) \in Nat /\ Points(y) <= Points(x)
      BY <1>1, <2>2, PointsMonotone
    <2>4. QED
      BY <2>3 DEF x, y
  <1>4. QED
    BY <1>2, <1>3

LEMMA ProfilesOrder ==
    ASSUME NEW ev, Counted(ev), NEW d \in Domains
    PROVE  /\ _apply_weighted_impacts(ev, d, "strict") \in Nat
           /\ _apply_weighted_impacts(ev, d, "balanced") \in Nat
           /\ _apply_weighted_impacts(ev, d, "lenient") \in Nat
           /\ _apply_weighted_impacts(ev, d, "strict") <= _apply_weighted_impacts(ev, d, "balanced")
           /\ _apply_weighted_impacts(ev, d, "balanced") <= _apply_weighted_impacts(ev, d, "lenient")
  <1> DEFINE k == 10000 * Credits(ev, d) - Total(Impacts(ev, d))
             P(p) == _apply_weighted_impacts(ev, d, p)
             l == Multiplier("lenient", d)
             b == Multiplier("balanced", d)
             s == Multiplier("strict", d)
  <1>1. l \in 7 .. 14 /\ b \in 7 .. 14 /\ s \in 7 .. 14 /\ l <= b /\ b <= s
    BY MultipliersAre, SMT
  <1>2. {"strict", "balanced", "lenient"} = DOMAIN PROFILE_MULTIPLIERS
    BY DEF PROFILE_MULTIPLIERS
  <1>3. k \in Int /\ \A p \in {"strict", "balanced", "lenient"} : Raw(ev, d, p) = 2500000 + Multiplier(p, d) * k
    BY <1>2, RawIs, SMT
  <1> HIDE DEF k
  <1>4. P("lenient") = Points(2500000 + l * k) /\ P("balanced") = Points(2500000 + b * k)
        /\ P("strict") = Points(2500000 + s * k)
    BY <1>3, PointsAre, SMT
  <1> HIDE DEF P, l, b, s
  <1>5. P("balanced") \in Nat /\ P("lenient") \in Nat /\ P("balanced") <= P("lenient")
    BY <1>1, <1>3, <1>4, StricterIsLower, SMT
  <1>6. P("balanced") \in Nat /\ P("strict") \in Nat /\ P("strict") <= P("balanced")
    BY <1>1, <1>3, <1>4, StricterIsLower, SMT
  <1>7. QED
    BY <1>5, <1>6 DEF P

LEMMA StrictIsLower ==
    ASSUME NEW ev, Counted(ev)
    PROVE  /\ compute_readiness_score(ev, "strict").score <= compute_readiness_score(ev, "balanced").score
           /\ compute_readiness_score(ev, "balanced").score <= compute_readiness_score(ev, "lenient").score
  <1>1. CASE Assessed(ev) = {}
    BY <1>1 DEF compute_readiness_score, NOT_ASSESSED
  <1>2. CASE Assessed(ev) # {}
    <2>1. Ceiling(ev) \in Nat /\ Ceiling(ev) <= Ceiling(ev)
      <3>1. _consequence_ceiling(ev.critical, ev.high) <= _consequence_ceiling(ev.critical, ev.high)
        BY DEF _consequence_ceiling, BAND_THRESHOLDS
      <3>2. QED
        BY <3>1, CeilingIs
    <2>2. compute_readiness_score(ev, "strict").score <= compute_readiness_score(ev, "balanced").score
      BY <1>2, <2>1, ProfilesOrder, ScoreFollows
    <2>3. compute_readiness_score(ev, "balanced").score <= compute_readiness_score(ev, "lenient").score
      BY <1>2, <2>1, ProfilesOrder, ScoreFollows
    <2>4. QED
      BY <2>2, <2>3
  <1>3. QED
    BY <1>1, <1>2

-----------------------------------------------------------------------------
(* What the evidence counts *)

LEMMA ImageFinite ==
    ASSUME NEW S, IsFiniteSet(S), NEW f, DOMAIN f = S, NEW T, T \subseteq {f[x] : x \in S}
    PROVE  IsFiniteSet(T)
  <1> DEFINE U == {f[x] : x \in S}
             g == [x \in S |-> f[x]]
  <1>1. g \in Surjection(S, U)
    BY DEF Surjection
  <1>2. IsFiniteSet(U)
    BY <1>1, FS_Surjection DEF ExistsSurjection
  <1>3. QED
    BY <1>2, FS_Subset

LEMMA RowsFinite ==
    ASSUME NEW r, IsSeq(r)
    PROVE  /\ Len(r) \in Nat /\ DOMAIN r = 1 .. Len(r) /\ IsFiniteSet(DOMAIN r)
           /\ \A T \in SUBSET DOMAIN r : IsFiniteSet(T) /\ Cardinality(T) \in Nat
  <1>1. Len(r) \in Nat /\ DOMAIN r = 1 .. Len(r)
    BY DEF IsSeq
  <1>2. IsFiniteSet(DOMAIN r)
    BY <1>1, FS_Interval
  <1>3. ASSUME NEW T \in SUBSET DOMAIN r PROVE IsFiniteSet(T) /\ Cardinality(T) \in Nat
    BY <1>2, FS_Subset, FS_CardinalityType
  <1>4. QED
    BY <1>1, <1>2, <1>3

Ticked(r, name) == {i \in DOMAIN r : name \in Counters(r, i)}
PLAIN_HTTP == "Plaintext HTTP service detected"
HTTP_ON_TLS == "HTTP on TLS-designated port"

(* The number that the score reads under each name. *)
LEMMA CountIs ==
    ASSUME NEW r, NEW name
    PROVE  /\ Count(build_evidence_summary(r), "plaintext_http") = Cardinality(_finding_targets(r, PLAIN_HTTP))
           /\ Count(build_evidence_summary(r), "http_on_tls") = Cardinality(_finding_targets(r, HTTP_ON_TLS))
           /\ IsSeq(r) =>
                 /\ Count(build_evidence_summary(r), "email_plain")
                        = Cardinality(Ticked(r, "email_plaintext")) + Cardinality(Ticked(r, "starttls_missing"))
                 /\ name \notin {"plaintext_http", "http_on_tls", "email_plain"}
                    => Count(build_evidence_summary(r), name) = Cardinality(Ticked(r, name))
  <1> DEFINE ev == build_evidence_summary(r)
             U == UNION {Counters(r, i) : i \in DOMAIN r}
             c(n) == IF n \in DOMAIN ev.counters THEN ev.counters[n] ELSE 0
  <1>1. ev.counters = [n \in U |-> Cardinality(Ticked(r, n))]
    <2> DEFINE ticked == [i \in DOMAIN r |-> Counters(r, i)]
    <2>1. ev.counters = [n \in UNION {ticked[i] : i \in DOMAIN r} |-> Cardinality({i \in DOMAIN r : n \in ticked[i]})]
      BY Zenon DEF build_evidence_summary
    <2>2. UNION {ticked[i] : i \in DOMAIN r} = U
      OBVIOUS
    <2>3. \A n : {i \in DOMAIN r : n \in ticked[i]} = Ticked(r, n)
      BY DEF Ticked
    <2> HIDE DEF ticked, U, ev
    <2>4. QED
      BY <2>1, <2>2, <2>3
  <1>2. ev.plaintext_http = Cardinality(_finding_targets(r, PLAIN_HTTP))
    BY Zenon DEF build_evidence_summary, PLAIN_HTTP
  <1>3. ev.http_on_tls = Cardinality(_finding_targets(r, HTTP_ON_TLS))
    BY Zenon DEF build_evidence_summary, HTTP_ON_TLS
  <1>4. ASSUME IsSeq(r), NEW n PROVE c(n) = Cardinality(Ticked(r, n))
    <2>1. CASE n \in U
      BY <1>1, <2>1
    <2>2. CASE n \notin U
      <3>1. Ticked(r, n) = {}
        BY <2>2 DEF Ticked
      <3>2. Cardinality({}) = 0
        BY FS_EmptySet
      <3>3. QED
        BY <1>1, <2>2, <3>1, <3>2
    <2>3. QED
      BY <2>1, <2>2
  <1> HIDE DEF ev
  <1>5. Count(ev, "plaintext_http") = ev.plaintext_http
    BY Zenon DEF Count
  <1>6. Count(ev, "http_on_tls") = ev.http_on_tls
    BY Zenon DEF Count
  <1>7. Count(ev, "email_plain") = c("email_plaintext") + c("starttls_missing")
    BY Zenon DEF Count
  <1>8. name \notin {"plaintext_http", "http_on_tls", "email_plain"} => Count(ev, name) = c(name)
    BY Zenon DEF Count
  <1> HIDE DEF c
  <1>9. QED
    BY <1>2, <1>3, <1>4, <1>5, <1>6, <1>7, <1>8 DEF ev

LEMMA AdvisoryFindingsAt ==
    ASSUME NEW e, NEW f \in AdvisoryFindings(e)
    PROVE  f.at = e.at /\ DOMAIN f = {"at", "title", "sev", "rec", "category"}
  <1>1. \A sev, t, c : /\ InCategory(_build_finding(e, sev, t), c).at = e.at
                       /\ DOMAIN InCategory(_build_finding(e, sev, t), c) = {"at", "title", "sev", "rec", "category"}
    BY FindingIs DEF InCategory
  <1>2. \E sev, t, c : f = InCategory(_build_finding(e, sev, t), c)
    BY Zenon DEF AdvisoryFindings
  <1>3. QED
    BY <1>1, <1>2

(* A finding about a row says where the row is. *)
LEMMA RowFindingsAt ==
    ASSUME NEW e, NEW f \in RowFindings(e)
    PROVE  f.at = e.at /\ DOMAIN f = {"at", "title", "sev", "rec", "category"}
  <1>1. f \in AdvisoryFindings(e) \/ f = ErrorFinding(e) \/ f \in ServiceFindings(e)
    BY Zenon DEF RowFindings
  <1>2. ASSUME f = ErrorFinding(e) PROVE \E sev, t : f = _build_finding(e, sev, t)
    BY <1>2, Zenon DEF ErrorFinding
  <1>3. ASSUME f \in CertificateFindings(e) PROVE \E sev, t : f = _build_finding(e, sev, t)
    BY <1>3, Zenon DEF CertificateFindings, If
  <1>4. \E sev, t : _evaluate_container_package(e) = _build_finding(e, sev, t)
    BY Zenon DEF _evaluate_container_package
  <1>5. ASSUME f \in ServiceFindings(e) PROVE \E sev, t : f = _build_finding(e, sev, t)
    <2>1. \/ f \in CertificateFindings(e) \/ f = _evaluate_container_package(e)
          \/ \E sev, t : f = _build_finding(e, sev, t)
      BY <1>5, Zenon DEF ServiceFindings
    <2>2. QED
      BY <1>3, <1>4, <2>1
  <1>6. f \in AdvisoryFindings(e) \/ \E sev, t : f = _build_finding(e, sev, t)
    BY <1>1, <1>2, <1>5
  <1>7. QED
    BY <1>6, AdvisoryFindingsAt, FindingIs

LEMMA PostprocessKeeps ==
    ASSUME NEW r, NEW f, DOMAIN f = {"at", "title", "sev", "rec", "category"}
    PROVE  _postprocess_findings(r, f).at = f.at
  <1>1. ASSUME NEW s, NEW t
        PROVE  [f EXCEPT !.sev = s, !.title = t, !.rec = "http"].at = f.at
               /\ [f EXCEPT !.sev = s, !.title = t].at = f.at
    OBVIOUS
  <1>2. \/ _postprocess_findings(r, f) = f
        \/ \E s, t : \/ _postprocess_findings(r, f) = [f EXCEPT !.sev = s, !.title = t, !.rec = "http"]
                     \/ _postprocess_findings(r, f) = [f EXCEPT !.sev = s, !.title = t]
    BY Zenon DEF _postprocess_findings
  <1>3. QED
    BY <1>1, <1>2

LEMMA EvaluatedAt ==
    ASSUME NEW r, NEW g \in evaluate_endpoints(r)
    PROVE  \E i \in DOMAIN r : g.at = r[i].at
  <1>1. PICK i \in DOMAIN r : \E f \in RowFindings(r[i]) : g = _postprocess_findings(r, f)
    BY Zenon DEF evaluate_endpoints
  <1>2. PICK f \in RowFindings(r[i]) : g = _postprocess_findings(r, f)
    BY <1>1
  <1>3. f.at = r[i].at /\ DOMAIN f = {"at", "title", "sev", "rec", "category"}
    BY RowFindingsAt
  <1>4. g.at = f.at
    BY <1>2, <1>3, PostprocessKeeps
  <1>5. QED
    BY <1>3, <1>4

LEMMA TargetsFinite ==
    ASSUME NEW r, IsSeq(r), NEW title
    PROVE  IsFiniteSet(_finding_targets(r, title)) /\ Cardinality(_finding_targets(r, title)) \in Nat
  <1> DEFINE f == [i \in DOMAIN r |-> r[i].at]
             T == _finding_targets(r, title)
  <1>1. \A x \in T : \E i \in DOMAIN r : x = f[i]
    BY EvaluatedAt DEF _finding_targets
  <1> HIDE DEF T
  <1>2. DOMAIN f = DOMAIN r /\ T \subseteq {f[i] : i \in DOMAIN r}
    BY <1>1
  <1> HIDE DEF f
  <1>3. IsFiniteSet(T)
    BY <1>2, RowsFinite, ImageFinite
  <1>4. QED
    BY <1>3, FS_CardinalityType DEF T

LEMMA SummaryCounts ==
    ASSUME NEW r, IsSeq(r)
    PROVE  Counted(build_evidence_summary(r))
  <1> DEFINE ev == build_evidence_summary(r)
  <1>1. SUFFICES ASSUME NEW name PROVE Count(ev, name) \in Nat
    BY DEF Counted
  <1>2. \A n : Cardinality(Ticked(r, n)) \in Nat
    BY RowsFinite DEF Ticked
  <1>3. CASE name = "plaintext_http"
    BY <1>3, CountIs, TargetsFinite
  <1>4. CASE name = "http_on_tls"
    BY <1>4, CountIs, TargetsFinite
  <1>5. CASE name = "email_plain"
    <2> DEFINE a == Cardinality(Ticked(r, "email_plaintext"))
               b == Cardinality(Ticked(r, "starttls_missing"))
    <2>1. a \in Nat /\ b \in Nat /\ Count(ev, name) = a + b
      BY <1>2, <1>5, CountIs
    <2> HIDE DEF a, b, ev
    <2>2. QED
      BY <2>1
  <1>6. CASE name \notin {"plaintext_http", "http_on_tls", "email_plain"}
    BY <1>2, <1>6, CountIs
  <1>7. QED
    BY <1>3, <1>4, <1>5, <1>6

LEMMA StrictFromRows == EstateInv => StrictNeverFlatters
  <1> SUFFICES ASSUME EstateInv PROVE StrictNeverFlatters
    OBVIOUS
  <1>1. Counted(build_evidence_summary(rows))
    BY SummaryCounts DEF EstateInv
  <1>2. QED
    BY <1>1, StrictIsLower DEF StrictNeverFlatters

-----------------------------------------------------------------------------
(* When one summary is no better than another *)

Worse(ev, ew) ==
    /\ Assessed(ew) = Assessed(ev)
    /\ \A d \in Domains : \A i \in DOMAIN SCORE_WEIGHTS[d] :
           Count(ev, SCORE_WEIGHTS[d][i][1]) <= Count(ew, SCORE_WEIGHTS[d][i][1])
    /\ \A d \in Domains : Credits(ew, d) <= Credits(ev, d)
    /\ Count(ew, "pqc_hybrid") > 0 => Count(ev, "pqc_hybrid") > 0
    /\ _consequence_ceiling(ew.critical, ew.high) <= _consequence_ceiling(ev.critical, ev.high)

LEMMA WorsePoints ==
    ASSUME NEW ev, NEW ew, Counted(ev), Counted(ew), Worse(ev, ew), NEW d \in Domains
    PROVE  /\ _apply_weighted_impacts(ev, d, "balanced") \in Nat
           /\ _apply_weighted_impacts(ew, d, "balanced") \in Nat
           /\ _apply_weighted_impacts(ew, d, "balanced") <= _apply_weighted_impacts(ev, d, "balanced")
  <1> DEFINE a == Credits(ev, d)
             b == Credits(ew, d)
             s == Total(Impacts(ev, d))
             t == Total(Impacts(ew, d))
             x == Raw(ev, d, "balanced")
             y == Raw(ew, d, "balanced")
  <1>1. a \in Int /\ b \in Int /\ b <= a
    BY CreditsAre DEF Worse
  <1>2. s \in Int /\ t \in Int /\ s <= t
    BY ImpactsGrow DEF Worse
  <1>3. x = 2500000 + 10 * (10000 * a - s) /\ y = 2500000 + 10 * (10000 * b - t)
    BY MultipliersAre, SMT DEF Raw
  <1> HIDE DEF a, b, s, t, x, y
  <1>4. x \in Int /\ y \in Int /\ y <= x
    BY <1>1, <1>2, <1>3, SMT
  <1>5. Points(y) \in Nat /\ Points(x) \in Nat /\ Points(y) <= Points(x)
    BY <1>4, PointsMonotone
  <1>6. QED
    BY <1>5, PointsAre DEF x, y

LEMMA WorseScores ==
    ASSUME NEW ev, NEW ew, Counted(ev), Counted(ew), Worse(ev, ew)
    PROVE  compute_readiness_score(ew, "balanced").score <= compute_readiness_score(ev, "balanced").score
  <1>1. CASE Assessed(ev) = {}
    <2>1. Assessed(ew) = {}
      BY <1>1 DEF Worse
    <2>2. QED
      BY <1>1, <2>1 DEF compute_readiness_score, NOT_ASSESSED
  <1>2. CASE Assessed(ev) # {}
    <2>1. Ceiling(ev) \in Nat /\ Ceiling(ew) \in Nat /\ Ceiling(ew) <= Ceiling(ev)
      BY CeilingIs DEF Worse
    <2>2. QED
      BY <1>2, <2>1, WorsePoints, ScoreFollows DEF Worse
  <1>3. QED
    BY <1>1, <1>2

-----------------------------------------------------------------------------
(* Rows that are added to others *)

Prefix(r, s) == IsSeq(r) /\ IsSeq(s) /\ DOMAIN r \subseteq DOMAIN s /\ \A i \in DOMAIN r : s[i] = r[i]
Apart(r) == \A i, j \in DOMAIN r : r[i].proto = "HTTP" /\ r[j].proto = "TLS" => r[i].at # r[j].at

LEMMA CountersKept ==
    ASSUME NEW r, NEW s, Prefix(r, s), NEW i \in DOMAIN r
    PROVE  Counters(s, i) = Counters(r, i) /\ evaluate_identity_endpoints(s, i) = evaluate_identity_endpoints(r, i)
  <1>1. s[i] = r[i] /\ \A j \in 1 .. i - 1 : s[j] = r[j]
    <2> DEFINE n == Len(r)
    <2>1. n \in Nat /\ DOMAIN r = 1 .. n
      BY RowsFinite DEF Prefix
    <2> HIDE DEF n
    <2>2. \A j \in 1 .. i - 1 : j \in DOMAIN r
      BY <2>1
    <2>3. QED
      BY <2>2 DEF Prefix
  <1>2. SamlRepeats(s, i) <=> SamlRepeats(r, i)
    BY <1>1 DEF SamlRepeats
  <1>3. IdentityCounters(s, i) = IdentityCounters(r, i)
    <2>1. (~ SamlRepeats(s, i) /\ (is_weak_cipher(r[i].key) \/ UndersizedSaml(r[i].key)))
          <=> (~ SamlRepeats(r, i) /\ (is_weak_cipher(r[i].key) \/ UndersizedSaml(r[i].key)))
      BY <1>2
    <2>2. Ticks(~ SamlRepeats(s, i) /\ (is_weak_cipher(r[i].key) \/ UndersizedSaml(r[i].key)), "saml_weak")
          = Ticks(~ SamlRepeats(r, i) /\ (is_weak_cipher(r[i].key) \/ UndersizedSaml(r[i].key)), "saml_weak")
      BY <2>1 DEF Ticks
    <2>3. QED
      BY <1>1, <2>2 DEF IdentityCounters
  <1>4. Counters(s, i) = Counters(r, i)
    BY <1>1, <1>3 DEF Counters
  <1>5. evaluate_identity_endpoints(s, i) = evaluate_identity_endpoints(r, i)
    <2>1. CASE SamlRepeats(r, i)
      BY <1>1, <1>2, <2>1, Zenon DEF evaluate_identity_endpoints
    <2>2. CASE ~ SamlRepeats(r, i)
      BY <1>1, <1>2, <2>2, Zenon DEF evaluate_identity_endpoints
    <2>3. QED
      BY <2>1, <2>2
  <1>6. QED
    BY <1>4, <1>5

LEMMA TicksGrow ==
    ASSUME NEW r, NEW s, Prefix(r, s), NEW name
    PROVE  /\ Ticked(r, name) \subseteq Ticked(s, name)
           /\ Cardinality(Ticked(r, name)) \in Nat /\ Cardinality(Ticked(s, name)) \in Nat
           /\ Cardinality(Ticked(r, name)) <= Cardinality(Ticked(s, name))
  <1>1. Ticked(r, name) \subseteq Ticked(s, name)
    BY CountersKept DEF Ticked, Prefix
  <1>2. Ticked(r, name) \in SUBSET DOMAIN r /\ Ticked(s, name) \in SUBSET DOMAIN s
    BY DEF Ticked
  <1>3. /\ Cardinality(Ticked(r, name)) \in Nat /\ Cardinality(Ticked(s, name)) \in Nat
        /\ IsFiniteSet(Ticked(s, name))
    BY <1>2, RowsFinite DEF Prefix
  <1>4. QED
    BY <1>1, <1>3, FS_Subset

(* Only a row of HTTP yields the finding about plaintext. *)
LEMMA PlainIsHttp ==
    ASSUME NEW e, NEW f \in RowFindings(e), f.title = PLAIN_HTTP
    PROVE  e.proto = "HTTP"
  <1>1. SUFFICES ASSUME e.proto # "HTTP" PROVE f.title # PLAIN_HTTP
    OBVIOUS
  <1>2. \A sev, t, c : /\ f = _build_finding(e, sev, t) => f.title = t
                       /\ f = InCategory(_build_finding(e, sev, t), c) => f.title = t
    BY FindingIs DEF InCategory
  <1>3. f \in AdvisoryFindings(e) \/ f = ErrorFinding(e) \/ f \in ServiceFindings(e)
    BY Zenon DEF RowFindings
  <1>4. ASSUME f \in AdvisoryFindings(e) PROVE f.title # PLAIN_HTTP
    <2>1. \/ f = InCategory(_build_finding(e, "INFO", "Scanner skipped"), "coverage_gap")
          \/ f = InCategory(_build_finding(e, "HIGH", "JWKS fetched without verification"), "config_advisory")
      BY <1>4, Zenon DEF AdvisoryFindings
    <2>2. f.title = "Scanner skipped" \/ f.title = "JWKS fetched without verification"
      BY <1>2, <2>1, Zenon
    <2>3. QED
      BY <2>2, Zenon DEF PLAIN_HTTP
  <1>5. ASSUME f = ErrorFinding(e) PROVE f.title # PLAIN_HTTP
    <2>1. \/ f = _build_finding(e, "MEDIUM", "TLS handshake blocked assessment")
          \/ f = _build_finding(e, "INFO", "mTLS required")
          \/ f = _build_finding(e, "INFO", "Source scan incomplete")
          \/ f = _build_finding(e, "INFO", "Informational protocol observation")
      BY <1>5, Zenon DEF ErrorFinding
    <2>2. \/ f.title = "TLS handshake blocked assessment" \/ f.title = "mTLS required"
          \/ f.title = "Source scan incomplete" \/ f.title = "Informational protocol observation"
      BY <1>2, <2>1, Zenon
    <2>3. QED
      BY <2>2, Zenon DEF PLAIN_HTTP
  <1>6. ASSUME f \in CertificateFindings(e) PROVE f.title # PLAIN_HTTP
    <2>1. \E sev : \/ f = _build_finding(e, sev, "Legacy TLS versions allowed")
                   \/ f = _build_finding(e, sev, "Legacy TLS cipher suites accepted")
                   \/ f = _build_finding(e, sev, "TLS certificate expired")
                   \/ f = _build_finding(e, sev, "TLS certificate expiring")
                   \/ f = _build_finding(e, sev, "TLS certificate is self-signed")
                   \/ f = _build_finding(e, sev, "TLS certificate issued by untrusted CA")
                   \/ f = _build_finding(e, sev, "undersized certificate key")
                   \/ f = _build_finding(e, sev, "quantum-vulnerable certificate key")
      BY <1>6, Zenon DEF CertificateFindings, If
    <2>2. \/ f.title = "Legacy TLS versions allowed" \/ f.title = "Legacy TLS cipher suites accepted"
          \/ f.title = "TLS certificate expired" \/ f.title = "TLS certificate expiring"
          \/ f.title = "TLS certificate is self-signed" \/ f.title = "TLS certificate issued by untrusted CA"
          \/ f.title = "undersized certificate key" \/ f.title = "quantum-vulnerable certificate key"
      BY <1>2, <2>1, Zenon
    <2>3. QED
      BY <2>2, Zenon DEF PLAIN_HTTP
  <1>7. ASSUME f = _evaluate_container_package(e) PROVE f.title # PLAIN_HTTP
    <2>1. \E sev : \/ f = _build_finding(e, sev, "End-of-life OpenSSL in image")
                   \/ f = _build_finding(e, sev, "Severely outdated cryptography package")
                   \/ f = _build_finding(e, sev, "Outdated crypto package")
                   \/ f = _build_finding(e, sev, "Container image contains crypto library")
      BY <1>7, Zenon DEF _evaluate_container_package
    <2>2. \/ f.title = "End-of-life OpenSSL in image" \/ f.title = "Severely outdated cryptography package"
          \/ f.title = "Outdated crypto package" \/ f.title = "Container image contains crypto library"
      BY <1>2, <2>1, Zenon
    <2>3. QED
      BY <2>2, Zenon DEF PLAIN_HTTP
  <1>8. ASSUME f \in ServiceFindings(e) PROVE f.title # PLAIN_HTTP
    <2>1. \/ f \in CertificateFindings(e) \/ f = _evaluate_container_package(e)
          \/ f = _build_finding(e, "INFO", "SSH quantum planning advisory")
          \/ f = _build_finding(e, "MEDIUM", "Unknown open service")
      BY <1>1, <1>8, Zenon DEF ServiceFindings
    <2>2. \/ f \in CertificateFindings(e) \/ f = _evaluate_container_package(e)
          \/ f.title = "SSH quantum planning advisory" \/ f.title = "Unknown open service"
      BY <1>2, <2>1, Zenon
    <2>3. ASSUME f.title = "SSH quantum planning advisory" \/ f.title = "Unknown open service"
          PROVE  f.title # PLAIN_HTTP
      BY <2>3, Zenon DEF PLAIN_HTTP
    <2>4. QED
      BY <1>6, <1>7, <2>2, <2>3
  <1>9. QED
    BY <1>3, <1>4, <1>5, <1>8

(* The row that stands for a place is one of its rows. *)
LEMMA EndpointIs ==
    ASSUME NEW r, IsSeq(r), NEW i \in DOMAIN r
    PROVE  \E j \in DOMAIN r : EndpointAt(r, r[i].at) = r[j] /\ r[j].at = r[i].at
  <1> DEFINE n == Len(r)
             at == r[i].at
             T == {j \in DOMAIN r : r[j].at = at}
             e == EndpointAt(r, at)
  <1>1. n \in Nat /\ DOMAIN r = 1 .. n
    BY RowsFinite
  <1>2. i \in T /\ e = r[Max(T)]
    BY DEF EndpointAt
  <1> HIDE DEF n, e
  <1>3. T \subseteq 0 .. n
    BY <1>1
  <1>4. Max(T) \in T
    BY <1>1, <1>2, <1>3, MaxIs
  <1>5. QED
    BY <1>2, <1>4 DEF e

LEMMA HttpRetitled ==
    ASSUME NEW r, IsSeq(r), Apart(r), NEW i \in DOMAIN r, NEW f \in RowFindings(r[i])
    PROVE  _postprocess_findings(r, f)
           = IF f.title # PLAIN_HTTP \/ f.at \notin TlsPorts THEN f
             ELSE [f EXCEPT !.sev = "HIGH", !.title = HTTP_ON_TLS]
  <1>1. CASE f.title # PLAIN_HTTP \/ f.at \notin TlsPorts
    BY <1>1, Zenon DEF _postprocess_findings, PLAIN_HTTP
  <1>2. CASE f.title = PLAIN_HTTP /\ f.at \in TlsPorts
    <2>1. r[i].proto = "HTTP" /\ f.at = r[i].at
      BY <1>2, PlainIsHttp, RowFindingsAt
    <2>2. PICK j \in DOMAIN r : EndpointAt(r, f.at) = r[j] /\ r[j].at = r[i].at
      BY <2>1, EndpointIs
    <2>3. EndpointAt(r, f.at).proto # "TLS"
      BY <2>1, <2>2 DEF Apart
    <2>4. QED
      BY <1>2, <2>3, Zenon DEF _postprocess_findings, PLAIN_HTTP, HTTP_ON_TLS
  <1>3. QED
    BY <1>1, <1>2

(* Rows that are added take no finding away. *)
LEMMA FindingsGrow ==
    ASSUME NEW r, NEW s, Prefix(r, s), Apart(r), Apart(s)
    PROVE  /\ evaluate_endpoints(r) \subseteq evaluate_endpoints(s)
           /\ derive_report_findings(r) \subseteq derive_report_findings(s)
  <1>1. ASSUME NEW g \in evaluate_endpoints(r) PROVE g \in evaluate_endpoints(s)
    <2>0. PICK i \in DOMAIN r : \E f \in RowFindings(r[i]) : g = _postprocess_findings(r, f)
      BY Zenon DEF evaluate_endpoints
    <2>1. PICK f \in RowFindings(r[i]) : g = _postprocess_findings(r, f)
      BY <2>0
    <2>2. i \in DOMAIN s /\ f \in RowFindings(s[i])
      BY <2>1 DEF Prefix
    <2>3. g = _postprocess_findings(s, f)
      <3> DEFINE x == IF f.title # PLAIN_HTTP \/ f.at \notin TlsPorts THEN f
                      ELSE [f EXCEPT !.sev = "HIGH", !.title = HTTP_ON_TLS]
      <3>1. _postprocess_findings(r, f) = x
        BY HttpRetitled DEF Prefix
      <3>2. _postprocess_findings(s, f) = x
        BY <2>2, HttpRetitled DEF Prefix
      <3> HIDE DEF x
      <3>3. QED
        BY <2>1, <3>1, <3>2
    <2>4. f \in UNION {RowFindings(s[k]) : k \in DOMAIN s}
      BY <2>2
    <2>5. QED
      BY <2>3, <2>4, Zenon DEF evaluate_endpoints
  <1> DEFINE F(q, i) == evaluate_protocol_service_endpoints(q[i]) \cup evaluate_identity_endpoints(q, i)
  <1>2. \A i \in DOMAIN r : i \in DOMAIN s /\ F(s, i) = F(r, i)
    BY CountersKept DEF Prefix
  <1>3. \A q : derive_report_findings(q) = ({0} \X evaluate_endpoints(q)) \cup UNION {{i} \X F(q, i) : i \in DOMAIN q}
    BY DEF derive_report_findings
  <1> HIDE DEF F
  <1>4. UNION {{i} \X F(r, i) : i \in DOMAIN r} \subseteq UNION {{i} \X F(s, i) : i \in DOMAIN s}
    BY <1>2
  <1>5. {0} \X evaluate_endpoints(r) \subseteq {0} \X evaluate_endpoints(s)
    BY <1>1
  <1>6. QED
    BY <1>1, <1>3, <1>4, <1>5

LEMMA IfFinite == ASSUME NEW c, NEW f PROVE IsFiniteSet(If(c, f))
  BY FS_Singleton, FS_EmptySet DEF If

LEMMA OfFour ==
    ASSUME NEW a, NEW b, NEW c, NEW d, IsFiniteSet(a), IsFiniteSet(b), IsFiniteSet(c), IsFiniteSet(d)
    PROVE  IsFiniteSet(UNION {a, b, c, d})
  <1>1. UNION {a, b, c, d} = (a \cup b) \cup (c \cup d)
    OBVIOUS
  <1>2. IsFiniteSet(a \cup b) /\ IsFiniteSet(c \cup d)
    BY FS_Union
  <1>3. IsFiniteSet((a \cup b) \cup (c \cup d))
    BY <1>2, FS_Union
  <1>4. QED
    BY <1>1, <1>3

LEMMA RowFindingsFinite == ASSUME NEW e PROVE IsFiniteSet(RowFindings(e))
  <1>1. IsFiniteSet(CertificateFindings(e))
    <2> DEFINE at == If(has_legacy_tls_versions_signal(e), _build_finding(e, "LOW", "Legacy TLS versions allowed"))
               b == If(e.suites = "legacy", _build_finding(e, "LOW", "Legacy TLS cipher suites accepted"))
               c == If(e.cert = "expired", _build_finding(e, "CRITICAL", "TLS certificate expired"))
               d == If(e.cert = "expiring", _build_finding(e, "MEDIUM", "TLS certificate expiring"))
               k == If(e.issuer = "self", _build_finding(e, "HIGH", "TLS certificate is self-signed"))
               l == If(e.issuer = "untrusted", _build_finding(e, "MEDIUM", "TLS certificate issued by untrusted CA"))
               m == If(e.key \in {"RSA1024", "EC192"}, _build_finding(e, "HIGH", "undersized certificate key"))
               n == If(e.key \in {"RSA2048", "EC256"}, _build_finding(e, "MEDIUM", "quantum-vulnerable certificate key"))
    <2>1. CertificateFindings(e) = UNION {at, b, c, d, k, l, m, n}
      BY Zenon DEF CertificateFindings
    <2>2. /\ IsFiniteSet(at) /\ IsFiniteSet(b) /\ IsFiniteSet(c) /\ IsFiniteSet(d)
          /\ IsFiniteSet(k) /\ IsFiniteSet(l) /\ IsFiniteSet(m) /\ IsFiniteSet(n)
      BY IfFinite, Zenon
    <2> HIDE DEF at, b, c, d, k, l, m, n
    <2>3. UNION {at, b, c, d, k, l, m, n} = (UNION {at, b, c, d}) \cup (UNION {k, l, m, n})
      OBVIOUS
    <2>4. IsFiniteSet(UNION {at, b, c, d}) /\ IsFiniteSet(UNION {k, l, m, n})
      BY <2>2, OfFour
    <2>5. IsFiniteSet((UNION {at, b, c, d}) \cup (UNION {k, l, m, n}))
      BY <2>4, FS_Union
    <2>6. QED
      BY <2>1, <2>3, <2>5
  <1>2. \A x : IsFiniteSet({x})
    BY FS_Singleton
  <1>3. IsFiniteSet({})
    BY FS_EmptySet
  <1>4. IsFiniteSet(ServiceFindings(e))
    BY <1>1, <1>2, <1>3, Zenon DEF ServiceFindings
  <1>5. IsFiniteSet(AdvisoryFindings(e))
    BY <1>2, <1>3, Zenon DEF AdvisoryFindings
  <1>6. QED
    BY <1>2, <1>4, <1>5, Zenon DEF RowFindings

LEMMA FamilyFinite ==
    ASSUME NEW S, IsFiniteSet(S), NEW f, DOMAIN f = S, \A x \in S : IsFiniteSet(f[x])
    PROVE  IsFiniteSet(UNION {f[x] : x \in S})
  <1> DEFINE T == {f[x] : x \in S}
  <1>1. IsFiniteSet(T)
    BY ImageFinite
  <1>2. \A t \in T : IsFiniteSet(t)
    OBVIOUS
  <1> HIDE DEF T
  <1>3. IsFiniteSet(UNION T)
    BY <1>1, <1>2, FS_UNION
  <1>4. QED
    BY <1>3 DEF T

LEMMA FindingsFinite ==
    ASSUME NEW r, IsSeq(r)
    PROVE  IsFiniteSet(derive_report_findings(r))
  <1> DEFINE A == UNION {RowFindings(r[i]) : i \in DOMAIN r}
             F(i) == evaluate_protocol_service_endpoints(r[i]) \cup evaluate_identity_endpoints(r, i)
             B == UNION {{i} \X F(i) : i \in DOMAIN r}
  <1>1. IsFiniteSet(A)
    <2> DEFINE f == [i \in DOMAIN r |-> RowFindings(r[i])]
    <2>1. DOMAIN f = DOMAIN r /\ A = UNION {f[i] : i \in DOMAIN r} /\ \A i \in DOMAIN r : IsFiniteSet(f[i])
      BY RowFindingsFinite
    <2> HIDE DEF f, A
    <2>2. QED
      BY <2>1, RowsFinite, FamilyFinite
  <1>2. IsFiniteSet(evaluate_endpoints(r))
    <2> DEFINE f == [g \in A |-> _postprocess_findings(r, g)]
    <2>1. evaluate_endpoints(r) = {_postprocess_findings(r, g) : g \in A}
      BY Zenon DEF evaluate_endpoints
    <2> HIDE DEF A
    <2>2. DOMAIN f = A /\ evaluate_endpoints(r) \subseteq {f[g] : g \in A}
      BY <2>1
    <2> HIDE DEF f
    <2>3. QED
      BY <1>1, <2>2, ImageFinite
  <1>3. ASSUME NEW i \in DOMAIN r PROVE IsFiniteSet(F(i))
    <2>1. \A x : IsFiniteSet({x})
      BY FS_Singleton
    <2>2. IsFiniteSet({})
      BY FS_EmptySet
    <2>3. IsFiniteSet(evaluate_identity_endpoints(r, i))
      BY <2>1, <2>2, Zenon DEF evaluate_identity_endpoints
    <2>4. IsFiniteSet(evaluate_email_endpoints(r[i]))
      <3>1. PICK a, b : evaluate_email_endpoints(r[i]) = a \cup b /\ IsFiniteSet(a) /\ IsFiniteSet(b)
        BY <2>1, <2>2, IfFinite, Zenon DEF evaluate_email_endpoints
      <3>2. QED
        BY <3>1, FS_Union
    <2>5. IsFiniteSet(evaluate_broker_endpoints(r[i]))
      <3>1. PICK a, b : evaluate_broker_endpoints(r[i]) = a \cup b /\ IsFiniteSet(a) /\ IsFiniteSet(b)
        BY IfFinite, Zenon DEF evaluate_broker_endpoints
      <3>2. QED
        BY <3>1, FS_Union
    <2>6. IsFiniteSet(evaluate_codesign_endpoints(r[i]))
      BY <2>1, <2>2, Zenon DEF evaluate_codesign_endpoints
    <2>7. IsFiniteSet(evaluate_bearer_token_endpoints(r[i]))
      BY IfFinite DEF evaluate_bearer_token_endpoints
    <2> DEFINE a == IF r[i].proto \in EMAIL_PROTOCOLS THEN evaluate_email_endpoints(r[i]) ELSE {}
               b == evaluate_broker_endpoints(r[i])
               c == IF r[i].proto = "CODE_SIGNING" THEN evaluate_codesign_endpoints(r[i]) ELSE {}
               d == IF r[i].proto = "BEARER_TOKEN" THEN evaluate_bearer_token_endpoints(r[i]) ELSE {}
    <2>8. IsFiniteSet(a) /\ IsFiniteSet(b) /\ IsFiniteSet(c) /\ IsFiniteSet(d)
      BY <2>2, <2>4, <2>5, <2>6, <2>7
    <2>9. IsFiniteSet(evaluate_protocol_service_endpoints(r[i]))
      <3>1. evaluate_protocol_service_endpoints(r[i]) = UNION {a, b, c, d}
        BY DEF evaluate_protocol_service_endpoints
      <3> HIDE DEF a, b, c, d
      <3>2. IsFiniteSet(UNION {a, b, c, d})
        BY <2>8, OfFour
      <3>3. QED
        BY <3>1, <3>2
    <2>10. QED
      BY <2>3, <2>9, FS_Union
  <1>4. derive_report_findings(r) = ({0} \X evaluate_endpoints(r)) \cup B
    BY Zenon DEF derive_report_findings
  <1> HIDE DEF F
  <1>5. IsFiniteSet(B)
    <2> DEFINE f == [i \in DOMAIN r |-> {i} \X F(i)]
    <2>1. \A i \in DOMAIN r : IsFiniteSet({i} \X F(i))
      BY <1>3, FS_Singleton, FS_Product
    <2>2. DOMAIN f = DOMAIN r /\ B = UNION {f[i] : i \in DOMAIN r} /\ \A i \in DOMAIN r : IsFiniteSet(f[i])
      BY <2>1
    <2> HIDE DEF f, B
    <2>3. QED
      BY <2>2, RowsFinite, FamilyFinite
  <1>6. IsFiniteSet({0} \X evaluate_endpoints(r))
    BY <1>2, FS_Singleton, FS_Product
  <1>7. IsFiniteSet(({0} \X evaluate_endpoints(r)) \cup B)
    BY <1>5, <1>6, FS_Union
  <1>8. QED
    BY <1>4, <1>7

LEMMA SeveritiesGrow ==
    ASSUME NEW r, NEW s, Prefix(r, s), Apart(r), Apart(s), NEW sev
    PROVE  /\ ScoredSeverity(r, sev) \in Nat /\ ScoredSeverity(s, sev) \in Nat
           /\ ScoredSeverity(r, sev) <= ScoredSeverity(s, sev)
  <1> DEFINE A == {x \in derive_report_findings(r) : x[2].sev = sev /\ x[2].category # "config_advisory"}
             B == {x \in derive_report_findings(s) : x[2].sev = sev /\ x[2].category # "config_advisory"}
  <1>1. ScoredSeverity(r, sev) = Cardinality(A) /\ ScoredSeverity(s, sev) = Cardinality(B)
    BY Zenon DEF ScoredSeverity
  <1>2. A \subseteq B
    BY FindingsGrow
  <1>3. A \subseteq derive_report_findings(r) /\ B \subseteq derive_report_findings(s)
    OBVIOUS
  <1> HIDE DEF A, B
  <1>4. IsFiniteSet(A) /\ IsFiniteSet(B)
    BY <1>3, FindingsFinite, FS_Subset DEF Prefix
  <1>5. QED
    BY <1>1, <1>2, <1>4, FS_Subset, FS_CardinalityType

LEMMA TargetsGrow ==
    ASSUME NEW r, NEW s, Prefix(r, s), Apart(r), Apart(s), NEW title
    PROVE  Cardinality(_finding_targets(r, title)) <= Cardinality(_finding_targets(s, title))
  <1>1. _finding_targets(r, title) \subseteq _finding_targets(s, title)
    BY FindingsGrow DEF _finding_targets
  <1>2. QED
    BY <1>1, TargetsFinite, FS_Subset DEF Prefix

LEMMA CountsGrow ==
    ASSUME NEW r, NEW s, Prefix(r, s), Apart(r), Apart(s), NEW name
    PROVE  Count(build_evidence_summary(r), name) <= Count(build_evidence_summary(s), name)
  <1> DEFINE ev == build_evidence_summary(r)
             ew == build_evidence_summary(s)
  <1>1. CASE name = "plaintext_http"
    BY <1>1, CountIs, TargetsGrow
  <1>2. CASE name = "http_on_tls"
    BY <1>2, CountIs, TargetsGrow
  <1>3. CASE name = "email_plain"
    <2> DEFINE a == Cardinality(Ticked(r, "email_plaintext"))
               b == Cardinality(Ticked(r, "starttls_missing"))
               c == Cardinality(Ticked(s, "email_plaintext"))
               d == Cardinality(Ticked(s, "starttls_missing"))
    <2>1. Count(ev, name) = a + b /\ Count(ew, name) = c + d
      BY <1>3, CountIs DEF Prefix
    <2>2. a \in Nat /\ c \in Nat /\ a <= c
      BY TicksGrow
    <2>3. b \in Nat /\ d \in Nat /\ b <= d
      BY TicksGrow
    <2> HIDE DEF a, b, c, d
    <2>4. QED
      BY <2>1, <2>2, <2>3
  <1>4. CASE name \notin {"plaintext_http", "http_on_tls", "email_plain"}
    <2>1. Count(ev, name) = Cardinality(Ticked(r, name)) /\ Count(ew, name) = Cardinality(Ticked(s, name))
      BY <1>4, CountIs DEF Prefix
    <2>2. QED
      BY <2>1, TicksGrow
  <1>5. QED
    BY <1>1, <1>2, <1>3, <1>4

LEMMA CeilingFalls ==
    ASSUME NEW a \in Nat, NEW b \in Nat, NEW c \in Nat, NEW d \in Nat, a <= b, c <= d
    PROVE  _consequence_ceiling(b, d) <= _consequence_ceiling(a, c)
  BY DEF _consequence_ceiling, BAND_THRESHOLDS

(* A classical or unread certificate stays one. *)
LEMMA CreditsFall ==
    ASSUME NEW r, NEW s, Prefix(r, s), Apart(r), Apart(s), NEW d,
           Count(build_evidence_summary(s), "pqc_hybrid") > 0 => Count(build_evidence_summary(r), "pqc_hybrid") > 0,
           Count(build_evidence_summary(s), "key_pqc") > 0 => Count(build_evidence_summary(r), "key_pqc") > 0,
           build_evidence_summary(s).mtls > 0 => build_evidence_summary(r).mtls > 0
    PROVE  Credits(build_evidence_summary(s), d) <= Credits(build_evidence_summary(r), d)
  <1> DEFINE ev == build_evidence_summary(r)
             ew == build_evidence_summary(s)
             C(q) == Ticked(q, "certs_observed")
             P(q) == Ticked(q, "key_pqc")
  <1>1. /\ Count(ev, "certs_observed") = Cardinality(C(r)) /\ Count(ev, "key_pqc") = Cardinality(P(r))
        /\ Count(ew, "certs_observed") = Cardinality(C(s)) /\ Count(ew, "key_pqc") = Cardinality(P(s))
    BY CountIs DEF Prefix
  <1>2. \A q : P(q) \subseteq C(q)
    <2>1. SUFFICES ASSUME NEW q, NEW i \in DOMAIN q, "key_pqc" \in Counters(q, i) PROVE "certs_observed" \in Counters(q, i)
      BY DEF Ticked
    <2>2. ~ _is_unanswered_email_probe(q[i])
      BY <2>1 DEF Counters
    <2>3. /\ "key_pqc" \notin CoverageCounters(q[i]) /\ "key_pqc" \notin ApiCounters(q[i])
          /\ "key_pqc" \notin IdentityCounters(q, i) /\ "key_pqc" \notin DataAtRestCounters(q[i])
          /\ "key_pqc" \notin MotionCounters(q[i])
      <3>1. "key_pqc" \notin CoverageCounters(q[i])
        BY DEF CoverageCounters, Ticks
      <3>2. "key_pqc" \notin ApiCounters(q[i])
        BY DEF ApiCounters, Ticks
      <3>3. "key_pqc" \notin IdentityCounters(q, i)
        BY DEF IdentityCounters, Ticks
      <3>4. "key_pqc" \notin DataAtRestCounters(q[i])
        BY DEF DataAtRestCounters, Ticks
      <3>5. "key_pqc" \notin MotionCounters(q[i])
        BY DEF MotionCounters, Ticks
      <3>6. QED
        BY <3>1, <3>2, <3>3, <3>4, <3>5
    <2>4. "key_pqc" \in CertificateCounters(q[i])
      <3> DEFINE a == CoverageCounters(q[i])
                 b == CertificateCounters(q[i])
                 c == IdentityCounters(q, i)
                 x == DataAtRestCounters(q[i])
                 y == ApiCounters(q[i])
                 z == MotionCounters(q[i])
      <3>1. Counters(q, i) = UNION {a, b, c, x, y, z}
        BY <2>2 DEF Counters
      <3> HIDE DEF a, b, c, x, y, z
      <3>2. QED
        BY <2>1, <2>3, <3>1 DEF a, b, c, x, y, z
    <2>5. "certs_observed" \in CertificateCounters(q[i])
      BY <2>4 DEF CertificateCounters, Ticks
    <2>6. QED
      BY <2>2, <2>5 DEF Counters
  <1>3. P(r) \subseteq P(s) /\ C(r) \subseteq C(s)
    BY TicksGrow
  <1>4. \A i \in DOMAIN r : i \in P(s) => i \in P(r)
    BY CountersKept DEF Ticked, Prefix
  <1>5. /\ IsFiniteSet(C(r)) /\ IsFiniteSet(P(r)) /\ IsFiniteSet(C(s)) /\ IsFiniteSet(P(s))
        /\ C(r) \subseteq DOMAIN r
    BY RowsFinite DEF Ticked, Prefix
  <1> HIDE DEF C, P
  <1>6. Cardinality(C(r)) > Cardinality(P(r)) => Cardinality(C(s)) > Cardinality(P(s))
    <2>1. SUFFICES ASSUME Cardinality(C(r)) > Cardinality(P(r)), ~ (Cardinality(C(s)) > Cardinality(P(s))) PROVE FALSE
      OBVIOUS
    <2>2. Cardinality(P(s)) <= Cardinality(C(s)) /\ Cardinality(P(s)) \in Nat /\ Cardinality(C(s)) \in Nat
      BY <1>2, <1>5, FS_Subset, FS_CardinalityType
    <2>3. Cardinality(P(s)) = Cardinality(C(s))
      BY <2>1, <2>2
    <2>4. P(s) = C(s)
      BY <1>2, <1>5, <2>3, FS_Subset
    <2>5. P(r) = C(r)
      BY <1>2, <1>3, <1>4, <1>5, <2>4
    <2>6. QED
      BY <1>5, <2>1, <2>5, FS_CardinalityType
  <1>7. Count(ev, "key_classical") > 0 => Count(ew, "key_classical") > 0
    <2>1. Count(ev, "key_classical") <= Count(ew, "key_classical")
      BY CountsGrow
    <2>2. Count(ev, "key_classical") \in Nat /\ Count(ew, "key_classical") \in Nat
      BY SummaryCounts DEF Prefix, Counted
    <2>3. QED
      BY <2>1, <2>2
  <1> HIDE DEF ev, ew
  <1>8. KeyTypePoints(ew) <= KeyTypePoints(ev)
    BY <1>1, <1>6, <1>7 DEF KeyTypePoints, RSA_ONLY_PENALTY, PQC_BONUS, ev, ew
  <1>9. QED
    BY <1>8 DEF Credits, MTLS_BONUS, ev, ew

(* What a report says that has been assessed and earned. *)
LEMMA ReportIs ==
    ASSUME NEW r
    PROVE  /\ Report(r).domains = Assessed(build_evidence_summary(r))
           /\ Report(r).score = compute_readiness_score(build_evidence_summary(r), "balanced").score
           /\ Report(r).earned = <<Count(build_evidence_summary(r), "pqc_hybrid") > 0,
                                   Count(build_evidence_summary(r), "key_pqc") > 0,
                                   build_evidence_summary(r).mtls > 0>>
  <1> DEFINE ev == build_evidence_summary(r)
  <1>1. compute_readiness_score(ev, "balanced").domains = Assessed(ev)
    BY DEF compute_readiness_score, NOT_ASSESSED
  <1> HIDE DEF ev
  <1>2. QED
    BY <1>1, Zenon DEF Report, ev

LEMMA MoreRowsNeverPay ==
    ASSUME NEW r, NEW s, Prefix(r, s), Apart(r), Apart(s),
           Report(s).domains = Report(r).domains, Report(s).earned = Report(r).earned
    PROVE  Report(s).score <= Report(r).score
  <1> DEFINE ev == build_evidence_summary(r)
             ew == build_evidence_summary(s)
  <1>1. Counted(ev) /\ Counted(ew)
    BY SummaryCounts DEF Prefix
  <1>2. Assessed(ew) = Assessed(ev)
    BY ReportIs
  <1>3. /\ (Count(ew, "pqc_hybrid") > 0) = (Count(ev, "pqc_hybrid") > 0)
        /\ (Count(ew, "key_pqc") > 0) = (Count(ev, "key_pqc") > 0)
        /\ (ew.mtls > 0) = (ev.mtls > 0)
    <2> DEFINE a == Count(ew, "pqc_hybrid") > 0
               b == Count(ew, "key_pqc") > 0
               c == ew.mtls > 0
               d == Count(ev, "pqc_hybrid") > 0
               e == Count(ev, "key_pqc") > 0
               f == ev.mtls > 0
    <2>1. <<a, b, c>> = <<d, e, f>>
      BY ReportIs
    <2> HIDE DEF a, b, c, d, e, f
    <2>2. a = d /\ b = e /\ c = f
      BY <2>1
    <2>3. QED
      BY <2>2 DEF a, b, c, d, e, f
  <1>4. \A d \in Domains : Credits(ew, d) <= Credits(ev, d)
    BY <1>3, CreditsFall
  <1>5. _consequence_ceiling(ew.critical, ew.high) <= _consequence_ceiling(ev.critical, ev.high)
    <2>1. /\ ev.critical = ScoredSeverity(r, "CRITICAL") /\ ev.high = ScoredSeverity(r, "HIGH")
          /\ ew.critical = ScoredSeverity(s, "CRITICAL") /\ ew.high = ScoredSeverity(s, "HIGH")
      BY Zenon DEF build_evidence_summary
    <2> HIDE DEF ev, ew
    <2>2. QED
      BY <2>1, SeveritiesGrow, CeilingFalls
  <1>6. \A d \in Domains : \A i \in DOMAIN SCORE_WEIGHTS[d] :
            Count(ev, SCORE_WEIGHTS[d][i][1]) <= Count(ew, SCORE_WEIGHTS[d][i][1])
    BY CountsGrow
  <1>7. Worse(ev, ew)
    <2> HIDE DEF ev, ew
    <2>1. QED
      BY <1>2, <1>3, <1>4, <1>5, <1>6 DEF Worse
  <1> HIDE DEF ev, ew
  <1>8. compute_readiness_score(ew, "balanced").score <= compute_readiness_score(ev, "balanced").score
    BY <1>1, <1>7, WorseScores
  <1>9. QED
    BY <1>8, ReportIs DEF ev, ew

(* A step leaves the rows as they are or adds some of one place. *)
LEMMA StepAdds ==
    ASSUME EstateInv, Next
    PROVE  /\ report' = Report(rows')
           /\ \E at, P, rs : Written(rs, at, P) /\ rows' = rows \o rs
  <1>1. PICK at : (Inventory(at) \/ Tls(at) \/ Ssh(at) \/ Pqc(at) \/ CodesignTls(at)) \/ Service(at)
    BY DEF Next
  <1>2. \E P : Adds(at, P)
    BY <1>1, PlaceAdds, ServiceAdds
  <1>3. QED
    BY <1>2 DEF Next, Adds

LEMMA ConcatExtends ==
    ASSUME NEW r, NEW rs, IsSeq(r), IsSeq(rs)
    PROVE  Prefix(r, r \o rs)
  <1> DEFINE m == Len(r)
             n == Len(rs)
             s == r \o rs
  <1>1. /\ IsSeq(s) /\ m \in Nat /\ n \in Nat /\ DOMAIN r = 1 .. m /\ DOMAIN s = 1 .. m + n
        /\ \A i \in 1 .. m : s[i] = r[i]
    BY IsSeqConcat
  <1> HIDE DEF m, n, s
  <1>2. DOMAIN r \subseteq DOMAIN s
    BY <1>1
  <1>3. QED
    BY <1>1, <1>2 DEF Prefix, s

LEMMA EstateApart ==
    ASSUME EstateInv, NEW r, r = rows
    PROVE  IsSeq(r) /\ Apart(r) /\ \A i \in DOMAIN r : RowFits(r[i])
  BY DEF EstateInv, PortFits, Apart

LEMMA EstateGrows ==
    ASSUME EstateInv, EstateInv', Next
    PROVE  \E r, rs : /\ r = rows /\ rows' = r \o rs /\ Prefix(r, r \o rs) /\ Apart(r) /\ Apart(r \o rs)
                      /\ IsSeq(rs) /\ (\A i \in DOMAIN r : RowFits(r[i])) /\ \A i \in DOMAIN rs : RowFits(rs[i])
                      /\ report = Report(r) /\ report' = Report(r \o rs)
  <1>1. PICK at, P, rs : Written(rs, at, P) /\ rows' = rows \o rs
    BY StepAdds
  <1>2. PICK r : r = rows
    OBVIOUS
  <1> DEFINE s == r \o rs
  <1>3. IsSeq(r) /\ Apart(r) /\ \A i \in DOMAIN r : RowFits(r[i])
    BY <1>2, EstateApart
  <1>4. rows' = s /\ IsSeq(rs) /\ \A i \in DOMAIN rs : RowFits(rs[i])
    BY <1>1, <1>2 DEF Written
  <1>5. Prefix(r, s)
    BY <1>3, <1>4, ConcatExtends
  <1> HIDE DEF s
  <1>6. Apart(s)
    <2>1. \A i \in DOMAIN s : s[i].proto \in {"TLS", "HTTP"} => ports'[s[i].at] = s[i].proto
      BY <1>4 DEF EstateInv, PortFits
    <2>2. QED
      BY <2>1 DEF Apart
  <1>7. report = Report(r) /\ report' = Report(s)
    <2>1. report = Report(rows)
      BY DEF EstateInv
    <2>2. report' = Report(rows')
      BY StepAdds
    <2>3. QED
      BY <1>2, <1>4, <2>1, <2>2
  <1>8. QED
    BY <1>2, <1>3, <1>4, <1>5, <1>6, <1>7 DEF s

NeverPays ==
    report.domains # {} /\ report'.domains = report.domains /\ report'.earned = report.earned
    => report'.score <= report.score

LEMMA StepNeverPays == EstateInv /\ EstateInv' /\ [Next]_vars => [NeverPays]_vars
  <1>1. SUFFICES ASSUME EstateInv, EstateInv', Next PROVE NeverPays
    BY DEF vars
  <1>2. PICK r, rs : /\ Prefix(r, r \o rs) /\ Apart(r) /\ Apart(r \o rs)
                     /\ report = Report(r) /\ report' = Report(r \o rs)
    BY <1>1, EstateGrows
  <1>3. QED
    BY <1>2, MoreRowsNeverPay DEF NeverPays

(* Finding more never raises the score (compute_readiness_score): as long as
   the same domains are assessed and nothing new is earned, each further row
   can only add to the counters that are charged for and to the CRITICAL and
   HIGH findings that lower the ceiling, and every step from there to the score
   is monotone: the curve, the capped penalties, two roundings, the average
   over the domains and the compression under the ceiling. *)
THEOREM WeaknessNeverPaysHolds == Spec => WeaknessNeverPays
  BY EstateHolds, StepNeverPays, PTL DEF Spec, WeaknessNeverPays, NeverPays

-----------------------------------------------------------------------------
(* A key that could not be read, and the same row with an RSA key *)

Renamed(r, t, i) ==
    /\ IsSeq(r) /\ IsSeq(t) /\ DOMAIN t = DOMAIN r /\ i \in DOMAIN r
    /\ \A j \in DOMAIN r : j # i => t[j] = r[j]
    /\ r[i].proto \in {"TLS", "CODE_SIGNING"} /\ r[i].cert # "none" /\ r[i].key = "unknown"
    /\ t[i].key = "RSA2048"
    /\ \A x \in Fields : x # "key" => t[i][x] = r[i][x]

LEMMA RenamedIs ==
    ASSUME NEW r, NEW i \in DOMAIN r, IsSeq(r), RowFits(r[i]), r[i].cert # "none", r[i].key = "unknown"
    PROVE  Renamed(r, [r EXCEPT ![i].key = "RSA2048"], i)
  <1> DEFINE n == Len(r)
             e == r[i]
             f == [e EXCEPT !.key = "RSA2048"]
             t == [r EXCEPT ![i].key = "RSA2048"]
  <1>1. n \in Nat /\ DOMAIN r = 1 .. n /\ r = [j \in 1 .. n |-> r[j]]
    <2>1. n \in Nat /\ DOMAIN r = 1 .. n
      BY RowsFinite
    <2>2. r = [j \in DOMAIN r |-> r[j]]
      BY DEF IsSeq
    <2>3. QED
      BY <2>1, <2>2
  <1>2. t = [j \in 1 .. n |-> IF j = i THEN f ELSE r[j]]
    BY <1>1
  <1>3. e.proto \in {"TLS", "CODE_SIGNING"} /\ DOMAIN e = Fields
    BY DEF RowFits
  <1>4. f.key = "RSA2048" /\ \A x \in Fields : x # "key" => f[x] = e[x]
    BY <1>3, FieldsAre
  <1> HIDE DEF f, n, t
  <1>5. DOMAIN t = 1 .. n /\ t[i] = f /\ \A j \in DOMAIN r : j # i => t[j] = r[j]
    BY <1>1, <1>2
  <1>6. IsSeq(t)
    <2>1. t = [j \in 1 .. n |-> t[j]]
      BY <1>2
    <2>2. t \in [1 .. n -> {t[j] : j \in 1 .. n}]
      BY <2>1
    <2>3. t \in Seq({t[j] : j \in 1 .. n})
      BY <1>1, <2>2, FunctionIsSeq
    <2>4. QED
      BY <1>5, <2>3 DEF IsSeq
  <1>7. QED
    BY <1>1, <1>3, <1>4, <1>5, <1>6 DEF Renamed, t

LEMMA RenamedFields ==
    ASSUME NEW r, NEW t, NEW i, Renamed(r, t, i), NEW j \in DOMAIN r
    PROVE  /\ t[j].proto = r[j].proto /\ t[j].at = r[j].at /\ t[j].err = r[j].err /\ t[j].blocker = r[j].blocker
           /\ t[j].tls = r[j].tls /\ t[j].versions = r[j].versions /\ t[j].suites = r[j].suites
           /\ t[j].cipher = r[j].cipher /\ t[j].pfs = r[j].pfs /\ t[j].cert = r[j].cert
           /\ t[j].issuer = r[j].issuer /\ t[j].tag = r[j].tag /\ t[j].sev = r[j].sev
  <1>1. CASE j = i
    BY <1>1, FieldsAre DEF Renamed
  <1>2. CASE j # i
    BY <1>2 DEF Renamed
  <1>3. QED
    BY <1>1, <1>2

LEMMA RenamedRepeats ==
    ASSUME NEW r, NEW t, NEW i, Renamed(r, t, i), NEW j \in DOMAIN r
    PROVE  SamlRepeats(t, j) <=> SamlRepeats(r, j)
  <1> DEFINE n == Len(r)
  <1>1. n \in Nat /\ DOMAIN r = 1 .. n
    BY RowsFinite DEF Renamed
  <1> HIDE DEF n
  <1>2. \A k \in 1 .. j - 1 : k \in DOMAIN r
    BY <1>1
  <1>3. \A k \in 1 .. j - 1 : t[k].proto = r[k].proto /\ t[k].at = r[k].at /\ t[k].tag = r[k].tag
    BY <1>2, RenamedFields
  <1>4. t[j].at = r[j].at /\ t[j].tag = r[j].tag
    BY RenamedFields
  <1>5. QED
    BY <1>3, <1>4 DEF SamlRepeats

LEMMA RenamedCounters ==
    ASSUME NEW r, NEW t, NEW i, Renamed(r, t, i), NEW j \in DOMAIN r, NEW name, name # "key_classical"
    PROVE  name \in Counters(t, j) <=> name \in Counters(r, j)
  <1>1. _is_unanswered_email_probe(t[j]) <=> _is_unanswered_email_probe(r[j])
    BY RenamedFields DEF _is_unanswered_email_probe
  <1>2. CoverageCounters(t[j]) = CoverageCounters(r[j])
    <2> DEFINE e == r[j]
               f == t[j]
    <2>1. /\ f.proto = e.proto /\ f.err = e.err /\ f.tls = e.tls /\ f.versions = e.versions /\ f.tag = e.tag
      BY RenamedFields
    <2> HIDE DEF e, f
    <2>2. QED
      BY <2>1 DEF CoverageCounters, has_legacy_tls_versions_signal, IsKerberosPlaceholder, e, f
  <1>3. name \in CertificateCounters(t[j]) <=> name \in CertificateCounters(r[j])
    <2>1. CASE j # i
      BY <2>1 DEF Renamed
    <2>2. CASE j = i
      <3>1. /\ t[j].key = "RSA2048" /\ r[j].key = "unknown" /\ t[j].cert = r[j].cert /\ t[j].issuer = r[j].issuer
        BY <2>2, RenamedFields DEF Renamed
      <3>2. QED
        BY <3>1 DEF CertificateCounters, Ticks
    <2>3. QED
      BY <2>1, <2>2
  <1>4. name \in IdentityCounters(t, j) <=> name \in IdentityCounters(r, j)
    <2>1. CASE j # i
      <3>1. t[j] = r[j] /\ (SamlRepeats(t, j) <=> SamlRepeats(r, j))
        BY <2>1, RenamedRepeats DEF Renamed
      <3>2. CASE r[j].proto = "SAML"
        BY <3>1, <3>2 DEF IdentityCounters, Ticks
      <3>3. CASE r[j].proto # "SAML"
        BY <3>1, <3>3 DEF IdentityCounters
      <3>4. QED
        BY <3>2, <3>3
    <2>2. CASE j = i
      <3>1. t[j].proto \in {"TLS", "CODE_SIGNING"} /\ r[j].proto \in {"TLS", "CODE_SIGNING"}
        BY <2>2, RenamedFields DEF Renamed
      <3>2. QED
        BY <3>1 DEF IdentityCounters
    <2>3. QED
      BY <2>1, <2>2
  <1>5. DataAtRestCounters(t[j]) = DataAtRestCounters(r[j])
    <2> DEFINE e == r[j]
               f == t[j]
    <2>1. f.proto = e.proto /\ f.err = e.err /\ f.tag = e.tag /\ f.sev = e.sev
      BY RenamedFields
    <2> HIDE DEF e, f
    <2>2. DataAtRestCounters(f) = DataAtRestCounters(e)
      BY <2>1 DEF DataAtRestCounters
    <2>3. QED
      BY <2>2 DEF e, f
  <1>6. ApiCounters(t[j]) = ApiCounters(r[j])
    <2>1. CASE j # i
      BY <2>1 DEF Renamed
    <2>2. CASE j = i
      <3>1. t[j].proto = r[j].proto /\ r[j].proto \in {"TLS", "CODE_SIGNING"} /\ t[j].tag = r[j].tag
        BY <2>2, RenamedFields DEF Renamed
      <3>2. QED
        BY <3>1 DEF ApiCounters
    <2>3. QED
      BY <2>1, <2>2
  <1>7. MotionCounters(t[j]) = MotionCounters(r[j])
    <2> DEFINE e == r[j]
               f == t[j]
    <2>1. f.proto = e.proto /\ f.tls = e.tls /\ f.cipher = e.cipher
      BY RenamedFields
    <2> HIDE DEF e, f
    <2>2. MotionCounters(f) = MotionCounters(e)
      BY <2>1 DEF MotionCounters
    <2>3. QED
      BY <2>2 DEF e, f
  <1>8. QED
    BY <1>1, <1>2, <1>3, <1>4, <1>5, <1>6, <1>7 DEF Counters

VULNERABLE_KEY == "quantum-vulnerable certificate key"

LEMMA SameFinding ==
    ASSUME NEW e, NEW f, e.at = f.at, NEW sev, NEW title
    PROVE  _build_finding(e, sev, title) = _build_finding(f, sev, title)
  BY DEF _build_finding

(* The RSA key adds a finding that is no more than MEDIUM. *)
LEMMA RenamedRowFindings ==
    ASSUME NEW r, NEW t, NEW i, Renamed(r, t, i), NEW j \in DOMAIN r
    PROVE  /\ RowFindings(r[j]) \subseteq RowFindings(t[j])
           /\ \A f \in RowFindings(t[j]) : f \in RowFindings(r[j]) \/ (f.sev = "MEDIUM" /\ f.title = VULNERABLE_KEY)
  <1>1. CASE j # i
    <2>1. t[j] = r[j]
      BY <1>1 DEF Renamed
    <2>2. QED
      BY <2>1
  <1>2. CASE j = i
    <2> DEFINE e == r[j]
               f == t[j]
    <2>1. /\ f.proto = e.proto /\ f.at = e.at /\ f.err = e.err /\ f.tls = e.tls /\ f.versions = e.versions
          /\ f.suites = e.suites /\ f.cert = e.cert /\ f.issuer = e.issuer
          /\ e.key = "unknown" /\ f.key = "RSA2048" /\ e.proto \in {"TLS", "CODE_SIGNING"}
      BY <1>2, RenamedFields DEF Renamed
    <2> HIDE DEF e, f
    <2>2. \A sev, title : _build_finding(f, sev, title) = _build_finding(e, sev, title)
      BY <2>1, SameFinding
    <2>3. ErrorFinding(f) = ErrorFinding(e)
      BY <2>1, <2>2, Zenon DEF ErrorFinding
    <2>4. has_legacy_tls_versions_signal(f) <=> has_legacy_tls_versions_signal(e)
      BY <2>1 DEF has_legacy_tls_versions_signal
    <2> DEFINE v == _build_finding(e, "MEDIUM", VULNERABLE_KEY)
    <2>5. CertificateFindings(f) = CertificateFindings(e) \cup {v}
      <3> DEFINE a(x) == If(has_legacy_tls_versions_signal(x), _build_finding(e, "LOW", "Legacy TLS versions allowed"))
                 b(x) == If(x.suites = "legacy", _build_finding(e, "LOW", "Legacy TLS cipher suites accepted"))
                 c(x) == If(x.cert = "expired", _build_finding(e, "CRITICAL", "TLS certificate expired"))
                 d(x) == If(x.cert = "expiring", _build_finding(e, "MEDIUM", "TLS certificate expiring"))
                 k(x) == If(x.issuer = "self", _build_finding(e, "HIGH", "TLS certificate is self-signed"))
                 l(x) == If(x.issuer = "untrusted", _build_finding(e, "MEDIUM", "TLS certificate issued by untrusted CA"))
                 m(x) == If(x.key \in {"RSA1024", "EC192"}, _build_finding(e, "HIGH", "undersized certificate key"))
                 n(x) == If(x.key \in {"RSA2048", "EC256"}, _build_finding(e, "MEDIUM", VULNERABLE_KEY))
      <3>1. CertificateFindings(e) = UNION {a(e), b(e), c(e), d(e), k(e), l(e), m(e), n(e)}
        BY Zenon DEF CertificateFindings, VULNERABLE_KEY
      <3>2. CertificateFindings(f) = UNION {a(f), b(f), c(f), d(f), k(f), l(f), m(f), n(f)}
        <4> DEFINE B(x, sev, title) == _build_finding(x, sev, title)
        <4>1. CertificateFindings(f) = UNION {
                  If(has_legacy_tls_versions_signal(f), B(f, "LOW", "Legacy TLS versions allowed")),
                  If(f.suites = "legacy", B(f, "LOW", "Legacy TLS cipher suites accepted")),
                  If(f.cert = "expired", B(f, "CRITICAL", "TLS certificate expired")),
                  If(f.cert = "expiring", B(f, "MEDIUM", "TLS certificate expiring")),
                  If(f.issuer = "self", B(f, "HIGH", "TLS certificate is self-signed")),
                  If(f.issuer = "untrusted", B(f, "MEDIUM", "TLS certificate issued by untrusted CA")),
                  If(f.key \in {"RSA1024", "EC192"}, B(f, "HIGH", "undersized certificate key")),
                  If(f.key \in {"RSA2048", "EC256"}, B(f, "MEDIUM", VULNERABLE_KEY))}
          BY Zenon DEF CertificateFindings, VULNERABLE_KEY
        <4>2. /\ B(f, "LOW", "Legacy TLS versions allowed") = _build_finding(e, "LOW", "Legacy TLS versions allowed")
              /\ B(f, "LOW", "Legacy TLS cipher suites accepted") = _build_finding(e, "LOW", "Legacy TLS cipher suites accepted")
              /\ B(f, "CRITICAL", "TLS certificate expired") = _build_finding(e, "CRITICAL", "TLS certificate expired")
              /\ B(f, "MEDIUM", "TLS certificate expiring") = _build_finding(e, "MEDIUM", "TLS certificate expiring")
              /\ B(f, "HIGH", "TLS certificate is self-signed") = _build_finding(e, "HIGH", "TLS certificate is self-signed")
              /\ B(f, "MEDIUM", "TLS certificate issued by untrusted CA")
                     = _build_finding(e, "MEDIUM", "TLS certificate issued by untrusted CA")
              /\ B(f, "HIGH", "undersized certificate key") = _build_finding(e, "HIGH", "undersized certificate key")
              /\ B(f, "MEDIUM", VULNERABLE_KEY) = _build_finding(e, "MEDIUM", VULNERABLE_KEY)
          BY <2>2, Zenon
        <4> HIDE DEF B
        <4>3. QED
          BY <4>1, <4>2, Zenon
      <3>3. a(f) = a(e) /\ b(f) = b(e) /\ c(f) = c(e) /\ d(f) = d(e) /\ k(f) = k(e) /\ l(f) = l(e)
        BY <2>1, <2>4, Zenon DEF If
      <3>4. m(f) = {} /\ m(e) = {}
        <4>1. ~ (e.key \in {"RSA1024", "EC192"}) /\ ~ (f.key \in {"RSA1024", "EC192"})
          BY <2>1
        <4>2. QED
          BY <4>1, Zenon DEF If
      <3>5. n(e) = {} /\ n(f) = {v}
        <4>1. ~ (e.key \in {"RSA2048", "EC256"}) /\ f.key \in {"RSA2048", "EC256"}
          BY <2>1
        <4>2. QED
          BY <4>1, Zenon DEF If
      <3> HIDE DEF a, b, c, d, k, l, m, n, v
      <3>6. QED
        BY <3>1, <3>2, <3>3, <3>4, <3>5
    <2>6. RowFindings(e) = IF e.err # "none" THEN {ErrorFinding(e)} ELSE IF e.proto = "TLS" THEN CertificateFindings(e) ELSE {}
      BY <2>1, Zenon DEF RowFindings, ServiceFindings
    <2>7. RowFindings(f) = IF f.err # "none" THEN {ErrorFinding(f)} ELSE IF f.proto = "TLS" THEN CertificateFindings(f) ELSE {}
      BY <2>1, Zenon DEF RowFindings, ServiceFindings
    <2>8. v.sev = "MEDIUM" /\ v.title = VULNERABLE_KEY
      BY FindingIs
    <2> HIDE DEF v
    <2>9. RowFindings(e) \subseteq RowFindings(f) /\ RowFindings(f) \subseteq RowFindings(e) \cup {v}
      BY <2>1, <2>3, <2>5, <2>6, <2>7
    <2>10. QED
      BY <2>8, <2>9 DEF e, f
  <1>3. QED
    BY <1>1, <1>2

LEMMA RenamedApart ==
    ASSUME NEW r, NEW t, NEW i, Renamed(r, t, i), Apart(r)
    PROVE  Apart(t)
  <1>1. \A j \in DOMAIN t : j \in DOMAIN r /\ t[j].proto = r[j].proto /\ t[j].at = r[j].at
    <2>1. DOMAIN t = DOMAIN r
      BY DEF Renamed
    <2>2. QED
      BY <2>1, RenamedFields
  <1>2. QED
    BY <1>1 DEF Apart

(* What becomes of a finding, since HTTP and TLS do not share a place. *)
Retitled(f) == IF f.title # PLAIN_HTTP \/ f.at \notin TlsPorts THEN f
               ELSE [f EXCEPT !.sev = "HIGH", !.title = HTTP_ON_TLS]

LEMMA EvaluatedIs ==
    ASSUME NEW q, IsSeq(q), Apart(q), NEW g
    PROVE  g \in evaluate_endpoints(q) <=> \E j \in DOMAIN q : \E f \in RowFindings(q[j]) : g = Retitled(f)
  <1>1. \A j \in DOMAIN q : \A f \in RowFindings(q[j]) : _postprocess_findings(q, f) = Retitled(f)
    BY HttpRetitled DEF Retitled
  <1>2. ASSUME g \in evaluate_endpoints(q) PROVE \E j \in DOMAIN q : \E f \in RowFindings(q[j]) : g = Retitled(f)
    <2>1. PICK j \in DOMAIN q : \E f \in RowFindings(q[j]) : g = _postprocess_findings(q, f)
      BY <1>2, Zenon DEF evaluate_endpoints
    <2>2. PICK f \in RowFindings(q[j]) : g = _postprocess_findings(q, f)
      BY <2>1
    <2>3. QED
      BY <1>1, <2>2
  <1>3. ASSUME NEW j \in DOMAIN q, NEW f \in RowFindings(q[j]), g = Retitled(f) PROVE g \in evaluate_endpoints(q)
    <2>1. g = _postprocess_findings(q, f)
      BY <1>1, <1>3
    <2>2. f \in UNION {RowFindings(q[k]) : k \in DOMAIN q}
      OBVIOUS
    <2>3. QED
      BY <2>1, <2>2, Zenon DEF evaluate_endpoints
  <1>4. QED
    BY <1>2, <1>3

LEMMA RenamedEvaluation ==
    ASSUME NEW r, NEW t, NEW i, Renamed(r, t, i), Apart(r)
    PROVE  /\ evaluate_endpoints(r) \subseteq evaluate_endpoints(t)
           /\ \A g \in evaluate_endpoints(t) :
                  g \in evaluate_endpoints(r) \/ (g.sev = "MEDIUM" /\ g.title = VULNERABLE_KEY)
  <1>1. IsSeq(r) /\ IsSeq(t) /\ DOMAIN t = DOMAIN r
    BY DEF Renamed
  <1>2. Apart(t)
    BY RenamedApart
  <1>3. \A q, g : IsSeq(q) /\ Apart(q)
                 => (g \in evaluate_endpoints(q) <=> \E j \in DOMAIN q : \E f \in RowFindings(q[j]) : g = Retitled(f))
    BY EvaluatedIs
  <1>4. ASSUME NEW g \in evaluate_endpoints(r) PROVE g \in evaluate_endpoints(t)
    <2>1. PICK j \in DOMAIN r : \E f \in RowFindings(r[j]) : g = Retitled(f)
      BY <1>1, <1>3
    <2>2. PICK f \in RowFindings(r[j]) : g = Retitled(f)
      BY <2>1
    <2>3. f \in RowFindings(t[j])
      BY RenamedRowFindings
    <2>4. QED
      BY <1>1, <1>2, <1>3, <2>2, <2>3
  <1>5. ASSUME NEW g \in evaluate_endpoints(t)
        PROVE  g \in evaluate_endpoints(r) \/ (g.sev = "MEDIUM" /\ g.title = VULNERABLE_KEY)
    <2>1. PICK j \in DOMAIN r : \E f \in RowFindings(t[j]) : g = Retitled(f)
      BY <1>1, <1>2, <1>3
    <2>2. PICK f \in RowFindings(t[j]) : g = Retitled(f)
      BY <2>1
    <2>3. CASE f \in RowFindings(r[j])
      BY <1>1, <1>3, <2>2, <2>3
    <2>4. CASE f.sev = "MEDIUM" /\ f.title = VULNERABLE_KEY
      <3>1. VULNERABLE_KEY # PLAIN_HTTP
        BY Zenon DEF VULNERABLE_KEY, PLAIN_HTTP
      <3>2. Retitled(f) = f
        BY <2>4, <3>1 DEF Retitled
      <3>3. QED
        BY <2>2, <2>4, <3>2
    <2>5. QED
      BY <2>3, <2>4, RenamedRowFindings
  <1>6. QED
    BY <1>4, <1>5

(* The evaluators that work row by row see no difference. *)
LEMMA RenamedServices ==
    ASSUME NEW r, NEW t, NEW i, Renamed(r, t, i), NEW j \in DOMAIN r
    PROVE  /\ evaluate_protocol_service_endpoints(t[j]) = evaluate_protocol_service_endpoints(r[j])
           /\ evaluate_identity_endpoints(t, j) = evaluate_identity_endpoints(r, j)
  <1>1. CASE j # i
    <2>1. t[j] = r[j] /\ (SamlRepeats(t, j) <=> SamlRepeats(r, j))
      BY <1>1, RenamedRepeats DEF Renamed
    <2>2. CASE SamlRepeats(r, j)
      BY <2>1, <2>2, Zenon DEF evaluate_identity_endpoints
    <2>3. CASE ~ SamlRepeats(r, j)
      BY <2>1, <2>3, Zenon DEF evaluate_identity_endpoints
    <2>4. QED
      BY <2>1, <2>2, <2>3
  <1>2. CASE j = i
    <2> DEFINE e == r[j]
               f == t[j]
    <2>1. /\ f.proto = e.proto /\ f.at = e.at /\ f.cert = e.cert /\ f.suites = e.suites
          /\ e.key = "unknown" /\ f.key = "RSA2048" /\ e.proto \in {"TLS", "CODE_SIGNING"}
      BY <1>2, RenamedFields DEF Renamed
    <2>2. evaluate_identity_endpoints(t, j) = {} /\ evaluate_identity_endpoints(r, j) = {}
      <3>1. f.proto # "SAML" /\ e.proto # "SAML"
        BY <2>1
      <3>2. QED
        BY <3>1, Zenon DEF evaluate_identity_endpoints
    <2> HIDE DEF e, f
    <2>3. \A sev, title : _build_finding(f, sev, title) = _build_finding(e, sev, title)
      BY <2>1, SameFinding
    <2>4. evaluate_codesign_endpoints(f) = evaluate_codesign_endpoints(e)
      <3>1. ~ (e.key \in {"RSA1024", "EC192"}) /\ ~ (f.key \in {"RSA1024", "EC192"})
        BY <2>1
      <3>2. QED
        BY <2>1, <2>3, <3>1, Zenon DEF evaluate_codesign_endpoints
    <2>5. evaluate_broker_endpoints(e) = {} /\ evaluate_broker_endpoints(f) = {}
      <3>1. e.proto \notin BrokerPlain /\ e.proto \notin BrokerTls /\ f.proto \notin BrokerPlain /\ f.proto \notin BrokerTls
        BY <2>1 DEF BrokerPlain, BrokerTls
      <3>2. \A x : If(FALSE, x) = {}
        BY DEF If
      <3>3. \A x, y : If(e.proto \in BrokerPlain, x) = {} /\ If(e.proto \in BrokerTls /\ y, x) = {}
                      /\ If(f.proto \in BrokerPlain, x) = {} /\ If(f.proto \in BrokerTls /\ y, x) = {}
        BY <3>1, Zenon DEF If
      <3>4. {} \cup {} = {}
        OBVIOUS
      <3>5. \A x : (x.proto \notin BrokerPlain /\ x.proto \notin BrokerTls) => evaluate_broker_endpoints(x) = {} \cup {}
        BY Zenon DEF If, evaluate_broker_endpoints
      <3>6. QED
        BY <3>1, <3>4, <3>5
    <2>6. evaluate_protocol_service_endpoints(e) = UNION {{}, {}, IF e.proto = "CODE_SIGNING" THEN evaluate_codesign_endpoints(e) ELSE {}, {}}
      <3>1. e.proto \notin EMAIL_PROTOCOLS /\ e.proto # "BEARER_TOKEN"
        BY <2>1 DEF EMAIL_PROTOCOLS, EmailStartTls, EmailImplicit
      <3>2. QED
        BY <2>5, <3>1, Zenon DEF evaluate_protocol_service_endpoints
    <2>7. evaluate_protocol_service_endpoints(f) = UNION {{}, {}, IF f.proto = "CODE_SIGNING" THEN evaluate_codesign_endpoints(f) ELSE {}, {}}
      <3>1. f.proto \notin EMAIL_PROTOCOLS /\ f.proto # "BEARER_TOKEN"
        BY <2>1 DEF EMAIL_PROTOCOLS, EmailStartTls, EmailImplicit
      <3>2. QED
        BY <2>5, <3>1, Zenon DEF evaluate_protocol_service_endpoints
    <2>8. evaluate_protocol_service_endpoints(f) = evaluate_protocol_service_endpoints(e)
      BY <2>1, <2>4, <2>6, <2>7
    <2>9. QED
      BY <2>2, <2>8 DEF e, f
  <1>3. QED
    BY <1>1, <1>2

LEMMA RenamedSeverities ==
    ASSUME NEW r, NEW t, NEW i, Renamed(r, t, i), Apart(r), NEW sev \in {"CRITICAL", "HIGH"}
    PROVE  /\ ScoredSeverity(r, sev) \in Nat /\ ScoredSeverity(t, sev) \in Nat
           /\ ScoredSeverity(t, sev) <= ScoredSeverity(r, sev)
  <1> DEFINE A == {x \in derive_report_findings(r) : x[2].sev = sev /\ x[2].category # "config_advisory"}
             B == {x \in derive_report_findings(t) : x[2].sev = sev /\ x[2].category # "config_advisory"}
             F(q, j) == evaluate_protocol_service_endpoints(q[j]) \cup evaluate_identity_endpoints(q, j)
             G(q) == UNION {{j} \X F(q, j) : j \in DOMAIN q}
  <1>1. ScoredSeverity(r, sev) = Cardinality(A) /\ ScoredSeverity(t, sev) = Cardinality(B)
    BY Zenon DEF ScoredSeverity
  <1>2. \A q : derive_report_findings(q) = ({0} \X evaluate_endpoints(q)) \cup G(q)
    BY DEF derive_report_findings
  <1>3. DOMAIN t = DOMAIN r /\ IsSeq(r) /\ IsSeq(t)
    BY DEF Renamed
  <1>4. \A j \in DOMAIN r : F(t, j) = F(r, j)
    BY RenamedServices
  <1> HIDE DEF F
  <1>5. G(t) = G(r)
    BY <1>3, <1>4
  <1> HIDE DEF G
  <1>6. ASSUME NEW x \in B PROVE x \in A
    <2>1. x \in derive_report_findings(t) /\ x[2].sev = sev /\ x[2].category # "config_advisory"
      OBVIOUS
    <2>2. CASE x \in G(t)
      BY <1>2, <1>5, <2>1, <2>2
    <2>3. CASE x \in {0} \X evaluate_endpoints(t)
      <3>1. x[2] \in evaluate_endpoints(t) /\ x = <<0, x[2]>>
        BY <2>3
      <3>2. x[2] \in evaluate_endpoints(r)
        BY <2>1, <3>1, RenamedEvaluation
      <3>3. x \in {0} \X evaluate_endpoints(r)
        BY <3>1, <3>2
      <3>4. QED
        BY <1>2, <2>1, <3>3
    <2>4. QED
      BY <1>2, <2>1, <2>2, <2>3
  <1>7. A \subseteq derive_report_findings(r) /\ B \subseteq derive_report_findings(t)
    OBVIOUS
  <1> HIDE DEF A, B
  <1>8. IsFiniteSet(A) /\ IsFiniteSet(B) /\ B \subseteq A
    BY <1>3, <1>6, <1>7, FindingsFinite, FS_Subset
  <1>9. QED
    BY <1>1, <1>8, FS_Subset, FS_CardinalityType

LEMMA RenamedCounts ==
    ASSUME NEW r, NEW t, NEW i, Renamed(r, t, i), Apart(r), NEW name, name # "key_classical"
    PROVE  Count(build_evidence_summary(t), name) = Count(build_evidence_summary(r), name)
  <1> DEFINE ev == build_evidence_summary(t)
             ew == build_evidence_summary(r)
  <1>1. IsSeq(r) /\ IsSeq(t) /\ DOMAIN t = DOMAIN r
    BY DEF Renamed
  <1>2. \A n : n # "key_classical" => Ticked(t, n) = Ticked(r, n)
    BY <1>1, RenamedCounters DEF Ticked
  <1>3. \A title : title # VULNERABLE_KEY => _finding_targets(t, title) = _finding_targets(r, title)
    BY RenamedEvaluation DEF _finding_targets
  <1>4. VULNERABLE_KEY # PLAIN_HTTP /\ VULNERABLE_KEY # HTTP_ON_TLS
    BY Zenon DEF VULNERABLE_KEY, PLAIN_HTTP, HTTP_ON_TLS
  <1>5. CASE name = "plaintext_http"
    BY <1>3, <1>4, <1>5, CountIs
  <1>6. CASE name = "http_on_tls"
    BY <1>3, <1>4, <1>6, CountIs
  <1>7. CASE name = "email_plain"
    <2>1. /\ Ticked(t, "email_plaintext") = Ticked(r, "email_plaintext")
          /\ Ticked(t, "starttls_missing") = Ticked(r, "starttls_missing")
      BY <1>2
    <2>2. QED
      BY <1>1, <1>7, <2>1, CountIs
  <1>8. CASE name \notin {"plaintext_http", "http_on_tls", "email_plain"}
    <2>1. Ticked(t, name) = Ticked(r, name)
      BY <1>2
    <2>2. QED
      BY <1>1, <1>8, <2>1, CountIs
  <1>9. QED
    BY <1>5, <1>6, <1>7, <1>8

LEMMA MtlsFinite ==
    ASSUME NEW r, IsSeq(r)
    PROVE  IsFiniteSet(mtls_targets(r)) /\ Cardinality(mtls_targets(r)) \in Nat
  <1> DEFINE J == {j \in DOMAIN r : r[j].blocker = "MTLS_REQUIRED" /\ ~ _is_unanswered_email_probe(r[j])}
             f == [j \in DOMAIN r |-> r[j].at]
             A == {r[j].at : j \in J}
             B == _finding_targets(r, "mTLS required")
  <1>1. mtls_targets(r) = A \cup B
    BY Zenon DEF mtls_targets
  <1>2. DOMAIN f = DOMAIN r /\ A \subseteq {f[j] : j \in DOMAIN r}
    OBVIOUS
  <1>3. \A title : IsFiniteSet(_finding_targets(r, title))
    BY TargetsFinite
  <1>4. IsFiniteSet(B)
    BY <1>3, Zenon
  <1> HIDE DEF A, B, J, f
  <1>5. IsFiniteSet(A)
    BY <1>2, RowsFinite, ImageFinite
  <1>6. IsFiniteSet(A \cup B)
    BY <1>4, <1>5, FS_Union
  <1>7. QED
    BY <1>1, <1>6, FS_CardinalityType

LEMMA RenamedMtls ==
    ASSUME NEW r, NEW t, NEW i, Renamed(r, t, i), Apart(r)
    PROVE  build_evidence_summary(r).mtls > 0 => build_evidence_summary(t).mtls > 0
  <1> DEFINE J(q) == {j \in DOMAIN q : q[j].blocker = "MTLS_REQUIRED" /\ ~ _is_unanswered_email_probe(q[j])}
             A(q) == {q[j].at : j \in J(q)}
  <1>1. IsSeq(r) /\ IsSeq(t) /\ DOMAIN t = DOMAIN r
    BY DEF Renamed
  <1>2. \A j \in DOMAIN r : t[j].blocker = r[j].blocker /\ t[j].at = r[j].at
                            /\ (_is_unanswered_email_probe(t[j]) <=> _is_unanswered_email_probe(r[j]))
    BY RenamedFields DEF _is_unanswered_email_probe
  <1>3. A(r) \subseteq A(t)
    BY <1>1, <1>2
  <1>4. \A title : _finding_targets(r, title) \subseteq _finding_targets(t, title)
    BY RenamedEvaluation DEF _finding_targets
  <1> HIDE DEF A
  <1>5. mtls_targets(r) \subseteq mtls_targets(t)
    <2> DEFINE B(q) == _finding_targets(q, "mTLS required")
    <2>1. \A q : mtls_targets(q) = A(q) \cup B(q)
      BY Zenon DEF mtls_targets, A
    <2>2. B(r) \subseteq B(t)
      BY <1>4, Zenon
    <2> HIDE DEF B
    <2>3. QED
      BY <1>3, <2>1, <2>2
  <1>6. Cardinality(mtls_targets(r)) <= Cardinality(mtls_targets(t))
    BY <1>1, <1>5, MtlsFinite, FS_Subset
  <1>7. \A q : build_evidence_summary(q).mtls = Cardinality(mtls_targets(q))
    BY Zenon DEF build_evidence_summary
  <1>8. QED
    BY <1>1, <1>6, <1>7, MtlsFinite

(* A post-quantum key is only counted on a certificate. *)
LEMMA PqcIsObserved ==
    ASSUME NEW q
    PROVE  Ticked(q, "key_pqc") = {i \in DOMAIN q : /\ ~ _is_unanswered_email_probe(q[i])
                                                    /\ q[i].key = "MLDSA" /\ q[i].cert # "none"}
  <1>1. SUFFICES ASSUME NEW i \in DOMAIN q
                 PROVE  "key_pqc" \in Counters(q, i)
                        <=> ~ _is_unanswered_email_probe(q[i]) /\ q[i].key = "MLDSA" /\ q[i].cert # "none"
    BY DEF Ticked
  <1> DEFINE a == CoverageCounters(q[i])
             b == CertificateCounters(q[i])
             c == IdentityCounters(q, i)
             x == DataAtRestCounters(q[i])
             y == ApiCounters(q[i])
             z == MotionCounters(q[i])
  <1>2. "key_pqc" \notin a
    BY DEF CoverageCounters, Ticks
  <1>3. "key_pqc" \notin y
    BY DEF ApiCounters, Ticks
  <1>4. "key_pqc" \notin c
    BY DEF IdentityCounters, Ticks
  <1>5. "key_pqc" \notin x
    BY DEF DataAtRestCounters, Ticks
  <1>6. "key_pqc" \notin z
    BY DEF MotionCounters, Ticks
  <1>7. "key_pqc" \in b <=> q[i].key = "MLDSA" /\ q[i].cert # "none"
    BY DEF CertificateCounters, Ticks
  <1>8. Counters(q, i) = IF _is_unanswered_email_probe(q[i]) THEN {} ELSE UNION {a, b, c, x, y, z}
    BY DEF Counters
  <1> HIDE DEF a, b, c, x, y, z
  <1>9. QED
    BY <1>2, <1>3, <1>4, <1>5, <1>6, <1>7, <1>8

(* The certificate whose key could not be read is charged already. *)
LEMMA RenamedCredits ==
    ASSUME NEW r, NEW t, NEW i, Renamed(r, t, i), Apart(r), NEW d
    PROVE  Credits(build_evidence_summary(r), d) <= Credits(build_evidence_summary(t), d)
  <1> DEFINE ev == build_evidence_summary(t)
             ew == build_evidence_summary(r)
             C == Ticked(r, "certs_observed")
             P == Ticked(r, "key_pqc")
  <1>1. IsSeq(r) /\ i \in DOMAIN r /\ r[i].key = "unknown" /\ r[i].cert # "none" /\ r[i].proto \in {"TLS", "CODE_SIGNING"}
    BY DEF Renamed
  <1>2. i \notin P
    BY <1>1, PqcIsObserved
  <1>3. i \in C
    <2>1. ~ _is_unanswered_email_probe(r[i])
      BY <1>1 DEF _is_unanswered_email_probe, EMAIL_PROTOCOLS, EmailStartTls, EmailImplicit
    <2>2. "certs_observed" \in CertificateCounters(r[i])
      BY <1>1 DEF CertificateCounters, Ticks
    <2>3. "certs_observed" \in Counters(r, i)
      BY <2>1, <2>2 DEF Counters
    <2>4. QED
      BY <1>1, <2>3 DEF Ticked
  <1>4. P \subseteq C
    <2>1. SUFFICES ASSUME NEW j \in P PROVE j \in C
      OBVIOUS
    <2>2. j \in DOMAIN r /\ ~ _is_unanswered_email_probe(r[j]) /\ r[j].cert # "none"
      BY PqcIsObserved
    <2>3. "certs_observed" \in CertificateCounters(r[j])
      BY <2>2 DEF CertificateCounters, Ticks
    <2>4. "certs_observed" \in Counters(r, j)
      BY <2>2, <2>3 DEF Counters
    <2>5. QED
      BY <2>2, <2>4 DEF Ticked
  <1>5. IsFiniteSet(C) /\ Cardinality(C) \in Nat /\ Cardinality(P) \in Nat
    BY <1>1, RowsFinite DEF Ticked
  <1>6. Count(ew, "certs_observed") = Cardinality(C) /\ Count(ew, "key_pqc") = Cardinality(P)
    BY <1>1, CountIs
  <1> HIDE DEF C, P
  <1>7. Cardinality(C) > Cardinality(P)
    <2>1. Cardinality(P) <= Cardinality(C) /\ (Cardinality(P) = Cardinality(C) => P = C)
      BY <1>4, <1>5, FS_Subset
    <2>2. QED
      BY <1>2, <1>3, <1>5, <2>1
  <1>8. Count(ew, "pqc_hybrid") = Count(ev, "pqc_hybrid") /\ Count(ew, "key_pqc") = Count(ev, "key_pqc")
    BY RenamedCounts
  <1>9. ew.mtls > 0 => ev.mtls > 0
    BY RenamedMtls
  <1>10. Count(ew, "certs_observed") > Count(ew, "key_pqc")
    BY <1>6, <1>7
  <1> HIDE DEF ev, ew
  <1>11. KeyTypePoints(ew) <= KeyTypePoints(ev)
    BY <1>8, <1>10 DEF KeyTypePoints, RSA_ONLY_PENALTY, PQC_BONUS
  <1>12. Credits(ew, d) <= Credits(ev, d)
    BY <1>9, <1>11 DEF Credits, MTLS_BONUS
  <1>13. QED
    BY <1>12 DEF ev, ew

LEMMA RenamedNeverPays ==
    ASSUME NEW r, NEW t, NEW i, Renamed(r, t, i), Apart(r)
    PROVE  Assessment(r, "balanced").score <= Assessment(t, "balanced").score
  <1> DEFINE ev == build_evidence_summary(t)
             ew == build_evidence_summary(r)
  <1>1. IsSeq(r) /\ IsSeq(t)
    BY DEF Renamed
  <1>2. Counted(ev) /\ Counted(ew)
    BY <1>1, SummaryCounts
  <1>3. \A n : n # "key_classical" => Count(ew, n) = Count(ev, n)
    BY RenamedCounts
  <1>4. \A d : Credits(ew, d) <= Credits(ev, d)
    BY RenamedCredits
  <1>5. _consequence_ceiling(ew.critical, ew.high) <= _consequence_ceiling(ev.critical, ev.high)
    <2>1. /\ ev.critical = ScoredSeverity(t, "CRITICAL") /\ ev.high = ScoredSeverity(t, "HIGH")
          /\ ew.critical = ScoredSeverity(r, "CRITICAL") /\ ew.high = ScoredSeverity(r, "HIGH")
      BY Zenon DEF build_evidence_summary
    <2> HIDE DEF ev, ew
    <2>2. QED
      BY <2>1, RenamedSeverities, CeilingFalls
  <1> HIDE DEF ev, ew
  <1>6. Assessed(ew) = Assessed(ev)
    <2>1. /\ _endpoints_assessed(ew) <=> _endpoints_assessed(ev)
          /\ _identity_assessed(ew) <=> _identity_assessed(ev)
          /\ _dar_assessed(ew) <=> _dar_assessed(ev)
          /\ _motion_assessed(ew) <=> _motion_assessed(ev)
      BY <1>3 DEF _endpoints_assessed, _identity_assessed, _dar_assessed, _motion_assessed
    <2>2. QED
      BY <2>1 DEF Assessed
  <1>7. \A d \in Domains : \A k \in DOMAIN SCORE_WEIGHTS[d] : SCORE_WEIGHTS[d][k][1] # "key_classical"
    <2>1. SUFFICES ASSUME NEW d \in Domains, NEW k \in DOMAIN SCORE_WEIGHTS[d]
                   PROVE  SCORE_WEIGHTS[d][k][1] # "key_classical"
      OBVIOUS
    <2>2. QED
      <3>1. CASE d = "hygiene"
        BY <3>1, SMT DEF SCORE_WEIGHTS
      <3>2. CASE d = "modern_tls"
        BY <3>2, SMT DEF SCORE_WEIGHTS
      <3>3. CASE d = "identity_trust"
        BY <3>3, SMT DEF SCORE_WEIGHTS
      <3>4. CASE d = "agility_signals"
        BY <3>4, SMT DEF SCORE_WEIGHTS
      <3>5. CASE d = "data_at_rest"
        BY <3>5, SMT DEF SCORE_WEIGHTS
      <3>6. CASE d = "data_in_motion"
        BY <3>6, SMT DEF SCORE_WEIGHTS
      <3>7. QED
        BY <3>1, <3>2, <3>3, <3>4, <3>5, <3>6, DomainNames
  <1>8. Worse(ev, ew)
    <2>1. \A d \in Domains : \A k \in DOMAIN SCORE_WEIGHTS[d] :
              /\ Count(ev, SCORE_WEIGHTS[d][k][1]) \in Nat
              /\ Count(ew, SCORE_WEIGHTS[d][k][1]) = Count(ev, SCORE_WEIGHTS[d][k][1])
      BY <1>2, <1>3, <1>7 DEF Counted
    <2>2. QED
      BY <1>3, <1>4, <1>5, <1>6, <2>1 DEF Worse
  <1>9. compute_readiness_score(ew, "balanced").score <= compute_readiness_score(ev, "balanced").score
    BY <1>2, <1>8, WorseScores
  <1>10. QED
    BY <1>9 DEF Assessment, ev, ew

LEMMA UnreadFromRows == EstateInv => UnreadKeyNeverPays
  <1>1. SUFFICES ASSUME EstateInv, NEW i \in DOMAIN rows, rows[i].cert # "none", rows[i].key = "unknown"
                 PROVE  report.score <= Assessment([rows EXCEPT ![i].key = "RSA2048"], "balanced").score
    BY DEF UnreadKeyNeverPays
  <1>2. IsSeq(rows) /\ Apart(rows) /\ RowFits(rows[i])
    BY <1>1, EstateApart
  <1>3. Assessment(rows, "balanced").score <= Assessment([rows EXCEPT ![i].key = "RSA2048"], "balanced").score
    BY <1>1, <1>2, RenamedIs, RenamedNeverPays
  <1>4. report.score = Assessment(rows, "balanced").score
    BY <1>1, ReportIs DEF EstateInv, Assessment
  <1>5. QED
    BY <1>3, <1>4

(* The score never flatters (compute_readiness_score): a certificate whose
   key the scanner could not name is charged like a classical one, and an
   RSA key adds only a MEDIUM finding, which no ceiling counts; a stricter
   profile multiplies the same penalties by more, and where they leave a
   credit to multiply, the domain is full anyway. *)
THEOREM ScoreHolds == Spec => []ScoreNeverFlatters
  <1>1. EstateInv => ScoreNeverFlatters
    BY StrictFromRows, UnreadFromRows DEF ScoreNeverFlatters
  <1>2. QED
    BY <1>1, EstateHolds, PTL

-----------------------------------------------------------------------------
(* Rows that say nothing *)

Gained(r, s) == DOMAIN s \ DOMAIN r

SilentNames == {"assessable", "identity_rows", "dar_rows", "motion_rows", "certs_observed", "key_pqc",
                "pqc_hybrid", "kerberos_placeholder", "kerberos_scan_error"}

LEMMA SilentTicks ==
    ASSUME NEW q, NEW i \in DOMAIN q, RowFits(q[i]), SilentRow(q[i]), NEW n \in SilentNames
    PROVE  n \notin Counters(q, i)
  <1> DEFINE e == q[i]
  <1>1. CASE _is_unanswered_email_probe(e)
    BY <1>1 DEF Counters
  <1>2. CASE ~ _is_unanswered_email_probe(e)
    <2>1. e.proto \in {"CLOSED", "ADVISORY"} /\ e.tag # "pqc-hybrid-detected" /\ e.cert = "none"
      BY <1>2 DEF SilentRow, RowFits, EMAIL_PROTOCOLS, EmailStartTls, EmailImplicit
    <2>2. IdentityCounters(q, i) = {}
      BY <2>1 DEF IdentityCounters
    <2> HIDE DEF e
    <2>3. n \notin CoverageCounters(e)
      <3>1. e.proto \in _NON_ASSET_PROTOCOLS /\ e.proto \notin _IDENTITY_PROTOCOL_KEYS
            /\ e.proto \notin _DAR_PROTOCOL_KEYS /\ e.proto # "KERBEROS"
        BY <2>1 DEF _NON_ASSET_PROTOCOLS, _IDENTITY_PROTOCOL_KEYS, _DAR_PROTOCOL_KEYS
      <3>2. e.proto \notin _MOTION_PROTOCOL_KEYS
        BY <2>1 DEF _MOTION_PROTOCOL_KEYS, EMAIL_PROTOCOLS, EmailStartTls, EmailImplicit, BrokerPlain, BrokerTls
      <3>3. QED
        BY <2>1, <3>1, <3>2 DEF CoverageCounters, Ticks, IsKerberosPlaceholder, SilentNames
    <2>4. n \notin CertificateCounters(e)
      BY <2>1 DEF CertificateCounters, Ticks, SilentNames
    <2>5. DataAtRestCounters(e) = {} /\ ApiCounters(e) = {}
      BY <2>1 DEF DataAtRestCounters, ApiCounters
    <2>6. MotionCounters(e) = {}
      BY <2>1 DEF MotionCounters, EmailStartTls, EmailImplicit, BrokerPlain, BrokerTls
    <2>7. Counters(q, i) = UNION {CoverageCounters(e), CertificateCounters(e), {}, {}, {}, {}}
      BY <1>2, <2>2, <2>5, <2>6 DEF Counters, e
    <2>8. QED
      BY <2>3, <2>4, <2>7
  <1>3. QED
    BY <1>1, <1>2

LEMMA TickedStays ==
    ASSUME NEW r, NEW s, Prefix(r, s), NEW n, \A i \in Gained(r, s) : n \notin Counters(s, i)
    PROVE  Ticked(s, n) = Ticked(r, n)
  BY CountersKept DEF Ticked, Prefix, Gained

MTLS_REQUIRED == "mTLS required"

(* Only a row of TLS yields the finding about client certificates. *)
LEMMA MtlsIsTls ==
    ASSUME NEW e, NEW f \in RowFindings(e), e.proto # "TLS"
    PROVE  f.title # MTLS_REQUIRED
  <1>1. \A sev, t, c : /\ f = _build_finding(e, sev, t) => f.title = t
                       /\ f = InCategory(_build_finding(e, sev, t), c) => f.title = t
    BY FindingIs DEF InCategory
  <1>2. f \in AdvisoryFindings(e) \/ f = ErrorFinding(e) \/ f \in ServiceFindings(e)
    BY Zenon DEF RowFindings
  <1>3. ASSUME f \in AdvisoryFindings(e) PROVE f.title # MTLS_REQUIRED
    <2>1. \/ f = InCategory(_build_finding(e, "INFO", "Scanner skipped"), "coverage_gap")
          \/ f = InCategory(_build_finding(e, "HIGH", "JWKS fetched without verification"), "config_advisory")
      BY <1>3, Zenon DEF AdvisoryFindings
    <2>2. f.title = "Scanner skipped" \/ f.title = "JWKS fetched without verification"
      BY <1>1, <2>1, Zenon
    <2>3. QED
      BY <2>2, Zenon DEF MTLS_REQUIRED
  <1>4. ASSUME f = ErrorFinding(e) PROVE f.title # MTLS_REQUIRED
    <2>1. \/ f = _build_finding(e, "INFO", "Source scan incomplete")
          \/ f = _build_finding(e, "INFO", "Informational protocol observation")
      BY <1>4, Zenon DEF ErrorFinding
    <2>2. f.title = "Source scan incomplete" \/ f.title = "Informational protocol observation"
      BY <1>1, <2>1, Zenon
    <2>3. QED
      BY <2>2, Zenon DEF MTLS_REQUIRED
  <1>5. ASSUME f = _evaluate_container_package(e) PROVE f.title # MTLS_REQUIRED
    <2>1. \E sev : \/ f = _build_finding(e, sev, "End-of-life OpenSSL in image")
                   \/ f = _build_finding(e, sev, "Severely outdated cryptography package")
                   \/ f = _build_finding(e, sev, "Outdated crypto package")
                   \/ f = _build_finding(e, sev, "Container image contains crypto library")
      BY <1>5, Zenon DEF _evaluate_container_package
    <2>2. \/ f.title = "End-of-life OpenSSL in image" \/ f.title = "Severely outdated cryptography package"
          \/ f.title = "Outdated crypto package" \/ f.title = "Container image contains crypto library"
      BY <1>1, <2>1, Zenon
    <2>3. QED
      BY <2>2, Zenon DEF MTLS_REQUIRED
  <1>6. ASSUME f \in ServiceFindings(e) PROVE f.title # MTLS_REQUIRED
    <2>1. \/ f = _evaluate_container_package(e)
          \/ f = _build_finding(e, "HIGH", "Plaintext HTTP service detected")
          \/ f = _build_finding(e, "INFO", "SSH quantum planning advisory")
          \/ f = _build_finding(e, "MEDIUM", "Unknown open service")
      BY <1>6, Zenon DEF ServiceFindings
    <2>2. \/ f = _evaluate_container_package(e) \/ f.title = "Plaintext HTTP service detected"
          \/ f.title = "SSH quantum planning advisory" \/ f.title = "Unknown open service"
      BY <1>1, <2>1, Zenon
    <2>3. ASSUME \/ f.title = "Plaintext HTTP service detected"
                 \/ f.title = "SSH quantum planning advisory" \/ f.title = "Unknown open service"
          PROVE  f.title # MTLS_REQUIRED
      BY <2>3, Zenon DEF MTLS_REQUIRED
    <2>4. QED
      BY <1>5, <2>2, <2>3
  <1>7. QED
    BY <1>2, <1>3, <1>4, <1>6

LEMMA SilentMtls ==
    ASSUME NEW r, NEW s, Prefix(r, s), Apart(r), Apart(s),
           \A i \in Gained(r, s) : RowFits(s[i]) /\ SilentRow(s[i])
    PROVE  mtls_targets(s) = mtls_targets(r)
  <1> DEFINE J(q) == {j \in DOMAIN q : q[j].blocker = "MTLS_REQUIRED" /\ ~ _is_unanswered_email_probe(q[j])}
             A(q) == {q[j].at : j \in J(q)}
             B(q) == _finding_targets(q, MTLS_REQUIRED)
  <1>1. \A i \in Gained(r, s) : s[i].proto # "TLS"
    BY DEF SilentRow, EMAIL_PROTOCOLS, EmailStartTls, EmailImplicit
  <1>2. \A i \in DOMAIN s : s[i].proto = "TLS" => i \in DOMAIN r
    BY <1>1 DEF Gained
  <1>3. A(s) = A(r)
    <2>1. \A j \in DOMAIN s : s[j].blocker = "MTLS_REQUIRED" /\ ~ _is_unanswered_email_probe(s[j]) => j \in DOMAIN r
      BY <1>1 DEF RowFits, Gained
    <2>2. J(s) = J(r)
      BY <2>1 DEF Prefix
    <2>3. \A j \in J(r) : s[j].at = r[j].at
      BY DEF Prefix
    <2> HIDE DEF J
    <2>4. QED
      BY <2>2, <2>3
  <1>4. B(s) = B(r)
    <2>1. evaluate_endpoints(r) \subseteq evaluate_endpoints(s)
      BY FindingsGrow
    <2>2. ASSUME NEW g \in evaluate_endpoints(s), g.title = MTLS_REQUIRED PROVE g \in evaluate_endpoints(r)
      <3>1. PICK j \in DOMAIN s : \E f \in RowFindings(s[j]) : g = Retitled(f)
        BY EvaluatedIs DEF Prefix
      <3>2. PICK f \in RowFindings(s[j]) : g = Retitled(f)
        BY <3>1
      <3>3. MTLS_REQUIRED # HTTP_ON_TLS
        BY Zenon DEF MTLS_REQUIRED, HTTP_ON_TLS
      <3>4. g = f
        <4>1. f.at = s[j].at /\ DOMAIN f = {"at", "title", "sev", "rec", "category"}
          BY RowFindingsAt
        <4>2. [f EXCEPT !.sev = "HIGH", !.title = HTTP_ON_TLS].title = HTTP_ON_TLS
          BY <4>1
        <4>3. QED
          BY <2>2, <3>2, <3>3, <4>2 DEF Retitled
      <3>5. s[j].proto = "TLS"
        BY <2>2, <3>4, MtlsIsTls
      <3>6. j \in DOMAIN r /\ f \in RowFindings(r[j])
        BY <1>2, <3>5 DEF Prefix
      <3>7. QED
        BY <3>2, <3>6, EvaluatedIs DEF Prefix
    <2>3. QED
      BY <2>1, <2>2 DEF _finding_targets
  <1>5. \A q : mtls_targets(q) = A(q) \cup B(q)
    BY Zenon DEF mtls_targets, MTLS_REQUIRED
  <1> HIDE DEF A, B
  <1>6. QED
    BY <1>3, <1>4, <1>5

LEMMA SilentKeepsReport ==
    ASSUME NEW r, NEW s, Prefix(r, s), Apart(r), Apart(s),
           \A i \in Gained(r, s) : RowFits(s[i]) /\ SilentRow(s[i])
    PROVE  Report(s).domains = Report(r).domains /\ Report(s).score <= Report(r).score
  <1> DEFINE ev == build_evidence_summary(r)
             ew == build_evidence_summary(s)
  <1>1. \A n \in SilentNames : Ticked(s, n) = Ticked(r, n)
    BY SilentTicks, TickedStays DEF Gained
  <1>2. \A n \in SilentNames : Count(ew, n) = Count(ev, n)
    <2>1. SUFFICES ASSUME NEW n \in SilentNames PROVE Count(ew, n) = Count(ev, n)
      OBVIOUS
    <2>2. n \notin {"plaintext_http", "http_on_tls", "email_plain"}
      BY DEF SilentNames
    <2>3. Count(ew, n) = Cardinality(Ticked(s, n)) /\ Count(ev, n) = Cardinality(Ticked(r, n))
      BY <2>2, CountIs DEF Prefix
    <2>4. QED
      BY <1>1, <2>3
  <1>3. ew.mtls = ev.mtls
    <2>1. \A q : build_evidence_summary(q).mtls = Cardinality(mtls_targets(q))
      BY Zenon DEF build_evidence_summary
    <2>2. QED
      BY <2>1, SilentMtls
  <1> HIDE DEF ev, ew
  <1>4. Assessed(ew) = Assessed(ev)
    <2>1. /\ _endpoints_assessed(ew) <=> _endpoints_assessed(ev)
          /\ _identity_assessed(ew) <=> _identity_assessed(ev)
          /\ _dar_assessed(ew) <=> _dar_assessed(ev)
          /\ _motion_assessed(ew) <=> _motion_assessed(ev)
      BY <1>2 DEF _endpoints_assessed, _identity_assessed, _dar_assessed, _motion_assessed, SilentNames
    <2>2. QED
      BY <2>1 DEF Assessed
  <1>5. Report(s).domains = Report(r).domains
    BY <1>4, ReportIs DEF ev, ew
  <1>6. Report(s).earned = Report(r).earned
    <2>1. Count(ew, "pqc_hybrid") = Count(ev, "pqc_hybrid") /\ Count(ew, "key_pqc") = Count(ev, "key_pqc")
      BY <1>2 DEF SilentNames
    <2>2. <<Count(ew, "pqc_hybrid") > 0, Count(ew, "key_pqc") > 0, ew.mtls > 0>>
          = <<Count(ev, "pqc_hybrid") > 0, Count(ev, "key_pqc") > 0, ev.mtls > 0>>
      BY <1>3, <2>1, Zenon
    <2>3. /\ Report(r).earned = <<Count(ev, "pqc_hybrid") > 0, Count(ev, "key_pqc") > 0, ev.mtls > 0>>
          /\ Report(s).earned = <<Count(ew, "pqc_hybrid") > 0, Count(ew, "key_pqc") > 0, ew.mtls > 0>>
      BY ReportIs, Zenon DEF ev, ew
    <2>4. QED
      BY <2>2, <2>3, Zenon
  <1>7. QED
    BY <1>5, <1>6, MoreRowsNeverPay

(* Which part of the counters a name belongs to. *)
LEMMA OnlyCoverage ==
    ASSUME NEW q, NEW i
    PROVE  /\ \A n \in {"identity_rows", "kerberos_placeholder", "kerberos_scan_error"} :
                  n \in Counters(q, i) <=> ~ _is_unanswered_email_probe(q[i]) /\ n \in CoverageCounters(q[i])
           /\ "certs_observed" \in Counters(q, i)
              <=> ~ _is_unanswered_email_probe(q[i]) /\ "certs_observed" \in CertificateCounters(q[i])
           /\ q[i].proto = "KERBEROS" => ~ _is_unanswered_email_probe(q[i])
  <1> DEFINE N == {"identity_rows", "kerberos_placeholder", "kerberos_scan_error"}
             a == CoverageCounters(q[i])
             b == CertificateCounters(q[i])
             c == IdentityCounters(q, i)
             x == DataAtRestCounters(q[i])
             y == ApiCounters(q[i])
             z == MotionCounters(q[i])
  <1>1. Counters(q, i) = IF _is_unanswered_email_probe(q[i]) THEN {} ELSE UNION {a, b, c, x, y, z}
    BY DEF Counters
  <1>2. "certs_observed" \notin a
    BY DEF CoverageCounters, Ticks
  <1>3. \A n \in N : n \notin b
    BY DEF CertificateCounters, Ticks
  <1>4. \A n \in N \cup {"certs_observed"} : n \notin c
    BY DEF IdentityCounters, Ticks
  <1>5. \A n \in N \cup {"certs_observed"} : n \notin x
    BY DEF DataAtRestCounters, Ticks
  <1>6. \A n \in N \cup {"certs_observed"} : n \notin y
    BY DEF ApiCounters, Ticks
  <1>7. \A n \in N \cup {"certs_observed"} : n \notin z
    BY DEF MotionCounters, Ticks
  <1>8. q[i].proto = "KERBEROS" => ~ _is_unanswered_email_probe(q[i])
    BY DEF _is_unanswered_email_probe, EMAIL_PROTOCOLS, EmailStartTls, EmailImplicit
  <1> HIDE DEF N, a, b, c, x, y, z
  <1>9. \A n \in N : n \in Counters(q, i) <=> ~ _is_unanswered_email_probe(q[i]) /\ n \in a
    BY <1>1, <1>3, <1>4, <1>5, <1>6, <1>7
  <1>10. "certs_observed" \in Counters(q, i) <=> ~ _is_unanswered_email_probe(q[i]) /\ "certs_observed" \in b
    BY <1>1, <1>2, <1>4, <1>5, <1>6, <1>7
  <1>11. QED
    BY <1>8, <1>9, <1>10 DEF N, a, b

(* The identity domain opens for a row, not for a difference of two numbers. *)
LEMMA IdentityIs ==
    ASSUME NEW q, IsSeq(q)
    PROVE  _identity_assessed(build_evidence_summary(q))
           <=> \E i \in DOMAIN q : \/ i \in Ticked(q, "certs_observed")
                                   \/ /\ i \in Ticked(q, "identity_rows")
                                      /\ i \notin Ticked(q, "kerberos_placeholder")
                                      /\ i \notin Ticked(q, "kerberos_scan_error")
  <1> DEFINE ev == build_evidence_summary(q)
             T == Ticked(q, "certs_observed")
             A == Ticked(q, "identity_rows")
             B == Ticked(q, "kerberos_placeholder")
             C == Ticked(q, "kerberos_scan_error")
  <1>1. /\ Count(ev, "certs_observed") = Cardinality(T) /\ Count(ev, "identity_rows") = Cardinality(A)
        /\ Count(ev, "kerberos_placeholder") = Cardinality(B) /\ Count(ev, "kerberos_scan_error") = Cardinality(C)
    BY CountIs
  <1>2. B \subseteq A /\ C \subseteq A /\ B \cap C = {}
    <2>1. \A i \in DOMAIN q : "kerberos_placeholder" \in Counters(q, i) <=> IsKerberosPlaceholder(q[i])
      <3>1. SUFFICES ASSUME NEW i \in DOMAIN q
                     PROVE  "kerberos_placeholder" \in Counters(q, i) <=> IsKerberosPlaceholder(q[i])
        OBVIOUS
      <3>2. QED
        BY OnlyCoverage DEF CoverageCounters, Ticks, IsKerberosPlaceholder
    <2>2. \A i \in DOMAIN q : "kerberos_scan_error" \in Counters(q, i) <=> q[i].proto = "KERBEROS" /\ q[i].err # "none"
      <3>1. SUFFICES ASSUME NEW i \in DOMAIN q
                     PROVE  "kerberos_scan_error" \in Counters(q, i) <=> q[i].proto = "KERBEROS" /\ q[i].err # "none"
        OBVIOUS
      <3>2. QED
        BY OnlyCoverage DEF CoverageCounters, Ticks
    <2>3. \A i \in DOMAIN q : q[i].proto = "KERBEROS" => "identity_rows" \in Counters(q, i)
      <3>1. SUFFICES ASSUME NEW i \in DOMAIN q, q[i].proto = "KERBEROS" PROVE "identity_rows" \in Counters(q, i)
        OBVIOUS
      <3>2. QED
        BY <3>1, OnlyCoverage DEF CoverageCounters, Ticks, _IDENTITY_PROTOCOL_KEYS
    <2>4. QED
      BY <2>1, <2>2, <2>3 DEF Ticked, IsKerberosPlaceholder
  <1>3. /\ IsFiniteSet(T) /\ IsFiniteSet(A) /\ IsFiniteSet(B) /\ IsFiniteSet(C)
        /\ T \subseteq DOMAIN q /\ A \subseteq DOMAIN q
    BY RowsFinite DEF Ticked
  <1> HIDE DEF A, B, C, T, ev
  <1>4. Cardinality(T) \in Nat /\ (Cardinality(T) > 0 <=> T # {})
    BY <1>3, FS_EmptySet, FS_CardinalityType
  <1>5. Cardinality(B \cup C) = Cardinality(B) + Cardinality(C)
    <2>1. Cardinality(B \cup C) = Cardinality(B) + Cardinality(C) - 0
      BY <1>2, <1>3, FS_Union, FS_EmptySet
    <2>2. QED
      BY <1>3, <2>1, FS_CardinalityType
  <1>6. Cardinality(A) > Cardinality(B) + Cardinality(C) <=> A # B \cup C
    <2> DEFINE U == B \cup C
    <2>1. U \subseteq A /\ IsFiniteSet(U)
      BY <1>2, <1>3, FS_Union
    <2> HIDE DEF U
    <2>2. /\ Cardinality(U) \in Nat /\ Cardinality(A) \in Nat /\ Cardinality(U) <= Cardinality(A)
          /\ Cardinality(U) = Cardinality(A) => U = A
      BY <1>3, <2>1, FS_Subset, FS_CardinalityType
    <2>3. Cardinality(A) > Cardinality(U) <=> A # U
      BY <2>2
    <2>4. QED
      BY <1>5, <2>3 DEF U
  <1>7. _identity_assessed(ev) <=> Cardinality(T) > 0 \/ Cardinality(A) > Cardinality(B) + Cardinality(C)
    BY <1>1 DEF _identity_assessed
  <1>8. _identity_assessed(ev) <=> T # {} \/ A # B \cup C
    BY <1>4, <1>6, <1>7
  <1>9. _identity_assessed(ev) <=> \E i \in DOMAIN q : i \in T \/ (i \in A /\ i \notin B /\ i \notin C)
    BY <1>2, <1>3, <1>8
  <1>10. QED
    BY <1>9 DEF A, B, C, T, ev

LEMMA UnnamedOpensNothing ==
    ASSUME NEW r, NEW s, Prefix(r, s), "identity_trust" \in Report(s).domains,
           \A i \in Gained(r, s) : RowFits(s[i]) /\ s[i].proto = "KERBEROS" /\ s[i].tag # "etype"
    PROVE  "identity_trust" \in Report(r).domains
  <1>1. \A q : "identity_trust" \in Report(q).domains <=> _identity_assessed(build_evidence_summary(q))
    <2>1. \A ev : "identity_trust" \in Assessed(ev) <=> _identity_assessed(ev)
      BY DEF Assessed
    <2>2. QED
      BY <2>1, ReportIs
  <1>2. PICK i \in DOMAIN s : \/ i \in Ticked(s, "certs_observed")
                              \/ /\ i \in Ticked(s, "identity_rows")
                                 /\ i \notin Ticked(s, "kerberos_placeholder")
                                 /\ i \notin Ticked(s, "kerberos_scan_error")
    BY <1>1, IdentityIs DEF Prefix
  <1>3. i \in DOMAIN r
    <2>1. SUFFICES ASSUME i \in Gained(r, s) PROVE FALSE
      BY DEF Gained
    <2>2. s[i].proto = "KERBEROS" /\ s[i].tag # "etype" /\ s[i].cert = "none"
      BY <2>1 DEF RowFits
    <2>3. "certs_observed" \notin Counters(s, i)
      BY <2>2, OnlyCoverage DEF CertificateCounters, CoverageCounters, Ticks
    <2>4. "kerberos_placeholder" \in Counters(s, i) \/ "kerberos_scan_error" \in Counters(s, i)
      BY <2>2, OnlyCoverage DEF CoverageCounters, Ticks, IsKerberosPlaceholder
    <2>5. QED
      BY <1>2, <2>3, <2>4 DEF Ticked
  <1>4. Counters(s, i) = Counters(r, i)
    BY <1>3, CountersKept
  <1>5. \/ i \in Ticked(r, "certs_observed")
        \/ /\ i \in Ticked(r, "identity_rows")
           /\ i \notin Ticked(r, "kerberos_placeholder")
           /\ i \notin Ticked(r, "kerberos_scan_error")
    BY <1>2, <1>3, <1>4 DEF Ticked
  <1>6. QED
    BY <1>1, <1>3, <1>5, IdentityIs DEF Prefix

(* What a step has added to the rows. *)
InAdded(r, s) == \A i \in Gained(r, s) : \E j \in DOMAIN Added : Added[j] = s[i]

LEMMA AddedIs ==
    ASSUME NEW r, NEW rs, IsSeq(r), IsSeq(rs), r = rows, rows' = r \o rs
    PROVE  InAdded(r, r \o rs)
  <1> DEFINE m == Len(r)
             n == Len(rs)
             s == r \o rs
  <1>1. /\ IsSeq(s) /\ m \in Nat /\ n \in Nat /\ DOMAIN r = 1 .. m /\ DOMAIN s = 1 .. m + n
        /\ Len(s) = m + n
    BY IsSeqConcat
  <1>2. Added = SubSeq(s, m + 1, Len(s))
    BY DEF Added
  <1> DEFINE V == {s[i] : i \in DOMAIN s}
  <1> HIDE DEF m, n, s
  <1>3. \A i \in (m + 1) .. (m + n) : s[i] \in V
    <2>1. \A i \in (m + 1) .. (m + n) : i \in 1 .. m + n
      BY <1>1
    <2>2. QED
      BY <1>1, <2>1
  <1> HIDE DEF V
  <1>4. /\ Added \in Seq(V)
        /\ Len(Added) = IF m + 1 <= m + n THEN (m + n) - (m + 1) + 1 ELSE 0
        /\ \A j \in 1 .. (m + n) - (m + 1) + 1 : Added[j] = s[(m + 1) + j - 1]
    BY <1>1, <1>2, <1>3, SubSeqProperties
  <1>5. DOMAIN Added = 1 .. n /\ \A j \in 1 .. n : Added[j] = s[m + j]
    <2>1. Len(Added) = n /\ DOMAIN Added = 1 .. Len(Added)
      BY <1>1, <1>4
    <2>2. \A j \in 1 .. n : j \in 1 .. (m + n) - (m + 1) + 1 /\ (m + 1) + j - 1 = m + j
      BY <1>1
    <2>3. QED
      BY <1>4, <2>1, <2>2
  <1>6. \A i \in Gained(r, s) : i - m \in 1 .. n /\ i = m + (i - m)
    BY <1>1 DEF Gained
  <1>7. QED
    BY <1>5, <1>6 DEF InAdded, s

OpensNothing ==
    /\ AllAdded(SilentRow) => report'.domains = report.domains /\ report'.score <= report.score
    /\ AllAdded(LAMBDA e : e.proto = "KERBEROS" /\ e.tag # "etype")
       => ("identity_trust" \in report'.domains => "identity_trust" \in report.domains)

LEMMA GainedFits ==
    ASSUME NEW r, NEW rs, IsSeq(r), IsSeq(rs), \A i \in DOMAIN rs : RowFits(rs[i])
    PROVE  \A i \in Gained(r, r \o rs) : RowFits((r \o rs)[i])
  <1> DEFINE m == Len(r)
             n == Len(rs)
             s == r \o rs
  <1>1. /\ m \in Nat /\ n \in Nat /\ DOMAIN r = 1 .. m /\ DOMAIN s = 1 .. m + n /\ DOMAIN rs = 1 .. n
        /\ \A i \in 1 .. m + n : i > m => s[i] = rs[i - m]
    BY IsSeqConcat
  <1> HIDE DEF m, n, s
  <1>2. \A i \in Gained(r, s) : i \in 1 .. m + n /\ i > m /\ i - m \in 1 .. n
    BY <1>1 DEF Gained
  <1>3. QED
    BY <1>1, <1>2 DEF s

LEMMA StepOpensNothing == EstateInv /\ EstateInv' /\ [Next]_vars => [OpensNothing]_vars
  <1>1. SUFFICES ASSUME EstateInv, EstateInv', Next PROVE OpensNothing
    BY DEF vars
  <1>2. PICK r, rs : /\ r = rows /\ rows' = r \o rs /\ Prefix(r, r \o rs) /\ Apart(r) /\ Apart(r \o rs)
                     /\ IsSeq(rs) /\ (\A i \in DOMAIN rs : RowFits(rs[i]))
                     /\ report = Report(r) /\ report' = Report(r \o rs)
    BY <1>1, EstateGrows
  <1> DEFINE s == r \o rs
  <1>3. \A i \in Gained(r, s) : RowFits(s[i])
    BY <1>2, GainedFits DEF Prefix
  <1>4. \A i \in Gained(r, s) : \E j \in DOMAIN Added : Added[j] = s[i]
    <2>1. InAdded(r, s)
      BY <1>2, AddedIs DEF Prefix
    <2>2. QED
      BY <2>1 DEF InAdded
  <1>5. Prefix(r, s) /\ Apart(r) /\ Apart(s) /\ report = Report(r) /\ report' = Report(s)
    BY <1>2
  <1> HIDE DEF s
  <1>6. ASSUME AllAdded(SilentRow) PROVE report'.domains = report.domains /\ report'.score <= report.score
    <2>1. \A j \in DOMAIN Added : SilentRow(Added[j])
      BY <1>6 DEF AllAdded
    <2>2. \A i \in Gained(r, s) : SilentRow(s[i])
      BY <1>4, <2>1
    <2>3. QED
      BY <1>3, <1>5, <2>2, SilentKeepsReport
  <1>7. ASSUME AllAdded(LAMBDA e : e.proto = "KERBEROS" /\ e.tag # "etype"), "identity_trust" \in report'.domains
        PROVE  "identity_trust" \in report.domains
    <2>1. \A j \in DOMAIN Added : Added[j].proto = "KERBEROS" /\ Added[j].tag # "etype"
      BY <1>7 DEF AllAdded
    <2>2. \A i \in Gained(r, s) : s[i].proto = "KERBEROS" /\ s[i].tag # "etype"
      BY <1>4, <2>1
    <2>3. QED
      BY <1>3, <1>5, <1>7, <2>2, UnnamedOpensNothing
  <1>8. QED
    BY <1>6, <1>7 DEF OpensNothing

(* Silence is not evidence (build_evidence_summary, _identity_assessed): no
   counter that opens a domain and no credit comes from a closed port, a mail
   port that did not answer, or an advisory, so that such rows leave the
   domains alone and, being more rows, do not raise the score.  The identity
   domain compares two numbers, but since each placeholder and each failed
   probe of Kerberos is an identity row, too, the comparison is the existence
   of a row that is neither. *)
THEOREM SilenceHolds == Spec => SilenceOpensNothing
  BY EstateHolds, StepOpensNothing, PTL DEF Spec, SilenceOpensNothing, OpensNothing
=============================================================================
