--------------------------------- MODULE Cbom ---------------------------------
(***************************************************************************)
(* The cryptography bill of materials as a function of the endpoint rows:  *)
(* cbom/builder.py (build_cbom) and cbom/classifier.py.  A component is    *)
(* what it refers to: an algorithm is its name, a certificate is the place *)
(* it was seen at and the algorithm of its key, a protocol is its place.   *)
(* The algorithm lists of an SSH server, Kerberos encryption types,        *)
(* packages, devices and VEX entries are left out.                         *)
(***************************************************************************)
EXTENDS Endpoints, Integers

Unlevelled == -1    \* no NIST level

\* The entries of the table that the rows of the model can name.
_ALGORITHM_TABLE ==
    LET vulnerable == {"RSA", "RSA-1024", "RSA-2048", "RSA-kex", "ECDSA", "Ed25519", "3DES", "SHA-1",
                       "RS256", "HS256", "ES256", "none"}
        first == {"AES", "AES-256", "AES-256-GCM", "AES-128-CBC", "ECDSAP256"}
        second == {"SHA-384", "ML-DSA-44"}
        third == {"X25519MLKEM768"}
        unlevelled == {"RSASHA1", "RSASHA256", "SHA1"} IN
    [n \in vulnerable \cup first \cup second \cup third \cup unlevelled |->
        CASE n \in vulnerable -> 0 [] n \in first -> 1 [] n \in second -> 2 [] n \in third -> 3
          [] OTHER -> Unlevelled]
classify_algorithm(name) ==
    IF name \in DOMAIN _ALGORITHM_TABLE THEN _ALGORITHM_TABLE[name] ELSE Unlevelled
quantum_safety_label(level) ==
    IF level = Unlevelled THEN "unknown" ELSE IF level = 0 THEN "quantum-vulnerable" ELSE "quantum-safe"

\* What the scanners call a key, and that name with the size of the key.
KeyName(key) ==
    CASE key \in {"RSA1024", "RSA2048"} -> "RSA" [] key \in {"EC192", "EC256"} -> "ECDSA"
      [] key = "EDDSA" -> "Ed25519" [] key = "alg-none" -> "none" [] OTHER -> key
SizedName(key) ==
    CASE key = "RSA1024" -> "RSA-1024" [] key = "RSA2048" -> "RSA-2048" [] key = "EC192" -> "ECDSA-192"
      [] key = "EC256" -> "ECDSA-256" [] key = "EDDSA" -> "Ed25519-256" [] OTHER -> KeyName(key)

\* Suites are taken apart by their IANA names; an OpenSSL name has no parts.
_decompose_cipher_suite(c) ==
    CASE c = "rsa-kex" -> {"RSA-kex", "AES-128-CBC", "SHA-1"}
      [] c = "3des" -> {"RSA-kex", "3DES", "SHA-1"}
      [] c = "aead" -> {"AES-256-GCM", "SHA-384"}
      [] OTHER -> {}

\* The name that AWS Certificate Manager gives an elliptic-curve key is not known.
_normalize_cloud_key_spec(proto, key) ==
    CASE key \in {"RSA1024", "RSA2048"} -> {"RSA"}
      [] key = "EC256" -> IF proto = "AWS" THEN {"EC_prime256v1"} ELSE {"ECDSA"}
      [] key = "AES" -> {"AES-256-GCM"} [] key = "MLDSA" -> {"ML-DSA-44"}
      [] OTHER -> {key}

MOTION_PLAINTEXT_PROTOCOLS == BrokerPlain
DAR_SKIP_PROTOCOLS ==
    {"POSTGRESQL", "MYSQL", "RDS", "S3", "AZURE_BLOB", "KUBERNETES", "VAULT", "GCP", "CLOUD_SQL"}
NotTransport == {"JWT", "BEARER_TOKEN", "SAML", "SMIME", "ADCS", "CODE_SIGNING", "DNSSEC", "KERBEROS",
                 "CONTAINER", "SOURCE", "REST_FUZZ", "OPENAPI", "HARDWARE"}
                \cup DAR_SKIP_PROTOCOLS \cup MOTION_PLAINTEXT_PROTOCOLS

(* ---- Pass 1: the algorithms that a row registers ------------------------ *)

NotRegistered == {"none", "NONE", "NSEC", "DS-MISMATCH", "SHA1-DS", "GCS-SUMMARY"}
NoAlgorithm == {"SSH", "CONTAINER", "SOURCE", "KERBEROS", "MYSQL", "CLOUD_SQL", "KUBERNETES"}
               \cup MOTION_PLAINTEXT_PROTOCOLS
\* The rows that register their key by its bare name.
Bare(e) == IF e.key \in NotRegistered THEN {} ELSE {KeyName(e.key)}
ByBareName == {"JWT", "BEARER_TOKEN", "SAML", "SMIME", "ADCS", "CODE_SIGNING", "DNSSEC", "POSTGRESQL", "RDS"}
Sse == {"sse-s3", "sse-kms-aws", "sse-kms-cmk", "sse-cmek", "sse-microsoft-storage"}

TlsAlgorithms(e) ==
    (IF e.key = "none" THEN {} ELSE {SizedName(e.key)})
    \cup (IF e.tag = "pqc-hybrid-detected" THEN {"X25519MLKEM768"} ELSE _decompose_cipher_suite(e.cipher))

\* Vault writes the method of a login into the field for a key.
\* Mutant: all protocols of data at rest are skipped, Vault and GCP included.
Algorithms_SkipsAtRest(e) ==
    IF e.proto \in NoAlgorithm \cup DAR_SKIP_PROTOCOLS THEN {}
    ELSE IF e.proto \in ByBareName THEN Bare(e) ELSE TlsAlgorithms(e)
Algorithms(e) ==
    IF e.proto \in NoAlgorithm THEN {}
    ELSE IF e.proto \in {"AWS", "AZURE", "GCP"} THEN
            IF Bare(e) = {} THEN {} ELSE _normalize_cloud_key_spec(e.proto, e.key)
    ELSE IF e.proto \in {"S3", "AZURE_BLOB"} THEN IF e.tag \in Sse THEN {"AES-256"} ELSE {}
    ELSE IF e.proto = "VAULT" THEN IF e.key = "none" THEN {e.tag} \ {"none"} ELSE Bare(e)
    ELSE IF e.proto \in ByBareName THEN Bare(e)
    ELSE TlsAlgorithms(e)

(* ---- Passes 2 and 3 ------------------------------------------------------ *)

Certified(e) == e.proto \notin NotTransport \cup {"SSH"} /\ e.key # "none"
Certificate(e) == [at |-> e.at, proto |-> e.proto, key |-> SizedName(e.key)]

\* A code-signing certificate that a TLS row shows as well is not repeated.
OfTls(rows, e) ==
    \E i \in DOMAIN rows : rows[i].proto = "TLS" /\ rows[i].at = e.at
                           /\ rows[i].key = e.key /\ rows[i].cert = e.cert

build_cbom(rows) ==
    [algorithms |-> UNION {Algorithms(rows[i]) : i \in DOMAIN rows},
     certificates |->
        {Certificate(rows[i]) : i \in {k \in DOMAIN rows : Certified(rows[k])}}
        \cup {Certificate(rows[i]) : i \in {k \in DOMAIN rows :
                 rows[k].proto = "CODE_SIGNING" /\ rows[k].key # "none" /\ ~ OfTls(rows, rows[k])}},
     protocols |-> {<<IF rows[i].proto = "SSH" THEN "ssh" ELSE "tls", rows[i].at>> :
                       i \in {k \in DOMAIN rows : rows[k].proto \notin NotTransport \cup {"AWS", "AZURE"}}}]
=============================================================================
