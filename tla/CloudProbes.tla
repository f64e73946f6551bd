----------------------------- MODULE CloudProbes -----------------------------
(***************************************************************************)
(* The connectors to cloud providers, Kubernetes, databases and Vault: for *)
(* each, what the service answers and the rows the connector writes.       *)
(* "failed" is an answer that raises, "denied" one refused by permissions. *)
(***************************************************************************)
EXTENDS Endpoints, SequencesExt

Tagged(proto, at, tag, sev) == [Blank(proto, at) EXCEPT !.tag = tag, !.sev = sev]
KeyRow(proto, at, key) == [Blank(proto, at) EXCEPT !.key = key]

(* ---- aws_connector.py -------------------------------------------------- *)

\* A certificate or key that cannot be described is left out; only a refused
\* listing of KMS keys is reported.
_scan_acm(at, answer) == IF answer = "failed" THEN <<>> ELSE <<KeyRow("AWS", at, answer)>>
_KMS_SKIP_STATES == {"Disabled", "PendingDeletion", "PendingImport", "Unavailable"}
_scan_kms(at, answer) ==
    CASE answer = "denied" -> <<Failed("AWS", at, "aws-iam-denied")>>
      [] answer \in _KMS_SKIP_STATES \cup {"failed"} -> <<>>
      [] OTHER -> <<KeyRow("AWS", at, answer)>>
\* CloudFront and load balancers: the minimum version or the policy name.
_scan_listeners(at, answer) == IF answer = "failed" THEN <<>> ELSE <<Blank("AWS", at)>>

_scan_rds_encryption(at, answer) ==
    CASE answer = "failed" -> <<>>
      [] answer = "none" -> <<Tagged("RDS", at, "none-encrypted", "HIGH")>>
      [] OTHER -> <<Tagged("RDS", at, "encrypted", "none")>>

\* One row per entry of encryptionConfig, and one when there is none.
_scan_eks_encryption(at, entries) ==
    IF entries = <<>> THEN <<Tagged("KUBERNETES", at, "unencrypted", "HIGH")>>
    ELSE [i \in DOMAIN entries |-> IF entries[i] = "secrets" THEN Tagged("KUBERNETES", at, "encrypted", "none")
                                   ELSE Tagged("KUBERNETES", at, "unencrypted", "HIGH")]

\* A bucket whose configuration may not be read leaves no row.
_scan_s3_encryption(at, answer) ==
    CASE answer \in {"failed", "denied"} -> <<>>
      [] answer \in {"no-rules", "not-found", "other-algorithm"} -> <<Tagged("S3", at, "unencrypted", "HIGH")>>
      [] answer = "sse-kms-aws" -> <<Tagged("S3", at, "sse-kms-aws", "MEDIUM")>>
      [] OTHER -> <<Tagged("S3", at, answer, "none")>>

AwsAssets ==
    [kind : {"acm"}, answer : {"failed", "RSA2048", "EC256"}, entries : {<<>>}]
    \cup [kind : {"kms"}, answer : {"denied", "failed", "Disabled", "RSA2048", "AES"}, entries : {<<>>}]
    \cup [kind : {"listener"}, answer : {"failed", "ok"}, entries : {<<>>}]
    \cup [kind : {"rds"}, answer : {"failed", "none", "sse-rds", "sse-kms-aws", "sse-kms-cmk"}, entries : {<<>>}]
    \cup [kind : {"eks"}, answer : {"ok"}, entries : {<<>>, <<"secrets">>, <<"other">>, <<"secrets", "other">>}]
    \cup [kind : {"s3"}, answer : {"failed", "denied", "no-rules", "not-found", "other-algorithm", "sse-s3",
                                   "sse-kms-aws", "sse-kms-cmk"}, entries : {<<>>}]

scan_aws_targets(at, a) ==
    CASE a.kind = "acm" -> _scan_acm(at, a.answer)
      [] a.kind = "kms" -> _scan_kms(at, a.answer)
      [] a.kind = "listener" -> _scan_listeners(at, a.answer)
      [] a.kind = "rds" -> _scan_rds_encryption(at, a.answer)
      [] a.kind = "eks" -> _scan_eks_encryption(at, a.entries)
      [] OTHER -> _scan_s3_encryption(at, a.answer)

(* ---- azure_connector.py ------------------------------------------------ *)

_scan_keyvault_keys(at, answer) == IF answer = "failed" THEN <<>> ELSE <<KeyRow("AZURE", at, answer)>>
_scan_app_gateways(at, answer) == IF answer \in {"failed", "no-policy"} THEN <<>> ELSE <<Blank("AZURE", at)>>

\* One row per container; an account whose resource group or containers
\* cannot be read is left out after its key source was classified.
_scan_blob_encryption(at, answer, containers) ==
    CASE answer = "failed" -> <<>>
      [] answer = "microsoft.keyvault" -> [i \in 1 .. containers |-> Tagged("AZURE_BLOB", at, "cmk", "none")]
      [] answer = "microsoft.storage" ->
            [i \in 1 .. containers |-> Tagged("AZURE_BLOB", at, "platform-managed", "MEDIUM")]
      [] OTHER -> [i \in 1 .. containers |-> Tagged("AZURE_BLOB", at, "unknown", "MEDIUM")]

scan_azure_targets(at, a) ==
    CASE a.kind = "key" -> _scan_keyvault_keys(at, a.answer)
      [] a.kind = "gateway" -> _scan_app_gateways(at, a.answer)
      [] OTHER -> _scan_blob_encryption(at, a.answer, a.containers)

AzureAssets ==
    [kind : {"key"}, answer : {"failed", "RSA2048", "EC256"}, containers : {0}]
    \cup [kind : {"gateway"}, answer : {"failed", "no-policy", "TLSv1_2"}, containers : {0}]
    \cup [kind : {"blob"}, answer : {"failed", "microsoft.keyvault", "microsoft.storage", "absent"}, containers : 0 .. 2]

(* ---- gcp_connector.py -------------------------------------------------- *)

\* Only a 403 is reported; any other failure ends the listing in silence.
GcpDenied(at) == <<Failed("GCP", at, "gcp-iam-denied")>>

\* Disabled keys and keys whose algorithm is not known are skipped.
ScanGcpKms(at, answer) ==
    CASE answer = "denied" -> GcpDenied(at)
      [] answer \in {"failed", "too-many-pages", "not-enabled", "unspecified"} -> <<>>
      [] OTHER -> <<KeyRow("GCP", at, answer)>>

\* A missing mode means that plaintext connections are allowed.
_scan_cloud_sql(at, answer) ==
    CASE answer = "denied" -> GcpDenied(at)
      [] answer \in {"failed", "TRUSTED_CLIENT_CERTIFICATE_REQUIRED", "other-mode"} -> <<>>
      [] answer = "ENCRYPTED_ONLY" -> <<Tagged("CLOUD_SQL", at, "encrypted-only", "MEDIUM")>>
      [] OTHER -> <<Tagged("CLOUD_SQL", at, "plaintext-allowed", "HIGH")>>

\* A summary row, then one per bucket.
_scan_gcs(at, answer) ==
    CASE answer = "denied" -> GcpDenied(at)
      [] answer = "failed" -> <<>>
      [] OTHER -> <<KeyRow("GCP", at, "GCS-SUMMARY"), KeyRow("GCP", at, answer)>>

scan_gcp_targets(at, a) ==
    IF ~ a.credentials THEN <<Failed("GCP", at, "gcp-credentials-unavailable")>>
    ELSE IF a.kind = "kms" THEN ScanGcpKms(at, a.answer)
    ELSE IF a.kind = "sql" THEN _scan_cloud_sql(at, a.answer)
    ELSE _scan_gcs(at, a.answer)

GcpAssets ==
    [credentials : BOOLEAN, kind : {"kms"},
     answer : {"denied", "failed", "too-many-pages", "not-enabled", "unspecified", "RSA2048", "MLDSA"}]
    \cup [credentials : {TRUE}, kind : {"sql"}, answer : {"denied", "failed", "unset", "ENCRYPTED_ONLY",
          "ALLOW_UNENCRYPTED_AND_ENCRYPTED", "TRUSTED_CLIENT_CERTIFICATE_REQUIRED", "other-mode"}]
    \cup [credentials : {TRUE}, kind : {"storage"}, answer : {"denied", "failed", "CMEK", "Google-Managed"}]

(* ---- k8s_connector.py -------------------------------------------------- *)

_emit_inaccessible_finding(at) == <<Failed("KUBERNETES", at, "encryption-config-inaccessible")>>

\* A cluster that cannot be read is left out.
_scan_gke_encryption(at, answer) ==
    CASE answer = "failed" -> <<>>
      [] answer = "encrypted" -> <<Tagged("KUBERNETES", at, "encrypted", "none")>>
      [] OTHER -> <<Tagged("KUBERNETES", at, "unencrypted", "HIGH")>>
_scan_aks_encryption(at, answer) ==
    CASE answer = "failed" -> <<>>
      [] answer = "encrypted" -> <<Tagged("KUBERNETES", at, "encrypted", "none")>>
      [] OTHER -> <<Tagged("KUBERNETES", at, "platform-managed", "MEDIUM")>>

_enumerate_secret_types(at, secrets) ==
    CASE secrets = "listed" -> <<Tagged("KUBERNETES", at, "secret-types-summary", "none")>>
      [] secrets = "denied" -> <<Failed("KUBERNETES", at, "insufficient-rbac-privileges")>>
      [] OTHER -> <<>>

\* The row about an inaccessible configuration is only written when there is
\* no other row, a summary of secret types included.
scan_k8s_targets(at, c) ==
    IF c.provider \notin {"eks", "gke", "aks"} \/ ~ c.sdk THEN _emit_inaccessible_finding(at)
    ELSE IF c.provider = "aks" /\ c.answer = "no-clusters" THEN _emit_inaccessible_finding(at)
    ELSE LET rows == (IF c.answer = "no-credential" THEN _emit_inaccessible_finding(at)
                      ELSE IF c.provider = "gke" THEN _scan_gke_encryption(at, c.answer)
                      ELSE IF c.provider = "aks" THEN _scan_aks_encryption(at, c.answer)
                      ELSE <<>>)
                     \o _enumerate_secret_types(at, c.secrets) IN
         IF rows = <<>> THEN _emit_inaccessible_finding(at) ELSE rows

Clusters ==
    [provider : {"gke", "aks"}, sdk : {TRUE}, answer : {"failed", "encrypted", "unencrypted"},
     secrets : {"listed", "denied", "failed"}]
    \cup [provider : {"aks"}, sdk : {TRUE}, answer : {"no-credential", "no-clusters"}, secrets : {"listed", "failed"}]
    \cup [provider : {"eks", "self-hosted"}, sdk : BOOLEAN, answer : {"failed"}, secrets : {"listed", "denied", "failed"}]

(* ---- db_connector.py --------------------------------------------------- *)

\* The scanner itself connects without TLS, so that pg_stat_ssl counts at
\* least its own connection and "ssl-enforced" cannot be observed.
scan_pg_target(at, db) ==
    IF db.connect # "plaintext" THEN <<Failed("POSTGRESQL", at, "connection-error")>>
    ELSE IF ~ db.ssl THEN <<Tagged("POSTGRESQL", at, "ssl-off", "HIGH")>>
    ELSE IF ~ db.privileged THEN <<[Failed("POSTGRESQL", at, "insufficient-privilege") EXCEPT !.sev = "INFO"]>>
    ELSE <<Tagged("POSTGRESQL", at, "plaintext-connections-allowed", "HIGH")>>

\* The cipher of a connection made without TLS is always empty.
scan_mysql_target(at, db) ==
    IF db.connect # "plaintext" THEN <<Failed("MYSQL", at, "connection-error")>>
    ELSE <<Tagged("MYSQL", at, "ssl-off", "HIGH")>>

scan_db_target(at, db) == IF db.kind = "pg" THEN scan_pg_target(at, db) ELSE scan_mysql_target(at, db)
Databases == [kind : {"pg", "mysql"}, connect : {"plaintext", "refused"}, ssl : BOOLEAN, privileged : BOOLEAN]

(* ---- vault_connector.py ------------------------------------------------ *)

_scan_transit_keys(at, v) ==
    IF v.transit = "failed" THEN <<>>
    ELSE <<[KeyRow("VAULT", at, v.transit) EXCEPT !.sev = IF v.exportable THEN "MEDIUM" ELSE "none"]>>

_classify_pki_cert(ca) == IF ca.key \in {"RSA1024", "RSA2048"} \/ ca.hash = "SHA1" THEN "HIGH" ELSE "none"
_scan_pki_mounts(at, v) ==
    [i \in DOMAIN v.pki |-> [KeyRow("VAULT", at, v.pki[i].key) EXCEPT !.sev = _classify_pki_cert(v.pki[i])]]

AUTH_RISK_MAP == [token |-> "HIGH", ldap |-> "HIGH", userpass |-> "MEDIUM"]
_scan_auth_methods(at, v) ==
    IF v.auth \in DOMAIN AUTH_RISK_MAP THEN <<Tagged("VAULT", at, v.auth, AUTH_RISK_MAP[v.auth])>> ELSE <<>>

scan_vault_targets(at, v) ==
    IF v.login # "ok" THEN <<Failed("VAULT", at, v.login)>>
    ELSE _scan_transit_keys(at, v) \o _scan_pki_mounts(at, v) \o _scan_auth_methods(at, v)

Vaults ==
    [login : {"vault-no-token", "vault-client-init-failed", "vault-auth-failed"}, transit : {"failed"},
     exportable : {FALSE}, pki : {<<>>}, auth : {"none"}]
    \cup [login : {"ok"}, transit : {"failed", "RSA2048", "AES"}, exportable : BOOLEAN, pki : {<<>>},
          auth : {"token", "userpass", "approle"}]
    \cup [login : {"ok"}, transit : {"failed", "AES"}, exportable : {FALSE},
          pki : {<<[key |-> "RSA2048", hash |-> "SHA256"]>>,
                 <<[key |-> "EC256", hash |-> "SHA1"], [key |-> "EC256", hash |-> "SHA256"]>>},
          auth : {"token", "approle"}]
=============================================================================
