----------------------------- MODULE ScanPhases -----------------------------
(***************************************************************************)
(* The scanner phases of run_scan.main, in the order of its stages.  A     *)
(* phase is described by                                                   *)
(*   gates    - the reasons it may skip itself, in the order it tests them *)
(*   emits    - the protocol of the rows its scanner returns               *)
(*   restores - the protocols its stage's resume branch takes back from    *)
(*              the database when the stage was completed by an earlier    *)
(*              process (`_resumed_endpoints' filtered on `protocol').     *)
(***************************************************************************)
EXTENDS Sequences

off == "disabled-by-config"
noTargets == "no-eligible-targets"
noExtra == "missing-extra"
noBinary == "missing-binary"
noCredentials == "missing-credentials"

Phase(name, gates, emits, restores) ==
    [name |-> name, gates |-> gates, emits |-> emits, restores |-> restores]

(* Without targets the TLS, SSH and PQC phases run and return nothing. *)
_run_tls_phase == Phase("tls_scanning", <<>>, {"TLS"}, {"TLS", "HTTPS"})
_run_ssh_phase == Phase("ssh_scanning", <<>>, {"SSH"}, {"SSH"})
_run_pqc_phase == Phase("pqc_probe", <<>>, {"TLS", "ADVISORY"}, {})

_run_jwt_phase == Phase("jwt_scanning", <<off, noTargets>>, {"JWT"}, {"JWT"})
_run_container_phase ==
    Phase("container_scanning", <<off, noTargets, noBinary>>, {"CONTAINER"}, {"CONTAINER"})
_run_source_phase ==
    Phase("source_scanning", <<off, noTargets, noBinary>>, {"SOURCE"}, {"SOURCE"})
_run_openapi_phase == Phase("openapi_scanning", <<noTargets>>, {"OPENAPI"}, {"OPENAPI"})
_run_fuzz_phase == Phase("fuzz_scanning", <<off, noTargets>>, {"REST_FUZZ"}, {})

_run_aws_phase == Phase("aws_scanning", <<off, noExtra, noTargets>>, {"AWS", "RDS"}, {"AWS-KMS"})
_run_azure_phase == Phase("azure_scanning", <<off, noExtra, noTargets>>, {"AZURE"}, {"AZURE-KV"})
_run_gcp_phase == Phase("gcp_scanning", <<off, noExtra, noTargets>>, {"GCP", "CLOUD_SQL"}, {"GCP-KMS"})
_run_db_phase == Phase("db_scanning", <<off, noExtra, noTargets>>, {"POSTGRESQL", "MYSQL"}, {"DB"})

_run_s3_phase == Phase("s3_scanning", <<off, noExtra>>, {"S3"}, {"S3"})
_run_blob_phase == Phase("blob_scanning", <<off, noExtra, noTargets>>, {"AZURE_BLOB"}, {"AZURE-BLOB"})
_run_k8s_phase == Phase("k8s_scanning", <<off>>, {"KUBERNETES"}, {"K8S"})
_run_dnssec_phase == Phase("dnssec_scanning", <<off, noTargets>>, {"DNSSEC"}, {"DNSSEC"})
_run_saml_phase == Phase("saml_scanning", <<off, noTargets>>, {"SAML"}, {"SAML"})
_run_kerberos_phase == Phase("kerberos_scanning", <<off, noTargets>>, {"KERBEROS"}, {"KERBEROS"})
_run_smime_phase == Phase("smime_scanning", <<off, noExtra, noTargets>>, {"SMIME"}, {"SMIME"})
_run_adcs_phase == Phase("adcs_scanning", <<off, noExtra, noTargets>>, {"ADCS"}, {"ADCS"})
_run_codesign_phase == Phase("codesign_scanning", <<off>>, {"CODE_SIGNING"}, {"CODE_SIGNING"})
_run_vault_phase ==
    Phase("vault_scanning", <<off, noExtra, noTargets, noCredentials>>, {"VAULT"}, {"VAULT"})

(* The hosts of both are those of the TLS targets; brokers may be named. *)
_run_email_phase ==
    Phase("email_scanning", <<off, noExtra, noTargets>>,
          {"SMTP-STARTTLS", "SMTPS", "IMAP-STARTTLS", "IMAPS", "POP3-STARTTLS", "POP3S"},
          {"SMTP", "SMTPS", "EMAIL"})
_run_broker_phase ==
    Phase("broker_scanning", <<off, noExtra, noTargets>>,
          {"KAFKA-TLS", "KAFKA-PLAIN", "AMQPS", "AMQP-PLAIN", "AMQPS/Azure-ServiceBus",
           "HTTPS/AWS-SQS", "REDIS-TLS", "REDIS-PLAIN"},
          {"KAFKA", "AMQP", "AMQPS", "AMQPS/Azure-ServiceBus", "HTTPS/AWS-SQS", "REDIS"})

(* The scanner stages with a checkpoint, and pqc between ssh and api, which
   has none and runs in every process. *)
StagePhases ==
    [tls |-> {_run_tls_phase}, ssh |-> {_run_ssh_phase}, pqc |-> {_run_pqc_phase},
     api |-> {_run_jwt_phase, _run_container_phase, _run_source_phase, _run_openapi_phase,
              _run_fuzz_phase},
     identity |-> {_run_aws_phase, _run_azure_phase, _run_gcp_phase, _run_db_phase},
     data_at_rest |-> {_run_s3_phase, _run_blob_phase, _run_k8s_phase, _run_dnssec_phase,
                       _run_saml_phase, _run_kerberos_phase, _run_smime_phase, _run_adcs_phase,
                       _run_codesign_phase, _run_vault_phase},
     broker_email |-> {_run_email_phase, _run_broker_phase}]

Stages == DOMAIN StagePhases
AllPhases == UNION {StagePhases[s] : s \in Stages}
PhaseNames == {p.name : p \in AllPhases}
StageOf(name) == CHOOSE s \in Stages : \E p \in StagePhases[s] : p.name = name

(* _dar_eps, the flush list of data_at_rest, has no code-signing rows; the
   list of all endpoints has no fuzzing rows. *)
Flushed_NoS3(name) == name \notin {"codesign_scanning", "s3_scanning"}
Flushed(name) == name # "codesign_scanning"
Assembled(name) == name # "fuzz_scanning"
=============================================================================
