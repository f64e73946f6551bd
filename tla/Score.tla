-------------------------------- MODULE Score --------------------------------
(***************************************************************************)
(* quirk/intelligence/scoring.py: compute_readiness_score.  Weights are in *)
(* tenths of a point (a profile multiplies some of them by 1.4 or 0.7) and *)
(* the curve in ten-thousandths, so that a term is a number of 10^-5       *)
(* points.                                                                 *)
(***************************************************************************)
EXTENDS Evidence, FiniteSetsExt, Integers

N_REF == 40

\* sqrt(count / 40), cut at 1.
Root(x) == CHOOSE r \in 0 .. 10000 : r * r <= x /\ (r + 1) * (r + 1) > x
CurveTable == [n \in 0 .. N_REF |-> Root(2500000 * n)]
_count_curve(n) == CurveTable[IF n > N_REF THEN N_REF ELSE n]

\* Python rounds a half to the even neighbour.
Round(n, d) ==
    LET q == n \div d   r == 2 * (n % d) IN
    IF r > d \/ (r = d /\ q % 2 = 1) THEN q + 1 ELSE q

SCORE_WEIGHTS == [
    hygiene |-> <<<<"plaintext_http", 18>>, <<"http_on_tls", 16>>, <<"scan_error", 6>>>>,
    modern_tls |-> <<<<"legacy_tls", 14>>, <<"unknown", 6>>, <<"scan_error", 5>>>>,
    identity_trust |-> <<<<"cert_expired", 14>>, <<"cert_expiring", 7>>, <<"cert_self_signed", 9>>,
                        <<"kerberos_weak", 10>>, <<"saml_weak", 8>>, <<"dnssec_weak", 8>>,
                        <<"smime_weak_signing", 2>>, <<"smime_expired", 2>>, <<"smime_weak_key", 2>>,
                        <<"adcs_weak_template", 2>>, <<"adcs_misconfig", 2>>, <<"adcs_weak_signing", 2>>,
                        <<"adcs_coverage_gap", 2>>>>,
    agility_signals |-> <<<<"unknown", 6>>, <<"jwt_weak", 6>>, <<"openapi_plaintext", 4>>,
                         <<"codesign_weak", 6>>, <<"fuzz", 4>>>>,
    data_at_rest |-> <<<<"db_plaintext", 12>>, <<"db_weak_ssl", 6>>, <<"storage_unencrypted", 12>>,
                      <<"storage_aws_managed", 4>>, <<"k8s_unencrypted", 10>>, <<"k8s_inaccessible", 4>>,
                      <<"vault_weak", 8>>>>,
    data_in_motion |-> <<<<"email_plain", 12>>, <<"email_weak_cipher", 6>>, <<"broker_plaintext", 14>>,
                        <<"broker_weak_tls", 8>>, <<"broker_weak_cipher", 6>>>>]
RSA_ONLY_PENALTY == 8
PQC_BONUS == 8
MTLS_BONUS == 6

\* Mutant: the profiles are swapped.
PROFILE_MULTIPLIERS_Swapped == [strict |-> 7, balanced |-> 10, lenient |-> 14]
PROFILE_MULTIPLIERS == [strict |-> 14, balanced |-> 10, lenient |-> 7]
Multiplier(profile, domain) ==
    IF domain \in {"hygiene", "modern_tls"} THEN 10 ELSE PROFILE_MULTIPLIERS[profile]

\* The number of rows or targets that a term of the score reads.
Count(ev, name) ==
    LET c(n) == IF n \in DOMAIN ev.counters THEN ev.counters[n] ELSE 0 IN
    CASE name = "plaintext_http" -> ev.plaintext_http
      [] name = "http_on_tls" -> ev.http_on_tls
      [] name = "email_plain" -> c("email_plaintext") + c("starttls_missing")
      [] OTHER -> c(name)

\* Classical or undetermined certificate keys cost the same; observing any
\* post-quantum key exchange or certificate key earns one credit.
KeyTypePoints(ev) ==
    (IF \/ Count(ev, "key_classical") > 0
        \/ Count(ev, "certs_observed") > Count(ev, "key_pqc") THEN - RSA_ONLY_PENALTY ELSE 0)
    + (IF Count(ev, "pqc_hybrid") > 0 \/ Count(ev, "key_pqc") > 0 THEN PQC_BONUS ELSE 0)

Credits(ev, domain) ==
    CASE domain = "agility_signals" -> KeyTypePoints(ev)
      [] domain = "identity_trust" -> IF ev.mtls > 0 THEN MTLS_BONUS ELSE 0
      [] OTHER -> 0

\* Mutant: a share of the rows, so that more rows dilute a weakness.
Prevalence_Ratio(ev, name) == (10000 * Count(ev, name)) \div Max({1, Count(ev, "assessable")})
Prevalence(ev, name) == _count_curve(Count(ev, name))

\* The sum of the first n of a sequence of numbers, for every n.
PartialSums(s) ==
    LET sum[n \in 0 .. Len(s)] == IF n = 0 THEN 0 ELSE sum[n - 1] + s[n]
    IN  sum
Total(s) == PartialSums(s)[Len(s)]

Impacts(ev, domain) ==
    LET weights == SCORE_WEIGHTS[domain] IN
    [i \in DOMAIN weights |-> Prevalence(ev, weights[i][1]) * weights[i][2]]
Raw(ev, domain, profile) ==
    2500000 + Multiplier(profile, domain) * (10000 * Credits(ev, domain) - Total(Impacts(ev, domain)))
_apply_weighted_impacts(ev, domain, profile) ==
    LET raw == Raw(ev, domain, profile)
        clamped == IF raw < 0 THEN 0 ELSE IF raw > 2500000 THEN 2500000 ELSE raw IN
    Round(clamped, 100000)

_endpoints_assessed(ev) == Count(ev, "assessable") > 0
_identity_assessed(ev) ==
    \/ Count(ev, "certs_observed") > 0
    \/ Count(ev, "identity_rows") > Count(ev, "kerberos_placeholder") + Count(ev, "kerberos_scan_error")
_dar_assessed(ev) == Count(ev, "dar_rows") > 0
_motion_assessed(ev) == Count(ev, "motion_rows") > 0

Assessed(ev) ==
    UNION {IF _endpoints_assessed(ev) THEN {"hygiene", "modern_tls", "agility_signals"} ELSE {},
           IF _identity_assessed(ev) THEN {"identity_trust"} ELSE {},
           IF _dar_assessed(ev) THEN {"data_at_rest"} ELSE {},
           IF _motion_assessed(ev) THEN {"data_in_motion"} ELSE {}}

BAND_THRESHOLDS == [EXCELLENT |-> 85, GOOD |-> 70, MODERATE |-> 55, FAIR |-> 35]
band_for_score(s) ==
    IF s >= 85 THEN "EXCELLENT" ELSE IF s >= 70 THEN "GOOD" ELSE IF s >= 55 THEN "MODERATE"
    ELSE IF s >= 35 THEN "FAIR" ELSE "POOR"
cap_band_for_severity(band, critical) ==
    IF critical > 0 /\ band \in {"EXCELLENT", "GOOD", "MODERATE"} THEN "FAIR" ELSE band

\* The highest score that the number of CRITICAL and HIGH findings allows;
\* 100 stands for no ceiling.
_consequence_ceiling(critical, high) ==
    IF critical >= 5 THEN 25
    ELSE IF critical >= 1 THEN BAND_THRESHOLDS.FAIR - 1
    ELSE IF high >= 3 THEN BAND_THRESHOLDS.MODERATE - 1
    ELSE IF high >= 1 THEN BAND_THRESHOLDS.GOOD - 1
    ELSE 100
_pqc_readiness_ceiling(ev) ==
    IF Count(ev, "pqc_hybrid") > 0 THEN 100 ELSE BAND_THRESHOLDS.EXCELLENT - 1
Ceiling(ev) == Min({_consequence_ceiling(ev.critical, ev.high), _pqc_readiness_ceiling(ev)})

\* Compression maps the whole of 0..100 onto 0..ceiling.
Compress(ceiling, total) == Round(ceiling * total, 100)

NOT_ASSESSED == [score |-> -1, rating |-> "NOT_ASSESSED", domains |-> {}]

\* A domain that was not assessed adds nothing and is not divided by.
CATEGORIES == <<"hygiene", "modern_tls", "identity_trust", "agility_signals", "data_at_rest", "data_in_motion">>
assessed_scores(ev, profile) ==
    [i \in DOMAIN CATEGORIES |->
        IF CATEGORIES[i] \in Assessed(ev) THEN _apply_weighted_impacts(ev, CATEGORIES[i], profile) ELSE 0]
compute_readiness_score(ev, profile) ==
    LET domains == Assessed(ev)
        total == Round(4 * Total(assessed_scores(ev, profile)), Cardinality(domains))
        score == Compress(Ceiling(ev), total) IN
    IF domains = {} THEN NOT_ASSESSED
    ELSE [score |-> score, rating |-> cap_band_for_severity(band_for_score(score), ev.critical),
          domains |-> domains]
=============================================================================
