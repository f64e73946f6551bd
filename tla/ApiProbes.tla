------------------------------ MODULE ApiProbes ------------------------------
(***************************************************************************)
(* The scanners of APIs and code: JWKS documents, bearer tokens, OpenAPI   *)
(* descriptions, the REST fuzzer, source repositories and container        *)
(* images.  A target is a record of how it answers; an operator gives the  *)
(* rows that the scanner writes about it.                                  *)
(***************************************************************************)
EXTENDS Endpoints, SequencesExt

(* ---- jwt_scanner.py ---------------------------------------------------- *)

\* The three well-known paths in order; an answer that is no JWKS document,
\* or any failure, moves on to the next.  The document may be empty.
_fetch_jwks(doc) ==
    LET good == {i \in DOMAIN doc.paths : doc.paths[i] # "failed"}
        first == doc.paths[Min(good)] IN
    IF good = {} THEN [keys |-> <<>>, fetched |-> FALSE]
    ELSE [keys |-> IF first = "empty" THEN <<>> ELSE <<first>>, fetched |-> TRUE]

JwksAdvisory(at) == <<[Blank("ADVISORY", at) EXCEPT !.tag = "jwks-verify-disabled", !.sev = "HIGH"]>>

\* One row per key; fetching without verification is an advisory, whether or
\* not the document held a key.
scan_jwt_endpoint(at, doc) ==
    LET got == _fetch_jwks(doc) IN
    [i \in DOMAIN got.keys |-> [Blank("JWT", at) EXCEPT !.key = got.keys[i]]]
    \o (IF doc.insecure /\ got.fetched THEN JwksAdvisory(at) ELSE <<>>)

JwksDocs == [paths : {<<"RS256">>, <<"failed", "EC256">>, <<"failed", "failed", "empty">>,
                      <<"failed", "failed", "failed">>}, insecure : BOOLEAN]

(* ---- the bearer token of run_scan.py ----------------------------------- *)

\* An opaque token says nothing about its signature.
_bearer_token_endpoints(at, token) ==
    IF token = "opaque" THEN <<>> ELSE <<[Blank("BEARER_TOKEN", at) EXCEPT !.key = token]>>
BearerTokens == {"opaque", "alg-none", "alg-absent", "HS256", "RS256"}

(* ---- openapi_scanner.py ------------------------------------------------ *)

\* Reading stops with an error at a host outside the targets (checked again
\* at every redirect), a document over 10 MB, one that does not parse, or one
\* that refers to another document.
SpecErrors == {"host-not-a-target", "too-large", "unparsable", "external-ref"}

extract_crypto_posture(at, spec) ==
    (IF spec.scheme THEN <<[Blank("OPENAPI", at) EXCEPT !.tag = "security_scheme", !.sev = "INFO"]>> ELSE <<>>)
    \o (IF spec.http THEN <<[Blank("OPENAPI", at) EXCEPT !.tag = "plaintext_server", !.sev = "HIGH"]>> ELSE <<>>)
    \o (IF spec.operation = "open" \/ (spec.operation = "inherits" /\ ~ spec.global)
        THEN <<[Blank("OPENAPI", at) EXCEPT !.tag = "unauthenticated_endpoint", !.sev = "MEDIUM"]>> ELSE <<>>)

\* An error of the document raises: the phase that called writes its row.
scan_openapi_spec(at, spec) ==
    CASE spec.read = "missing_extra" -> <<[Blank("OPENAPI", at) EXCEPT !.tag = "missing_extra", !.sev = "INFO"]>>
      [] spec.read \in SpecErrors -> <<Failed("ERROR", at, "exception")>>
      [] OTHER -> extract_crypto_posture(at, spec)

Specs == [read : {"ok"}, scheme : BOOLEAN, http : BOOLEAN, operation : {"open", "inherits", "secured"},
          global : BOOLEAN]
         \cup [read : SpecErrors \cup {"missing_extra"}, scheme : {FALSE}, http : {FALSE},
               operation : {"secured"}, global : {TRUE}]

(* ---- rest_fuzzer.py ---------------------------------------------------- *)

_CONSECUTIVE_5XX_LIMIT == 3
FuzzRow(at, tag, sev) == [Blank("REST_FUZZ", at) EXCEPT !.tag = tag, !.sev = sev]

\* The state of a fuzz scan: requests counted against the budget, requests
\* sent, failures in a row, whether the loop has ended, the tags reported.
FuzzStart == [used |-> 0, sent |-> 0, failures |-> 0, ended |-> FALSE, tags |-> <<>>]

\* Against https the two TLS probes come first, and count.
FuzzTlsProbe(st, f, tag) ==
    IF ~ f.https \/ st.used >= f.budget THEN st
    ELSE [st EXCEPT !.used = @ + 1, !.sent = @ + 1, !.tags = IF f.weakTls THEN Append(@, tag) ELSE @]

\* A request that raises is not counted, but is sent.
FuzzFailed(st, counted) ==
    [st EXCEPT !.sent = @ + 1, !.used = @ + counted, !.failures = @ + 1,
               !.ended = st.failures + 1 >= _CONSECUTIVE_5XX_LIMIT]
FuzzNote(st, c, tag) == IF c /\ ~ Contains(st.tags, tag) THEN [st EXCEPT !.tags = Append(@, tag)] ELSE st

\* After an answer, a token forged with the public key is tried once more.
FuzzForged(st, f) ==
    IF f.confusion # "ready" \/ st.used >= f.budget THEN st
    ELSE [st EXCEPT !.used = @ + 1, !.sent = @ + 1, !.failures = 0,
                    !.tags = IF f.accepts THEN Append(@, "alg_confusion") ELSE @]

\* The third failure in a row ends the loop before the answer is looked at.
FuzzOperation(st, f, answer) ==
    IF st.ended \/ st.used >= f.budget THEN [st EXCEPT !.ended = TRUE]
    ELSE CASE answer = "out-of-scope" -> st
           [] answer = "raises" -> FuzzFailed(st, 0)
           [] answer = "5xx" /\ st.failures + 1 >= _CONSECUTIVE_5XX_LIMIT -> FuzzFailed(st, 1)
           [] OTHER ->
                LET counted == IF answer = "5xx" THEN FuzzFailed(st, 1)
                               ELSE [st EXCEPT !.sent = @ + 1, !.used = @ + 1, !.failures = 0] IN
                FuzzForged(FuzzNote(FuzzNote(counted, answer = "no-hsts", "hsts_missing"),
                                    ~ f.https /\ f.credential, "http_creds"), f)

FuzzBegin(f) ==
    LET start == [FuzzStart EXCEPT !.tags = IF f.confusion = "no-key" THEN <<"probe_skipped">> ELSE <<>>] IN
    FuzzTlsProbe(FuzzTlsProbe(start, f, "tls_downgrade_accepted"), f, "cipher_weak")
\* The states after the first n answers, for every n.
FuzzStates(f) ==
    LET after[n \in 0 .. Len(f.answers)] ==
            IF n = 0 THEN FuzzBegin(f) ELSE FuzzOperation(after[n - 1], f, f.answers[n])
    IN  after
FuzzScan(f) == FuzzStates(f)[Len(f.answers)]
FuzzSeverity(tag) ==
    CASE tag = "alg_confusion" -> "CRITICAL" [] tag = "probe_skipped" -> "INFO" [] OTHER -> "HIGH"

\* Nothing is sent unless a person at a terminal types the confirmation.
run_fuzz_scan(at, f) ==
    IF ~ f.confirmed THEN <<>>
    ELSE IF ~ f.extra THEN <<FuzzRow(at, "schemathesis not installed", "INFO")>>
    ELSE LET tags == FuzzScan(f).tags IN [i \in DOMAIN tags |-> FuzzRow(at, tags[i], FuzzSeverity(tags[i]))]

Fuzzed == [confirmed : {TRUE}, extra : {TRUE}, https : {TRUE}, weakTls : BOOLEAN, credential : BOOLEAN, budget : {2, 4},
           confusion : {"off", "no-key", "ready"}, accepts : {TRUE},
           answers : {<<"no-hsts", "ok", "no-hsts">>, <<"5xx", "raises", "5xx", "ok">>, <<"raises", "raises", "raises">>,
                      <<"ok", "out-of-scope", "ok", "ok">>}]
          \cup [confirmed : BOOLEAN, extra : {FALSE}, https : {TRUE}, weakTls : {TRUE}, credential : {TRUE}, budget : {4},
                confusion : {"off"}, accepts : {FALSE}, answers : {<<"ok">>}]

(* ---- source_scanner.py ------------------------------------------------- *)

\* One repository: what semgrep did.  The result is the rows, or that the
\* scan raised.
scan_source_repo(at, repo) ==
    CASE repo = "invalid" -> [raised |-> FALSE, rows |-> <<Failed("SOURCE", at, "invalid_input")>>]
      [] repo = "no-semgrep" -> [raised |-> FALSE, rows |-> <<>>]
      [] repo \in {"timeout", "bad-exit"} -> [raised |-> TRUE, rows |-> <<>>]
      [] repo = "partial" -> [raised |-> FALSE, rows |-> <<Blank("SOURCE", at), Failed("SOURCE", at, "partial")>>]
      [] OTHER -> [raised |-> FALSE, rows |-> <<Blank("SOURCE", at)>>]

\* A repository that raised leaves an error row; when every repository
\* failed, the whole scan raises and those rows go with it.
RepoFailed(at, repo) == scan_source_repo(at, repo).raised \/ repo = "invalid"
RepoRows(at, repo) ==
    LET result == scan_source_repo(at, repo) IN
    IF result.raised THEN <<Failed("SOURCE", at, "exception")>> ELSE result.rows
\* The rows of the first n repositories, for every n.
SourceRows(at, repos) ==
    LET after[n \in 0 .. Len(repos)] == IF n = 0 THEN <<>> ELSE after[n - 1] \o RepoRows(at, repos[n])
    IN  after
scan_source_targets(at, repos) ==
    IF \A i \in DOMAIN repos : RepoFailed(at, repos[i]) THEN <<Failed("ERROR", at, "exception")>>
    ELSE SourceRows(at, repos)[Len(repos)]
RepoLists == {<<"found">>, <<"found", "timeout">>, <<"partial", "invalid">>, <<"timeout", "bad-exit">>, <<"no-semgrep">>}

(* ---- container_scanner.py ---------------------------------------------- *)

\* One row per crypto package that syft lists in the image.
scan_container_image(at, image) ==
    CASE image = "invalid" -> <<Failed("CONTAINER", at, "invalid_input")>>
      [] image \in {"no-syft", "failed"} -> <<>>
      [] OTHER -> <<[Blank("CONTAINER", at) EXCEPT !.cipher = image]>>
Images == {"invalid", "no-syft", "failed", "openssl-1.0", "openssl-1.1", "openssl-3.0", "cryptography-2",
           "cryptography-40", "openssl-3.2"}
=============================================================================
