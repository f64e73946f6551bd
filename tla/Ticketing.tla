------------------------------ MODULE Ticketing ------------------------------
(***************************************************************************)
(* `quirk ticket create': one run reads a findings file and takes each     *)
(* finding to Jira or ServiceNow, where it opens an issue or comments on   *)
(* the one that already has its fingerprint, and writes an audit row.  Two *)
(* runs may be under way, one of them started by cron.                     *)
(***************************************************************************)
EXTENDS Naturals, Sequences, FiniteSets, SequencesExt, FiniteSetsExt

CONSTANTS
    Files,       \* Files[i]: the findings file of scan i, a sequence of findings
    Backends,    \* ticketing backends with a valid configuration block
    MaxFailures   \* bound on failed calls, failed commits and kills

\* A finding is a place and a title; a title that was reworded later has an
\* alias in FINGERPRINT_TITLE_ALIASES.
Reportable == UNION {ToSet(Files[i]) : i \in DOMAIN Files}

VARIABLES
    newest,    \* the scan whose findings file is the newest
    issues,    \* issues[b]: the fingerprints of the issues in tracker b, in order
    deliveries,\* integration_deliveries of destination jira or servicenow
    tick,      \* the runs
    overlap,   \* history: fingerprints that two runs looked up at once
    failures    \* failures so far

ticketVars == <<newest, issues, deliveries, tick, overlap, failures>>

Runners == {"cron", "operator"}
AllBackends == {"jira", "servicenow"}
Resting == [at |-> "rest", file |-> 0, i |-> 0, backend |-> "none", status |-> "none",
            pending |-> <<>>, broken |-> FALSE, exit |-> "none", saved |-> 0]

Failure == failures < MaxFailures /\ failures' = failures + 1

normalize_finding_title(t) == IF t = "reworded" THEN "original" ELSE t
compute_fingerprint_RawTitle(f) == <<f.place, f.title>>
compute_fingerprint(f) == <<f.place, normalize_finding_title(f.title)>>

\* The finding that a run is at, its fingerprint, and the tracker's answer.
Current(p) == compute_fingerprint(Files[tick[p].file][tick[p].i])
find_by_fingerprint(p) == \E i \in DOMAIN issues[tick[p].backend] : issues[tick[p].backend][i] = Current(p)

NextScan ==
    /\ newest < Len(Files) /\ newest' = newest + 1
    /\ UNCHANGED <<issues, deliveries, tick, overlap, failures>>

\* run_ticket up to the construction of the channel.  Without a file or with a
\* backend that is not configured the command exits with 2 and leaves nothing.
run_ticket(p) ==
    /\ tick[p].at = "rest"
    /\ \E b \in AllBackends :
         tick' = [tick EXCEPT ![p] =
             IF newest = 0 \/ b \notin Backends THEN [Resting EXCEPT !.exit = "usage"]
             ELSE [Resting EXCEPT !.at = IF Files[newest] = <<>> THEN "end" ELSE "find",
                                  !.file = newest, !.i = 1, !.backend = b]]
    /\ UNCHANGED <<newest, issues, deliveries, overlap, failures>>

\* dispatch_finding: the lookup, then a comment or a new issue.
Settle(p, status) == [tick EXCEPT ![p].at = "audit", ![p].status = status]
Lookup(p) ==
    /\ tick[p].at = "find"
    /\ tick' = [tick EXCEPT ![p].at = IF find_by_fingerprint(p) THEN "comment" ELSE "create"]
    /\ overlap' = overlap \cup
          {Current(p) : q \in {x \in Runners \ {p} : /\ tick[x].at = "create" /\ tick[x].backend = tick[p].backend
                                                     /\ Current(x) = Current(p)}}
    /\ UNCHANGED <<newest, issues, deliveries, failures>>
create_issue_from_finding(p) ==
    /\ tick[p].at = "create"
    /\ issues' = [issues EXCEPT ![tick[p].backend] = Append(@, Current(p))]
    /\ \/ tick' = Settle(p, "ok") /\ UNCHANGED failures
       \/ tick' = Settle(p, "failed") /\ Failure       \* the answer is lost
    /\ UNCHANGED <<newest, deliveries, overlap>>
add_rediscovery_comment(p) ==
    /\ tick[p].at = "comment"
    /\ tick' = Settle(p, "ok")
    /\ UNCHANGED <<newest, issues, deliveries, overlap, failures>>

\* Any of the calls fails without effect.
StatusOnError == "failed"
CallFails(p) ==
    /\ tick[p].at \in {"find", "create", "comment"} /\ Failure
    /\ tick' = Settle(p, StatusOnError)
    /\ UNCHANGED <<newest, issues, deliveries, overlap>>

\* The audit row.  When its commit fails the session accepts no other commit
\* until it is rolled back, which only its end does.
AuditRow(p) == [file |-> tick[p].file, fp |-> Current(p), to |-> tick[p].backend, status |-> tick[p].status]
Advance(p, t) ==
    [t EXCEPT !.at = IF t.i = Len(Files[t.file]) THEN "end" ELSE "find",
              !.i = IF t.i = Len(Files[t.file]) THEN t.i ELSE t.i + 1]
CommitAudit(p) ==
    /\ tick[p].at = "audit" /\ ~ tick[p].broken
    /\ deliveries' = deliveries \cup {AuditRow(p)}
    /\ tick' = [tick EXCEPT ![p] = Advance(p, [tick[p] EXCEPT !.saved = @ + 1])]
    /\ UNCHANGED <<newest, issues, overlap, failures>>
CommitAuditFails(p) ==
    /\ tick[p].at = "audit"
    /\ IF tick[p].broken THEN UNCHANGED failures ELSE Failure
    /\ tick' = [tick EXCEPT ![p] = Advance(p, [tick[p] EXCEPT !.broken = TRUE, !.pending = Append(@, AuditRow(p))])]
    /\ UNCHANGED <<newest, issues, deliveries, overlap>>

\* The exit commit of get_session raises when the session is broken; the rows
\* that wait in it are rolled back and the command exits with 2.
ExitCode_Zero(t) == "done"
ExitCode(t) == IF t.broken THEN "audit failed" ELSE "done"
Exit(p) ==
    /\ tick[p].at = "end"
    /\ tick' = [tick EXCEPT ![p].at = "rest", ![p].pending = <<>>, ![p].exit = ExitCode(tick[p])]
    /\ UNCHANGED <<newest, issues, deliveries, overlap, failures>>

KillTicket(p) ==
    /\ tick[p].at \in {"find", "create", "comment", "audit", "end"} /\ Failure
    /\ tick' = [tick EXCEPT ![p] = [Resting EXCEPT !.exit = "killed"]]
    /\ UNCHANGED <<newest, issues, deliveries, overlap>>

TicketInit ==
    /\ newest = 0 /\ issues = [b \in AllBackends |-> <<>>] /\ deliveries = {}
    /\ tick = [p \in Runners |-> Resting] /\ overlap = {} /\ failures = 0

TicketNext ==
    \/ NextScan
    \/ \E p \in Runners :
         \/ run_ticket(p) \/ Lookup(p) \/ create_issue_from_finding(p) \/ add_rediscovery_comment(p)
         \/ CallFails(p) \/ CommitAudit(p) \/ CommitAuditFails(p) \/ Exit(p) \/ KillTicket(p)

-----------------------------------------------------------------------------
(* Properties *)

\* A finding has one issue in a tracker, across scans, reworded titles, lost
\* answers, kills and repeated runs; only two runs that look it up at once can
\* open two (dispatch_finding, compute_fingerprint).
NoDuplicateTicket ==
    \A b \in AllBackends : \A i, j \in DOMAIN issues[b] :
        LET same == \E f, g \in Reportable :
                      /\ issues[b][i] \in {<<f.place, f.title>>, compute_fingerprint(f)}
                      /\ issues[b][j] \in {<<g.place, g.title>>, compute_fingerprint(g)}
                      /\ f.place = g.place /\ normalize_finding_title(f.title) = normalize_finding_title(g.title) IN
        i # j /\ same => issues[b][i] \in overlap

\* An audit row that says `ok' is never wrong: the tracker has the issue.
AuditIsHonest ==
    \A d \in deliveries : d.status = "ok" => \E i \in DOMAIN issues[d.to] : issues[d.to][i] = d.fp

\* A run that reports success has an audit row for every finding of its file:
\* one that fails does not hide the others, and no row was lost on the way.
DoneMeansAccounted ==
    \A p \in Runners : tick[p].exit = "done" =>
        \A i \in DOMAIN Files[tick[p].file] :
            \E d \in deliveries : /\ d.file = tick[p].file /\ d.to = tick[p].backend
                                  /\ d.fp = compute_fingerprint(Files[tick[p].file][i])

\* The ledger says of a run neither more nor less than it did
\* (dispatch_finding, ticket create).
LedgerIsRight == AuditIsHonest /\ DoneMeansAccounted

\* ticket_cmd.py: "audit-row persistence failed, no audit records were saved".
\* The rows before the failed commit were committed one by one.
ErrorMeansNothingSaved ==
    \A p \in Runners : tick[p].exit = "audit failed" => tick[p].saved = 0
=============================================================================
