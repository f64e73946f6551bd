------------------------------ MODULE Scheduler ------------------------------
(***************************************************************************)
(* `quirk scheduler run': the loop that dispatches scheduled scans one     *)
(* after the other, its recovery at start-up, the notification and SIEM    *)
(* hooks after a scan, and the schedule CLI and API that change the table  *)
(* meanwhile.                                                              *)
(*                                                                         *)
(* The clock counts minutes, the period of the loop.  It runs while the    *)
(* scheduler sleeps, waits for the scan process or is down; its other      *)
(* steps take no time.  A schedule is known by its id; the loop visits     *)
(* them in that order.  Runs are numbered; the `pending' row is never      *)
(* committed before it becomes `running' or `failed', so it is not a state *)
(* of the table.  Writes of other sessions are seen only by a new query:   *)
(* sessions do not expire what they loaded (expire_on_commit=False).       *)
(*                                                                         *)
(* One session serves an iteration, the hooks included.  A commit of it    *)
(* that fails leaves it broken until a rollback, which nobody calls before *)
(* get_session does: each later query, flush or commit of it raises, and   *)
(* so does a read of an object that the failure has expired.               *)
(***************************************************************************)
EXTENDS Naturals, Sequences, FiniteSets, SequencesExt

CONSTANTS
    Count,       \* schedules have the ids 1 .. Count
    Created,     \* the ones created before the scheduler is first started
    Cron,        \* Cron[s]: the minutes at which the cron expression fires
    Fast,        \* schedules below the cadence floor for OT/ICS probes
    Listed,      \* schedules whose target is on the server's trusted-targets list
    ScanConfigs, \* what the --scan-config file may hold
    Channels,    \* configured notification channels
    Findings,    \* findings that a scan writes for the SIEM export
    Stale,       \* _STALE_THRESHOLD, in minutes
    MaxTime,     \* bound on the clock
    MaxFaults    \* bound on crashes, operator changes and failed writes

Schedules == 1 .. Count

\* `trusts' are the schedules whose target the file's own security section
\* allows: all of them, if it has no list.
ScanConfig == [given : BOOLEAN, readable : BOOLEAN, auth : BOOLEAN,
               otics : BOOLEAN, optIn : BOOLEAN, trusts : SUBSET Schedules]
NoConfig == [given |-> FALSE, readable |-> TRUE, auth |-> FALSE,
             otics |-> FALSE, optIn |-> FALSE, trusts |-> Schedules]
Policies == {"open", "listed", "unreadable"}

ASSUME SchedulerAssumption ==
    /\ Count \in Nat /\ Stale \in Nat /\ MaxTime \in Nat /\ MaxFaults \in Nat
    /\ Cron \in [Schedules -> SUBSET (1 .. MaxTime)]
    /\ Created \subseteq Schedules /\ Fast \subseteq Schedules /\ Listed \subseteq Schedules
    /\ ScanConfigs \subseteq ScanConfig

VARIABLES
    clock,     \* minutes
    sched,     \* the scheduled_scans table: state and last_run_at (0: NULL)
    runs,      \* the scheduled_runs table, rows in order of their id
    proc,      \* the scheduler process
    server,    \* the security section of the server configuration
    scanFile,  \* the file given as --scan-config
    sessions,  \* scan sessions in the database: how many, and whether the
               \* newest two meet the trigger of should_notify
    faults     \* faults so far

schedVars == <<clock, sched, runs, proc, server, scanFile, sessions, faults>>

Fault == faults < MaxFaults /\ faults' = faults + 1

-----------------------------------------------------------------------------
(* The operators of the code *)

\* proc.audits are the rows of integration_deliveries for the run in hand,
\* proc.sent the deliveries that were tried for it, proc.todo the schedules that
\* the iteration has still to visit, proc.broken a session that needs a rollback.
Down == [at |-> "down", todo |-> {}, now |-> 0, since |-> 0, run |-> 0,
         stop |-> FALSE, broken |-> FALSE, left |-> {}, sent |-> {}, audits |-> {}]
Enabled == {s \in Schedules : sched[s].state = "enabled"}

\* croniter(expr, base).get_next() <= now, for a base and a now.
FiresIn(s, base, now) == \E c \in Cron[s] : base < c /\ c <= now

\* When the schedule never ran the base is two minutes before the clock, read
\* again for each schedule of the iteration.
Due(s) == FiresIn(s, IF sched[s].last = 0 THEN clock - 2 ELSE sched[s].last,
                  proc.now)

\* Rows that recovery takes for those of a crashed scheduler.
IsStale_Pending(r) == r.status = "pending" /\ r.at + Stale < clock
IsStale(r) == r.status \in {"pending", "running"} /\ r.at + Stale < clock

_recover_stale_runs ==
    [i \in DOMAIN runs |->
        IF IsStale(runs[i]) THEN [runs[i] EXCEPT !.status = "failed", !.out = "INTERRUPTED"]
        ELSE runs[i]]

\* _enforce_trusted_target: the server's section allows the target.
Trusts(s) == server = "open" \/ (server = "listed" /\ s \in Listed)

\* The configuration written for one dispatch: the targets it trusts and
\* whether it probes OT/ICS.  Without a file the server's trusted targets are
\* carried over; a file keeps its own, and its own connectors less OT/ICS probes
\* that may not recur.  (Authenticated mode is taken out of every one of them.)
_materialize_scan_config_NoTrust(s) ==
    [trust |-> Schedules,
     otics |-> scanFile.otics /\ scanFile.optIn /\ s \notin Fast]
_materialize_scan_config(s) ==
    [trust |-> IF scanFile.given THEN scanFile.trusts
               ELSE {t \in Schedules : Trusts(t)},
     otics |-> scanFile.otics /\ scanFile.optIn /\ s \notin Fast]

\* run_scan refuses a target that its configuration does not trust.
Refused(s, cfg) == s \notin cfg.trust

\* A row of scheduled_runs and the configuration of its scan.  As history:
\* what became of the scan process (`none' was started, it is `on', it is
\* `done', or the scheduler was `cut' off from it), whether it left a session,
\* and what the server's list and a file of --scan-config said at the dispatch.
Row(s, status, life) ==
    [s |-> s, at |-> clock, status |-> status, out |-> "none", scan |-> 0,
     cfg |-> _materialize_scan_config(s),
     life |-> life, found |-> FALSE,
     listed |-> Trusts(s), given |-> scanFile.given, own |-> s \in scanFile.trusts]

\* What a scan process adds to the database.
NewSession == sessions' \in [n : {sessions.n + 1}, alarm : BOOLEAN]

LastFinished_NotStored(s, last) == sched
LastFinished(s, last) == [sched EXCEPT ![s].last = last]

-----------------------------------------------------------------------------
(* quirk schedule, /api/schedules *)

create_schedule(s) ==
    /\ sched[s].state = "absent"
    /\ Trusts(s)
    /\ sched' = [sched EXCEPT ![s].state = "enabled"]
    /\ UNCHANGED <<clock, runs, proc, server, scanFile, sessions, faults>>

\* The API checks the target when it enables a schedule, the CLI does not:
\* together, an enabling always succeeds.
update_schedule(s, state) ==
    /\ sched[s].state \in {"enabled", "disabled"} \ {state}
    /\ Fault
    /\ sched' = [sched EXCEPT ![s].state = state]
    /\ UNCHANGED <<clock, runs, proc, server, scanFile, sessions>>

RemoveRow(s) ==
    /\ sched[s].state \in {"enabled", "disabled"}
    /\ Fault
    /\ sched' = [sched EXCEPT ![s].state = "removed"]
    /\ UNCHANGED <<clock, proc, server, scanFile, sessions>>

\* The API deletes the runs first, the CLI leaves them behind.
delete_schedule(s) ==
    /\ RemoveRow(s)
    /\ runs' = [i \in DOMAIN runs |->
                  IF runs[i].s = s THEN [runs[i] EXCEPT !.status = "deleted"] ELSE runs[i]]
_cmd_remove(s) == RemoveRow(s) /\ UNCHANGED runs

\* The operator edits the server configuration or the --scan-config file.
EditConfig ==
    /\ Fault
    /\ \/ server' \in Policies \ {server} /\ UNCHANGED scanFile
       \/ /\ scanFile.given
          /\ scanFile' \in {c \in ScanConfigs : c.given} \ {scanFile}
          /\ UNCHANGED server
    /\ UNCHANGED <<clock, sched, runs, proc, sessions>>

-----------------------------------------------------------------------------
(* The loop *)

\* Time passes for a sleeping loop until its minute is over.
Tick ==
    /\ clock < MaxTime
    /\ \/ proc.at \in {"down", "scan"}
       \/ proc.at = "sleep" /\ clock = proc.now
    /\ clock' = clock + 1
    /\ UNCHANGED <<sched, runs, proc, server, scanFile, sessions, faults>>

\* run_scheduler: a file with authenticated mode, or one that cannot be
\* parsed, is refused.
run_scheduler ==
    /\ proc.at = "down"
    /\ ~ scanFile.auth /\ scanFile.readable
    /\ runs' = _recover_stale_runs
    /\ proc' = [Down EXCEPT !.at = "loop", !.since = clock]
    /\ UNCHANGED <<clock, sched, server, scanFile, sessions, faults>>

_check_and_dispatch_due ==
    /\ \/ proc.at = "loop"
       \/ proc.at = "sleep" /\ clock > proc.now
    /\ ~ proc.stop
    /\ proc' = [proc EXCEPT !.at = "visit", !.now = clock,
                            !.todo = Enabled]
    /\ UNCHANGED <<clock, sched, runs, server, scanFile, sessions, faults>>

\* The snapshot is ordered by id.
Visited == Min(proc.todo)

Cleared(p) == [p EXCEPT !.sent = {}, !.audits = {}]
Handled == [proc EXCEPT !.at = "visit", !.todo = @ \ {Visited}, !.run = 0]

\* The snapshot's schedule is not due, or its dispatch ends before the scan:
\* an unreadable server configuration fails the run, without last_run_at.
Skip ==
    /\ proc.at = "visit" /\ proc.todo # {} /\ ~ proc.broken
    /\ LET s == Visited IN
       \/ ~ Due(s) /\ UNCHANGED runs
       \/ /\ Due(s) /\ ~ scanFile.given /\ server = "unreadable"
          /\ runs' = Append(runs, Row(s, "failed", "none"))
    /\ proc' = Cleared(Handled)
    /\ UNCHANGED <<clock, sched, server, scanFile, sessions, faults>>

_dispatch_schedule ==
    /\ proc.at = "visit" /\ proc.todo # {} /\ ~ proc.broken
    /\ LET s == Visited IN
       /\ Due(s)
       /\ IF scanFile.given THEN scanFile.readable ELSE server # "unreadable"
       /\ runs' = Append(runs, Row(s, "running", "on"))
    /\ proc' = [Cleared(proc) EXCEPT !.at = "scan", !.run = Len(runs) + 1]
    /\ UNCHANGED <<clock, sched, server, scanFile, sessions, faults>>

\* load_config raises on the file; the pending row is rolled back and the
\* exception leaves run_scheduler.
DispatchRaises ==
    /\ proc.at = "visit" /\ proc.todo # {} /\ ~ proc.broken
    /\ Due(Visited) /\ scanFile.given /\ ~ scanFile.readable
    /\ proc' = Down
    /\ UNCHANGED <<clock, sched, runs, server, scanFile, sessions, faults>>

\* The scan process leaves a session or not; one that refused its target has none.
LeavesSession(session) ==
    /\ session => ~ Refused(runs[proc.run].s, runs[proc.run].cfg)
    /\ IF session THEN NewSession ELSE UNCHANGED sessions

CutOff(session) ==
    runs' = [runs EXCEPT ![proc.run].life = "cut", ![proc.run].found = session]

\* The scan process ends.  A scan that exits 0 leaves a session; one that
\* fails may have left one.  The finish of the run and last_run_at are one
\* transaction: with the schedule's row gone it raises and the loop dies.
FinishRun(status, session) ==
    LET i == proc.run  s == runs[i].s IN
    /\ proc.at = "scan"
    /\ status = "completed" => session
    /\ LeavesSession(session)
    /\ IF sched[s].state = "removed"
       THEN proc' = Down /\ CutOff(session) /\ UNCHANGED sched
       ELSE /\ runs' = [runs EXCEPT ![i].status = status,
                          ![i].out = IF session THEN "findings" ELSE "empty",
                          ![i].life = "done", ![i].found = session]
            /\ sched' = LastFinished(s, runs[i].at)
            /\ proc' = [proc EXCEPT !.at = "notify"]
    /\ UNCHANGED <<clock, server, scanFile, faults>>

\* After a failed commit of a hook the next schedule of the iteration, or the
\* commit at its end, raises; get_session rolls back and the loop dies.
SessionRaises ==
    /\ proc.at = "visit" /\ proc.broken
    /\ proc' = Down
    /\ UNCHANGED <<clock, sched, runs, server, scanFile, sessions, faults>>

EndIteration ==
    /\ proc.at = "visit" /\ proc.todo = {} /\ ~ proc.broken
    /\ proc' = [Cleared(proc) EXCEPT !.at = "sleep"]
    /\ UNCHANGED <<clock, sched, runs, server, scanFile, sessions, faults>>

\* SIGTERM sets a flag that the loop reads between iterations.
_handle_signal ==
    /\ proc.at # "down" /\ ~ proc.stop /\ Fault
    /\ proc' = [proc EXCEPT !.stop = TRUE]
    /\ UNCHANGED <<clock, sched, runs, server, scanFile, sessions>>
Stops ==
    /\ proc.at \in {"loop", "sleep"} /\ proc.stop
    /\ proc' = Down
    /\ UNCHANGED <<clock, sched, runs, server, scanFile, sessions, faults>>

\* A kill leaves the scan process behind, which may still leave its session.
Killed ==
    /\ proc.at # "down" /\ Fault
    /\ \/ proc.at # "scan" /\ UNCHANGED <<runs, sessions>>
       \/ /\ proc.at = "scan"
          /\ \E session \in BOOLEAN : LeavesSession(session) /\ CutOff(session)
    /\ proc' = Down
    /\ UNCHANGED <<clock, sched, server, scanFile>>

-----------------------------------------------------------------------------
(* The hooks after a scan *)

\* dispatch_notifications looks at the newest session of the database and the
\* one before it, whatever run produced them.
should_notify == sessions.n > 0 /\ sessions.alarm

NotifyNothing ==
    /\ proc.at = "notify"
    /\ ~ should_notify
    /\ proc' = [proc EXCEPT !.at = "siem"]
    /\ UNCHANGED <<clock, sched, runs, server, scanFile, sessions, faults>>

dispatch_notifications ==
    /\ proc.at = "notify"
    /\ should_notify
    /\ runs' = [runs EXCEPT ![proc.run].scan = IF @ = 0 THEN sessions.n ELSE @]
    /\ proc' = [proc EXCEPT !.at = "send", !.left = Channels]
    /\ UNCHANGED <<clock, sched, server, scanFile, sessions, faults>>

\* The commit of run.scan_id can fail; the fan-out goes on in a broken session.
ScanIdNotWritten ==
    /\ proc.at = "notify" /\ Fault
    /\ should_notify /\ runs[proc.run].scan = 0
    /\ proc' = [proc EXCEPT !.at = "send", !.left = Channels, !.broken = TRUE]
    /\ UNCHANGED <<clock, sched, runs, server, scanFile, sessions>>

Delivery(dest, ok) == [dest |-> dest, ok |-> ok]

\* One channel: a failure is noted and the next channel is tried.
AfterSend_StopsOnFailure(dest, ok) == IF ok THEN proc.left \ {dest} ELSE {}
AfterSend(dest, ok) == proc.left \ {dest}

Send(dest, ok) ==
    /\ proc.at = "send" /\ dest \in proc.left
    /\ IF ok THEN UNCHANGED faults ELSE Fault
    /\ proc' = [proc EXCEPT !.left = AfterSend(dest, ok),
                            !.sent = @ \cup {Delivery(dest, ok)}]
    /\ UNCHANGED <<clock, sched, runs, server, scanFile, sessions>>

\* All audit rows are committed at the end, in one transaction.
CommitAudits ==
    /\ proc.at = "send" /\ proc.left = {} /\ ~ proc.broken
    /\ proc' = [proc EXCEPT !.at = "siem", !.audits = proc.sent]
    /\ UNCHANGED <<clock, sched, runs, server, scanFile, sessions, faults>>

\* It may fail, and does in a broken session: a warning, no rollback.
AuditsNotWritten ==
    /\ proc.at = "send" /\ proc.left = {}
    /\ IF proc.broken THEN UNCHANGED faults ELSE Fault
    /\ proc' = [proc EXCEPT !.at = "siem", !.broken = TRUE]
    /\ UNCHANGED <<clock, sched, runs, server, scanFile, sessions>>

\* export_findings sends one event per finding and writes one audit row.
BatchStatus(lost) == lost = {}

export_after_scan_hook(lost) ==
    /\ proc.at = "siem" /\ ~ proc.broken
    /\ runs[proc.run].out = "findings"
    /\ IF lost = {} THEN UNCHANGED faults ELSE Fault
    /\ proc' = [Handled EXCEPT !.sent = @ \cup {Delivery("siem", lost = {})},
                               !.audits = @ \cup {Delivery("siem", BatchStatus(lost))}]
    /\ UNCHANGED <<clock, sched, runs, server, scanFile, sessions>>

\* The commit of that row may fail as well, and does in a session whose COMMIT
\* had failed.
ExportNotAudited(lost) ==
    /\ proc.at = "siem"
    /\ runs[proc.run].out = "findings"
    /\ IF proc.broken /\ lost = {} THEN UNCHANGED faults ELSE Fault
    /\ proc' = [Handled EXCEPT !.sent = @ \cup {Delivery("siem", lost = {})},
                               !.broken = TRUE]
    /\ UNCHANGED <<clock, sched, runs, server, scanFile, sessions>>

\* A flush that failed has expired the run: the hook's read of
\* scan_output_path raises and nothing is exported.
ExportSkipped ==
    /\ proc.at = "siem" /\ proc.broken
    /\ proc' = Handled
    /\ UNCHANGED <<clock, sched, runs, server, scanFile, sessions, faults>>

NothingToExport ==
    /\ proc.at = "siem"
    /\ runs[proc.run].out # "findings"
    /\ proc' = Handled
    /\ UNCHANGED <<clock, sched, runs, server, scanFile, sessions, faults>>

-----------------------------------------------------------------------------

SchedInit ==
    /\ clock = 1
    /\ sched = [s \in Schedules |->
                 [state |-> IF s \in Created THEN "enabled" ELSE "absent", last |-> 0]]
    /\ runs = <<>> /\ proc = Down
    /\ server = "open" /\ scanFile \in {c \in ScanConfigs : c.readable /\ ~ c.auth}
    /\ sessions = [n |-> 0, alarm |-> FALSE] /\ faults = 0

SchedNext ==
    \/ \E s \in Schedules :
          \/ create_schedule(s)
          \/ \E state \in {"enabled", "disabled"} : update_schedule(s, state)
          \/ delete_schedule(s)
          \/ _cmd_remove(s)
    \/ EditConfig
    \/ Tick
    \/ run_scheduler
    \/ _check_and_dispatch_due
    \/ Skip
    \/ _dispatch_schedule
    \/ DispatchRaises
    \/ \E status \in {"completed", "failed"}, session \in BOOLEAN : FinishRun(status, session)
    \/ SessionRaises
    \/ EndIteration
    \/ _handle_signal
    \/ Stops
    \/ Killed
    \/ NotifyNothing
    \/ dispatch_notifications
    \/ ScanIdNotWritten
    \/ \E dest \in Channels, ok \in BOOLEAN : Send(dest, ok)
    \/ CommitAudits
    \/ AuditsNotWritten
    \/ \E lost \in SUBSET Findings : export_after_scan_hook(lost) \/ ExportNotAudited(lost)
    \/ ExportSkipped
    \/ NothingToExport

SchedSpec == SchedInit /\ [][SchedNext]_schedVars

-----------------------------------------------------------------------------
(* Properties *)

\* A scan that a scheduler left behind is closed by the next one: while the
\* loop runs, a row that is still `running' is its own or was younger than
\* the threshold when recovery looked (_recover_stale_runs).
NoZombieRun ==
    proc.at # "down" =>
        \A i \in DOMAIN runs :
            runs[i].status = "running" => i = proc.run \/ runs[i].at + Stale >= proc.since

Launched(i) == runs[i].life # "none"

\* A scan process is started a second time for one firing of the cron
\* expression only if the scheduler was killed while the first one ran, or was
\* ended by the deletion of its schedule: between any other two dispatches of a
\* schedule lies a firing, whatever fails, is edited or restarted in between
\* (_compute_next_run and the last_run_at that _dispatch_schedule commits with
\* the result, before the hooks that may break the session).
EachSlotScannedOnce ==
    \A i, j \in DOMAIN runs :
        (i < j /\ runs[i].s = runs[j].s /\ Launched(i) /\ Launched(j) /\ runs[i].life # "cut")
            => FiresIn(runs[i].s, runs[i].at, runs[j].at)

\* Whatever was edited since the scheduler started or the schedule was created,
\* no recurring scan probes OT/ICS below the cadence floor, and one that leaves
\* a session, although the scheduler may have died meanwhile, had a target that
\* the policy in force at its dispatch allowed: the one of the server, or of
\* the file given as --scan-config, which replaces the server's.  Only such a
\* file makes the server's list be passed over (_materialize_scan_config,
\* enforce_trusted_targets).
ScansHaveConsent ==
    \A i \in DOMAIN runs :
        /\ runs[i].cfg.otics => runs[i].s \notin Fast
        /\ runs[i].found => \/ ~ runs[i].given /\ runs[i].listed
                            \/ runs[i].given /\ runs[i].own

\* The audit log never says more than happened; past the fan-out every
\* configured channel has been tried although others failed, the write of the
\* run's scan id included; the log is complete unless the session is broken,
\* and no scan is started over a broken session, which has lost its audit rows
\* (dispatch_notifications, export_findings, get_session).
AuditIsTruthful ==
    /\ proc.audits \subseteq proc.sent
    /\ (proc.at = "send" /\ proc.left = {}) =>
           \A dest \in Channels : \E ok \in BOOLEAN : Delivery(dest, ok) \in proc.sent
    /\ (proc.at # "send" /\ ~ proc.broken) => proc.audits = proc.sent
    /\ proc.broken => proc.at \in {"send", "siem", "visit"}

\* What scheduler_cmd.py and siem/dispatcher.py say of both hooks: a failure of
\* theirs never propagates into the scheduler.  A step that ends the process
\* after a failed commit is then an operator's kill.
HookFailureStaysInHook ==
    [][(proc.broken /\ proc'.at = "down") => faults' = faults + 1]_schedVars

\* What the comment in _compute_next_run says: a schedule that never ran is
\* due as soon as an iteration sees it.
NeverRunIsDue ==
    [][\A s \in Schedules :
         (Skip /\ Visited = s /\ sched[s].last = 0 /\ server # "unreadable")
            => Due(s)]_schedVars

\* What models.py says of scheduled_runs.scan_id: null until the scan completes.
ScanIdMeansCompleted ==
    \A i \in DOMAIN runs : runs[i].scan # 0 => runs[i].status # "failed"
=============================================================================
