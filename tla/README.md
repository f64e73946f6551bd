# A TLA+ verification project for QU.I.R.K

QU.I.R.K scans networks, clouds, devices and code for cryptography that a
quantum computer would break, scores what it finds, keeps track of it from scan
to scan and reports it. This directory models the program from the probe to the
ticket: what the scanners write for each way a target can behave, how a scan
survives being killed, how findings become a score and a bill of materials, and
every part that keeps state between processes. Every module is translated from
the code under `quirk/` and `run_scan.py`; `PROJECT.json` maps each definition to
its lines.

## The system

| Part | State it keeps | Operations | What is hard about it | Modules |
|---|---|---|---|---|
| Sensor agent (`cli/sensor_cmd.py`) | spool directory, exit code | `push`, `export-results` | retries, a bounded spool, a non-atomic file write, death at any point | SensorAgent |
| Console ingest (`routes/sensor.py`, `cli/console_cmd.py`), sensor authentication, enrolment | `sensors`, `sensor_tokens`, `sensor_pushes`, `crypto_endpoints`, `integration_deliveries` | `POST /api/sensor/push`, `import-results`, `enroll`, `revoke-sensor` | duplicate deliveries, two commits in one push, several writers on one SQLite file, a token revoked while its push is served | ConsoleIngest, PushPipeline, PushContract |
| Fleet merge (`routes/sensor.py`, `merge/scan.py`) | `merge_runs`, background tasks | trigger, `run_auto_merge`, `quirk sensor merge` | a merge that reads while pushes commit, tasks that live in memory | AutoMerge |
| Scan jobs (`routes/jobs.py`, `api/app.py`, `cli/job_progress.py`) | `scan_jobs`, Popen handles, scan processes | create, poll, cancel, start-up sweep, the scan's own writes | four writers of one status, stale reads, restarts | ScanJobs |
| Scan orchestration (`run_scan.py`) | `scan_checkpoints`, `crypto_endpoints`, `scan_phase_records`, batch cache | discovery, the stages, persist, reports, `--resume-scan-id` | what a killed scan has stored, what a resumed one takes as done | ScanPhases, ScanRun |
| Scanners and connectors (`scanner/`) | none beyond the rows they return | one probe per target | targets that fall silent, refuse, answer in part or on another transport | NetworkProbes, IdentityProbes, CloudProbes, ApiProbes, DeviceProbes |
| Findings, evidence, score (`engine/findings_evaluator.py`, `intelligence/evidence.py`, `scoring.py`), CBOM (`cbom/`) | none: functions of the rows | `evaluate_endpoints`, `build_evidence_summary`, `compute_readiness_score`, `build_cbom` | caps, averages and ceilings that interact; absence of evidence; two passes that must agree on names | Endpoints, Findings, Evidence, Score, Cbom, Assess |
| Scheduler and schedules (`cli/scheduler_cmd.py`, `cli/schedule_cmd.py`, `routes/schedules.py`), notifications, SIEM export | `scheduled_scans`, `scheduled_runs`, `integration_deliveries` | add, enable, disable, remove, dispatch, recover, notify, export | a crash between dispatch and `last_run_at`, rows changed under a loop that waits for hours, one failing channel | Scheduler |
| Hardware history (`scanner/hardware_drift.py`, `models_util.py`) | `hardware_devices`, drift events, vendor trends | `persist_and_reconcile` of a scan, a check-in and a push | N-of-M comparison over partial and late readings, two writers, retention | HardwareHistory |
| Closure (`intelligence/closure.py`, `scope_signature.py`, `remediation_persist.py`) | remediation items and findings per scan | detect, carry, close, resurface, reclose | a finding that was not looked for is not closed | Closure |
| Ticketing (`ticketing/`, `cli/ticket_cmd.py`) | issues of the tracker, the delivery ledger | `quirk ticket create` | calls that fail after they took effect, repeated and concurrent runs | Ticketing |
| QRAMM (`qramm/`, `routes/qramm.py`) | sessions, answers, scores | create, profile, answer, bulk save, bridge, score, delete | handlers that read and commit later, reused ids | Qramm |
| Reports, compliance tables, dashboard views, middleware, configuration, frontend | none | formatting, read-only views | reached by unit tests | not modelled |

How they interact: a scan process runs its phases over the targets, flushes rows
after each stage and writes checkpoints; the same process then evaluates, scores
and reports, and writes the remediation history. Scans are started by hand, by
the dashboard as child processes, by the scheduler one after the other, or by a
sensor host, which POSTs the result to the console in an envelope or hands it
over as a `.qpush` file. All of them write to one SQLite database. Tickets and
SIEM events are taken from the findings file of a scan.

What makes each part correct:

* agent: nothing is lost silently, the exit code is true, the spool is bounded,
  a push ends;
* console: an envelope is stored at most once by whatever path it comes, and
  what the sensor is told is true, because it deletes its copy on the strength
  of it; both together: what the sensor gave up is stored, what is stored was
  sent;
* merge: it has the whole fleet it was triggered for, shows only what is stored,
  and happens;
* jobs: no job is called dead that recorded its own end, a cancelled job stops,
  and no job stays `running` for good;
* scan: what a checkpoint calls done is stored, nothing is stored twice, a
  report accounts for what was not looked at;
* assessment: a weakness that a target showed is reported and never pays,
  silence is not evidence, a stricter profile never flatters, the bill of
  materials has every key;
* scheduler: one scan process per firing unless the scheduler is cut off from it,
  no run left `running`, a session only for a target that the list in force
  allows, a ledger that never says more than happened;
* hardware: settled changes are events, once, only confirmed readings count, and
  a probe that hears nothing replaces no answer (kept outside the SNMP phase);
* closure: nothing is closed that was still there (kept while the signature is
  the scan's own), nothing is forgotten before it is closed;
* ticketing: one issue per finding, honest audit rows; QRAMM: a score shown as
  current was computed from the questions that are answered, and no answer is
  taken back.

`PROJECT.json` lists the hazards behind these, line by line.

## Modules

**PushTypes** holds what both sides of the pipeline share: identities, envelopes
and the clock. An envelope is its `payload_id`; two functions say whose it is
and whether it carries hardware devices, the only two things in its body the
ingest path distinguishes.

**ConsoleIngest** is the ingest path. A request goes through the handler's steps
(`idle`, `reading`, `waiting`, `inserted`, `committed`, `answering`, `done`); the
steps are separate where another process can write, or the console can die, in
between. `lock` is SQLite's write lock, held from the first INSERT to the
COMMIT. Rows of an open transaction are not in the database variables, so a
rollback is a step that leaves them alone. Because `sensor_push` is an
`async def` that awaits nothing once it has the body, only one request is past
that point (`LoopFree`); the CLI processes do interleave with it. With devices
in the envelope `persist_and_reconcile` commits the caller's session, so a push
is committed before its audit row (`PersistHardware`, then `CommitAudit`);
without devices both are one commit (`CommitWithAudit`). Either commit may fail
(`CommitFails`, `CommitAuditFails`, `ImportHardwareFails`). `ConsoleNext` lets
any bearer of any token send any envelope at any time. The digest of a token and
the signature over a body are abstracted to what they establish.

**SensorAgent** is one sensor host. `job` is the running push: the flush of the
spool, then its own envelope, each POSTed up to `MaxTries` times. `spool` is the
directory in mtime order; `Evict` is `_evict_if_full`. A kill while a spool file
is written leaves a torn file. The outcome of a POST is a free choice.

**PushPipeline** joins the two: the agent's POSTs are the console's requests,
over connections that fail, time out while the console goes on, or are cut.
**PushContract** is the promise it is shown to implement: an envelope is built
once, is stored at most once, and leaves the sensor's keeping only when it is
stored, evicted or lost with a process that was killed.

**AutoMerge** extends ConsoleIngest with the trigger evaluated after a push's
commit, the background task with its re-check, the stamp and the union of
`merge_scan`, and the manual merge. Stamp, read and commit are three steps.

**ScanJobs** has a row, a scan process and perhaps a Popen handle per job, and a
set of handler threads. A poll is three steps (read the row, reap the process,
guarded UPDATE) and a cancel is three (read, SIGTERM, write), so that all can
interleave with the scan's own unguarded writes. `create_job` inserts, starts the
scan and only then commits; a scan that looks earlier finds no row. `Faults`
names the writes whose commit may fail. A submission refused by the gates before
the insert changes nothing and is left out; one refused after it (configuration,
credentials, spawn) rolls the insert back (`HandlerFails`).

**ScanPhases** is the table of the scanner phases: the gates by which each may
skip itself, the protocol of its rows, and what its stage's resume branch takes
back. **ScanRun** is `run_scan.main` over that table, process after process:
batches with their cache files, inventory, stages with flush and checkpoint, the
final merge, phase records and reports. An endpoint is known by the phase that
found it, its protocol and where; objects in memory are `transient` (merging
inserts) or `persistent` (merging updates), which is what decides about double
rows. Writes fail silently where the code swallows the error. The liveness
pre-pass may fail as a whole (`blind`): the batch is then dispatched with every
target, and a cache file says with `whole` that it was written by such a process,
since its key covers the targets that were dispatched.

**NetworkProbes, IdentityProbes, CloudProbes, ApiProbes** give for each scanner
the rows it writes for each behaviour of its target: a target is a record of how
it answers, fall-backs and retries are in the operator. **Endpoints** is the row
they share, with the classes of value its readers tell apart. **Findings**,
**Evidence**, **Score** and **Cbom** are the functions of the rows: the rules of the
evaluator, the counters, the domains with weights, curve, caps, ceilings and
profiles (in fixed point, so that the rounding is the code's), and the passes of
the CBOM builder with its classifier. **Assess** composes them: targets are probed
in the order of the phases, each behaves as it likes, and the report is what the
scan would say if it ended there.

**Scheduler** has the table of schedules, the runs and the loop: `at` says where in
it, `todo` which rows of the snapshot it has still to visit, in order of their id;
it goes by the snapshot, since its sessions do not expire what they loaded. The
clock counts minutes and runs while the loop sleeps or waits for a scan.
Operators change schedules, the server's list and the configuration file at any
time; deliveries and their ledger rows are separate steps. An iteration has one
database session, and its hooks swallow a failed commit without a rollback:
`broken` stays set, every later use of the session raises, a raise inside a hook
is swallowed as well and one outside it ends the loop (`SessionRaises`). The
scan process judges its target by the configuration it is given, and a file
passed as `--scan-config` is the whole configuration: its own list (`trusts` in
`ScanConfigs`) replaces the server's. Authenticated mode is refused when the
scheduler starts and taken out of every configuration it writes. A run row has, beside its columns, a history
that no guard reads: `life` (whether its process was started and whether the
scheduler saw its end), `found` (it left a session), and `given`, `own` and
`listed` (a file was given, it allowed the target, the server's list did).
Schedules of hardware check-ins take the same path and are not told apart.

**DeviceProbes** gives the device row for each behaviour of a device;
**HardwareHistory** appends batches of them from a process `cli` (scan or
check-in) and a process `console` (pushes), with one step per query and commit.
`events` keeps every drift event ever inserted and `live` the ids still in the
table, which is what the code's queries see. `disturbed` names the devices for
which a comparison was lost or ran beside another one, which the code does not
repair and two properties except. A row's `heard` is history: whether the device
said anything to the probe, which is not what `probe_status` says for the rows of
the SNMP phase.

**Closure** follows two findings of one host:port over scans: the estate changes
freely, a scan sees it through probes that time out, fall back, are skipped or
are answered from the cache, and may die between its three writes. `signature` is
the persisted row of the scan: the probe health that closure reads, and whether
another process of the same scan wrote it (`stale`, history). **Ticketing**
has two runs, one tracker and its ledger. **Qramm** has sessions with SQLite's
rowids and one pending commit per handler. **Desk** puts the three side by side
for one run: they share no table, so a behaviour works at one of them.

**MCConsole, MCSensor, MCPipeline, MCMerge, MCJobs, MCScan, MCScheduler, MCAssess,
MCHardware, MCDesk** give the constants their values. **ConsoleIngestProofs,
PushPipelineProofs, ScanJobsProofs, ScanRunProofs, SchedulerProofs, AssessProofs,
HardwareProofs, DeskProofs** hold the theorems about the module each is named for;
those of PushPipeline begin with SensorAgent's and end with AutoMerge's, and those
of Desk cover Closure, Ticketing and Qramm.

Definitions named `X_Something` next to `X` are deliberately wrong variants of
`X`: each property is violated when its variant takes the place of `X`.

## Runs

| Run | Instance | Shows |
|---|---|---|
| `console` | two envelopes of one sensor, with and without devices, two sensors' tokens, two connections, one import, two instants and a replay window of zero | stored once, answers and ok audits true, the ledger append-only, types |
| `sensor_push` | four envelopes, a spool of three files and three bytes (one envelope fills it), two tries | spool bounds, no silent loss, true exit codes, files leave only when accepted or evicted; a push ends |
| `pipeline` | one sensor, two envelopes, two connections, import, a spool of one file, two instants and a replay window of zero | what is deleted is stored, `last_push_at` is the time of a stored push, the contract is implemented |
| `merge_fleet` | two sensors with one push each, two connections, one manual merge | the whole fleet is in a merge, only stored pushes are |
| `merge_live` | one sensor with two pushes | a triggered merge happens |
| `jobs` | two jobs, two threads, every commit may fail | polls tell the truth, cancels stop scans, no job stays running unless the write that would settle it failed |
| `scan_run` | two batches, TLS, SSH and HTTP ports, three connectors (restored, not restored and following TLS), three faults, two resumes | completed stages are stored, one row per finding, the report accounts for the estate, no batch is lost |
| `scheduler` | two schedules that share a firing, four minutes, two faults, two channels, two findings, four states of the configuration file | no zombie run, one scan process per firing unless the scheduler was cut off from it, consent by the list in force, a ledger that never says too much |
| `assess` | two ports and one named service, every two probes in the order of the phases; targets vary in a few traits at a time | a weakness is reported and never pays, silence opens nothing, the score never flatters, the bill is complete |
| `hardware` | four devices on three routes, three batches on days before and after an end of life, one fault | events follow the history, nothing unconfirmed is told, a device's answer gives way only to a newer answer, to retention or to a row of the SNMP phase |
| `desk` | one host:port with two findings over three scans of two scopes, three mishaps by the end of the second; two ticket runs over two findings files; two QRAMM sessions over three questions | what reads closed is gone, unless a resumed scan could not replace the signature of the process before it, and what is not closed is tracked; one issue per finding and a right ledger; scores cover the answered questions, which stay |

`scan_resume` ends in the violation it expects: a resumed scan loads the rows of
its completed stages back by `scanned_at` within the first second of the scan id,
skips those stages, and writes a report without what they had found.

### Claims the code does not keep

Comments and documentation say more of the code than it does in the following
places. Each claim is stated in its module; adding it to the cfg named makes TLC
print a counterexample.

| Claim | Said by | What the model shows | cfg |
|---|---|---|---|
| `LaterDeliveryPossible` | `sensor_cmd.py`: spool for later delivery | a spooled envelope is refused once the replay window has passed | MCPipeline |
| `NoOpIsCovered` | `routes/sensor.py`: no-op if a merge already covers the latest pushes | a push stamped before a merge and committed after its read is taken for merged | MCMergeFleet |
| `ImportReportIsTrue` | `console_cmd.py`: operator confirmation of what was ingested | a failed hardware commit rolls the import back, the summary is printed | MCConsole (without its VIEW) |
| `TerminalIsFinal` | `models.py`: status lifecycle of a job | `cancelled` is written over `completed` | MCJobs |
| `NeverRunIsDue` | `scheduler_cmd.py`: guaranteed to be due | only if its expression fires within the last two minutes | MCScheduler |
| `ScanIdMeansCompleted` | `models.py`: null until the scan completes | a failed run has a scan id | MCScheduler |
| `HookFailureStaysInHook` | `scheduler_cmd.py`: a failing hook must never propagate into the scheduler | a failed commit of an audit row is swallowed without a rollback, and the next dispatch, or the commit that ends the iteration, raises out of the loop | MCScheduler |
| `OneAnomalyIsNoDrift` | `operators-guide.md`: one anomalous reading is no drift event | the reading after it is confirmed by the one before it | MCHardware |
| `SilenceDisplacesNothing` | `models_util.py`: a failing re-probe never displaces the last good state | a device that had answered says nothing to the SNMP phase, whose row reads vendor `Unknown` and `success` all the same | MCHardware |
| `NoFalseClosure` | `closure.py`: a claim of remediation that never happened is prevented | a scan's snapshot fails, it signs and dies, its rows are lost; the resumed one sees nothing, saves its snapshot, cannot sign, and closes a finding that is still there on the health the first one had signed | MCDesk |
| `RegressionIsLegible` | `closure.py`: closed, resurfaced, reclosed | a resurfaced finding that a second scan still finds is `open` there, and its closure is recorded as a first one | MCDesk with one finding, five scans and as many bounds in `MCMishaps` |
| `IdentityNeedsEvidence` | `scoring.py`: assessed iff real evidence | rows of failed S/MIME and AD CS probes open the domain | MCAssess |
| `TopNeedsHybrid` | `scoring.py`: no top score without a hybrid exchange | on a host whose OpenSSL lacks ML-KEM the advisory that says so counts as an observed exchange | MCAssess |
| `RecommendedKeyIsAccepted` | `findings_evaluator.py`: switch to ECDSA P-256 | a SAML certificate with that key is CRITICAL | MCAssess |
| `ClassicalKeyIsVulnerable` | `cbom-guide.md`: ECDSA is quantum-vulnerable | the classifier does not know the name with its size | MCAssess |
| `ErrorMeansNothingSaved` | `ticket_cmd.py`: no audit records were saved | the rows before the failed commit were | MCDesk |

Two smaller ones are stated as they are in the models: the audit row is not
always committed with its push (`PersistHardware`; the `console` run and the
proofs show what still holds), and the byte limit of the spool may be exceeded
by its newest file (`SpoolBounded` says exactly that).

**Exceptions written into properties.** A property that the code keeps but for one
known hole says so rather than hide it: `CompletedStagePersisted` excepts the
code-signing rows, which the flush of their stage leaves out;
`ReportAccountsForEstate` speaks of uninterrupted scans; `CertificateRefsResolve`
excepts code signing and the two clouds whose first pass leaves the key size out;
`KeysAreCatalogued` excepts DNSSEC in its second half; `NoDuplicateTicket` the
findings that two runs looked up at once; `CancelStopsScan` a scan that a sweep
had given up. These leave a hazard partly or wholly uncaught:

* `CompletedStagePersisted` speaks of stages whose flush succeeded: a stage whose
  flush fails is checkpointed all the same, and a kill then loses its rows.
* `EachSlotScannedOnce` excepts a scan that its scheduler was cut off from, killed
  or ended by the deletion of the schedule: its firing is dispatched again.
* `ScansHaveConsent` judges a session by the list of the file when one is given:
  that list replaces the server's, which then has no say. Authenticated mode is
  in no clause: it is taken out of whatever configuration is written.
* `ClosureIsSound` excepts what `NoFalseClosure` shows; `TrackedUntilClosed` a scan
  between for which closure was not computed, as with two scopes in alternation,
  where the finding of one is forgotten by the next scan of its own scope.
* `FleetKeepsGoodState` excepts the rows of the SNMP phase, as
  `SilenceDisplacesNothing` shows.
* `AuditIsTruthful` excepts, from being complete, a log that a broken session cut
  short; `HookFailureStaysInHook` shows what becomes of that session.
* `NoRepeatedEvent` and `SettledChangeIsRecorded` except the `disturbed` devices:
  a comparison that is killed, fails or overlaps another one may lose a change or
  tell it twice, and nothing repairs it.
* `TriggeredMergeHappens` excepts a task that dies with the console: the merge then
  waits for the next push.
* `LastPushIsStored` says that the stamp is that of a stored push, not of the newest:
  an import that takes its time and then waits for the write lock moves it back.
* `ScoreCoversAnswers` compares which questions are answered: an answer changed
  while it is scored goes unnoticed, as the code means it to, and so does what
  happens to a score that a reused id received. `AnsweredStaysAnswered` does not
  see an answer that a save in flight adds to a session with a reused id.
* `ReportAccountsForEstate` covers the ports and the batches; a connector that
  raises or lacks its package is accounted for in its phase record only.

Several invariants are conjunctions of named parts (`ClosureIsSound`,
`LedgerIsRight`, `BillIsComplete`, `ScoreNeverFlatters`, `EventsFollowHistory`,
`OnlyConfirmedIsTold`, `MergeIsFaithful`). `AgentTypeOK`, `MergeTypeOK` and
`JobsTypeOK` document the state; all three are proved.

**Bounds.** `MaxTime` caps clocks, `MaxFaults`, `MaxFailures`, `MaxMishaps` the
number of failures and kills, `MaxResumes`, `MaxScans`, `MaxJobs`, `MaxSessions`,
`MaxEdits`, `MaxManual` and `MaxProbes` the repetitions that would go on for ever.
In the pipeline, times matter only through the replay window, the order of two
stamps and their equality, for which two instants with a window of zero give both
sides of every comparison. Two connections are
enough for one request to race another and both to race an import. A spool of
three files with four envelopes evicts by count and by size. Two resumes with
three faults let a flush fail, the process die and the resumed one die as well.
Four minutes with two firings of one schedule and a stale threshold of one
minute let a run become stale, or stay just young enough, before the next
scheduler starts. Three batches beside the stored first readings fill the
three-row window with every mix of an old, a changed and a late reading. Three
scans are what closing, resurfacing and reclosing take; the
second may meet the three mishaps (a snapshot, the process, a signature) after
which a resume judges by a signature that is not its own, and a history that goes on
to a third has one. Two probes are one more
than the score's per-row rules need and what its averages and ceilings need.
Connections, jobs, threads and scopes are interchangeable where symmetry is used,
which is only in runs without liveness. The views of `console` and `merge_fleet`
leave out variables that no guard and none of the properties of the run reads.

**Deadlock** is checked in `console`, `merge_fleet`, `merge_live` and `jobs`; in
the others envelopes, time, probes or scans run out.

**Fairness.** Agent: a process that was started goes on until it ends or is
killed, and every POST has an outcome (httpx has timeouts). Merge: a thread that
runs a merge is scheduled, and the handler that holds the write lock awaits
nothing. Jobs: scans end (their stages have timeouts), a handler goes on or gives
up waiting for the write lock (weak fairness of one or the other, never of
success), a stopped API is started again by its service manager, and the job's
page keeps polling; a poll gets a thread although others want one because the
pool's queue is served in order (strong fairness). Nothing assumes that a commit
succeeds, a message arrives or a crash does not happen; `JobIsSettled` says which
failed write (`lossy` in MCJobs) it cannot survive.

## Proofs

Every invariant and every action property that a passing run checks is also a
theorem. The theorems hold for every number of sensors, envelopes, connections, jobs,
threads, batches, phases, schedules, places, services, questions and files, and for
every bound of clocks, faults, probes and repetitions: each run checks them on one instance. They assume
what the modules state under ASSUME, which is that constants have their types,
that special values are not members of the sets they stand beside, and of the
catalogues what the code holds them to: questions are finite and have unique
numbers, answers are 1 to 4 (as `qramm.py` validates), findings files are
sequences of findings a ticket can be made from, a scope is never the missing
signature. TLC evaluates the assumptions in each run.

None of the properties is inductive. Every proof module therefore starts with an
invariant that says what each process knows at each of its steps; it was checked
by TLC on the run's instance before it was proved, is shown to hold initially and
to be kept by each action, and gives the properties at once.

*ConsoleIngestProofs.* To know that a commit does not store an envelope twice one
must know that the transaction's INSERT found no row and that nobody could insert
one since. `ConsoleInv` adds this: a request or import in `inserted` holds the lock
and its envelope is not stored (`RequestInv`, `ImportInv`); one in `committed` or
`answering` has its envelope stored, and in `answering` its audit row as well.
From it follow `ConsoleTypeOK`, `IngestedOnce`, `AnswerIsTruthful`,
`OkAuditIsTruthful` and `LastPushIsStored`, and the action property
`LedgerAppendOnly`.

*PushPipelineProofs, the sensor.* `AgentInv` joins to `SpoolBounded`, `NothingLostSilently` and
`ExitIsTruthful` what the push command knows: the envelope in hand is nowhere
else, the files it has yet to send are distinct and still in the spool, it waits
only for an answer about a file it has (`JobInv`); and that whatever is anywhere
was built, an exported envelope never pushed (`TraceInv`). `_evict_if_full` drops
the oldest files one by one until the rest fits; that the byte count of a spool is
the sum over its files, and shrinks with each, is shown with the least number at
which it would fail, for want of an induction over sequences. The action property
`LeavesOnlyWhenAccepted` follows.

*PushPipelineProofs, the pipeline.* A step of the pipeline is a step of the sensor against some
network together with a step of the console against some client, or leaves one of
them alone: the pipeline implements `AgentSpec` and `ConsoleSpec`, so their
invariants hold of it without being proved again. What is new is the connection
(`ConnInv`): the request the sensor waits for is about the file it is sending. From
it follow `DeliveredIsStored` and, step by step, that the pipeline implements
`PushContract`: for each action either a step of the contract or a stutter.

*PushPipelineProofs, merging.* To the ingest path a merge is invisible, so `ConsoleInv` and the
append-only ledger carry over. Rows of the ledger never go away: what a task knew
when it was triggered, and what it read since, still holds when it writes its row
(`TaskInv`), although pushes commit all the while. That gives `MergeIsFaithful`.

*ScanJobsProofs.* `JobsInv` says what each writer may rely on although the row it
read is old: a thread that has reaped a scan knows that it is dead for good; a
row with a recorded end is never `running` again, because the only write of
`running` is committed before the scan can see the row (`CallInv`, `OneInsert`);
and every terminal row's scan has ended or was given up by a sweep (`RowInv`).
From it follow `JobsTypeOK`, `PollVerdictIsTrue` and `CancelStopsScan`.

*ScanRunProofs.* Four properties of `run_scan.main`, over every table of enabled
phases, every estate, and any number of kills, resumes and failed writes.
`StoredInv`: an object with a primary key has its row, and a stage that has flushed
well has left nothing transient but code signing when it comes to its checkpoint;
hence `CompletedStagePersisted`. `CountInv`: the rows of an endpoint and the object
the final merge would still insert are together no more than the times it was
found; it is what a flush, a restore and the merge have to keep among them, and
implies `OneRowPerFinding`. `CoverInv`: the batches behind the sweep are among the
targets or known to have failed, in memory or through the cache; hence
`NoBatchLost`. `AccountInv`: in a scan that was not resumed every target is an
object in memory or the error of its phase from its stage on; hence
`ReportAccountsForEstate`.

*SchedulerProofs.* `SchedInv`: the loop has a run in hand from its dispatch to its
export, which is the newest row (`ProcInv`); a row was written in the past, and
its configuration refuses a target that the list in force excluded (`RowInv`);
`last_run_at` is no older than any scan that the scheduler saw end (`LastInv`), so
that whatever is due fires after each of them; and a scan process that runs, and
that the scheduler was not cut off from, is the one in hand (`ScanInv`). A broken
session outlives only the fan-out and the visit after it (`HandInv`), which is why
no run is started over lost audit rows. The four invariants of the run are proved: `NoZombieRun`,
`EachSlotScannedOnce`, `ScansHaveConsent`, `AuditIsTruthful`.

*AssessProofs.* The state of an assessment is a list of rows, and its properties are
about functions of that list: the findings, the evidence, the score, the bill of
materials. Two things are needed about the rows, and `EstateInv` says them. A row has
a shape (`RowFits`): only TLS and code signing write certificates, a blocker is on a
TLS row or on a silent mail port, a serial number belongs to one key, an algorithm
the bill must have is on a row whose protocol puts it there. It is shown of what
each of the two dozen scanners writes for each answer of its target. And a port
that was fingerprinted has one protocol (`PortFits`), so that HTTP and TLS rows are never
about one place and what `_postprocess_findings` makes of a finding depends on the
finding alone. The third part is `WeaknessIsReported`, inductive because a
row that is appended keeps what the rows before it count and yield.

From there everything is about rows, for every list of them. `BillIsComplete`:
the pass that registers a key and the one that refers to it compute the same
name, scanner by scanner. `StrictNeverFlatters`, `WeaknessNeverPays` and
`UnreadKeyNeverPays` are one argument: an estate is `Worse` than another when it assesses the
same domains, counts no less under each charged name, earns no more and has no higher
ceiling, and the score follows (`WorseScores`) because each step to it is
monotone. The steps have lemmas of their own: the integer square root of the curve (`RootMonotone`),
sums over the weights (`TotalMonotone`), rounding a half to the even neighbour
(`RoundMonotone`), clamping, the average and the compression under the ceiling
(`ScoreFollows`). More rows are worse (`CountsGrow`, `SeveritiesGrow`, `CreditsFall`);
so is a certificate whose key could not be read than the same one with an RSA
key, which adds a MEDIUM finding that no ceiling counts and was charged already
(`RenamedNeverPays`). Under a stricter profile the terms of a domain and its credits are multiplied
alike; if they add up to a credit the domain is full under every profile
(`StricterIsLower`). `SilenceOpensNothing`: no counter that opens a domain comes from a silent row;
and `_identity_assessed`, which compares the number of identity rows with the
placeholders and failed probes of Kerberos, is true exactly when some row is neither
(`IdentityIs`), so that rows of that kind cannot open the domain.

The sums are recursive functions over the length of a sequence. That they are defined
at every length (`IteratesExist`) and what holds of them at every length
(`TotalMonotone`) is proved by the least length at which it would fail.

*HardwareProofs.* `HwInv` says why a comparison that reads, and writes later,
misses no change and repeats none. Timestamps are given once and the days of
later ones are not earlier (`StampInv`), so the window of a device is decided and
what retention removes are its first events and rows. A process that goes to write
holds events about the newest reading, at most one of a type, none of them stated
by the most recent one of the table; with them every change of the window is on
record (`CandInv`, `CandFits`), which stays true because nobody else compares that
device, or else it is `disturbed` (`OrderInv`). A device nobody is comparing has its
changes on record (`RecordInv`, `Recorded`). The delicate step is a commit that is
late or that purges: rows may then arrive that are older than the last event.
`OrderInv` therefore also says that a device has a reading as new as each of its
events, or has lost it to retention and has at most one reading from before, so
that an old reading cannot be confirmed a second time. From it follow
`EventsFollowHistory` (a window of four has the window of three in it) and, as
action properties, `FleetKeepsGoodState` and `OnlyConfirmedIsTold`: a success
outside the SNMP phase is a device that was heard, for each of the probes, for the
batches in hand or spooled and for the table (`HeardInv`); the rows of a
vendor's fleet are of distinct devices, so two votes are two devices; and what a
process alerts about was on record when it found it (`StepInv`).

*DeskProofs.* Ticketing: equal issues in a tracker, and a run about to create one
that is there, come from lookups that overlapped (`LookupInv`); what a run has
passed is in its pending or saved rows, and those are about issues that exist
(`Place`, `Verdict`, `Progress`, `AuditIsHonest`). QRAMM: sessions are told apart by
their time of birth although ids are reused, and a score in a request's hands
covers a part of the answers of the session it was computed for, whoever has its
id now (`SessionsInv`, `RequestInv`, `SavedScoreInv`); `AnsweredStaysAnswered` is an
action property. Closure: only a signed scan was compared, and what reads closed
is closed on a signed scan at or after it (`HistoryInv`); a row is carried on only
from a scan that did not count (`NewestInv`); the process found what its probes
could show (`ProcessInv`); the health in the signature row is the one this process
assessed, unless it failed to replace an older row (`SignatureInv`), which is the
exception that `ClosureIsSound` makes; and a finding is followed from scan to scan
(`TrackedAt`), the one part that needs an argument over the length of the history.

**Only model-checked.** Liveness: `PushTerminates`, `TriggeredMergeHappens` and
`JobIsSettled`; liveness under fairness and ENABLED are out of the prover's reach. The
violations of `scan_resume` and of the claims above are counterexamples. What is computed for particular
data, such as the score of one estate, is evaluated by TLC and not stated as a theorem.

## Not modelled

* Reports (HTML, DOCX, PDF), printed summaries, the interactive wizard and the
  user-acceptance runner: formatting and layout.
* Read-only dashboard routes, trends, roadmap, exposure map, burndown and score
  lift: views of what the models write; they change nothing.
* Compliance and CMVP tables, QRAMM's question texts, vendor and CVE catalogues
  beyond the entries the instances use: data.
* Bytes of the probed protocols, CEF, syslog, mail and webhook transports,
  CycloneDX objects: encodings no property is about.
* Middleware (session, CSRF, rate limit) and configuration parsing: checks of one
  request or file each, no state between two.
* Schema migration at start-up.
* A second scheduler process on one database, a second push process on one
  sensor host, Jira's index lag: no actors of the models.

Hazards met while reading that no property is about, beside the claims above:

* `sensor_cmd.py:824`: the fresh envelope is stamped before the spool is flushed,
  so a long flush can push it out of the replay window as well; `:811`: a failed
  local scan is only warned about and its empty envelope is pushed.
* `run_scan.py:2288`: when loading the resume state fails the scan starts afresh
  under the same scan id.
* `scheduler_cmd.py:415`: deleting a schedule during its scan makes the commit
  raise and ends the scheduler; `notify/dispatcher.py:119`: a run that failed
  before it stored a session is announced with an earlier one.
* `hardware_drift.py:123`: the end-of-life state is computed with today's date for
  old rows too, so that passing the date is never a change.
* `dnssec_scanner.py:318`: a timeout of the DNSKEY query reads like an unsigned
  zone; `aws_connector.py:389`: what a bucket refuses to describe leaves no row.
* `routes/qramm.py:407`: two saves of one question in flight insert two rows, and
  the next save of it answers 500.
