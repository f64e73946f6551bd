------------------------------ MODULE ScanJobs ------------------------------
(***************************************************************************)
(* Scan jobs: scan_jobs rows (models.ScanJob), the handlers of /api/jobs   *)
(* (routes/jobs.py), the sweep at API start-up (api/app.py) and the scan   *)
(* process each job stands for, which writes its own row                   *)
(* (cli/job_progress.py, called from run_scan.py).                         *)
(*                                                                         *)
(* Four writers change a row's status without knowing of each other: the   *)
(* scan process, a status poll that finds the process dead, a cancel, and  *)
(* the sweep.  Handlers are plain functions that FastAPI runs in a thread  *)
(* pool; what one reads may be stale when it writes.  A scan is not killed *)
(* by the end of the API that started it, but the Popen handle is.         *)
(***************************************************************************)
EXTENDS Naturals, FiniteSets

CONSTANTS
    Jobs,       \* job_ids
    Threads,    \* handler threads of the API
    NoJob,      \* the job of an idle thread
    Faults      \* the writes whose commit may fail (`database is locked')

Write == {"create", "scan", "poll", "cancel", "sweep"}

ASSUME JobsAssumption == NoJob \notin Jobs /\ Faults \subseteq Write

VARIABLES
    status,     \* scan_jobs.status; "absent": no committed row
    blame,      \* who wrote scan_jobs.error_message, if anyone
    scan,       \* the scan process: none, scanning, returning, dead
    recorded,   \* the terminal status the scan committed to its row
    handles,    \* jobs with a Popen handle in _PROCS
    api,        \* the API server: up, down or sweeping
    stale,      \* the rows the sweep has read
    call        \* what each handler thread is doing

jobsVars == <<status, blame, scan, recorded, handles, api, stale, call>>
rowVars == <<status, blame>>
serverVars == <<handles, api, stale>>

Terminal == {"completed", "failed", "cancelled"}
Status == {"absent", "running"} \cup Terminal

Call == [op : {"idle", "inserted", "spawned", "polling", "reaped", "cancelling", "killed"},
         job : Jobs \cup {NoJob}, seen : Status]
Idle == [op |-> "idle", job |-> NoJob, seen |-> "absent"]

Doing(t, op) == api = "up" /\ call[t].op = op
Go(t, op, j, seen) == call' = [call EXCEPT ![t] = [op |-> op, job |-> j, seen |-> seen]]
Return(t) == call' = [call EXCEPT ![t] = Idle]

(* Between the INSERT of create_job and its COMMIT nobody else can write. *)
Inserting(t) == call[t].op \in {"inserted", "spawned"}
Unlocked == \A t \in Threads : ~Inserting(t)

-----------------------------------------------------------------------------
(* POST /api/jobs *)

(* The submission passes the gates (targets, trusted targets, connectors that
   are available here): the row is inserted, not yet committed. *)
InsertJob(t, j) ==
    /\ Doing(t, "idle") /\ Unlocked
    /\ scan[j] = "none"
    /\ Go(t, "inserted", j, "absent")
    /\ UNCHANGED <<rowVars, scan, recorded, serverVars>>

(* The job's configuration is written and the scan process started. *)
SpawnScan(t) ==
    /\ Doing(t, "inserted")
    /\ scan' = [scan EXCEPT ![call[t].job] = "scanning"]
    /\ handles' = handles \cup {call[t].job}
    /\ Go(t, "spawned", call[t].job, "absent")
    /\ UNCHANGED <<rowVars, recorded, api, stale>>

CommitCreate(t) ==
    /\ Doing(t, "spawned")
    /\ status' = [status EXCEPT ![call[t].job] = "running"]
    /\ Return(t)
    /\ UNCHANGED <<blame, scan, recorded, serverVars>>

-----------------------------------------------------------------------------
(* GET /api/jobs/{job_id}: _reconcile_if_dead *)

PollRead(t, j) ==
    /\ Doing(t, "idle")
    /\ status[j] = "running"
    /\ Go(t, "polling", j, "running")
    /\ UNCHANGED <<rowVars, scan, recorded, serverVars>>

(* proc.poll(): a live scan, or one without a handle, is left alone; the
   handle of a dead one is dropped. *)
PollReap(t) ==
    /\ Doing(t, "polling")
    /\ LET j == call[t].job
       IN  \/ /\ j \notin handles \/ scan[j] # "dead"
              /\ Return(t)
              /\ UNCHANGED handles
           \/ /\ j \in handles /\ scan[j] = "dead"
              /\ handles' = handles \ {j}
              /\ Go(t, "reaped", j, "running")
    /\ UNCHANGED <<rowVars, scan, recorded, api, stale>>

PollUpdate_Blind(t) ==
    /\ Doing(t, "reaped") /\ Unlocked
    /\ status' = [status EXCEPT ![call[t].job] = "failed"]
    /\ blame' = [blame EXCEPT ![call[t].job] = "poll"]
    /\ Return(t)
    /\ UNCHANGED <<scan, recorded, serverVars>>

(* UPDATE ... WHERE status = 'running'. *)
PollUpdate(t) ==
    /\ Doing(t, "reaped") /\ Unlocked
    /\ LET j == call[t].job
       IN  \/ /\ status[j] = "running"
              /\ status' = [status EXCEPT ![j] = "failed"]
              /\ blame' = [blame EXCEPT ![j] = "poll"]
           \/ status[j] # "running" /\ UNCHANGED rowVars
    /\ Return(t)
    /\ UNCHANGED <<scan, recorded, serverVars>>

-----------------------------------------------------------------------------
(* DELETE /api/jobs/{job_id} *)

CancelRead(t, j) ==
    /\ Doing(t, "idle")
    /\ status[j] # "absent"
    /\ Go(t, "cancelling", j, status[j])
    /\ UNCHANGED <<rowVars, scan, recorded, serverVars>>

CancelKill_OnlyOwn(t) ==
    /\ Doing(t, "cancelling")
    /\ scan' = [scan EXCEPT ![call[t].job] =
                   IF call[t].seen = "running" /\ call[t].job \in handles THEN "dead" ELSE @]
    /\ Go(t, "killed", call[t].job, call[t].seen)
    /\ UNCHANGED <<rowVars, recorded, serverVars>>

(* SIGTERM, for which a scan has no handler, to the pid of a running job. *)
CancelKill(t) ==
    /\ Doing(t, "cancelling")
    /\ scan' = [scan EXCEPT ![call[t].job] =
                   IF call[t].seen = "running" THEN "dead" ELSE @]
    /\ Go(t, "killed", call[t].job, call[t].seen)
    /\ UNCHANGED <<rowVars, recorded, serverVars>>

(* The status is written whatever it has become; only a row that was read as
   cancelled has no status to write. *)
CancelWrite(t) ==
    /\ Doing(t, "killed") /\ Unlocked
    /\ status' = [status EXCEPT ![call[t].job] =
                     IF call[t].seen = "cancelled" THEN @ ELSE "cancelled"]
    /\ Return(t)
    /\ UNCHANGED <<blame, scan, recorded, serverVars>>

(* create_job gives up before the spawn (the configuration or the credentials
   are refused, a file or the process cannot be made), or the commit of a
   handler fails: a bare 500.  A scan that create_job started goes on without
   a row. *)
HandlerFails(t) ==
    /\ \/ Doing(t, "inserted")
       \/ Doing(t, "spawned") /\ "create" \in Faults
       \/ Doing(t, "reaped") /\ "poll" \in Faults
       \/ Doing(t, "killed") /\ "cancel" \in Faults
    /\ Return(t)
    /\ UNCHANGED <<rowVars, scan, recorded, serverVars>>

-----------------------------------------------------------------------------
(* The scan process *)

(* mark_job_completed, mark_job_failed: nothing is written when there is no
   row, and an error is swallowed. *)
Record(j, st) ==
    /\ scan[j] = "scanning"
    /\ scan' = [scan EXCEPT ![j] = "returning"]
    /\ \/ /\ status[j] # "absent" /\ Unlocked
          /\ status' = [status EXCEPT ![j] = st]
          /\ blame' = [blame EXCEPT ![j] = IF st = "failed" THEN "scan" ELSE @]
          /\ recorded' = [recorded EXCEPT ![j] = st]
       \/ /\ status[j] = "absent" \/ "scan" \in Faults
          /\ UNCHANGED <<rowVars, recorded>>
    /\ UNCHANGED <<serverVars, call>>

(* The process is gone: after main returned, or at any time, unrecorded. *)
ScanEnds(j) ==
    /\ scan[j] \in {"scanning", "returning"}
    /\ scan' = [scan EXCEPT ![j] = "dead"]
    /\ UNCHANGED <<rowVars, recorded, serverVars, call>>

-----------------------------------------------------------------------------
(* The API server *)

ApiStops ==
    /\ api = "up"
    /\ api' = "down"
    /\ handles' = {}
    /\ call' = [t \in Threads |-> Idle]
    /\ UNCHANGED <<rowVars, scan, recorded, stale>>

(* The lifespan hook runs _recover_stale_jobs before any request is served. *)
ApiStarts ==
    /\ api = "down"
    /\ api' = "sweeping"
    /\ stale' = {j \in Jobs : status[j] = "running"}
    /\ UNCHANGED <<rowVars, scan, recorded, handles, call>>

SweepCommit_KeepsStatus ==
    /\ api = "sweeping"
    /\ blame' = [j \in Jobs |-> IF j \in stale THEN "sweep" ELSE blame[j]]
    /\ api' = "up"
    /\ stale' = {}
    /\ UNCHANGED <<status, scan, recorded, handles, call>>

(* The rows that were read are written whatever they have become. *)
SweepCommit ==
    /\ api = "sweeping"
    /\ status' = [j \in Jobs |-> IF j \in stale THEN "failed" ELSE status[j]]
    /\ blame' = [j \in Jobs |-> IF j \in stale THEN "sweep" ELSE blame[j]]
    /\ api' = "up"
    /\ stale' = {}
    /\ UNCHANGED <<scan, recorded, handles, call>>

(* `never crash API startup on stale-job sweep failure'. *)
SweepFails ==
    /\ api = "sweeping" /\ "sweep" \in Faults
    /\ api' = "up"
    /\ stale' = {}
    /\ UNCHANGED <<rowVars, scan, recorded, handles, call>>

-----------------------------------------------------------------------------

JobsInit ==
    /\ status = [j \in Jobs |-> "absent"]
    /\ blame = [j \in Jobs |-> "none"]
    /\ scan = [j \in Jobs |-> "none"]
    /\ recorded = [j \in Jobs |-> "none"]
    /\ handles = {} /\ stale = {}
    /\ api = "up"
    /\ call = [t \in Threads |-> Idle]

(* A handler goes on with what it is doing. *)
Handle(t) ==
    \/ SpawnScan(t) \/ CommitCreate(t) \/ PollReap(t) \/ PollUpdate(t)
    \/ CancelKill(t) \/ CancelWrite(t)

ScanStep(j) == (\E st \in {"completed", "failed"} : Record(j, st)) \/ ScanEnds(j)

JobsNext ==
    \/ \E t \in Threads :
         \/ \E j \in Jobs : InsertJob(t, j) \/ PollRead(t, j) \/ CancelRead(t, j)
         \/ Handle(t) \/ HandlerFails(t)
    \/ \E j \in Jobs : ScanStep(j)
    \/ ApiStops \/ ApiStarts \/ SweepCommit \/ SweepFails

JobsSpec == JobsInit /\ [][JobsNext]_jobsVars

(* A scan comes to an end (its stages have timeouts), a handler runs to its
   return or gives up waiting for the write lock (SQLite's busy timeout), a
   stopped API is started again, and the job's page keeps polling: the thread
   pool serves its queue in order, so a poll gets a thread. *)
JobsFairness ==
    /\ \A j \in Jobs : WF_jobsVars(ScanStep(j))
    /\ \A j \in Jobs : SF_jobsVars(\E t \in Threads : PollRead(t, j))
    /\ \A t \in Threads : WF_jobsVars(Handle(t) \/ HandlerFails(t))
    /\ WF_jobsVars(ApiStarts) /\ WF_jobsVars(SweepCommit \/ SweepFails)

JobsFairSpec == JobsSpec /\ JobsFairness

-----------------------------------------------------------------------------
(* Properties *)

(* The row, the process and the threads stay within their types, and a job
   that has a row has had a process. *)
JobsTypeOK ==
    /\ status \in [Jobs -> Status]
    /\ blame \in [Jobs -> {"none", "poll", "sweep", "scan"}]
    /\ scan \in [Jobs -> {"none", "scanning", "returning", "dead"}]
    /\ recorded \in [Jobs -> {"none", "completed", "failed"}]
    /\ handles \subseteq Jobs /\ stale \subseteq Jobs
    /\ api \in {"up", "down", "sweeping"}
    /\ call \in [Threads -> Call]
    /\ \A j \in Jobs : status[j] # "absent" => scan[j] # "none"

(* `makes the child's terminal status win the race': a job is only shown as
   `exited without completing' when its process is dead and never wrote a
   terminal status, however old the row the poll had read. *)
PollVerdictIsTrue ==
    \A j \in Jobs : status[j] = "failed" /\ blame[j] = "poll" =>
        scan[j] = "dead" /\ recorded[j] = "none"

(* A cancelled job scans no more, whichever of its polls, its own end and a
   restart of the API came between the read and the write of the cancel,
   unless a sweep had given its process up before. *)
CancelStopsScan ==
    \A j \in Jobs : status[j] = "cancelled" /\ blame[j] # "sweep" =>
        scan[j] # "scanning"

(* models.py: `Status lifecycle: queued -> running -> (completed | failed |
   cancelled)'.  cancel_job, the scan and the sweep write over what they have
   not read again. *)
TerminalIsFinal ==
    [][\A j \in Jobs : status[j] \in Terminal => status'[j] = status[j]]_jobsVars
=============================================================================
