------------------------------- MODULE ScanRun -------------------------------
(***************************************************************************)
(* One scan as run_scan.main carries it out, process after process: batch  *)
(* discovery, inventory, the scanner stages with their flush and their     *)
(* checkpoint, the final persist, the phase records and the reports; and   *)
(* --resume-scan-id, which takes a killed scan up again from what the      *)
(* database and the batch cache hold.                                      *)
(*                                                                         *)
(* An endpoint is known by the phase that found it (by), its protocol and  *)
(* where it was found (at).  `transient' objects in memory have no primary *)
(* key, so merging one inserts a row; merging a `persistent' one updates   *)
(* its row.  Writes of the process can fail, phases can raise, and the     *)
(* process can be killed between any two writes, all within MaxFaults.     *)
(* The remediation history that main writes before the reports is module   *)
(* Closure; the progress of the job is module ScanJobs.                    *)
(***************************************************************************)
EXTENDS ScanPhases, Naturals, FiniteSets, Bags

CONSTANTS
    Batches,     \* number of discovery batches
    Ports,       \* open ports: [batch |-> , serves |-> "TLS", "SSH" or "HTTP"]
    Silent,      \* batches with a host that the liveness pre-pass finds down
    Enabled,     \* phases that the configuration enables beside tls, ssh, pqc
    Seen,        \* protocols their scanners can find in this estate
    MaxFaults,   \* bound on kills, failures and expired cache files
    MaxResumes   \* bound on the resumes of the scan

ASSUME ScanRunAssumption ==
    /\ Batches \in Nat \ {0} /\ MaxFaults \in Nat /\ MaxResumes \in Nat
    /\ Ports \subseteq [batch : 1 .. Batches, serves : {"TLS", "SSH", "HTTP"}]
    /\ Silent \subseteq 1 .. Batches
    /\ Enabled \subseteq PhaseNames

VARIABLES
    db,       \* rows, early, cps and batches (checkpoints), recs, report
    cache,    \* readable cache files of batches; whole: swept without a pre-pass
    run,      \* the scan process
    config,   \* reason for which an enabled phase skips itself, or "none"
    late,     \* the first second of the scan is over
    made,     \* history: how often each endpoint was found
    owed,     \* history: endpoints of the stages that have their checkpoint
    faults,   \* faults so far
    resumes   \* resumes so far

scanVars == <<db, cache, run, config, late, made, owed, faults, resumes>>

-----------------------------------------------------------------------------
(* Endpoints *)

Ep(by, proto, at) == [by |-> by, proto |-> proto, at |-> at]
InventoryEps == {Ep("inventory", "HTTP", q) : q \in {r \in Ports : r.serves = "HTTP"}}
Place(b, what) == [batch |-> b, serves |-> what]
Advisory(b) == Ep("liveness", "ADVISORY", Place(b, "silent host"))
BatchError(b) == Ep("discovery", "ERROR", Place(b, "sweep"))
PhaseError(name) == Ep("error", "ERROR", Place(0, name))
Found(p) == {Ep(p.name, proto, Place(0, "connector")) : proto \in p.emits \cap Seen}

Fault(n) == faults + n <= MaxFaults /\ faults' = faults + n
Count(eps) == made (+) SetToBag(eps)

-----------------------------------------------------------------------------
(* The process starts, or starts again *)

Ended(how) == [at |-> how, step |-> "none"]
Dead == Ended("dead")

(* done and batches: _completed_stages; loaded: _resumed_endpoints; new and
   kept: the transient and the persistent objects in memory; records:
   _PhaseRecorder; swept: batches of this process; dead: liveness_endpoints;
   whole (history): batches swept with all their hosts, the pre-pass having
   failed; unsaved: the flush of this stage failed. *)
Started(done, batches, loaded) ==
    [at |-> "discovery", step |-> "run", done |-> done, batches |-> batches, loaded |-> loaded,
     swept |-> 0, failed |-> {}, targets |-> {}, dead |-> {}, whole |-> {},
     tls |-> {}, ssh |-> {}, unsaved |-> FALSE, new |-> {}, kept |-> {}, records |-> [n \in PhaseNames |-> "none"]]

(* The resume filter matches the rows whose scanned_at is in the first second
   of the scan, which is over by then. *)
StartResume ==
    /\ run.at = "dead" /\ resumes < MaxResumes
    /\ resumes' = resumes + 1
    /\ run' = IF "reports" \in db.cps
              THEN Ended("done")
              ELSE Started(db.cps, db.batches, db.early)
    /\ late' = TRUE
    /\ UNCHANGED <<db, cache, config, made, owed, faults>>

(* An exception while the resume state is read: the scan starts over, under
   the same scan_run_id. *)
ResumeLoadFails ==
    /\ run.at = "dead" /\ resumes < MaxResumes
    /\ resumes' = resumes + 1 /\ Fault(1)
    /\ run' = Started({}, {}, {}) /\ late' = TRUE
    /\ UNCHANGED <<db, cache, config, made, owed>>

Second ==
    /\ ~late /\ late' = TRUE
    /\ UNCHANGED <<db, cache, run, config, made, owed, faults, resumes>>

(* Killed; nothing but the database and the cache is left. *)
Killed ==
    /\ run.at \notin {"dead", "done"} /\ Fault(1)
    /\ run' = Dead
    /\ UNCHANGED <<db, cache, config, late, made, owed, resumes>>

(* A batch file passes its TTL or the cache directory is deleted. *)
CacheExpires ==
    /\ \E f \in cache : cache' = cache \ {f}
    /\ Fault(1)
    /\ UNCHANGED <<db, run, config, late, made, owed, resumes>>

-----------------------------------------------------------------------------
(* Discovery *)

OpenPorts(b) == {q \in Ports : q.batch = b}

_batch_stage_completed(b) == b \in run.batches

SkipsBatch_CheckpointOnly(b) == _batch_stage_completed(b)

(* A checkpoint alone is never enough: the results must still be readable. *)
Files(b) == {f \in cache : f.batch = b}
SkipsBatch(b) == _batch_stage_completed(b) /\ Files(b) # {}

(* The batch was done by an earlier process: its ports and its advisories
   come from the cache. *)
RestoreBatch ==
    /\ run.at = "discovery" /\ run.step = "run" /\ run.swept < Batches
    /\ LET b == run.swept + 1
           advised == IF b \in Silent /\ \E f \in Files(b) : ~f.whole THEN {Advisory(b)} ELSE {}
       IN  /\ SkipsBatch(b)
           /\ run' = [run EXCEPT !.swept = b, !.dead = @ \cup advised,
                        !.targets = @ \cup (IF Files(b) # {} THEN OpenPorts(b) ELSE {}),
                        !.whole = @ \cup {f.batch : f \in {g \in Files(b) : g.whole}}]
           /\ made' = Count(advised)
    /\ UNCHANGED <<db, cache, config, late, owed, faults, resumes>>

(* The liveness pre-pass leaves the silent hosts out of the sweep, each with an
   advisory; when it fails (blind) all hosts are swept and nobody is advised of.
   A sweep that fails leaves an error endpoint and no batch checkpoint. *)
SweepBatch ==
    /\ run.at = "discovery" /\ run.step = "run" /\ run.swept < Batches
    /\ \E blind \in BOOLEAN :
       LET b == run.swept + 1
           advised == IF b \in Silent /\ ~blind THEN {Advisory(b)} ELSE {}
           whole == IF blind THEN run.whole \cup {b} ELSE run.whole
       IN  /\ ~SkipsBatch(b)
           /\ \/ /\ run' = [run EXCEPT !.targets = @ \cup OpenPorts(b), !.dead = @ \cup advised,
                                       !.whole = whole, !.swept = b, !.step = "checkpoint"]
                 /\ cache' = (cache \ Files(b)) \cup {[batch |-> b, whole |-> blind]}
                 /\ Fault(IF blind THEN 1 ELSE 0)
                 /\ made' = Count(advised)
              \/ /\ run' = [run EXCEPT !.failed = @ \cup {b}, !.dead = @ \cup advised,
                                       !.whole = whole, !.new = @ \cup {BatchError(b)}, !.swept = b]
                 /\ Fault(IF blind THEN 2 ELSE 1)
                 /\ made' = Count(advised \cup {BatchError(b)})
                 /\ UNCHANGED cache
    /\ UNCHANGED <<db, config, late, owed, resumes>>

CheckpointBatch ==
    /\ run.at = "discovery" /\ run.step = "checkpoint"
    /\ db' = [db EXCEPT !.batches = @ \cup {run.swept}]
    /\ run' = [run EXCEPT !.step = "run"]
    /\ UNCHANGED <<cache, config, late, made, owed, faults, resumes>>

(* The discovery stage's own checkpoint is never read.  The advisories join
   the error endpoints; without targets the scan is over. *)
EndDiscovery ==
    /\ run.at = "discovery" /\ run.step = "run" /\ run.swept = Batches
    /\ run' = IF run.targets = {} THEN Ended("done")
              ELSE [run EXCEPT !.at = "inventory", !.new = @ \cup run.dead]
    /\ db' = [db EXCEPT !.cps = @ \cup {"discovery"}]
    /\ UNCHANGED <<cache, config, late, made, owed, faults, resumes>>

-----------------------------------------------------------------------------
(* Flush and checkpoint of a stage *)

Inserted(eps) == db.rows (+) SetToBag(eps)

(* The endpoints that the stage's flush is called with. *)
StageEps(stage, objects) ==
    {e \in objects : IF stage = "inventory" THEN e.by = "inventory"
                     ELSE \E p \in StagePhases[stage] : p.name = e.by}
FlushList(stage) == {e \in StageEps(stage, run.new) : Flushed(e.by)}

WriteBack_None(objects) == {}

(* The primary keys are written back onto the caller's objects. *)
WriteBack(objects) == objects

_flush_stage_endpoints ==
    /\ run.step = "flush"
    /\ LET eps == FlushList(run.at)
       IN  /\ db' = [db EXCEPT !.rows = Inserted(eps), !.early = IF late THEN @ ELSE @ \cup eps]
           /\ run' = [run EXCEPT !.step = "checkpoint", !.new = @ \ WriteBack(eps),
                                 !.kept = @ \cup WriteBack(eps)]
    /\ UNCHANGED <<cache, config, late, made, owed, faults, resumes>>

(* A failed flush is silent; the final persist is the safety net. *)
FlushFails ==
    /\ run.step = "flush" /\ FlushList(run.at) # {} /\ Fault(1)
    /\ run' = [run EXCEPT !.step = "checkpoint", !.unsaved = TRUE]
    /\ UNCHANGED <<db, cache, config, late, made, owed, resumes>>

After == [inventory |-> "tls", tls |-> "ssh", ssh |-> "pqc", pqc |-> "api", api |-> "identity",
          identity |-> "data_at_rest", data_at_rest |-> "broker_email", broker_email |-> "persist"]

(* Written whatever became of the flush. *)
write_scan_checkpoint ==
    /\ run.step = "checkpoint" /\ run.at \in DOMAIN After
    /\ db' = [db EXCEPT !.cps = @ \cup {run.at}]
    /\ run' = [run EXCEPT !.step = "run", !.at = After[@], !.unsaved = FALSE]
    /\ owed' = IF run.unsaved THEN owed ELSE owed \cup StageEps(run.at, run.new \cup run.kept)
    /\ UNCHANGED <<cache, config, late, made, faults, resumes>>

(* A failed checkpoint is silent too. *)
CheckpointFails ==
    /\ run.step = "checkpoint" /\ run.at \in DOMAIN After /\ Fault(1)
    /\ run' = [run EXCEPT !.step = "run", !.at = After[@], !.unsaved = FALSE]
    /\ UNCHANGED <<db, cache, config, late, made, owed, resumes>>

-----------------------------------------------------------------------------
(* Inventory *)

TargetsOf(proto) == {e.at : e \in {l \in run.loaded : l.proto = proto}}

(* Restored: the inventory rows, and the TLS and SSH targets from the rows
   that the TLS and SSH stages had written. *)
RestoreInventory ==
    /\ run.at = "inventory" /\ run.step = "run" /\ "inventory" \in run.done
    /\ run' = [run EXCEPT !.kept = @ \cup {e \in run.loaded : e.by = "inventory"},
                          !.tls = TargetsOf("TLS"), !.ssh = TargetsOf("SSH"), !.step = "flush"]
    /\ UNCHANGED <<db, cache, config, late, made, owed, faults, resumes>>

Fingerprint ==
    /\ run.at = "inventory" /\ run.step = "run" /\ "inventory" \notin run.done
    /\ LET eps == {e \in InventoryEps : e.at \in run.targets}
       IN  /\ run' = [run EXCEPT !.new = @ \cup eps, !.step = "flush",
                                 !.tls = {q \in run.targets : q.serves = "TLS"},
                                 !.ssh = {q \in run.targets : q.serves = "SSH"}]
           /\ made' = Count(eps)
    /\ UNCHANGED <<db, cache, config, late, owed, faults, resumes>>

-----------------------------------------------------------------------------
(* The scanner stages *)

TLSInMemory == \E e \in run.new \cup run.kept : e.proto = "TLS"

(* The first gate of a phase that is closed.  Mail and broker hosts are the
   TLS targets' (no broker is named in the configuration); the fuzzer needs
   the endpoints of the OpenAPI phase. *)
SkipReason(p) ==
    LET openapi == _run_openapi_phase.name
    IN  IF p.gates = <<>> THEN "none"
        ELSE IF p.name \notin Enabled THEN p.gates[1]
        ELSE IF config[p.name] # "none" THEN config[p.name]
        ELSE IF p.name \in {"email_scanning", "broker_scanning"} /\ run.tls = {} THEN noTargets
        ELSE IF p.name = "fuzz_scanning" /\ (openapi \notin Enabled \/ config[openapi] # "none") THEN noTargets
        ELSE "none"

(* What the scanner of a phase returns. *)
Scan(p) ==
    CASE p.name = "tls_scanning" -> {Ep(p.name, "TLS", q) : q \in run.tls}
      [] p.name = "ssh_scanning" -> {Ep(p.name, "SSH", q) : q \in run.ssh}
      [] p.name = "pqc_probe" -> {Ep(p.name, "TLS", q) : q \in run.tls}
      [] p.name = "codesign_scanning" /\ ~TLSInMemory -> {}
      [] OTHER -> Found(p)

_wrapped_phase_Swallows(p, raising) ==
    IF SkipReason(p) # "none" THEN [record |-> SkipReason(p), eps |-> {}]
    ELSE IF p \in raising THEN [record |-> "failed", eps |-> {}]
    ELSE [record |-> "ran", eps |-> Scan(p)]

(* A phase is skipped, fails and leaves an error endpoint, or runs. *)
_wrapped_phase(p, raising) ==
    IF SkipReason(p) # "none" THEN [record |-> SkipReason(p), eps |-> {}]
    ELSE IF p.name = "fuzz_scanning" /\ _run_openapi_phase \in raising THEN [record |-> noTargets, eps |-> {}]
    ELSE IF p \in raising THEN [record |-> "failed", eps |-> {PhaseError(p.name)}]
    ELSE [record |-> "ran", eps |-> Scan(p)]

(* The stage was completed by an earlier process. *)
RestoreStage ==
    /\ run.at \in Stages /\ run.step = "run" /\ run.at \in run.done
    /\ LET phases == StagePhases[run.at]
       IN  run' = [run EXCEPT
             !.kept = @ \cup {e \in run.loaded : \E p \in phases : e.proto \in p.restores},
             !.records = [n \in PhaseNames |->
                             IF \E p \in phases : p.name = n THEN "resumed" ELSE @[n]],
             !.at = After[@]]
    /\ UNCHANGED <<db, cache, config, late, made, owed, faults, resumes>>

(* What the phases of the stage return and record, some of them raising. *)
StageNames == {p.name : p \in StagePhases[run.at]}
Result(n, raising) == _wrapped_phase(CHOOSE p \in StagePhases[run.at] : p.name = n, raising)
StageFinds(raising) == UNION {Result(n, raising).eps : n \in StageNames}
StageRecords(raising) ==
    [n \in PhaseNames |-> IF n \in StageNames THEN Result(n, raising).record ELSE run.records[n]]

RunStage ==
    /\ run.at \in Stages /\ run.step = "run" /\ run.at \notin run.done
    /\ \E raising \in SUBSET {p \in StagePhases[run.at] : SkipReason(p) = "none"} :
         /\ Fault(Cardinality(raising))
         /\ run' = [run EXCEPT !.new = @ \cup StageFinds(raising), !.records = StageRecords(raising),
                              !.step = IF run.at = "pqc" THEN "run" ELSE "flush",
                              !.at = IF @ = "pqc" THEN After[@] ELSE @]
         /\ made' = Count(StageFinds(raising))
    /\ UNCHANGED <<db, cache, config, late, owed, resumes>>

-----------------------------------------------------------------------------
(* After the stages *)

(* Every endpoint in memory is merged; an exception ends the scan. *)
Persist ==
    /\ run.at = "persist"
    /\ LET eps == {e \in run.new : Assembled(e.by)}
       IN  db' = [db EXCEPT !.rows = Inserted(eps), !.early = IF late THEN @ ELSE @ \cup eps]
    /\ run' = [run EXCEPT !.at = "records"]
    /\ UNCHANGED <<cache, config, late, made, owed, faults, resumes>>

PersistFails ==
    /\ run.at = "persist" /\ Fault(1)
    /\ run' = Dead
    /\ UNCHANGED <<db, cache, config, late, made, owed, resumes>>

(* A record of the prior process is not replaced by a backfilled one. *)
Upsert(old, new) ==
    IF new = "none" \/ (new = "resumed" /\ old # "none") THEN old ELSE new

_flush_scan_phase_records ==
    /\ run.at = "records"
    /\ db' = [db EXCEPT !.recs = [n \in PhaseNames |-> Upsert(@[n], run.records[n])]]
    /\ run' = [run EXCEPT !.at = "reports"]
    /\ UNCHANGED <<cache, config, late, made, owed, faults, resumes>>

RecordsFail ==
    /\ run.at = "records" /\ Fault(1)
    /\ run' = [run EXCEPT !.at = "reports"]
    /\ UNCHANGED <<db, cache, config, late, made, owed, resumes>>

(* The reports show the endpoints in memory. *)
write_reports ==
    /\ run.at = "reports"
    /\ db' = [db EXCEPT !.report = {e \in run.new \cup run.kept : Assembled(e.by)}]
    /\ run' = [run EXCEPT !.at = "reported"]
    /\ UNCHANGED <<cache, config, late, made, owed, faults, resumes>>

(* ReportCongruenceError: exit 2, no checkpoint. *)
ReportsRefused ==
    /\ run.at = "reports" /\ Fault(1)
    /\ run' = Dead
    /\ UNCHANGED <<db, cache, config, late, made, owed, resumes>>

CheckpointReports ==
    /\ run.at = "reported"
    /\ db' = [db EXCEPT !.cps = @ \cup {"reports"}]
    /\ run' = Ended("done")
    /\ UNCHANGED <<cache, config, late, made, owed, faults, resumes>>

-----------------------------------------------------------------------------
ScanInit ==
    /\ db = [rows |-> EmptyBag, early |-> {}, cps |-> {}, batches |-> {},
             recs |-> [n \in PhaseNames |-> "none"], report |-> {}]
    /\ cache = {}
    /\ run = Started({}, {}, {})
    /\ config \in {c \in [Enabled -> {"none", noTargets, noExtra}] :
                     \A p \in AllPhases : p.name \in Enabled =>
                        c[p.name] \in {"none"} \cup {p.gates[i] : i \in DOMAIN p.gates}}
    /\ late = FALSE
    /\ made = EmptyBag /\ owed = {}
    /\ faults = 0 /\ resumes = 0

ScanNext ==
    \/ StartResume \/ ResumeLoadFails \/ Second \/ Killed \/ CacheExpires
    \/ RestoreBatch \/ SweepBatch \/ CheckpointBatch \/ EndDiscovery
    \/ RestoreInventory \/ Fingerprint \/ RestoreStage \/ RunStage
    \/ _flush_stage_endpoints \/ FlushFails \/ write_scan_checkpoint \/ CheckpointFails
    \/ Persist \/ PersistFails \/ _flush_scan_phase_records \/ RecordsFail
    \/ write_reports \/ ReportsRefused \/ CheckpointReports

ScanSpec == ScanInit /\ [][ScanNext]_scanVars

-----------------------------------------------------------------------------
(* Properties *)

Stored(e) == BagIn(e, db.rows)

(* `a crash between stages leaves results for completed stages persisted': what
   a process had found in a stage that it checkpointed is in the database, for
   the ones that skip the stage - unless the flush failed, and but for the code
   signing rows, which the flush of data_at_rest leaves out. *)
CompletedStagePersisted ==
    \A e \in owed : Stored(e) \/ e.by = "codesign_scanning"

(* The primary keys written back after a flush, and the ones of the rows that
   a resume restores, keep the final merge from inserting a second row: there
   are never more rows of an endpoint than times it was found. *)
OneRowPerFinding == db.rows \sqsubseteq made

(* An uninterrupted scan accounts for its whole estate in the report, whatever
   phases raised and writes failed: each open port and each silent host of
   each batch is there, or the error that hid it; a silent host need not be if
   it was swept with its batch, the pre-pass having failed. *)
ReportAccountsForEstate ==
    run.at = "reported" /\ resumes = 0 =>
        \A b \in 1 .. Batches :
            \/ BatchError(b) \in db.report
            \/ /\ b \in Silent \ run.whole => Advisory(b) \in db.report
               /\ \A q \in OpenPorts(b) : \E e \in db.report :
                    \/ e.at = q
                    \/ q.serves = "TLS" /\ e = PhaseError("tls_scanning")
                    \/ q.serves = "SSH" /\ e = PhaseError("ssh_scanning")

(* `the cost is a re-probe, never a wrong number': a process that ends its
   discovery has the ports of every batch that it did not see fail, whether it
   swept it or found it done, with its cache file or without; and the
   advisories, unless the batch was swept with all its hosts. *)
NoBatchLost ==
    run.at = "inventory" =>
        \A b \in 1 .. Batches \ run.failed :
            /\ OpenPorts(b) \subseteq run.targets
            /\ b \in Silent \ run.whole => Advisory(b) \in run.new

(* `Resume an interrupted scan from its last completed stage': the report of a
   scan that was interrupted shows what its processes had found in the stages
   they completed. *)
ResumedReportIsComplete ==
    run.at = "done" /\ "reports" \in db.cps =>
        BagToSet(db.rows) \subseteq db.report
=============================================================================
