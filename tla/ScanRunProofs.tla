---------------------------- MODULE ScanRunProofs ----------------------------
(***************************************************************************)
(* ScanRun's invariants, for every estate, every number of batches, every  *)
(* configuration and any number of faults and resumes.                     *)
(***************************************************************************)
EXTENDS ScanRun, FiniteSetTheorems, TLAPS

-----------------------------------------------------------------------------
(* What the variables hold *)

Reserved == {"inventory", "liveness", "discovery", "error"}
Protocols == {"HTTP", "ADVISORY", "ERROR", "TLS", "SSH"} \cup UNION {p.emits : p \in AllPhases}
Where == [batch : 0 .. Batches,
          serves : {"TLS", "SSH", "HTTP", "silent host", "sweep", "connector"} \cup PhaseNames]
Endpoint == [by : Reserved \cup PhaseNames, proto : Protocols, at : Where]
Verdicts ==
    {"none", "ran", "failed", "resumed", off, noTargets, noExtra, noBinary, noCredentials}

Flushing == {"inventory", "tls", "ssh", "api", "identity", "data_at_rest", "broker_email"}
Ending == {"persist", "records", "reports", "reported"}
Places == {"discovery", "pqc"} \cup Flushing \cup Ending
Checkpoints == {"discovery", "reports"} \cup Flushing

Process ==
    [at : Places, step : {"run", "flush", "checkpoint"}, done : SUBSET Checkpoints,
     batches : SUBSET (1 .. Batches), loaded : SUBSET Endpoint, swept : 0 .. Batches,
     failed : SUBSET (1 .. Batches), targets : SUBSET Ports, dead : SUBSET Endpoint,
     whole : SUBSET (1 .. Batches),
     tls : SUBSET Where, ssh : SUBSET Where, unsaved : BOOLEAN, new : SUBSET Endpoint,
     kept : SUBSET Endpoint, records : [PhaseNames -> Verdicts]]

\* Bags have no set of their own: the rows are constrained below.
Tables ==
    [rows : {db.rows}, early : SUBSET Endpoint, cps : SUBSET Checkpoints,
     batches : SUBSET (1 .. Batches), recs : [PhaseNames -> Verdicts],
     report : SUBSET Endpoint]

CacheFiles == [batch : 1 .. Batches, whole : BOOLEAN]

Running == run.at \notin {"dead", "done"}

(* A process flushes only where a stage has a flush, and checkpoints there and
   after a batch. *)
ScanTypeOK ==
    /\ db \in Tables
    /\ IsABag(db.rows) /\ BagToSet(db.rows) \subseteq Endpoint
    /\ IsABag(made)
    /\ cache \subseteq CacheFiles
    /\ run = Ended("dead") \/ run = Ended("done") \/ run \in Process
    /\ Running =>
          /\ run.step = "flush" => run.at \in Flushing
          /\ run.step = "checkpoint" => run.at \in Flushing \cup {"discovery"}
          /\ run.step = "checkpoint" /\ run.at = "discovery" => run.swept # 0
    /\ config \in [Enabled -> Verdicts]
    /\ late \in BOOLEAN
    /\ owed \subseteq Endpoint
    /\ faults \in Nat /\ resumes \in Nat

-----------------------------------------------------------------------------
(* The inductive invariant *)

(* Persistent objects have their row, and so has what a stage's flush was
   given, unless it failed; what it was not given is code signing. *)
StoredInv ==
    /\ \A e \in db.early : Stored(e)
    /\ Running =>
          /\ \A e \in run.kept \cup run.loaded : Stored(e)
          /\ run.step # "checkpoint" \/ run.at = "discovery" => ~ run.unsaved
          /\ run.step = "checkpoint" /\ run.at # "discovery" /\ ~ run.unsaved =>
                \A e \in StageEps(run.at, run.new) : e.by = "codesign_scanning"
    /\ CompletedStagePersisted

(* What the final persist would still insert: the transient objects, and in
   discovery the advisories that will join them. *)
Unsaved ==
    IF ~ Running \/ run.at \in {"records", "reports", "reported"} THEN {}
    ELSE IF run.at = "discovery" THEN run.new \cup run.dead
    ELSE run.new

Copies(e, bag) == IF BagIn(e, bag) THEN bag[e] ELSE 0

(* Every row was found once, and so was each object not inserted yet. *)
Counted(rows, finds, objects) ==
    \A e \in BagToSet(rows) \cup objects :
        Copies(e, rows) + (IF e \in objects THEN 1 ELSE 0) <= Copies(e, finds)

CountInv == Counted(db.rows, made, Unsaved)

(* The batches behind the sweep are all there or known to have failed. *)
Covered(b, advisories) ==
    OpenPorts(b) \subseteq run.targets /\ (b \in Silent \ run.whole => Advisory(b) \in advisories)

CoverInv ==
    Running =>
        /\ run.at = "discovery" =>
              \A b \in (1 .. run.swept) \ run.failed : Covered(b, run.dead)
        /\ run.at # "discovery" =>
              \A b \in (1 .. Batches) \ run.failed : Covered(b, run.new)

(* The stages that a process without a resume has behind it. *)
InMemory == run.new \cup run.kept
Later == {"pqc", "api", "identity", "data_at_rest", "broker_email"} \cup Ending
SSHDone == run.at \in Later \/ (run.at = "ssh" /\ run.step # "run")
TLSDone == run.at \in {"ssh"} \cup Later \/ (run.at = "tls" /\ run.step # "run")
InventoryDone ==
    run.at \in {"tls", "ssh"} \cup Later \/ (run.at = "inventory" /\ run.step # "run")

(* The report tells of batch b. *)
Accounted(b) ==
    \/ BatchError(b) \in db.report
    \/ /\ b \in Silent \ run.whole => Advisory(b) \in db.report
       /\ \A q \in OpenPorts(b) : \E e \in db.report :
             \/ e.at = q
             \/ q.serves = "TLS" /\ e = PhaseError("tls_scanning")
             \/ q.serves = "SSH" /\ e = PhaseError("ssh_scanning")

(* In a scan that was not resumed every target is in memory as what its stage
   found or as the stage's error, from the stage on. *)
AccountInv ==
    resumes = 0 =>
        /\ Running =>
              /\ run.done = {} /\ "reports" \notin db.cps
              /\ \A b \in run.failed : BatchError(b) \in run.new
              /\ InventoryDone => \A q \in run.targets :
                    /\ q.serves = "HTTP" => Ep("inventory", "HTTP", q) \in InMemory
                    /\ q.serves = "TLS" => q \in run.tls
                    /\ q.serves = "SSH" => q \in run.ssh
              /\ TLSDone => \A q \in run.tls :
                    Ep("tls_scanning", "TLS", q) \in InMemory \/ PhaseError("tls_scanning") \in InMemory
              /\ SSHDone => \A q \in run.ssh :
                    Ep("ssh_scanning", "SSH", q) \in InMemory \/ PhaseError("ssh_scanning") \in InMemory
        /\ ReportAccountsForEstate

ScanInv == ScanTypeOK /\ StoredInv /\ CountInv /\ CoverInv /\ AccountInv

-----------------------------------------------------------------------------
(* Bags, the table of phases and the order of the stages *)

LEMMA BagAdd ==
    ASSUME NEW B, NEW S, IsABag(B)
    PROVE  /\ IsABag(B (+) SetToBag(S))
           /\ BagToSet(B (+) SetToBag(S)) = BagToSet(B) \cup S
           /\ \A e : Copies(e, B (+) SetToBag(S)) = Copies(e, B) + (IF e \in S THEN 1 ELSE 0)
  <1> DEFINE C == B (+) SetToBag(S)
  <1>1. /\ DOMAIN C = DOMAIN B \cup S
        /\ \A e \in DOMAIN C :
              C[e] = (IF e \in DOMAIN B THEN B[e] ELSE 0) + (IF e \in S THEN 1 ELSE 0)
    BY DEF (+), SetToBag
  <1>2. C = [e \in DOMAIN C |-> C[e]]
    BY DEF (+)
  <1>3. \A e \in DOMAIN B : B[e] \in Nat /\ B[e] > 0
    BY DEF IsABag
  <1> HIDE DEF C
  <1>4. \A e \in DOMAIN C : C[e] \in {n \in Nat : n > 0}
    BY <1>1, <1>3
  <1>5. IsABag(C)
    BY <1>2, <1>4 DEF IsABag
  <1>6. \A e : Copies(e, C) = Copies(e, B) + (IF e \in S THEN 1 ELSE 0)
    BY <1>1, <1>3 DEF Copies, BagIn, BagToSet
  <1>7. QED
    BY <1>1, <1>5, <1>6 DEF BagToSet, C

LEMMA BagCount ==
    ASSUME NEW B, IsABag(B)
    PROVE  \A e : Copies(e, B) \in Nat /\ (BagIn(e, B) <=> Copies(e, B) > 0)
  BY DEF IsABag, Copies, BagIn, BagToSet

LEMMA EmptyBagCount == IsABag(EmptyBag) /\ BagToSet(EmptyBag) = {} /\ \A e : Copies(e, EmptyBag) = 0
  BY DEF EmptyBag, SetToBag, IsABag, BagToSet, Copies, BagIn

LEMMA StageOrder ==
    /\ Stages = {"tls", "ssh", "pqc", "api", "identity", "data_at_rest", "broker_email"}
    /\ DOMAIN After = Flushing \cup {"pqc"}
    /\ After["inventory"] = "tls" /\ After["tls"] = "ssh" /\ After["ssh"] = "pqc"
    /\ \A s \in Stages \ {"tls", "ssh"} :
          After[s] \in {"api", "identity", "data_at_rest", "broker_email", "persist"}
  BY DEF Stages, StagePhases, After, Flushing

(* A phase that can skip itself tests a known reason first. *)
Gated(p) ==
    p.gates # <<>> => p.gates[1] \in {off, noTargets, noExtra, noBinary, noCredentials}

LEMMA PhaseFields ==
    ASSUME NEW stage \in Stages, NEW p \in StagePhases[stage]
    PROVE  p.name \notin Reserved /\ Gated(p)
  <1>1. CASE stage = "tls"
    <2>1. p \in {_run_tls_phase}
      BY <1>1 DEF StagePhases
    <2>2. QED
      BY <2>1 DEF _run_tls_phase, Phase, Reserved, Gated
  <1>2. CASE stage = "ssh"
    <2>1. p \in {_run_ssh_phase}
      BY <1>2 DEF StagePhases
    <2>2. QED
      BY <2>1 DEF _run_ssh_phase, Phase, Reserved, Gated
  <1>3. CASE stage = "pqc"
    <2>1. p \in {_run_pqc_phase}
      BY <1>3 DEF StagePhases
    <2>2. QED
      BY <2>1 DEF _run_pqc_phase, Phase, Reserved, Gated
  <1>4. CASE stage = "api"
    <2>1. p \in {_run_jwt_phase, _run_container_phase, _run_source_phase,
             _run_openapi_phase, _run_fuzz_phase}
      BY <1>4 DEF StagePhases
    <2>2. QED
      BY <2>1 DEF _run_jwt_phase, _run_container_phase, _run_source_phase,
                _run_openapi_phase, _run_fuzz_phase, Phase, Reserved, Gated
  <1>5. CASE stage = "identity"
    <2>1. p \in {_run_aws_phase, _run_azure_phase, _run_gcp_phase, _run_db_phase}
      BY <1>5 DEF StagePhases
    <2>2. QED
      BY <2>1 DEF _run_aws_phase, _run_azure_phase, _run_gcp_phase, _run_db_phase, Phase,
                Reserved, Gated
  <1>6. CASE stage = "data_at_rest"
    <2>1. p \in {_run_s3_phase, _run_blob_phase, _run_k8s_phase, _run_dnssec_phase,
             _run_saml_phase, _run_kerberos_phase, _run_smime_phase, _run_adcs_phase,
             _run_codesign_phase, _run_vault_phase}
      BY <1>6 DEF StagePhases
    <2>2. QED
      BY <2>1 DEF _run_s3_phase, _run_blob_phase, _run_k8s_phase, _run_dnssec_phase,
                _run_saml_phase, _run_kerberos_phase, _run_smime_phase, _run_adcs_phase,
                _run_codesign_phase, _run_vault_phase, Phase, Reserved, Gated
  <1>7. CASE stage = "broker_email"
    <2>1. p \in {_run_email_phase, _run_broker_phase}
      BY <1>7 DEF StagePhases
    <2>2. QED
      BY <2>1 DEF _run_email_phase, _run_broker_phase, Phase, Reserved, Gated
  <1>8. QED
    BY <1>1, <1>2, <1>3, <1>4, <1>5, <1>6, <1>7, StageOrder

LEMMA PhaseNamed ==
    ASSUME NEW stage \in Stages, NEW p \in StagePhases[stage]
    PROVE  p \in AllPhases /\ p.name \in PhaseNames /\ p.emits \subseteq Protocols
  <1>1. p \in AllPhases
    BY DEF AllPhases
  <1>2. QED
    BY <1>1 DEF PhaseNames, Protocols

LEMMA FirstPhases ==
    /\ StagePhases["tls"] = {_run_tls_phase} /\ StagePhases["ssh"] = {_run_ssh_phase}
    /\ _run_tls_phase.name = "tls_scanning" /\ _run_tls_phase.gates = <<>>
    /\ _run_ssh_phase.name = "ssh_scanning" /\ _run_ssh_phase.gates = <<>>
    /\ {"tls_scanning", "ssh_scanning"} \subseteq PhaseNames
    /\ "reports" \notin DOMAIN After
  <1>1. StagePhases["tls"] = {_run_tls_phase} /\ StagePhases["ssh"] = {_run_ssh_phase}
    BY DEF StagePhases
  <1>2. /\ _run_tls_phase.name = "tls_scanning" /\ _run_tls_phase.gates = <<>>
        /\ _run_ssh_phase.name = "ssh_scanning" /\ _run_ssh_phase.gates = <<>>
    BY DEF _run_tls_phase, _run_ssh_phase, Phase
  <1>3. {"tls_scanning", "ssh_scanning"} \subseteq PhaseNames
    BY <1>1, <1>2, PhaseNamed, StageOrder
  <1>4. QED
    BY <1>1, <1>2, <1>3, StageOrder DEF Flushing

-----------------------------------------------------------------------------
(* The endpoints a process makes *)

LEMMA PortsTyped == Ports \subseteq Where
  <1>1. SUFFICES ASSUME NEW q \in Ports PROVE q \in Where
    OBVIOUS
  <1>2. /\ q = [batch |-> q.batch, serves |-> q.serves]
        /\ q.batch \in 1 .. Batches /\ q.serves \in {"TLS", "SSH", "HTTP"}
    BY ScanRunAssumption
  <1>3. q.batch \in 0 .. Batches
    BY <1>2, ScanRunAssumption
  <1>4. QED
    BY <1>2, <1>3 DEF Where

LEMMA ConnectorPlace ==
    \A what \in {"connector"} \cup PhaseNames : Place(0, what) \in Where
  <1>1. 0 \in 0 .. Batches
    BY ScanRunAssumption
  <1>2. QED
    BY <1>1 DEF Place, Where

LEMMA EndpointsTyped ==
    /\ \A b \in 1 .. Batches : Advisory(b) \in Endpoint /\ BatchError(b) \in Endpoint
    /\ \A name \in PhaseNames : PhaseError(name) \in Endpoint
    /\ InventoryEps \subseteq Endpoint
  <1>1. \A b \in 1 .. Batches : Advisory(b) \in Endpoint /\ BatchError(b) \in Endpoint
    BY DEF Advisory, BatchError, Ep, Place, Endpoint, Where, Reserved, Protocols
  <1>2. \A name \in PhaseNames : PhaseError(name) \in Endpoint
    BY ConnectorPlace DEF PhaseError, Ep, Endpoint, Reserved, Protocols
  <1>3. InventoryEps \subseteq Endpoint
    BY PortsTyped DEF InventoryEps, Ep, Endpoint, Reserved, Protocols
  <1>4. QED
    BY <1>1, <1>2, <1>3

LEMMA ScansTyped ==
    ASSUME run.tls \subseteq Where, run.ssh \subseteq Where,
           NEW stage \in Stages, NEW p \in StagePhases[stage]
    PROVE  Scan(p) \subseteq Endpoint
  <1>1. p.name \in PhaseNames /\ p.emits \subseteq Protocols
    BY PhaseNamed
  <1>2. \A proto \in p.emits : Ep(p.name, proto, Place(0, "connector")) \in Endpoint
    BY <1>1, ConnectorPlace DEF Ep, Endpoint
  <1>3. Found(p) \subseteq Endpoint
    BY <1>2 DEF Found
  <1>4. \A q \in run.tls : Ep(p.name, "TLS", q) \in Endpoint
    BY <1>1 DEF Ep, Endpoint, Protocols
  <1>5. \A q \in run.ssh : Ep(p.name, "SSH", q) \in Endpoint
    BY <1>1 DEF Ep, Endpoint, Protocols
  <1>6. QED
    BY <1>3, <1>4, <1>5 DEF Scan

LEMMA ReasonsTyped ==
    ASSUME config \in [Enabled -> Verdicts], NEW stage \in Stages, NEW p \in StagePhases[stage]
    PROVE  SkipReason(p) \in Verdicts
  <1>1. Gated(p)
    BY PhaseFields
  <1>2. QED
    BY <1>1 DEF SkipReason, Gated, Verdicts

LEMMA WrappedTyped ==
    ASSUME config \in [Enabled -> Verdicts], run.tls \subseteq Where, run.ssh \subseteq Where,
           NEW stage \in Stages, NEW p \in StagePhases[stage], NEW raising
    PROVE  /\ _wrapped_phase(p, raising).record \in Verdicts
           /\ _wrapped_phase(p, raising).eps \subseteq Endpoint
  <1>1. SkipReason(p) \in Verdicts /\ Scan(p) \subseteq Endpoint
    BY ReasonsTyped, ScansTyped
  <1>2. PhaseError(p.name) \in Endpoint
    BY PhaseNamed, EndpointsTyped
  <1>3. noTargets \in Verdicts /\ "failed" \in Verdicts /\ "ran" \in Verdicts
    BY DEF Verdicts
  <1> HIDE DEF Verdicts
  <1>4. QED
    BY <1>1, <1>2, <1>3 DEF _wrapped_phase

-----------------------------------------------------------------------------
(* Counting *)

LEMMA CountedEverywhere ==
    ASSUME NEW rows, NEW finds, NEW objects, IsABag(rows), IsABag(finds)
    PROVE  Counted(rows, finds, objects) <=>
             \A e : Copies(e, rows) + (IF e \in objects THEN 1 ELSE 0) <= Copies(e, finds)
  <1>1. \A e : /\ Copies(e, rows) \in Nat /\ Copies(e, finds) \in Nat
               /\ e \notin BagToSet(rows) => Copies(e, rows) = 0
    BY BagCount DEF BagIn
  <1>2. QED
    BY <1>1 DEF Counted

(* Inserting objects counts them as rows instead. *)
LEMMA InsertCounts ==
    ASSUME NEW rows, NEW finds, NEW objects, IsABag(rows), IsABag(finds),
           Counted(rows, finds, objects), NEW eps \in SUBSET objects
    PROVE  /\ IsABag(rows (+) SetToBag(eps))
           /\ Counted(rows (+) SetToBag(eps), finds, objects \ eps)
  <1>1. /\ IsABag(rows (+) SetToBag(eps))
        /\ \A e : Copies(e, rows (+) SetToBag(eps)) = Copies(e, rows) + (IF e \in eps THEN 1 ELSE 0)
    BY BagAdd
  <1>2. \A e : Copies(e, rows) + (IF e \in objects THEN 1 ELSE 0) <= Copies(e, finds)
    BY CountedEverywhere
  <1>3. \A e : Copies(e, rows) \in Nat
    BY BagCount
  <1>4. \A e : Copies(e, rows (+) SetToBag(eps)) + (IF e \in objects \ eps THEN 1 ELSE 0)
                 <= Copies(e, finds)
    BY <1>1, <1>2, <1>3
  <1>5. QED
    BY <1>1, <1>4, CountedEverywhere

(* Finding endpoints pays for having them in memory. *)
LEMMA FindCounts ==
    ASSUME NEW rows, NEW finds, NEW objects, IsABag(rows), IsABag(finds),
           Counted(rows, finds, objects), NEW eps
    PROVE  /\ IsABag(finds (+) SetToBag(eps))
           /\ Counted(rows, finds (+) SetToBag(eps), objects \cup eps)
  <1>1. /\ IsABag(finds (+) SetToBag(eps))
        /\ \A e : Copies(e, finds (+) SetToBag(eps)) = Copies(e, finds) + (IF e \in eps THEN 1 ELSE 0)
    BY BagAdd
  <1>2. \A e : Copies(e, rows) + (IF e \in objects THEN 1 ELSE 0) <= Copies(e, finds)
    BY CountedEverywhere
  <1>3. \A e : Copies(e, rows) \in Nat /\ Copies(e, finds) \in Nat
    BY BagCount
  <1>4. \A e : Copies(e, rows) + (IF e \in objects \cup eps THEN 1 ELSE 0)
                 <= Copies(e, finds (+) SetToBag(eps))
    BY <1>1, <1>2, <1>3
  <1>5. QED
    BY <1>1, <1>4, CountedEverywhere

LEMMA ForgetCounts ==
    ASSUME NEW rows, NEW finds, NEW objects, IsABag(rows), IsABag(finds),
           Counted(rows, finds, objects), NEW fewer \in SUBSET objects
    PROVE  Counted(rows, finds, fewer)
  <1>1. \A e : Copies(e, rows) + (IF e \in objects THEN 1 ELSE 0) <= Copies(e, finds)
    BY CountedEverywhere
  <1>2. \A e : Copies(e, rows) \in Nat /\ Copies(e, finds) \in Nat
    BY BagCount
  <1>3. \A e : Copies(e, rows) + (IF e \in fewer THEN 1 ELSE 0) <= Copies(e, finds)
    BY <1>1, <1>2
  <1>4. QED
    BY <1>3, CountedEverywhere

-----------------------------------------------------------------------------
(* The beginning *)

LEMMA StartedProcess ==
    ASSUME NEW done \in SUBSET Checkpoints, NEW batches \in SUBSET (1 .. Batches),
           NEW loaded \in SUBSET Endpoint
    PROVE  Started(done, batches, loaded) \in Process
  BY ScanRunAssumption DEF Started, Process, Places, Verdicts

LEMMA ScanInitially == ScanInit => ScanInv
  <1>1. SUFFICES ASSUME ScanInit PROVE ScanInv
    OBVIOUS
  <1>2. /\ run = Started({}, {}, {}) /\ run \in Process
        /\ run.at = "discovery" /\ run.step = "run" /\ run.swept = 0 /\ run.loaded = {}
        /\ run.done = {} /\ run.failed = {} /\ run.new = {} /\ run.kept = {} /\ run.dead = {}
        /\ run.unsaved = FALSE /\ Running
    <2>1. run = Started({}, {}, {})
      BY <1>1 DEF ScanInit
    <2>2. QED
      BY <2>1, StartedProcess DEF Started, Running
  <1>3. /\ IsABag(db.rows) /\ BagToSet(db.rows) = {} /\ \A e : Copies(e, db.rows) = 0
        /\ IsABag(made) /\ \A e : Copies(e, made) = 0
    BY <1>1, EmptyBagCount DEF ScanInit
  <1>4. /\ db.early = {} /\ db.cps = {} /\ db.batches = {} /\ db.report = {} /\ db \in Tables
    BY <1>1 DEF ScanInit, Tables, Verdicts
  <1>5. config \in [Enabled -> Verdicts]
    BY <1>1 DEF ScanInit, Verdicts
  <1>6. ScanTypeOK
    BY <1>1, <1>2, <1>3, <1>4, <1>5 DEF ScanInit, ScanTypeOK
  <1>7. StoredInv
    BY <1>1, <1>2, <1>4 DEF ScanInit, StoredInv, CompletedStagePersisted
  <1>8. CountInv
    BY <1>2, <1>3 DEF CountInv, Counted, Unsaved
  <1>9. CoverInv
    BY <1>2 DEF CoverInv
  <1>10. AccountInv
    BY <1>2, <1>4 DEF AccountInv, InventoryDone, TLSDone, SSHDone, Later, Ending,
                      ReportAccountsForEstate
  <1>11. QED
    BY <1>6, <1>7, <1>8, <1>9, <1>10 DEF ScanInv

-----------------------------------------------------------------------------
(* Steps around the process *)

(* The parts of the invariant that speak of the tables and the process. *)
WorkInv == StoredInv /\ CountInv /\ CoverInv /\ AccountInv

LEMMA NothingMoves ==
    ASSUME WorkInv, UNCHANGED <<db, run, made, owed, resumes>>
    PROVE  WorkInv'
  <1>1. StoredInv'
    BY DEF WorkInv, StoredInv, Stored, Running, StageEps, CompletedStagePersisted
  <1>2. CountInv'
    BY DEF WorkInv, CountInv, Counted, Copies, Unsaved, Running
  <1>3. CoverInv'
    BY DEF WorkInv, CoverInv, Covered, Running
  <1>4. AccountInv'
    BY DEF WorkInv, AccountInv, Running, InventoryDone, TLSDone, SSHDone, InMemory, Accounted,
           ReportAccountsForEstate
  <1>5. QED
    BY <1>1, <1>2, <1>3, <1>4 DEF WorkInv

(* The process ends; what it had in memory is gone. *)
LEMMA ProcessEnds ==
    ASSUME IsABag(db.rows), IsABag(made), WorkInv,
           run' = Ended("dead") \/ run' = Ended("done"),
           UNCHANGED <<made, owed>>, db'.rows = db.rows, db'.early = db.early,
           (ReportAccountsForEstate)'
    PROVE  WorkInv'
  <1>1. ~ Running'
    BY DEF Ended, Running
  <1>2. StoredInv'
    BY <1>1 DEF WorkInv, StoredInv, Stored, CompletedStagePersisted
  <1>3. Unsaved' = {}
    BY <1>1 DEF Unsaved
  <1>4. CountInv'
    BY <1>3, ForgetCounts DEF WorkInv, CountInv
  <1>5. CoverInv' /\ AccountInv'
    BY <1>1 DEF CoverInv, AccountInv
  <1>6. QED
    BY <1>2, <1>4, <1>5 DEF WorkInv

LEMMA ProcessDies ==
    ASSUME ScanInv, run' = Dead, UNCHANGED <<db, cache, config, late, made, owed, resumes>>,
           faults' \in Nat
    PROVE  ScanInv'
  <1>1. run' = Ended("dead") /\ run'.at = "dead"
    BY DEF Dead, Ended
  <1>2. (ReportAccountsForEstate)'
    BY <1>1 DEF ReportAccountsForEstate
  <1>3. WorkInv'
    BY <1>1, <1>2, ProcessEnds DEF ScanInv, ScanTypeOK, WorkInv
  <1>4. ~ Running'
    BY <1>1 DEF Running
  <1>5. ScanTypeOK'
    BY <1>1, <1>4 DEF ScanInv, ScanTypeOK, Tables
  <1>6. QED
    BY <1>3, <1>5 DEF ScanInv, WorkInv

(* A process starts over: it knows rows of the database, and is resumed. *)
LEMMA ProcessStarts ==
    ASSUME ScanInv, NEW done \in SUBSET Checkpoints, NEW batches \in SUBSET (1 .. Batches),
           NEW loaded \in SUBSET db.early, run' = Started(done, batches, loaded),
           resumes' = resumes + 1, UNCHANGED <<db, cache, config, made, owed>>,
           late' \in BOOLEAN, faults' \in Nat
    PROVE  ScanInv'
  <1>1. /\ db \in Tables /\ resumes \in Nat /\ IsABag(db.rows) /\ IsABag(made)
        /\ db.early \subseteq Endpoint
    BY DEF ScanInv, ScanTypeOK, Tables
  <1>2. /\ run' \in Process
        /\ run'.at = "discovery" /\ run'.step = "run" /\ run'.swept = 0 /\ run'.loaded = loaded
        /\ run'.kept = {} /\ run'.new = {} /\ run'.dead = {} /\ run'.unsaved = FALSE
    BY <1>1, StartedProcess DEF Started
  <1>3. ScanTypeOK'
    BY <1>1, <1>2 DEF ScanInv, ScanTypeOK, Tables
  <1>4. StoredInv'
    BY <1>2 DEF ScanInv, StoredInv, Stored, CompletedStagePersisted
  <1>5. Unsaved' = {}
    BY <1>2 DEF Unsaved
  <1>6. CountInv'
    BY <1>1, <1>5, ForgetCounts DEF ScanInv, CountInv
  <1>7. CoverInv'
    BY <1>2 DEF CoverInv
  <1>8. AccountInv'
    <2>1. resumes' # 0
      BY <1>1
    <2>2. QED
      BY <2>1 DEF AccountInv
  <1>9. QED
    BY <1>3, <1>4, <1>6, <1>7, <1>8 DEF ScanInv

LEMMA Resuming ==
    ASSUME ScanInv, StartResume \/ ResumeLoadFails
    PROVE  ScanInv'
  <1>1. db \in Tables /\ db.early \subseteq Endpoint /\ faults \in Nat /\ resumes \in Nat
    BY DEF ScanInv, ScanTypeOK, Tables
  <1>2. CASE StartResume /\ "reports" \in db.cps
    <2>1. /\ run' = Ended("done") /\ resumes' = resumes + 1 /\ late' = TRUE
          /\ UNCHANGED <<db, cache, config, made, owed, faults>>
      BY <1>2 DEF StartResume
    <2>2. resumes' # 0
      BY <1>1, <2>1
    <2>3. (ReportAccountsForEstate)'
      BY <2>2 DEF ReportAccountsForEstate
    <2>4. WorkInv'
      BY <2>1, <2>3, ProcessEnds DEF ScanInv, ScanTypeOK, WorkInv
    <2>5. ~ Running'
      BY <2>1 DEF Running, Ended
    <2>6. ScanTypeOK'
      BY <1>1, <2>1, <2>5 DEF ScanInv, ScanTypeOK, Tables
    <2>7. QED
      BY <2>4, <2>6 DEF ScanInv, WorkInv
  <1>3. CASE StartResume /\ "reports" \notin db.cps
    <2>1. /\ run' = Started(db.cps, db.batches, db.early) /\ resumes' = resumes + 1
          /\ late' = TRUE /\ UNCHANGED <<db, cache, config, made, owed, faults>>
      BY <1>3 DEF StartResume
    <2>2. db.cps \in SUBSET Checkpoints /\ db.batches \in SUBSET (1 .. Batches)
      BY <1>1 DEF Tables
    <2>3. QED
      BY <1>1, <2>1, <2>2, ProcessStarts
  <1>4. CASE ResumeLoadFails
    <2>1. /\ run' = Started({}, {}, {}) /\ resumes' = resumes + 1 /\ late' = TRUE
          /\ faults' \in Nat /\ UNCHANGED <<db, cache, config, made, owed>>
      BY <1>1, <1>4 DEF ResumeLoadFails, Fault
    <2>2. QED
      BY <2>1, ProcessStarts
  <1>5. QED
    BY <1>2, <1>3, <1>4

LEMMA OutsideTheProcess ==
    ASSUME ScanInv, Second \/ CacheExpires
    PROVE  ScanInv'
  <1>1. WorkInv'
    BY NothingMoves DEF ScanInv, WorkInv, Second, CacheExpires
  <1>2. /\ UNCHANGED <<db, run, config, made, owed, resumes>>
        /\ cache' \subseteq cache /\ late' \in BOOLEAN /\ faults' \in Nat
    <2>1. faults \in Nat /\ late \in BOOLEAN
      BY DEF ScanInv, ScanTypeOK
    <2>2. CASE Second
      BY <2>1, <2>2 DEF Second
    <2>3. CASE CacheExpires
      BY <2>1, <2>3 DEF CacheExpires, Fault
    <2>4. QED
      BY <2>2, <2>3
  <1>3. db' \in Tables' /\ Running' = Running
    BY <1>2 DEF ScanInv, ScanTypeOK, Tables, Running
  <1>4. ScanTypeOK'
    BY <1>2, <1>3 DEF ScanInv, ScanTypeOK
  <1>5. QED
    BY <1>1, <1>4 DEF ScanInv, WorkInv

LEMMA Dying ==
    ASSUME ScanInv, Killed \/ PersistFails \/ ReportsRefused
    PROVE  ScanInv'
  <1>1. faults \in Nat
    BY DEF ScanInv, ScanTypeOK
  <1>2. run' = Dead /\ faults' \in Nat
        /\ UNCHANGED <<db, cache, config, late, made, owed, resumes>>
    BY <1>1 DEF Killed, PersistFails, ReportsRefused, Fault
  <1>3. QED
    BY <1>2, ProcessDies

-----------------------------------------------------------------------------
(* Discovery *)

LEMMA ProcessTyped ==
    ASSUME ScanInv, Running
    PROVE  /\ run \in Process /\ IsABag(db.rows) /\ IsABag(made) /\ db \in Tables
           /\ faults \in Nat /\ resumes \in Nat /\ cache \subseteq CacheFiles
           /\ config \in [Enabled -> Verdicts] /\ late \in BOOLEAN /\ Batches \in Nat \ {0}
  BY ScanRunAssumption DEF ScanInv, ScanTypeOK, Running, Ended

LEMMA SteppingRuns ==
    ASSUME ScanInv, run.step # "none"
    PROVE  Running
  <1>1. run # Ended("dead") /\ run # Ended("done")
    BY DEF Ended
  <1>2. run \in Process
    BY <1>1 DEF ScanInv, ScanTypeOK
  <1>3. run.at \in Places
    BY <1>2 DEF Process
  <1>4. QED
    BY <1>3 DEF Places, Flushing, Ending, Running

(* The next batch was restored or swept, or its sweep failed. *)
LEMMA BatchSwept ==
    ASSUME ScanInv, run.at = "discovery", run.step = "run",
           NEW b \in 1 .. Batches, b = run.swept + 1,
           NEW advised \in SUBSET Endpoint, NEW errors \in SUBSET Endpoint,
           run' \in Process, run'.at = "discovery", run'.step \in {"run", "checkpoint"},
           run'.swept = b, run.targets \subseteq run'.targets, run.whole \subseteq run'.whole,
           run'.dead = run.dead \cup advised, run'.new = run.new \cup errors,
           made' = Count(advised \cup errors),
           \/ run'.failed = run.failed /\ Covered(b, run.dead)'
           \/ run'.failed = run.failed \cup {b} /\ BatchError(b) \in errors,
           run'.kept = run.kept, run'.loaded = run.loaded, run'.unsaved = run.unsaved,
           run'.done = run.done,
           UNCHANGED <<db, config, late, owed, resumes>>, cache' \subseteq CacheFiles,
           faults' \in Nat
    PROVE  ScanInv'
  <1>1. Running /\ Running'
    BY DEF Running
  <1>2. /\ run \in Process /\ IsABag(db.rows) /\ IsABag(made) /\ db \in Tables
        /\ resumes \in Nat
    BY <1>1, ProcessTyped
  <1>3. b # 0
    OBVIOUS
  <1>4. /\ IsABag(made') /\ Counted(db.rows, made', run.new \cup run.dead \cup advised \cup errors)
    <2>1. Counted(db.rows, made, run.new \cup run.dead)
      BY <1>1 DEF ScanInv, CountInv, Unsaved
    <2>2. made' = made (+) SetToBag(advised \cup errors)
      BY DEF Count
    <2>3. IsABag(made') /\ Counted(db.rows, made', (run.new \cup run.dead) \cup (advised \cup errors))
      BY <1>2, <2>1, <2>2, FindCounts
    <2>4. (run.new \cup run.dead) \cup (advised \cup errors)
             = run.new \cup run.dead \cup advised \cup errors
      OBVIOUS
    <2>5. QED
      BY <2>3, <2>4
  <1>5. ScanTypeOK'
    BY <1>1, <1>2, <1>3, <1>4 DEF ScanInv, ScanTypeOK, Tables
  <1>6. StoredInv'
    BY <1>1 DEF ScanInv, StoredInv, Stored, CompletedStagePersisted
  <1>7. CountInv'
    <2>1. Unsaved' = run.new \cup run.dead \cup advised \cup errors
      BY <1>1 DEF Unsaved
    <2>2. QED
      BY <1>4, <2>1 DEF CountInv
  <1>8. CoverInv'
    <2>1. ASSUME NEW c \in (1 .. b) \ run'.failed
          PROVE  /\ OpenPorts(c) \subseteq run'.targets
                 /\ c \in Silent \ run'.whole => Advisory(c) \in run'.dead
      <3>1. CASE c = b
        BY <2>1, <3>1 DEF Covered
      <3>2. CASE c # b
        <4>1. run.swept \in 0 .. Batches
          BY <1>2 DEF Process
        <4>2. c \in (1 .. run.swept) \ run.failed
          BY <2>1, <3>2, <4>1
        <4>3. Covered(c, run.dead)
          BY <1>1, <4>2 DEF ScanInv, CoverInv
        <4>4. QED
          BY <4>3 DEF Covered
      <3>3. QED
        BY <3>1, <3>2
    <2>2. QED
      BY <2>1 DEF CoverInv, Covered
  <1>9. AccountInv'
    <2>1. ~ InventoryDone' /\ ~ TLSDone' /\ ~ SSHDone' /\ run'.at \notin {"reported", "done"}
      BY DEF InventoryDone, TLSDone, SSHDone, Later, Ending
    <2>2. QED
      BY <1>1, <2>1 DEF ScanInv, AccountInv, ReportAccountsForEstate
  <1>10. QED
    BY <1>5, <1>6, <1>7, <1>8, <1>9 DEF ScanInv

LEMMA RestoringBatch ==
    ASSUME ScanInv, RestoreBatch
    PROVE  ScanInv'
  <1>1. run.at = "discovery" /\ run.step = "run" /\ run.swept < Batches
        /\ UNCHANGED <<db, cache, config, late, owed, faults, resumes>>
    BY DEF RestoreBatch
  <1>2. Running
    BY <1>1 DEF Running
  <1>3. /\ run \in Process /\ cache \subseteq CacheFiles /\ faults \in Nat
    BY <1>2, ProcessTyped
  <1>4. PICK b \in 1 .. Batches : b = run.swept + 1
    BY <1>1, <1>3, ScanRunAssumption DEF Process
  <1> DEFINE advised == IF b \in Silent /\ \E f \in Files(b) : ~f.whole THEN {Advisory(b)} ELSE {}
             blind == {f.batch : f \in {g \in Files(b) : g.whole}}
             whole == run.whole \cup blind
  <1>5. /\ Files(b) # {} /\ made' = Count(advised)
        /\ run' = [run EXCEPT !.swept = b, !.dead = @ \cup advised,
                     !.targets = @ \cup (IF Files(b) # {} THEN OpenPorts(b) ELSE {}),
                     !.whole = whole]
    BY <1>4 DEF RestoreBatch, SkipsBatch
  <1>6. /\ b \in 0 .. Batches /\ advised \in SUBSET Endpoint /\ OpenPorts(b) \subseteq Ports
        /\ run' = [run EXCEPT !.swept = b, !.dead = @ \cup advised,
                     !.targets = @ \cup OpenPorts(b), !.whole = whole]
    BY <1>5, EndpointsTyped DEF OpenPorts
  <1>11. whole \in SUBSET (1 .. Batches) /\ run.whole \subseteq whole
    <2>1. \A f \in Files(b) : f.batch = b
      BY DEF Files
    <2>2. run.whole \subseteq 1 .. Batches
      BY <1>3 DEF Process
    <2>3. QED
      BY <2>1, <2>2
  <1>12. b \in Silent \ whole => Advisory(b) \in advised
    <2>1. PICK f \in Files(b) : f.batch = b
      BY <1>5 DEF Files
    <2>2. f.whole => b \in whole
      BY <2>1
    <2>3. QED
      BY <2>2
  <1> HIDE DEF advised, whole
  <1>7. /\ run' \in Process /\ run'.at = "discovery" /\ run'.step = "run" /\ run'.swept = b
        /\ run'.targets = run.targets \cup OpenPorts(b) /\ run'.dead = run.dead \cup advised
        /\ run'.whole = whole
        /\ run'.new = run.new /\ run'.failed = run.failed /\ run'.kept = run.kept
        /\ run'.loaded = run.loaded /\ run'.unsaved = run.unsaved /\ run'.done = run.done
    <2>1. PICK dead \in SUBSET Endpoint, targets \in SUBSET Ports :
              dead = run.dead \cup advised /\ targets = run.targets \cup OpenPorts(b)
      BY <1>3, <1>6 DEF Process
    <2>2. run' = [run EXCEPT !.swept = b, !.dead = dead, !.targets = targets, !.whole = whole]
      BY <1>6, <2>1
    <2>3. /\ run' \in Process /\ run'.at = run.at /\ run'.step = run.step /\ run'.swept = b
          /\ run'.targets = targets /\ run'.dead = dead /\ run'.whole = whole
          /\ run'.new = run.new /\ run'.failed = run.failed /\ run'.kept = run.kept
          /\ run'.loaded = run.loaded /\ run'.unsaved = run.unsaved /\ run'.done = run.done
      <3>1. b \in 0 .. Batches /\ whole \in SUBSET (1 .. Batches)
        BY <1>6, <1>11
      <3>2. QED
        BY <1>3, <2>2, <3>1 DEF Process
    <2>4. QED
      BY <1>1, <2>1, <2>3
  <1>8. Covered(b, run.dead)'
    BY <1>7, <1>12 DEF Covered
  <1>9. made' = Count(advised \cup {}) /\ run'.new = run.new \cup {} /\ {} \in SUBSET Endpoint
    <2>1. advised \cup {} = advised /\ run.new \cup {} = run.new
      OBVIOUS
    <2>2. QED
      BY <1>5, <1>7, <2>1
  <1>10. QED
    BY <1>1, <1>3, <1>4, <1>5, <1>6, <1>7, <1>8, <1>9, <1>11, BatchSwept

LEMMA SweepingBatch ==
    ASSUME ScanInv, SweepBatch
    PROVE  ScanInv'
  <1>1. run.at = "discovery" /\ run.step = "run" /\ run.swept < Batches
        /\ UNCHANGED <<db, config, late, owed, resumes>>
    BY DEF SweepBatch
  <1>2. Running
    BY <1>1 DEF Running
  <1>3. /\ run \in Process /\ cache \subseteq CacheFiles /\ faults \in Nat
    BY <1>2, ProcessTyped
  <1>4. PICK b \in 1 .. Batches : b = run.swept + 1
    BY <1>1, <1>3, ScanRunAssumption DEF Process
  <1> DEFINE advised(blind) == IF b \in Silent /\ ~blind THEN {Advisory(b)} ELSE {}
             whole(blind) == IF blind THEN run.whole \cup {b} ELSE run.whole
             swept(blind) == [run EXCEPT !.targets = @ \cup OpenPorts(b), !.dead = @ \cup advised(blind),
                                         !.whole = whole(blind), !.swept = b, !.step = "checkpoint"]
             missed(blind) == [run EXCEPT !.failed = @ \cup {b}, !.dead = @ \cup advised(blind),
                                          !.whole = whole(blind), !.new = @ \cup {BatchError(b)},
                                          !.swept = b]
  <1>5. PICK blind \in BOOLEAN :
        \/ /\ run' = swept(blind) /\ made' = Count(advised(blind))
           /\ cache' = (cache \ Files(b)) \cup {[batch |-> b, whole |-> blind]}
           /\ Fault(IF blind THEN 1 ELSE 0)
        \/ /\ run' = missed(blind) /\ made' = Count(advised(blind) \cup {BatchError(b)})
           /\ cache' = cache /\ Fault(IF blind THEN 2 ELSE 1)
    BY <1>4 DEF SweepBatch
  <1>6. PICK adv \in SUBSET Endpoint, all \in SUBSET (1 .. Batches) :
        /\ adv = advised(blind) /\ all = whole(blind)
        /\ run.whole \subseteq all /\ (b \in Silent \ all => Advisory(b) \in adv)
    <2>1. advised(blind) \in SUBSET Endpoint
      BY EndpointsTyped
    <2>2. run.whole \in SUBSET (1 .. Batches)
      BY <1>3 DEF Process
    <2>3. whole(blind) \in SUBSET (1 .. Batches) /\ run.whole \subseteq whole(blind)
      BY <2>2
    <2>4. b \in Silent \ whole(blind) => Advisory(b) \in advised(blind)
      OBVIOUS
    <2> HIDE DEF advised, whole, swept, missed
    <2>5. QED
      BY <2>1, <2>3, <2>4
  <1>7. /\ b \in 0 .. Batches /\ OpenPorts(b) \subseteq Ports
        /\ {BatchError(b)} \in SUBSET Endpoint
    BY EndpointsTyped DEF OpenPorts
  <1>8. faults' \in Nat
    BY <1>3, <1>5 DEF Fault
  <1>9. CASE /\ run' = swept(blind) /\ made' = Count(advised(blind))
             /\ cache' = (cache \ Files(b)) \cup {[batch |-> b, whole |-> blind]}
    <2>1. PICK dead \in SUBSET Endpoint, targets \in SUBSET Ports :
              dead = run.dead \cup adv /\ targets = run.targets \cup OpenPorts(b)
      BY <1>3, <1>6, <1>7 DEF Process
    <2>2. run' = [run EXCEPT !.targets = targets, !.dead = dead, !.whole = all,
                             !.swept = b, !.step = "checkpoint"]
      BY <1>6, <1>9, <2>1
    <2>3. /\ run' \in Process /\ run'.at = run.at /\ run'.step = "checkpoint" /\ run'.swept = b
          /\ run'.targets = targets /\ run'.dead = dead /\ run'.whole = all
          /\ run'.new = run.new /\ run'.failed = run.failed /\ run'.kept = run.kept
          /\ run'.loaded = run.loaded /\ run'.unsaved = run.unsaved /\ run'.done = run.done
      BY <1>3, <1>7, <2>2 DEF Process
    <2>4. Covered(b, run.dead)'
      BY <1>6, <2>1, <2>3 DEF Covered
    <2>5. /\ made' = Count(adv \cup {}) /\ run'.new = run.new \cup {} /\ {} \in SUBSET Endpoint
      <3>1. adv \cup {} = adv /\ run.new \cup {} = run.new
        OBVIOUS
      <3>2. QED
        BY <1>6, <1>9, <2>3, <3>1
    <2>6. cache' \subseteq CacheFiles
      BY <1>3, <1>9 DEF CacheFiles
    <2>7. /\ run'.at = "discovery" /\ run'.dead = run.dead \cup adv
          /\ run.targets \subseteq run'.targets /\ run.whole \subseteq run'.whole
      BY <1>1, <1>6, <2>1, <2>3
    <2> HIDE DEF advised, whole, swept, missed
    <2>8. QED
      BY <1>1, <1>4, <1>8, <2>3, <2>4, <2>5, <2>6, <2>7, BatchSwept
  <1>10. CASE /\ run' = missed(blind) /\ made' = Count(advised(blind) \cup {BatchError(b)})
              /\ cache' = cache
    <2>1. PICK dead \in SUBSET Endpoint, new \in SUBSET Endpoint, failed \in SUBSET (1 .. Batches) :
              /\ dead = run.dead \cup adv /\ new = run.new \cup {BatchError(b)}
              /\ failed = run.failed \cup {b}
      BY <1>3, <1>6, <1>7 DEF Process
    <2>2. run' = [run EXCEPT !.failed = failed, !.dead = dead, !.whole = all,
                             !.new = new, !.swept = b]
      BY <1>6, <1>10, <2>1
    <2>3. /\ run' \in Process /\ run'.at = run.at /\ run'.step = run.step /\ run'.swept = b
          /\ run'.targets = run.targets /\ run'.dead = dead /\ run'.whole = all
          /\ run'.new = new /\ run'.failed = failed /\ run'.kept = run.kept
          /\ run'.loaded = run.loaded /\ run'.unsaved = run.unsaved /\ run'.done = run.done
      BY <1>3, <1>7, <2>2 DEF Process
    <2>4. /\ run'.at = "discovery" /\ run'.step = "run" /\ run'.dead = run.dead \cup adv
          /\ run'.new = run.new \cup {BatchError(b)}
          /\ run'.failed = run.failed \cup {b} /\ BatchError(b) \in {BatchError(b)}
          /\ run.targets \subseteq run'.targets /\ run.whole \subseteq run'.whole
          /\ made' = Count(adv \cup {BatchError(b)}) /\ cache' \subseteq CacheFiles
      BY <1>1, <1>3, <1>6, <1>10, <2>1, <2>3
    <2> HIDE DEF advised, whole, swept, missed
    <2>5. QED
      BY <1>1, <1>4, <1>7, <1>8, <2>3, <2>4, BatchSwept
  <1>11. QED
    BY <1>5, <1>9, <1>10

LEMMA CheckpointingBatch ==
    ASSUME ScanInv, CheckpointBatch
    PROVE  ScanInv'
  <1>1. /\ run.at = "discovery" /\ run.step = "checkpoint"
        /\ db' = [db EXCEPT !.batches = @ \cup {run.swept}]
        /\ run' = [run EXCEPT !.step = "run"]
        /\ UNCHANGED <<cache, config, late, made, owed, faults, resumes>>
    BY DEF CheckpointBatch
  <1>2. Running
    BY <1>1 DEF Running
  <1>3. /\ run \in Process /\ db \in Tables
    BY <1>2, ProcessTyped
  <1>4. run.swept \in 1 .. Batches
    <2>1. run.swept \in 0 .. Batches /\ run.swept # 0 /\ Batches \in Nat
      BY <1>1, <1>2, <1>3, ScanRunAssumption DEF ScanInv, ScanTypeOK, Process
    <2>2. QED
      BY <2>1
  <1>5. /\ db'.batches \subseteq 1 .. Batches /\ db'.rows = db.rows /\ db'.early = db.early
        /\ db'.cps = db.cps /\ db'.report = db.report
        /\ db' \in Tables'
    BY <1>1, <1>3, <1>4 DEF Tables
  <1>6. /\ run' \in Process /\ run'.at = "discovery" /\ run'.step = "run"
        /\ run'.swept = run.swept /\ run'.targets = run.targets /\ run'.dead = run.dead
        /\ run'.new = run.new /\ run'.failed = run.failed /\ run'.whole = run.whole /\ run'.kept = run.kept
        /\ run'.loaded = run.loaded /\ run'.unsaved = run.unsaved /\ run'.done = run.done
    BY <1>1, <1>3 DEF Process
  <1>7. Running'
    BY <1>6 DEF Running
  <1>8. ScanTypeOK'
    BY <1>1, <1>5, <1>6 DEF ScanInv, ScanTypeOK
  <1>9. StoredInv'
    BY <1>1, <1>2, <1>5, <1>6 DEF ScanInv, StoredInv, Stored, CompletedStagePersisted
  <1>10. CountInv'
    <2>1. Unsaved' = Unsaved
      BY <1>1, <1>2, <1>6, <1>7 DEF Unsaved
    <2>2. QED
      BY <1>1, <1>5, <2>1 DEF ScanInv, CountInv
  <1>11. CoverInv'
    BY <1>1, <1>2, <1>6 DEF ScanInv, CoverInv, Covered
  <1>12. AccountInv'
    <2>1. ~ InventoryDone' /\ ~ TLSDone' /\ ~ SSHDone' /\ run'.at \notin {"reported", "done"}
      BY <1>6 DEF InventoryDone, TLSDone, SSHDone, Later, Ending
    <2>2. QED
      BY <1>1, <1>2, <1>5, <1>6, <2>1 DEF ScanInv, AccountInv, ReportAccountsForEstate
  <1>13. QED
    BY <1>8, <1>9, <1>10, <1>11, <1>12 DEF ScanInv

LEMMA EndingDiscovery ==
    ASSUME ScanInv, EndDiscovery
    PROVE  ScanInv'
  <1>1. /\ run.at = "discovery" /\ run.step = "run" /\ run.swept = Batches
        /\ run' = IF run.targets = {} THEN Ended("done")
                  ELSE [run EXCEPT !.at = "inventory", !.new = @ \cup run.dead]
        /\ db' = [db EXCEPT !.cps = @ \cup {"discovery"}]
        /\ UNCHANGED <<cache, config, late, made, owed, faults, resumes>>
    BY DEF EndDiscovery
  <1>2. Running
    BY <1>1 DEF Running
  <1>3. /\ run \in Process /\ db \in Tables /\ IsABag(db.rows) /\ IsABag(made)
    BY <1>2, ProcessTyped
  <1>4. /\ db'.cps = db.cps \cup {"discovery"} /\ db'.rows = db.rows /\ db'.early = db.early
        /\ db'.report = db.report /\ db' \in Tables'
    BY <1>1, <1>3 DEF Tables, Checkpoints
  <1>5. resumes = 0 => "reports" \notin db'.cps
    BY <1>2, <1>4 DEF ScanInv, AccountInv
  <1>6. CASE run.targets = {}
    <2>1. run' = Ended("done")
      BY <1>1, <1>6
    <2>2. (ReportAccountsForEstate)'
      BY <2>1 DEF ReportAccountsForEstate, Ended
    <2>3. WorkInv'
      BY <1>1, <1>3, <1>4, <2>1, <2>2, ProcessEnds DEF ScanInv, WorkInv
    <2>4. ~ Running'
      BY <2>1 DEF Running, Ended
    <2>5. ScanTypeOK'
      BY <1>1, <1>3, <1>4, <2>1, <2>4 DEF ScanInv, ScanTypeOK
    <2>6. QED
      BY <2>3, <2>5 DEF ScanInv, WorkInv
  <1>7. CASE run.targets # {}
    <2>1. run' = [run EXCEPT !.at = "inventory", !.new = @ \cup run.dead]
      BY <1>1, <1>7
    <2>2. /\ run' \in Process /\ run'.at = "inventory" /\ run'.step = "run"
          /\ run'.new = run.new \cup run.dead /\ run'.targets = run.targets
          /\ run'.failed = run.failed /\ run'.whole = run.whole /\ run'.kept = run.kept /\ run'.loaded = run.loaded
          /\ run'.unsaved = run.unsaved /\ run'.done = run.done
      <3>1. PICK new \in SUBSET Endpoint, at \in Places : new = run.new \cup run.dead /\ at = "inventory"
        BY <1>3 DEF Process, Places, Flushing
      <3>2. run' = [run EXCEPT !.at = at, !.new = new]
        BY <2>1, <3>1
      <3>3. run' \in Process
        BY <1>3, <3>2 DEF Process
      <3>4. /\ run'.at = at /\ run'.step = run.step /\ run'.new = new /\ run'.targets = run.targets
            /\ run'.failed = run.failed /\ run'.whole = run.whole /\ run'.kept = run.kept /\ run'.loaded = run.loaded
            /\ run'.unsaved = run.unsaved /\ run'.done = run.done
        BY <1>3, <3>2 DEF Process
      <3>5. QED
        BY <1>1, <3>1, <3>3, <3>4
    <2>3. Running'
      BY <2>2 DEF Running
    <2>4. ScanTypeOK'
      BY <1>1, <1>4, <2>2, <2>3 DEF ScanInv, ScanTypeOK
    <2>5. StoredInv'
      BY <1>1, <1>2, <1>4, <2>2 DEF ScanInv, StoredInv, Stored, CompletedStagePersisted
    <2>6. CountInv'
      <3>1. Unsaved' = Unsaved
        BY <1>1, <1>2, <2>2, <2>3 DEF Unsaved
      <3>2. QED
        BY <1>1, <1>4, <3>1 DEF ScanInv, CountInv
    <2>7. CoverInv'
      BY <1>1, <1>2, <2>2 DEF ScanInv, CoverInv, Covered
    <2>8. AccountInv'
      <3>1. ~ InventoryDone' /\ ~ TLSDone' /\ ~ SSHDone' /\ run'.at \notin {"reported", "done"}
        BY <2>2 DEF InventoryDone, TLSDone, SSHDone, Later, Ending
      <3>2. QED
        BY <1>1, <1>2, <1>5, <2>2, <3>1 DEF ScanInv, AccountInv, ReportAccountsForEstate
    <2>9. QED
      BY <2>4, <2>5, <2>6, <2>7, <2>8 DEF ScanInv
  <1>8. QED
    BY <1>6, <1>7

-----------------------------------------------------------------------------
(* Flush and checkpoint *)

(* A stage flushes what its own scanners found. *)
LEMMA FlushedNames ==
    ASSUME NEW stage \in Flushing, NEW objects, NEW e \in StageEps(stage, objects)
    PROVE  e \in objects /\ e.by \notin {"liveness", "discovery"}
  <1>1. CASE stage = "inventory"
    BY <1>1 DEF StageEps
  <1>2. CASE stage # "inventory"
    <2>1. stage \in Stages
      BY <1>2, StageOrder DEF Flushing
    <2>2. \E p \in StagePhases[stage] : p.name = e.by
      BY <1>2 DEF StageEps
    <2>3. QED
      BY <2>1, <2>2, PhaseFields DEF StageEps, Reserved
  <1>3. QED
    BY <1>1, <1>2

LEMMA FlushingStage ==
    ASSUME ScanInv, _flush_stage_endpoints
    PROVE  ScanInv'
  <1> DEFINE eps == FlushList(run.at)
  <1>1. /\ run.step = "flush"
        /\ db' = [db EXCEPT !.rows = Inserted(eps), !.early = IF late THEN @ ELSE @ \cup eps]
        /\ run' = [run EXCEPT !.step = "checkpoint", !.new = @ \ eps, !.kept = @ \cup eps]
        /\ UNCHANGED <<cache, config, late, made, owed, faults, resumes>>
    BY DEF _flush_stage_endpoints, WriteBack
  <1>2. Running
    BY <1>1, SteppingRuns
  <1>3. run.at \in Flushing
    BY <1>1, <1>2 DEF ScanInv, ScanTypeOK
  <1>4. /\ run \in Process /\ db \in Tables /\ IsABag(db.rows) /\ IsABag(made)
    BY <1>2, ProcessTyped
  <1>5. /\ eps \subseteq run.new
        /\ \A e \in eps : e.by \notin {"liveness", "discovery"}
        /\ \A e \in StageEps(run.at, run.new \ eps) : e.by = "codesign_scanning"
    <2>1. \A e \in eps : e \in StageEps(run.at, run.new)
      BY DEF FlushList
    <2>2. \A e \in eps : e \in run.new /\ e.by \notin {"liveness", "discovery"}
      BY <1>3, <2>1, FlushedNames
    <2>3. ASSUME NEW e \in StageEps(run.at, run.new \ eps) PROVE e.by = "codesign_scanning"
      <3>1. e \in StageEps(run.at, run.new) /\ e \notin eps
        BY <2>3 DEF StageEps
      <3>2. QED
        BY <3>1 DEF FlushList, Flushed
    <2>4. QED
      BY <2>2, <2>3
  <1>6. /\ IsABag(Inserted(eps)) /\ BagToSet(Inserted(eps)) = BagToSet(db.rows) \cup eps
        /\ Counted(Inserted(eps), made, run.new \ eps)
    <2>1. Unsaved = run.new
      BY <1>2, <1>3 DEF Unsaved, Flushing
    <2>2. Counted(db.rows, made, run.new) /\ eps \in SUBSET run.new
      BY <1>5, <2>1 DEF ScanInv, CountInv
    <2> HIDE DEF eps
    <2>3. QED
      BY <1>4, <2>2, InsertCounts, BagAdd DEF Inserted
  <1>7. PICK new \in SUBSET Endpoint, kept \in SUBSET Endpoint :
          /\ new = run.new \ eps /\ kept = run.kept \cup eps
          /\ eps \subseteq Endpoint
    <2>1. run.new \subseteq Endpoint /\ run.kept \subseteq Endpoint
      BY <1>4 DEF Process
    <2> HIDE DEF eps
    <2>2. run.new \ eps \in SUBSET Endpoint /\ run.kept \cup eps \in SUBSET Endpoint
      BY <1>5, <2>1
    <2>3. QED
      BY <1>5, <2>1, <2>2
  <1> HIDE DEF eps
  <1>8. /\ run' \in Process /\ run'.at = run.at /\ run'.step = "checkpoint"
        /\ run'.new = new /\ run'.kept = kept /\ run'.targets = run.targets
        /\ run'.failed = run.failed /\ run'.whole = run.whole /\ run'.loaded = run.loaded /\ run'.unsaved = run.unsaved
        /\ run'.done = run.done /\ run'.tls = run.tls /\ run'.ssh = run.ssh
    <2>1. run' = [run EXCEPT !.step = "checkpoint", !.new = new, !.kept = kept]
      BY <1>1, <1>7
    <2>2. QED
      BY <1>4, <2>1 DEF Process
  <1>9. Running'
    BY <1>2, <1>8 DEF Running
  <1>10. /\ db'.rows = Inserted(eps) /\ db'.cps = db.cps /\ db'.report = db.report
         /\ db'.early \subseteq db.early \cup eps
         /\ db' \in Tables'
    <2>1. db.early \cup eps \in SUBSET Endpoint
      BY <1>4, <1>7 DEF Tables
    <2>2. QED
      BY <1>1, <1>4, <2>1 DEF Tables
  <1>11. ScanTypeOK'
    <2>1. IsABag(db'.rows) /\ BagToSet(db'.rows) \subseteq Endpoint
      BY <1>6, <1>7, <1>10 DEF ScanInv, ScanTypeOK
    <2>2. QED
      BY <1>1, <1>3, <1>8, <1>9, <1>10, <2>1 DEF ScanInv, ScanTypeOK, Flushing
  <1>12. \A e : Stored(e) \/ e \in eps => Stored(e)'
    BY <1>6, <1>10 DEF Stored, BagIn
  <1>13. StoredInv'
    <2>1. \A e \in db'.early : Stored(e)'
      BY <1>10, <1>12 DEF ScanInv, StoredInv
    <2>2. \A e \in run'.kept \cup run'.loaded : Stored(e)'
      BY <1>2, <1>7, <1>8, <1>12 DEF ScanInv, StoredInv
    <2>3. run'.at # "discovery" /\ \A e \in StageEps(run'.at, run'.new) : e.by = "codesign_scanning"
      BY <1>3, <1>5, <1>7, <1>8 DEF Flushing
    <2>4. CompletedStagePersisted'
      BY <1>1, <1>12 DEF ScanInv, StoredInv, CompletedStagePersisted
    <2>5. QED
      BY <1>8, <2>1, <2>2, <2>3, <2>4 DEF StoredInv
  <1>14. CountInv'
    <2>1. Unsaved' = new
      BY <1>3, <1>8, <1>9 DEF Unsaved, Flushing
    <2>2. QED
      BY <1>1, <1>6, <1>7, <1>10, <2>1 DEF CountInv
  <1>15. CoverInv'
    <2>1. \A b : Advisory(b) \notin eps
      BY <1>5 DEF Advisory, Ep
    <2>2. run.at # "discovery"
      BY <1>3 DEF Flushing
    <2>3. QED
      BY <1>2, <1>7, <1>8, <2>1, <2>2 DEF ScanInv, CoverInv, Covered
  <1>16. AccountInv'
    <2>1. /\ run'.at \notin {"reported", "done"}
          /\ InMemory' = InMemory
          /\ \A b : BatchError(b) \notin eps
      BY <1>3, <1>5, <1>7, <1>8 DEF Flushing, InMemory, BatchError, Ep
    <2>2. InventoryDone' = InventoryDone /\ TLSDone' = TLSDone /\ SSHDone' = SSHDone
      BY <1>1, <1>8 DEF InventoryDone, TLSDone, SSHDone
    <2>3. QED
      BY <1>1, <1>2, <1>7, <1>8, <1>10, <2>1, <2>2 DEF ScanInv, AccountInv, ReportAccountsForEstate
  <1>17. QED
    BY <1>11, <1>13, <1>14, <1>15, <1>16 DEF ScanInv

LEMMA FailingFlush ==
    ASSUME ScanInv, FlushFails
    PROVE  ScanInv'
  <1>1. /\ run.step = "flush" /\ Fault(1)
        /\ run' = [run EXCEPT !.step = "checkpoint", !.unsaved = TRUE]
        /\ UNCHANGED <<db, cache, config, late, made, owed, resumes>>
    BY DEF FlushFails
  <1>2. Running
    BY <1>1, SteppingRuns
  <1>3. run.at \in Flushing
    BY <1>1, <1>2 DEF ScanInv, ScanTypeOK
  <1>4. /\ run \in Process /\ db \in Tables /\ faults \in Nat
    BY <1>2, ProcessTyped
  <1>5. /\ run' \in Process /\ run'.at = run.at /\ run'.step = "checkpoint"
        /\ run'.new = run.new /\ run'.kept = run.kept /\ run'.targets = run.targets
        /\ run'.failed = run.failed /\ run'.whole = run.whole /\ run'.loaded = run.loaded /\ run'.unsaved = TRUE
        /\ run'.done = run.done /\ run'.tls = run.tls /\ run'.ssh = run.ssh
    BY <1>1, <1>4 DEF Process
  <1>6. Running' /\ run.at # "discovery" /\ run.at \notin {"reported", "done"}
    BY <1>2, <1>3, <1>5 DEF Running, Flushing
  <1>7. db' \in Tables' /\ faults' \in Nat
    BY <1>1, <1>4 DEF Tables, Fault
  <1>8. ScanTypeOK'
    BY <1>1, <1>3, <1>5, <1>6, <1>7 DEF ScanInv, ScanTypeOK
  <1>9. StoredInv'
    BY <1>1, <1>2, <1>5, <1>6 DEF ScanInv, StoredInv, Stored, CompletedStagePersisted
  <1>10. CountInv'
    <2>1. Unsaved' = Unsaved
      BY <1>2, <1>5, <1>6 DEF Unsaved
    <2>2. QED
      BY <1>1, <2>1 DEF ScanInv, CountInv
  <1>11. CoverInv'
    BY <1>2, <1>5, <1>6 DEF ScanInv, CoverInv, Covered
  <1>12. AccountInv'
    <2>1. /\ InMemory' = InMemory
          /\ InventoryDone' = InventoryDone /\ TLSDone' = TLSDone /\ SSHDone' = SSHDone
      BY <1>1, <1>5 DEF InMemory, InventoryDone, TLSDone, SSHDone
    <2>2. QED
      BY <1>1, <1>2, <1>5, <1>6, <2>1 DEF ScanInv, AccountInv, ReportAccountsForEstate
  <1>13. QED
    BY <1>8, <1>9, <1>10, <1>11, <1>12 DEF ScanInv

(* The stage is over, with its checkpoint or without. *)
LEMMA StageOver ==
    ASSUME ScanInv, run.step = "checkpoint", run.at \in DOMAIN After,
           run' = [run EXCEPT !.step = "run", !.at = After[@], !.unsaved = FALSE],
           \/ db' = db
           \/ db' = [db EXCEPT !.cps = @ \cup {run.at}],
           \/ owed' = owed
           \/ ~ run.unsaved /\ owed' = owed \cup StageEps(run.at, run.new \cup run.kept),
           UNCHANGED <<cache, config, late, made, resumes>>, faults' \in Nat
    PROVE  ScanInv'
  <1>1. Running
    BY SteppingRuns
  <1>2. run.at \in Flushing
    BY <1>1, StageOrder DEF ScanInv, ScanTypeOK
  <1>3. /\ run \in Process /\ db \in Tables
    BY <1>1, ProcessTyped
  <1>4. /\ After[run.at] \in Places \ {"discovery", "inventory", "records", "reports", "reported"}
        /\ run.at = "inventory" => After[run.at] = "tls"
        /\ run.at = "tls" => After[run.at] = "ssh"
        /\ run.at # "discovery" /\ run.at \notin {"reported", "done"}
    BY <1>2, StageOrder DEF Flushing, Places, Ending
  <1>5. PICK next \in Places : next = After[run.at]
    BY <1>4
  <1>6. /\ run' \in Process /\ run'.at = next /\ run'.step = "run" /\ run'.unsaved = FALSE
        /\ run'.new = run.new /\ run'.kept = run.kept /\ run'.targets = run.targets
        /\ run'.failed = run.failed /\ run'.whole = run.whole /\ run'.loaded = run.loaded
        /\ run'.done = run.done /\ run'.tls = run.tls /\ run'.ssh = run.ssh
    <2>1. run' = [run EXCEPT !.step = "run", !.at = next, !.unsaved = FALSE] /\ run \in Process
      BY <1>3, <1>5
    <2>2. run' \in Process
      BY <2>1, ZenonT(40) DEF Process
    <2>3. /\ run'.at = next /\ run'.step = "run" /\ run'.unsaved = FALSE
          /\ run'.new = run.new /\ run'.kept = run.kept /\ run'.targets = run.targets
          /\ run'.failed = run.failed /\ run'.whole = run.whole /\ run'.loaded = run.loaded /\ run'.done = run.done
          /\ run'.tls = run.tls /\ run'.ssh = run.ssh
      BY <2>1 DEF Process
    <2>4. QED
      BY <2>2, <2>3
  <1>7. Running'
    BY <1>6 DEF Running, Places, Flushing, Ending
  <1>8. /\ db'.rows = db.rows /\ db'.early = db.early /\ db'.report = db.report
        /\ db'.cps \subseteq db.cps \cup {run.at} /\ db' \in Tables'
    BY <1>2, <1>3 DEF Tables, Checkpoints
  <1>9. StageEps(run.at, run.new \cup run.kept) \subseteq Endpoint
        /\ \A e \in StageEps(run.at, run.new \cup run.kept) :
              e \in run.kept \/ e \in StageEps(run.at, run.new)
    BY <1>3 DEF StageEps, Process
  <1>10. ScanTypeOK'
    BY <1>6, <1>7, <1>8, <1>9 DEF ScanInv, ScanTypeOK
  <1>11. StoredInv'
    <2>1. \A e : Stored(e)' <=> Stored(e)
      BY <1>8 DEF Stored
    <2>2. ~ run.unsaved => \A e \in StageEps(run.at, run.new \cup run.kept) :
              Stored(e) \/ e.by = "codesign_scanning"
      BY <1>1, <1>4, <1>9 DEF ScanInv, StoredInv
    <2>3. CompletedStagePersisted'
      BY <2>1, <2>2 DEF ScanInv, StoredInv, CompletedStagePersisted
    <2>4. QED
      BY <1>1, <1>6, <1>8, <2>1, <2>3 DEF ScanInv, StoredInv
  <1>12. CountInv'
    <2>1. Unsaved' = Unsaved
      BY <1>1, <1>4, <1>5, <1>6, <1>7, <1>2 DEF Unsaved, Flushing
    <2>2. QED
      BY <1>8, <2>1 DEF ScanInv, CountInv
  <1>13. CoverInv'
    BY <1>1, <1>4, <1>5, <1>6 DEF ScanInv, CoverInv, Covered
  <1>14. AccountInv'
    <2>1. /\ InMemory' = InMemory
          /\ InventoryDone /\ (TLSDone' => TLSDone) /\ (SSHDone' => SSHDone)
      BY <1>2, <1>4, <1>5, <1>6
      DEF InMemory, InventoryDone, TLSDone, SSHDone, Later, Flushing, Ending
    <2>2. resumes = 0 => "reports" \notin db'.cps
      BY <1>1, <1>2, <1>8 DEF ScanInv, AccountInv, Flushing
    <2>3. run'.at \notin {"reported", "done"}
      BY <1>4, <1>5, <1>6, <1>7 DEF Running
    <2>4. QED
      BY <1>1, <1>6, <1>8, <2>1, <2>2, <2>3 DEF ScanInv, AccountInv, ReportAccountsForEstate
  <1>15. QED
    BY <1>10, <1>11, <1>12, <1>13, <1>14 DEF ScanInv

LEMMA CheckpointingStage ==
    ASSUME ScanInv, write_scan_checkpoint \/ CheckpointFails
    PROVE  ScanInv'
  <1>1. faults \in Nat
    BY DEF ScanInv, ScanTypeOK
  <1>2. CASE write_scan_checkpoint
    BY <1>1, <1>2, StageOver DEF write_scan_checkpoint
  <1>3. CASE CheckpointFails
    BY <1>1, <1>3, StageOver DEF CheckpointFails, Fault
  <1>4. QED
    BY <1>2, <1>3

-----------------------------------------------------------------------------
(* Inventory and the scanner stages *)

LEMMA RestoringInventory ==
    ASSUME ScanInv, RestoreInventory
    PROVE  ScanInv'
  <1> DEFINE rows == {e \in run.loaded : e.by = "inventory"}
  <1>1. /\ run.at = "inventory" /\ run.step = "run" /\ "inventory" \in run.done
        /\ run' = [run EXCEPT !.kept = @ \cup rows, !.tls = TargetsOf("TLS"),
                              !.ssh = TargetsOf("SSH"), !.step = "flush"]
        /\ UNCHANGED <<db, cache, config, late, made, owed, faults, resumes>>
    BY DEF RestoreInventory
  <1>2. Running
    BY <1>1, SteppingRuns
  <1>3. /\ run \in Process /\ db \in Tables
    BY <1>2, ProcessTyped
  <1>4. PICK kept \in SUBSET Endpoint, tls \in SUBSET Where, ssh \in SUBSET Where :
          kept = run.kept \cup rows /\ tls = TargetsOf("TLS") /\ ssh = TargetsOf("SSH")
    <2>1. run.loaded \subseteq Endpoint /\ run.kept \subseteq Endpoint
      BY <1>3 DEF Process
    <2>2. \A e \in run.loaded : e.at \in Where
      BY <2>1 DEF Endpoint
    <2>3. TargetsOf("TLS") \in SUBSET Where /\ TargetsOf("SSH") \in SUBSET Where
      BY <2>2 DEF TargetsOf
    <2>4. run.kept \cup rows \in SUBSET Endpoint
      BY <2>1
    <2>5. QED
      BY <2>3, <2>4
  <1>5. /\ run' \in Process /\ run'.at = "inventory" /\ run'.step = "flush"
        /\ run'.new = run.new /\ run'.kept = kept /\ run'.targets = run.targets
        /\ run'.failed = run.failed /\ run'.whole = run.whole /\ run'.loaded = run.loaded /\ run'.unsaved = run.unsaved
    <2>1. run' = [run EXCEPT !.kept = kept, !.tls = tls, !.ssh = ssh, !.step = "flush"]
      BY <1>1, <1>4
    <2>2. run' \in Process
      BY <1>3, <2>1 DEF Process
    <2>3. /\ run'.at = "inventory" /\ run'.step = "flush" /\ run'.new = run.new
          /\ run'.kept = kept /\ run'.targets = run.targets /\ run'.failed = run.failed /\ run'.whole = run.whole
          /\ run'.loaded = run.loaded /\ run'.unsaved = run.unsaved
      BY <1>1, <1>3, <2>1 DEF Process
    <2>4. QED
      BY <2>2, <2>3
  <1>6. Running'
    BY <1>5 DEF Running
  <1>7. db' \in Tables' /\ "inventory" \in Flushing
    BY <1>1, <1>3 DEF Tables, Flushing
  <1>8. ScanTypeOK'
    BY <1>1, <1>5, <1>6, <1>7 DEF ScanInv, ScanTypeOK
  <1>9. StoredInv'
    BY <1>1, <1>2, <1>4, <1>5 DEF ScanInv, StoredInv, Stored, CompletedStagePersisted
  <1>10. CountInv'
    <2>1. Unsaved' = Unsaved
      BY <1>1, <1>2, <1>5, <1>6 DEF Unsaved
    <2>2. QED
      BY <1>1, <2>1 DEF ScanInv, CountInv
  <1>11. CoverInv'
    BY <1>1, <1>2, <1>5 DEF ScanInv, CoverInv, Covered
  <1>12. AccountInv'
    <2>1. resumes' # 0
      BY <1>1, <1>2 DEF ScanInv, AccountInv
    <2>2. QED
      BY <2>1 DEF AccountInv
  <1>13. QED
    BY <1>8, <1>9, <1>10, <1>11, <1>12 DEF ScanInv

LEMMA Fingerprinting ==
    ASSUME ScanInv, Fingerprint
    PROVE  ScanInv'
  <1> DEFINE eps == {e \in InventoryEps : e.at \in run.targets}
             onTls == {q \in run.targets : q.serves = "TLS"}
             onSsh == {q \in run.targets : q.serves = "SSH"}
  <1>1. /\ run.at = "inventory" /\ run.step = "run"
        /\ run' = [run EXCEPT !.new = @ \cup eps, !.step = "flush", !.tls = onTls, !.ssh = onSsh]
        /\ made' = made (+) SetToBag(eps)
        /\ UNCHANGED <<db, cache, config, late, owed, faults, resumes>>
    BY DEF Fingerprint, Count
  <1>2. Running
    BY <1>1, SteppingRuns
  <1>3. /\ run \in Process /\ db \in Tables /\ IsABag(db.rows) /\ IsABag(made)
    BY <1>2, ProcessTyped
  <1>4. run.targets \subseteq Ports /\ run.new \subseteq Endpoint
    BY <1>3 DEF Process
  <1>5. PICK new \in SUBSET Endpoint, tls \in SUBSET Where, ssh \in SUBSET Where :
          new = run.new \cup eps /\ tls = onTls /\ ssh = onSsh
    <2>1. run.new \cup eps \in SUBSET Endpoint /\ onTls \in SUBSET Where /\ onSsh \in SUBSET Where
      BY <1>4, EndpointsTyped, PortsTyped
    <2>2. QED
      BY <2>1
  <1>6. /\ run' \in Process /\ run'.at = "inventory" /\ run'.step = "flush"
        /\ run'.new = new /\ run'.kept = run.kept /\ run'.targets = run.targets
        /\ run'.failed = run.failed /\ run'.whole = run.whole /\ run'.loaded = run.loaded /\ run'.unsaved = run.unsaved
        /\ run'.done = run.done /\ run'.tls = tls /\ run'.ssh = ssh
    <2>1. run' = [run EXCEPT !.new = new, !.step = "flush", !.tls = tls, !.ssh = ssh]
      BY <1>1, <1>5
    <2>2. run' \in Process
      BY <1>3, <2>1 DEF Process
    <2>3. /\ run'.at = "inventory" /\ run'.step = "flush" /\ run'.new = new
          /\ run'.kept = run.kept /\ run'.targets = run.targets /\ run'.failed = run.failed /\ run'.whole = run.whole
          /\ run'.loaded = run.loaded /\ run'.unsaved = run.unsaved /\ run'.done = run.done
          /\ run'.tls = tls /\ run'.ssh = ssh
      BY <1>1, <1>3, <2>1 DEF Process
    <2>4. QED
      BY <2>2, <2>3
  <1>7. Running'
    BY <1>6 DEF Running
  <1>8. /\ IsABag(made') /\ Counted(db.rows, made', new)
    <2>1. Unsaved = run.new
      BY <1>1, <1>2 DEF Unsaved
    <2>2. Counted(db.rows, made, run.new)
      BY <2>1 DEF ScanInv, CountInv
    <2> HIDE DEF eps
    <2>3. QED
      BY <1>1, <1>3, <1>5, <2>2, FindCounts
  <1>9. db' \in Tables' /\ "inventory" \in Flushing
    BY <1>1, <1>3 DEF Tables, Flushing
  <1>10. ScanTypeOK'
    BY <1>1, <1>6, <1>7, <1>8, <1>9 DEF ScanInv, ScanTypeOK
  <1>11. StoredInv'
    BY <1>1, <1>2, <1>6 DEF ScanInv, StoredInv, Stored, CompletedStagePersisted
  <1>12. CountInv'
    <2>1. Unsaved' = new
      BY <1>6, <1>7 DEF Unsaved
    <2>2. QED
      BY <1>1, <1>8, <2>1 DEF CountInv
  <1>13. CoverInv'
    BY <1>1, <1>2, <1>5, <1>6 DEF ScanInv, CoverInv, Covered
  <1>14. AccountInv'
    <2>1. ASSUME NEW q \in run.targets
          PROVE  /\ q.serves = "HTTP" => Ep("inventory", "HTTP", q) \in new
                 /\ q.serves = "TLS" => q \in tls
                 /\ q.serves = "SSH" => q \in ssh
      BY <1>4, <1>5 DEF InventoryEps, Ep
    <2>2. ~ TLSDone' /\ ~ SSHDone' /\ run'.at \notin {"reported", "done"}
      BY <1>6 DEF TLSDone, SSHDone, Later, Ending
    <2>3. run.new \subseteq run'.new /\ new \subseteq InMemory'
      BY <1>5, <1>6 DEF InMemory
    <2>4. QED
      BY <1>1, <1>2, <1>6, <2>1, <2>2, <2>3 DEF ScanInv, AccountInv, ReportAccountsForEstate
  <1>15. QED
    BY <1>10, <1>11, <1>12, <1>13, <1>14 DEF ScanInv

LEMMA RestoringStage ==
    ASSUME ScanInv, RestoreStage
    PROVE  ScanInv'
  <1> DEFINE phases == StagePhases[run.at]
             rows == {e \in run.loaded : \E p \in phases : e.proto \in p.restores}
             verdict(n) == IF \E p \in phases : p.name = n THEN "resumed" ELSE run.records[n]
  <1>1. /\ run.at \in Stages /\ run.step = "run" /\ run.at \in run.done
        /\ run' = [run EXCEPT !.kept = @ \cup rows,
                     !.records = [n \in PhaseNames |-> verdict(n)], !.at = After[@]]
        /\ UNCHANGED <<db, cache, config, late, made, owed, faults, resumes>>
    BY DEF RestoreStage
  <1>2. Running
    BY <1>1, SteppingRuns
  <1>3. /\ run \in Process /\ db \in Tables
    BY <1>2, ProcessTyped
  <1>4. /\ After[run.at] \in Places \ {"discovery", "inventory", "records", "reports", "reported"}
        /\ run.at \notin {"discovery", "records", "reports", "reported"}
    BY <1>1, StageOrder DEF Flushing, Places, Ending
  <1>5. PICK kept \in SUBSET Endpoint, next \in Places, records \in [PhaseNames -> Verdicts] :
          /\ kept = run.kept \cup rows /\ next = After[run.at]
          /\ records = [n \in PhaseNames |-> verdict(n)]
    <2>1. run.records \in [PhaseNames -> Verdicts] /\ run.kept \cup rows \in SUBSET Endpoint
      BY <1>3 DEF Process
    <2>2. \A n \in PhaseNames : verdict(n) \in Verdicts
      BY <2>1 DEF Verdicts
    <2>3. [n \in PhaseNames |-> verdict(n)] \in [PhaseNames -> Verdicts]
      BY <2>2
    <2>4. QED
      BY <1>4, <2>1, <2>3
  <1>6. /\ run' \in Process /\ run'.at = next /\ run'.step = "run"
        /\ run'.new = run.new /\ run'.kept = kept /\ run'.targets = run.targets
        /\ run'.failed = run.failed /\ run'.whole = run.whole /\ run'.loaded = run.loaded /\ run'.unsaved = run.unsaved
    <2>1. run' = [run EXCEPT !.kept = kept, !.records = records, !.at = next]
      BY <1>1, <1>5
    <2>2. run' \in Process
      BY <1>3, <2>1 DEF Process
    <2>3. /\ run'.at = next /\ run'.step = "run" /\ run'.new = run.new
          /\ run'.kept = kept /\ run'.targets = run.targets /\ run'.failed = run.failed /\ run'.whole = run.whole
          /\ run'.loaded = run.loaded /\ run'.unsaved = run.unsaved
      BY <1>1, <1>3, <2>1 DEF Process
    <2>4. QED
      BY <2>2, <2>3
  <1>7. Running'
    BY <1>6 DEF Running, Places, Flushing, Ending
  <1>8. db' \in Tables'
    BY <1>1, <1>3 DEF Tables
  <1>9. ScanTypeOK'
    BY <1>1, <1>6, <1>7, <1>8 DEF ScanInv, ScanTypeOK
  <1>10. StoredInv'
    BY <1>1, <1>2, <1>5, <1>6 DEF ScanInv, StoredInv, Stored, CompletedStagePersisted
  <1>11. CountInv'
    <2>1. Unsaved' = Unsaved
      BY <1>2, <1>4, <1>5, <1>6, <1>7 DEF Unsaved
    <2>2. QED
      BY <1>1, <2>1 DEF ScanInv, CountInv
  <1>12. CoverInv'
    BY <1>2, <1>4, <1>5, <1>6 DEF ScanInv, CoverInv, Covered
  <1>13. AccountInv'
    <2>1. resumes' # 0
      BY <1>1, <1>2 DEF ScanInv, AccountInv
    <2>2. QED
      BY <2>1 DEF AccountInv
  <1>14. QED
    BY <1>9, <1>10, <1>11, <1>12, <1>13 DEF ScanInv

LEMMA FiveAreFinite ==
    ASSUME NEW a, NEW b, NEW c, NEW d, NEW e
    PROVE  IsFiniteSet({a, b, c, d, e})
  <1>1. IsFiniteSet({a} \cup {b})
    BY FS_Singleton, FS_AddElement
  <1>2. IsFiniteSet(({a} \cup {b}) \cup {c})
    BY <1>1, FS_AddElement
  <1>3. IsFiniteSet((({a} \cup {b}) \cup {c}) \cup {d})
    BY <1>2, FS_AddElement
  <1>4. IsFiniteSet(((({a} \cup {b}) \cup {c}) \cup {d}) \cup {e})
    BY <1>3, FS_AddElement
  <1>5. ((({a} \cup {b}) \cup {c}) \cup {d}) \cup {e} = {a, b, c, d, e}
    OBVIOUS
  <1>6. QED
    BY <1>4, <1>5

LEMMA PhasesAreFinite ==
    ASSUME NEW stage \in Stages
    PROVE  IsFiniteSet(StagePhases[stage])
  <1>1. CASE stage \in {"tls", "ssh", "pqc"}
    <2>1. CASE stage = "tls"
      <3>1. StagePhases[stage] = {_run_tls_phase}
        BY <2>1 DEF StagePhases
      <3>2. QED
        BY <3>1, FS_Singleton
    <2>2. CASE stage = "ssh"
      <3>1. StagePhases[stage] = {_run_ssh_phase}
        BY <2>2 DEF StagePhases
      <3>2. QED
        BY <3>1, FS_Singleton
    <2>3. CASE stage = "pqc"
      <3>1. StagePhases[stage] = {_run_pqc_phase}
        BY <2>3 DEF StagePhases
      <3>2. QED
        BY <3>1, FS_Singleton
    <2>4. QED
      BY <1>1, <2>1, <2>2, <2>3
  <1>2. CASE stage = "api"
    <2> DEFINE S == {_run_jwt_phase, _run_container_phase, _run_source_phase,
                     _run_openapi_phase, _run_fuzz_phase}
    <2>1. StagePhases[stage] = S
      BY <1>2 DEF StagePhases
    <2>2. IsFiniteSet(S)
      BY FiveAreFinite
    <2> HIDE DEF S
    <2>3. QED
      BY <2>1, <2>2
  <1>3. CASE stage = "identity"
    <2> DEFINE S == {_run_aws_phase, _run_azure_phase, _run_gcp_phase, _run_db_phase,
                     _run_db_phase}
    <2>1. StagePhases[stage] = S
      BY <1>3 DEF StagePhases
    <2>2. IsFiniteSet(S)
      BY FiveAreFinite
    <2> HIDE DEF S
    <2>3. QED
      BY <2>1, <2>2
  <1>4. CASE stage = "data_at_rest"
    <2> DEFINE S == {_run_s3_phase, _run_blob_phase, _run_k8s_phase, _run_dnssec_phase,
                     _run_saml_phase}
               T == {_run_kerberos_phase, _run_smime_phase, _run_adcs_phase,
                     _run_codesign_phase, _run_vault_phase}
    <2>1. StagePhases[stage] = S \cup T
      BY <1>4 DEF StagePhases
    <2>2. IsFiniteSet(S) /\ IsFiniteSet(T)
      BY FiveAreFinite
    <2> HIDE DEF S, T
    <2>3. QED
      BY <2>1, <2>2, FS_Union
  <1>5. CASE stage = "broker_email"
    <2> DEFINE S == {_run_email_phase} \cup {_run_broker_phase}
    <2>1. StagePhases[stage] = S
      BY <1>5 DEF StagePhases
    <2>2. IsFiniteSet(S)
      BY FS_Singleton, FS_AddElement
    <2> HIDE DEF S
    <2>3. QED
      BY <2>1, <2>2
  <1>6. QED
    BY <1>1, <1>2, <1>3, <1>4, <1>5, StageOrder

(* A phase without gates runs or leaves its error. *)
LEMMA FirstPhasesFind ==
    ASSUME NEW raising
    PROVE  /\ \/ PhaseError("tls_scanning") \in _wrapped_phase(_run_tls_phase, raising).eps
              \/ \A q \in run.tls :
                    Ep("tls_scanning", "TLS", q) \in _wrapped_phase(_run_tls_phase, raising).eps
           /\ \/ PhaseError("ssh_scanning") \in _wrapped_phase(_run_ssh_phase, raising).eps
              \/ \A q \in run.ssh :
                    Ep("ssh_scanning", "SSH", q) \in _wrapped_phase(_run_ssh_phase, raising).eps
  <1>1. SkipReason(_run_tls_phase) = "none" /\ SkipReason(_run_ssh_phase) = "none"
    BY FirstPhases DEF SkipReason
  <1>2. /\ Scan(_run_tls_phase) = {Ep("tls_scanning", "TLS", q) : q \in run.tls}
        /\ Scan(_run_ssh_phase) = {Ep("ssh_scanning", "SSH", q) : q \in run.ssh}
    BY FirstPhases DEF Scan
  <1>3. /\ _wrapped_phase(_run_tls_phase, raising).eps =
              IF _run_tls_phase \in raising THEN {PhaseError("tls_scanning")}
              ELSE Scan(_run_tls_phase)
        /\ _wrapped_phase(_run_ssh_phase, raising).eps =
              IF _run_ssh_phase \in raising THEN {PhaseError("ssh_scanning")}
              ELSE Scan(_run_ssh_phase)
    BY <1>1, FirstPhases DEF _wrapped_phase
  <1>4. QED
    BY <1>2, <1>3

(* What a stage finds and records. *)
LEMMA StageReturns ==
    ASSUME ScanInv, RunStage
    PROVE  \E eps \in SUBSET Endpoint, records \in [PhaseNames -> Verdicts] :
              /\ run' = [run EXCEPT !.new = @ \cup eps, !.records = records,
                           !.step = IF run.at = "pqc" THEN "run" ELSE "flush",
                           !.at = IF @ = "pqc" THEN After[@] ELSE @]
              /\ made' = Count(eps) /\ faults' \in Nat
              /\ run.at = "tls" => \/ PhaseError("tls_scanning") \in eps
                                   \/ \A q \in run.tls : Ep("tls_scanning", "TLS", q) \in eps
              /\ run.at = "ssh" => \/ PhaseError("ssh_scanning") \in eps
                                   \/ \A q \in run.ssh : Ep("ssh_scanning", "SSH", q) \in eps
  <1>1. run.at \in Stages /\ run.step = "run"
    BY DEF RunStage
  <1>2. PICK raising \in SUBSET StagePhases[run.at] :
          /\ Fault(Cardinality(raising))
          /\ run' = [run EXCEPT !.new = @ \cup StageFinds(raising), !.records = StageRecords(raising),
                               !.step = IF run.at = "pqc" THEN "run" ELSE "flush",
                               !.at = IF @ = "pqc" THEN After[@] ELSE @]
          /\ made' = Count(StageFinds(raising))
    BY DEF RunStage
  <1>3. Running
    BY <1>1, SteppingRuns
  <1>4. /\ run \in Process /\ faults \in Nat /\ config \in [Enabled -> Verdicts]
    BY <1>3, ProcessTyped
  <1>5. /\ run.tls \subseteq Where /\ run.ssh \subseteq Where
        /\ run.records \in [PhaseNames -> Verdicts]
    BY <1>4 DEF Process
  <1>6. ASSUME NEW n \in StageNames
        PROVE  /\ Result(n, raising).record \in Verdicts
               /\ Result(n, raising).eps \subseteq Endpoint
    <2>1. \E p \in StagePhases[run.at] : p.name = n
      BY <1>6 DEF StageNames
    <2>2. PICK q \in StagePhases[run.at] : q = CHOOSE p \in StagePhases[run.at] : p.name = n
      BY <2>1
    <2>3. Result(n, raising) = _wrapped_phase(q, raising)
      BY <2>2 DEF Result
    <2>4. QED
      BY <1>1, <1>4, <1>5, <2>3, WrappedTyped
  <1>7. StageFinds(raising) \in SUBSET Endpoint
    BY <1>6 DEF StageFinds
  <1>8. StageRecords(raising) \in [PhaseNames -> Verdicts]
    BY <1>5, <1>6 DEF StageRecords
  <1>9. faults' \in Nat
    <2>1. Cardinality(raising) \in Nat
      BY <1>1, PhasesAreFinite, FS_Subset, FS_CardinalityType
    <2>2. QED
      BY <1>2, <1>4, <2>1 DEF Fault
  <1>10. ASSUME NEW p, StagePhases[run.at] = {p}
         PROVE  StageFinds(raising) = _wrapped_phase(p, raising).eps
    <2>1. StageNames = {p.name}
      BY <1>10 DEF StageNames
    <2>2. Result(p.name, raising) = _wrapped_phase(p, raising)
      <3>1. (CHOOSE q \in {p} : q.name = p.name) = p
        OBVIOUS
      <3>2. QED
        BY <1>10, <3>1 DEF Result
    <2>3. StageFinds(raising) = Result(p.name, raising).eps
      BY <2>1 DEF StageFinds
    <2>4. QED
      BY <2>2, <2>3
  <1>11. /\ run.at = "tls" => StageFinds(raising) = _wrapped_phase(_run_tls_phase, raising).eps
         /\ run.at = "ssh" => StageFinds(raising) = _wrapped_phase(_run_ssh_phase, raising).eps
    BY <1>10, FirstPhases
  <1>12. QED
    BY <1>2, <1>7, <1>8, <1>9, <1>11, FirstPhasesFind

LEMMA RunningStage ==
    ASSUME ScanInv, RunStage
    PROVE  ScanInv'
  <1>1. /\ run.at \in Stages /\ run.step = "run"
        /\ UNCHANGED <<db, cache, config, late, owed, resumes>>
    BY DEF RunStage
  <1>2. Running
    BY <1>1, SteppingRuns
  <1>3. /\ run \in Process /\ db \in Tables /\ IsABag(db.rows) /\ IsABag(made)
    BY <1>2, ProcessTyped
  <1>4. PICK eps \in SUBSET Endpoint, records \in [PhaseNames -> Verdicts] :
          /\ run' = [run EXCEPT !.new = @ \cup eps, !.records = records,
                       !.step = IF run.at = "pqc" THEN "run" ELSE "flush",
                       !.at = IF @ = "pqc" THEN After[@] ELSE @]
          /\ made' = made (+) SetToBag(eps) /\ faults' \in Nat
          /\ run.at = "tls" => \/ PhaseError("tls_scanning") \in eps
                               \/ \A q \in run.tls : Ep("tls_scanning", "TLS", q) \in eps
          /\ run.at = "ssh" => \/ PhaseError("ssh_scanning") \in eps
                               \/ \A q \in run.ssh : Ep("ssh_scanning", "SSH", q) \in eps
    BY StageReturns DEF Count
  <1>5. PICK new \in SUBSET Endpoint, next \in Places, step \in {"run", "flush"} :
          /\ new = run.new \cup eps
          /\ next = IF run.at = "pqc" THEN After[run.at] ELSE run.at
          /\ step = IF run.at = "pqc" THEN "run" ELSE "flush"
    <2>1. run.new \cup eps \in SUBSET Endpoint
      BY <1>3 DEF Process
    <2>2. (IF run.at = "pqc" THEN After[run.at] ELSE run.at) \in Places
      BY <1>1, StageOrder DEF Places, Flushing, Ending
    <2>3. QED
      BY <2>1, <2>2
  <1>6. /\ run' \in Process /\ run'.at = next /\ run'.step = step
        /\ run'.new = new /\ run'.kept = run.kept /\ run'.targets = run.targets
        /\ run'.failed = run.failed /\ run'.whole = run.whole /\ run'.loaded = run.loaded /\ run'.unsaved = run.unsaved
        /\ run'.done = run.done /\ run'.tls = run.tls /\ run'.ssh = run.ssh
    <2>1. run' = [run EXCEPT !.new = new, !.records = records, !.step = step, !.at = next]
      BY <1>4, <1>5
    <2>2. QED
      BY <1>3, <2>1 DEF Process
  <1>7. /\ run.at \notin {"discovery", "inventory", "records", "reports", "reported"}
        /\ run.at # "pqc" => next = run.at /\ step = "flush" /\ run.at \in Flushing
        /\ run.at = "pqc" => step = "run" /\
              next \in {"api", "identity", "data_at_rest", "broker_email", "persist"}
    BY <1>1, <1>5, StageOrder DEF Flushing
  <1>8. /\ Running'
        /\ next \notin {"discovery", "inventory", "records", "reports", "reported", "dead", "done"}
    BY <1>2, <1>6, <1>7 DEF Running
  <1>9. /\ IsABag(made') /\ Counted(db.rows, made', new)
    <2>1. Unsaved = run.new
      BY <1>2, <1>7 DEF Unsaved
    <2>2. Counted(db.rows, made, run.new)
      BY <2>1 DEF ScanInv, CountInv
    <2>3. QED
      BY <1>3, <1>4, <1>5, <2>2, FindCounts
  <1>10. db' \in Tables'
    BY <1>1, <1>3 DEF Tables
  <1>11. ScanTypeOK'
    BY <1>1, <1>4, <1>6, <1>7, <1>8, <1>9, <1>10 DEF ScanInv, ScanTypeOK
  <1>12. StoredInv'
    <2>1. step # "checkpoint"
      OBVIOUS
    <2>2. QED
      BY <1>1, <1>2, <1>6, <2>1 DEF ScanInv, StoredInv, Stored, CompletedStagePersisted
  <1>13. CountInv'
    <2>1. Unsaved' = new
      BY <1>6, <1>8 DEF Unsaved
    <2>2. QED
      BY <1>1, <1>9, <2>1 DEF CountInv
  <1>14. CoverInv'
    BY <1>2, <1>5, <1>6, <1>7, <1>8 DEF ScanInv, CoverInv, Covered
  <1>15. AccountInv'
    <2>1. InMemory \subseteq InMemory' /\ eps \subseteq InMemory' /\ run.new \subseteq run'.new
      BY <1>5, <1>6 DEF InMemory
    <2>2. InventoryDone
      BY <1>1, StageOrder DEF InventoryDone, Later
    <2>3. TLSDone' => TLSDone \/ run.at = "tls"
      BY <1>1, <1>6, <1>7 DEF TLSDone, Later, Ending, Flushing
    <2>4. SSHDone' => SSHDone \/ run.at = "ssh"
      BY <1>1, <1>6, <1>7 DEF SSHDone, Later, Ending, Flushing
    <2>5. resumes = 0 =>
            /\ run.done = {} /\ "reports" \notin db.cps
            /\ \A b \in run.failed : BatchError(b) \in run'.new
            /\ \A q \in run.targets :
                  /\ q.serves = "HTTP" => Ep("inventory", "HTTP", q) \in InMemory'
                  /\ q.serves = "TLS" => q \in run.tls
                  /\ q.serves = "SSH" => q \in run.ssh
      BY <1>2, <2>1, <2>2 DEF ScanInv, AccountInv
    <2>6. resumes = 0 /\ TLSDone' => \A q \in run.tls :
            Ep("tls_scanning", "TLS", q) \in InMemory' \/ PhaseError("tls_scanning") \in InMemory'
      BY <1>2, <1>4, <2>1, <2>3 DEF ScanInv, AccountInv
    <2>7. resumes = 0 /\ SSHDone' => \A q \in run.ssh :
            Ep("ssh_scanning", "SSH", q) \in InMemory' \/ PhaseError("ssh_scanning") \in InMemory'
      BY <1>2, <1>4, <2>1, <2>4 DEF ScanInv, AccountInv
    <2>8. QED
      BY <1>1, <1>6, <1>8, <2>5, <2>6, <2>7 DEF AccountInv, ReportAccountsForEstate
  <1>16. QED
    BY <1>11, <1>12, <1>13, <1>14, <1>15 DEF ScanInv

-----------------------------------------------------------------------------
(* After the stages *)

LEMMA Persisting ==
    ASSUME ScanInv, Persist
    PROVE  ScanInv'
  <1> DEFINE eps == {e \in run.new : Assembled(e.by)}
  <1>1. /\ run.at = "persist"
        /\ db' = [db EXCEPT !.rows = Inserted(eps), !.early = IF late THEN @ ELSE @ \cup eps]
        /\ run' = [run EXCEPT !.at = "records"]
        /\ UNCHANGED <<cache, config, late, made, owed, faults, resumes>>
    BY DEF Persist
  <1>2. Running
    BY <1>1 DEF Running
  <1>3. /\ run \in Process /\ db \in Tables /\ IsABag(db.rows) /\ IsABag(made)
    BY <1>2, ProcessTyped
  <1>4. run.step = "run"
    BY <1>1, <1>2, <1>3 DEF ScanInv, ScanTypeOK, Flushing, Process
  <1>5. eps \subseteq run.new /\ eps \subseteq Endpoint
    BY <1>3 DEF Process
  <1>6. /\ IsABag(Inserted(eps)) /\ BagToSet(Inserted(eps)) = BagToSet(db.rows) \cup eps
        /\ Counted(Inserted(eps), made, {})
    <2>1. Unsaved = run.new
      BY <1>1, <1>2 DEF Unsaved
    <2>2. Counted(db.rows, made, run.new) /\ eps \in SUBSET run.new
      BY <1>5, <2>1 DEF ScanInv, CountInv
    <2> HIDE DEF eps
    <2>3. /\ IsABag(Inserted(eps)) /\ BagToSet(Inserted(eps)) = BagToSet(db.rows) \cup eps
          /\ Counted(Inserted(eps), made, run.new \ eps)
      BY <1>3, <2>2, InsertCounts, BagAdd DEF Inserted
    <2>4. {} \in SUBSET (run.new \ eps)
      OBVIOUS
    <2>5. QED
      BY <1>3, <2>3, <2>4, ForgetCounts
  <1> HIDE DEF eps
  <1>7. /\ run' \in Process /\ run'.at = "records" /\ run'.step = "run"
        /\ run'.new = run.new /\ run'.kept = run.kept /\ run'.targets = run.targets
        /\ run'.failed = run.failed /\ run'.whole = run.whole /\ run'.loaded = run.loaded /\ run'.unsaved = run.unsaved
        /\ run'.done = run.done /\ run'.tls = run.tls /\ run'.ssh = run.ssh
    BY <1>1, <1>3, <1>4 DEF Process, Places, Ending
  <1>8. Running'
    BY <1>7 DEF Running
  <1>9. /\ db'.rows = Inserted(eps) /\ db'.cps = db.cps
        /\ db'.early \subseteq db.early \cup eps
        /\ db' \in Tables'
    <2>1. db.early \cup eps \in SUBSET Endpoint
      BY <1>3, <1>5 DEF Tables
    <2>2. QED
      BY <1>1, <1>3, <2>1 DEF Tables
  <1>10. ScanTypeOK'
    <2>1. IsABag(db'.rows) /\ BagToSet(db'.rows) \subseteq Endpoint
      BY <1>5, <1>6, <1>9 DEF ScanInv, ScanTypeOK
    <2>2. QED
      BY <1>1, <1>7, <1>8, <1>9, <2>1 DEF ScanInv, ScanTypeOK
  <1>11. \A e : Stored(e) \/ e \in eps => Stored(e)'
    BY <1>6, <1>9 DEF Stored, BagIn
  <1>12. StoredInv'
    <2>1. \A e \in db'.early : Stored(e)'
      BY <1>9, <1>11 DEF ScanInv, StoredInv
    <2>2. \A e \in run'.kept \cup run'.loaded : Stored(e)'
      BY <1>2, <1>7, <1>11 DEF ScanInv, StoredInv
    <2>3. CompletedStagePersisted'
      BY <1>1, <1>11 DEF ScanInv, StoredInv, CompletedStagePersisted
    <2>4. QED
      BY <1>2, <1>4, <1>7, <2>1, <2>2, <2>3 DEF ScanInv, StoredInv
  <1>13. CountInv'
    <2>1. Unsaved' = {}
      BY <1>7 DEF Unsaved
    <2>2. QED
      BY <1>1, <1>6, <1>9, <2>1 DEF CountInv
  <1>14. CoverInv'
    BY <1>1, <1>2, <1>7 DEF ScanInv, CoverInv, Covered
  <1>15. AccountInv'
    <2>1. InMemory' = InMemory /\ InventoryDone /\ TLSDone /\ SSHDone
      BY <1>1, <1>7 DEF InMemory, InventoryDone, TLSDone, SSHDone, Later, Ending
    <2>2. QED
      BY <1>1, <1>2, <1>7, <1>9, <2>1 DEF ScanInv, AccountInv, ReportAccountsForEstate
  <1>16. QED
    BY <1>10, <1>12, <1>13, <1>14, <1>15 DEF ScanInv

(* The last writes: nothing of them is read by the process again. *)
LEMMA LastWrites ==
    ASSUME ScanInv, run.at \in {"records", "reports"},
           NEW next \in {"reports", "reported"}, run' = [run EXCEPT !.at = next],
           db'.rows = db.rows, db'.early = db.early, db'.cps = db.cps, db' \in Tables',
           resumes = 0 /\ next = "reported" => \A b \in 1 .. Batches : Accounted(b)',
           UNCHANGED <<cache, config, late, made, owed, resumes>>, faults' \in Nat
    PROVE  ScanInv'
  <1>1. Running
    BY DEF Running
  <1>2. /\ run \in Process /\ IsABag(db.rows) /\ IsABag(made)
    BY <1>1, ProcessTyped
  <1>3. run.step = "run"
    BY <1>1, <1>2 DEF ScanInv, ScanTypeOK, Flushing, Process
  <1>4. /\ run' \in Process /\ run'.at = next /\ run'.step = "run"
        /\ run'.new = run.new /\ run'.kept = run.kept /\ run'.targets = run.targets
        /\ run'.failed = run.failed /\ run'.whole = run.whole /\ run'.loaded = run.loaded /\ run'.unsaved = run.unsaved
        /\ run'.done = run.done /\ run'.tls = run.tls /\ run'.ssh = run.ssh
    BY <1>2, <1>3 DEF Process, Places, Ending
  <1>5. Running'
    BY <1>4 DEF Running
  <1>6. ScanTypeOK'
    BY <1>4, <1>5 DEF ScanInv, ScanTypeOK
  <1>7. StoredInv'
    BY <1>1, <1>3, <1>4 DEF ScanInv, StoredInv, Stored, CompletedStagePersisted
  <1>8. CountInv'
    <2>1. Unsaved' = {} /\ Unsaved = {}
      BY <1>4 DEF Unsaved
    <2>2. QED
      BY <2>1 DEF ScanInv, CountInv
  <1>9. CoverInv'
    BY <1>1, <1>4 DEF ScanInv, CoverInv, Covered
  <1>10. AccountInv'
    <2>1. InMemory' = InMemory /\ InventoryDone /\ TLSDone /\ SSHDone
      BY <1>4 DEF InMemory, InventoryDone, TLSDone, SSHDone, Later, Ending
    <2>2. (ReportAccountsForEstate)'
      BY <1>4 DEF ReportAccountsForEstate, Accounted
    <2>3. QED
      BY <1>1, <1>4, <2>1, <2>2 DEF ScanInv, AccountInv
  <1>11. QED
    BY <1>6, <1>7, <1>8, <1>9, <1>10 DEF ScanInv

LEMMA RecordingPhases ==
    ASSUME ScanInv, _flush_scan_phase_records \/ RecordsFail
    PROVE  ScanInv'
  <1>1. run.at = "records"
    BY DEF _flush_scan_phase_records, RecordsFail
  <1>2. Running
    BY <1>1 DEF Running
  <1>3. run \in Process /\ db \in Tables /\ faults \in Nat
    BY <1>2, ProcessTyped
  <1>4. CASE _flush_scan_phase_records
    <2>1. /\ db' = [db EXCEPT !.recs = [n \in PhaseNames |-> Upsert(@[n], run.records[n])]]
          /\ run' = [run EXCEPT !.at = "reports"]
          /\ UNCHANGED <<cache, config, late, made, owed, faults, resumes>>
      BY <1>4 DEF _flush_scan_phase_records
    <2>2. PICK recs \in [PhaseNames -> Verdicts] :
            recs = [n \in PhaseNames |-> Upsert(db.recs[n], run.records[n])]
      <3>1. db.recs \in [PhaseNames -> Verdicts] /\ run.records \in [PhaseNames -> Verdicts]
        BY <1>3 DEF Tables, Process
      <3>2. \A n \in PhaseNames : Upsert(db.recs[n], run.records[n]) \in Verdicts
        BY <3>1 DEF Upsert
      <3>3. QED
        BY <3>2
    <2>3. db' = [db EXCEPT !.recs = recs]
      BY <2>1, <2>2
    <2>4. /\ db'.rows = db.rows /\ db'.early = db.early /\ db'.cps = db.cps
          /\ db' \in Tables'
      BY <1>3, <2>3 DEF Tables
    <2>5. QED
      BY <1>1, <1>3, <2>1, <2>4, LastWrites
  <1>5. CASE RecordsFail
    <2>1. /\ run' = [run EXCEPT !.at = "reports"] /\ faults' \in Nat
          /\ UNCHANGED <<db, cache, config, late, made, owed, resumes>>
      BY <1>3, <1>5 DEF RecordsFail, Fault
    <2>2. db' \in Tables'
      BY <1>3, <2>1 DEF Tables
    <2>3. QED
      BY <1>1, <2>1, <2>2, LastWrites
  <1>6. QED
    BY <1>4, <1>5

(* Every batch is in memory as its ports' endpoints, their stage's error or its
   own. *)
LEMMA MemoryAccounts ==
    ASSUME ScanInv, run.at = "reports", resumes = 0,
           db'.report = {e \in InMemory : Assembled(e.by)}, run'.whole = run.whole,
           NEW b \in 1 .. Batches
    PROVE  Accounted(b)'
  <1>1. Running /\ InventoryDone /\ TLSDone /\ SSHDone
    BY DEF Running, InventoryDone, TLSDone, SSHDone, Later, Ending
  <1>2. /\ \A c \in run.failed : BatchError(c) \in run.new
        /\ \A q \in run.targets :
              /\ q.serves = "HTTP" => Ep("inventory", "HTTP", q) \in InMemory
              /\ q.serves = "TLS" => q \in run.tls
              /\ q.serves = "SSH" => q \in run.ssh
        /\ \A q \in run.tls :
              Ep("tls_scanning", "TLS", q) \in InMemory \/ PhaseError("tls_scanning") \in InMemory
        /\ \A q \in run.ssh :
              Ep("ssh_scanning", "SSH", q) \in InMemory \/ PhaseError("ssh_scanning") \in InMemory
    BY <1>1 DEF ScanInv, AccountInv
  <1>3. /\ Assembled(BatchError(b).by) /\ Assembled(Advisory(b).by)
        /\ \A q : /\ Ep("inventory", "HTTP", q).at = q /\ Assembled(Ep("inventory", "HTTP", q).by)
                  /\ Ep("tls_scanning", "TLS", q).at = q /\ Assembled(Ep("tls_scanning", "TLS", q).by)
                  /\ Ep("ssh_scanning", "SSH", q).at = q /\ Assembled(Ep("ssh_scanning", "SSH", q).by)
        /\ \A name : Assembled(PhaseError(name).by)
    BY DEF BatchError, Advisory, PhaseError, Ep, Assembled
  <1>4. CASE b \in run.failed
    <2>1. BatchError(b) \in InMemory
      BY <1>2, <1>4 DEF InMemory
    <2>2. QED
      BY <1>3, <2>1 DEF Accounted
  <1>5. CASE b \notin run.failed
    <2>1. Covered(b, run.new)
      BY <1>1, <1>5 DEF ScanInv, CoverInv
    <2>2. b \in Silent \ run'.whole => Advisory(b) \in db'.report
      BY <1>3, <2>1 DEF Covered, InMemory
    <2>3. ASSUME NEW q \in OpenPorts(b)
          PROVE  \E e \in db'.report :
                    \/ e.at = q
                    \/ q.serves = "TLS" /\ e = PhaseError("tls_scanning")
                    \/ q.serves = "SSH" /\ e = PhaseError("ssh_scanning")
      <3>1. q \in run.targets /\ q.serves \in {"TLS", "SSH", "HTTP"}
        BY <2>1, ScanRunAssumption DEF Covered, OpenPorts
      <3>2. CASE q.serves = "HTTP"
        BY <1>2, <1>3, <3>1, <3>2
      <3>3. CASE q.serves = "TLS"
        BY <1>2, <1>3, <3>1, <3>3
      <3>4. CASE q.serves = "SSH"
        BY <1>2, <1>3, <3>1, <3>4
      <3>5. QED
        BY <3>1, <3>2, <3>3, <3>4
    <2>4. QED
      BY <2>2, <2>3 DEF Accounted
  <1>6. QED
    BY <1>4, <1>5

LEMMA WritingReports ==
    ASSUME ScanInv, write_reports
    PROVE  ScanInv'
  <1>1. /\ run.at = "reports"
        /\ db' = [db EXCEPT !.report = {e \in InMemory : Assembled(e.by)}]
        /\ run' = [run EXCEPT !.at = "reported"]
        /\ UNCHANGED <<cache, config, late, made, owed, faults, resumes>>
    BY DEF write_reports, InMemory
  <1>2. Running
    BY <1>1 DEF Running
  <1>3. run \in Process /\ db \in Tables /\ faults \in Nat
    BY <1>2, ProcessTyped
  <1>4. PICK report \in SUBSET Endpoint : report = {e \in InMemory : Assembled(e.by)}
    BY <1>3 DEF InMemory, Process
  <1>5. /\ db'.report = report /\ db'.rows = db.rows /\ db'.early = db.early
        /\ db'.cps = db.cps /\ db' \in Tables'
    BY <1>1, <1>3, <1>4 DEF Tables
  <1>6. resumes = 0 => \A b \in 1 .. Batches : Accounted(b)'
    <2>1. run'.whole = run.whole
      BY <1>1, <1>3 DEF Process
    <2>2. QED
      BY <1>1, <1>4, <1>5, <2>1, MemoryAccounts
  <1>7. QED
    BY <1>1, <1>3, <1>5, <1>6, LastWrites

LEMMA CheckpointingReports ==
    ASSUME ScanInv, CheckpointReports
    PROVE  ScanInv'
  <1>1. /\ run.at = "reported" /\ run' = Ended("done")
        /\ db' = [db EXCEPT !.cps = @ \cup {"reports"}]
        /\ UNCHANGED <<cache, config, late, made, owed, faults, resumes>>
    BY DEF CheckpointReports
  <1>2. Running
    BY <1>1 DEF Running
  <1>3. run \in Process /\ db \in Tables /\ IsABag(db.rows) /\ IsABag(made)
    BY <1>2, ProcessTyped
  <1>4. /\ db'.report = db.report /\ db'.rows = db.rows /\ db'.early = db.early
        /\ db' \in Tables'
    BY <1>1, <1>3 DEF Tables, Checkpoints
  <1>6. (ReportAccountsForEstate)'
    BY <1>1 DEF ReportAccountsForEstate, Ended
  <1>7. WorkInv'
    BY <1>1, <1>3, <1>4, <1>6, ProcessEnds DEF ScanInv, WorkInv
  <1>8. ~ Running'
    BY <1>1 DEF Running, Ended
  <1>9. ScanTypeOK'
    BY <1>1, <1>4, <1>8 DEF ScanInv, ScanTypeOK
  <1>10. QED
    BY <1>7, <1>9 DEF ScanInv, WorkInv

-----------------------------------------------------------------------------
(* The theorems *)

LEMMA ScanInductive == ScanInv /\ [ScanNext]_scanVars => ScanInv'
  <1>1. SUFFICES ASSUME ScanInv, [ScanNext]_scanVars PROVE ScanInv'
    OBVIOUS
  <1>2. CASE StartResume \/ ResumeLoadFails
    BY <1>1, <1>2, Resuming
  <1>3. CASE Second \/ CacheExpires
    BY <1>1, <1>3, OutsideTheProcess
  <1>4. CASE Killed \/ PersistFails \/ ReportsRefused
    BY <1>1, <1>4, Dying
  <1>5. CASE RestoreBatch
    BY <1>1, <1>5, RestoringBatch
  <1>6. CASE SweepBatch
    BY <1>1, <1>6, SweepingBatch
  <1>7. CASE CheckpointBatch
    BY <1>1, <1>7, CheckpointingBatch
  <1>8. CASE EndDiscovery
    BY <1>1, <1>8, EndingDiscovery
  <1>9. CASE RestoreInventory
    BY <1>1, <1>9, RestoringInventory
  <1>10. CASE Fingerprint
    BY <1>1, <1>10, Fingerprinting
  <1>11. CASE RestoreStage
    BY <1>1, <1>11, RestoringStage
  <1>12. CASE RunStage
    BY <1>1, <1>12, RunningStage
  <1>13. CASE _flush_stage_endpoints
    BY <1>1, <1>13, FlushingStage
  <1>14. CASE FlushFails
    BY <1>1, <1>14, FailingFlush
  <1>15. CASE write_scan_checkpoint \/ CheckpointFails
    BY <1>1, <1>15, CheckpointingStage
  <1>16. CASE Persist
    BY <1>1, <1>16, Persisting
  <1>17. CASE _flush_scan_phase_records \/ RecordsFail
    BY <1>1, <1>17, RecordingPhases
  <1>18. CASE write_reports
    BY <1>1, <1>18, WritingReports
  <1>19. CASE CheckpointReports
    BY <1>1, <1>19, CheckpointingReports
  <1>20. CASE UNCHANGED scanVars
    <2>1. UNCHANGED <<db, cache, run, config, late, made, owed, faults, resumes>>
      BY <1>20 DEF scanVars
    <2>2. WorkInv'
      BY <1>1, <2>1, NothingMoves DEF ScanInv, WorkInv
    <2>3. db' \in Tables' /\ Running' = Running
      BY <1>1, <2>1 DEF ScanInv, ScanTypeOK, Tables, Running
    <2>4. ScanTypeOK'
      BY <1>1, <2>1, <2>3 DEF ScanInv, ScanTypeOK
    <2>5. QED
      BY <2>2, <2>4 DEF ScanInv, WorkInv
  <1>21. QED
    BY <1>1, <1>2, <1>3, <1>4, <1>5, <1>6, <1>7, <1>8, <1>9, <1>10, <1>11, <1>12, <1>13,
       <1>14, <1>15, <1>16, <1>17, <1>18, <1>19, <1>20
    DEF ScanNext

(* The invariant of the scan, its checkpoints and its resumes: what each
   process may rely on in the database that earlier ones left. *)
THEOREM ScanInvariant == ScanSpec => []ScanInv
  <1>1. ScanSpec => ScanInit /\ [][ScanNext]_scanVars
    BY DEF ScanSpec
  <1>2. QED
    BY <1>1, ScanInitially, ScanInductive, PTL

(* The tables, the process and its phase records stay within their types, and
   a process flushes and checkpoints only where its stage has one. *)
THEOREM ScanTypes == ScanSpec => []ScanTypeOK
  <1>1. ScanInv => ScanTypeOK
    BY DEF ScanInv
  <1>2. QED
    BY <1>1, ScanInvariant, PTL

(* `a crash between stages leaves results for completed stages persisted': what
   a checkpointed stage found is stored unless its flush had failed, whatever
   fails, dies and is resumed (write_scan_checkpoint, _flush_stage_endpoints). *)
THEOREM CompletedStagesArePersisted == ScanSpec => []CompletedStagePersisted
  <1>1. ScanInv => CompletedStagePersisted
    BY DEF ScanInv, StoredInv
  <1>2. QED
    BY <1>1, ScanInvariant, PTL

(* Stage flushes, the final merge and any number of resumes never store an
   endpoint more often than it was found: written-back and restored primary
   keys turn the merge into an update (_flush_stage_endpoints, Persist). *)
THEOREM FindingsAreStoredOnce == ScanSpec => []OneRowPerFinding
  <1>1. ScanInv => OneRowPerFinding
    <2>1. SUFFICES ASSUME ScanInv PROVE OneRowPerFinding
      OBVIOUS
    <2>2. /\ IsABag(db.rows) /\ IsABag(made)
          /\ Counted(db.rows, made, Unsaved)
      BY <2>1 DEF ScanInv, ScanTypeOK, CountInv
    <2>3. Counted(db.rows, made, {})
      BY <2>2, ForgetCounts
    <2>4. \A e \in DOMAIN db.rows :
              /\ Copies(e, db.rows) = db.rows[e] /\ db.rows[e] \in Nat /\ db.rows[e] > 0
              /\ Copies(e, db.rows) <= Copies(e, made) /\ Copies(e, made) \in Nat
      BY <2>2, <2>3, BagCount DEF Counted, Copies, BagIn, BagToSet, IsABag
    <2>5. \A e \in DOMAIN db.rows : e \in DOMAIN made /\ db.rows[e] <= made[e]
      BY <2>4 DEF Copies, BagIn, BagToSet
    <2>6. QED
      BY <2>5 DEF OneRowPerFinding, \sqsubseteq
  <1>2. QED
    BY <1>1, ScanInvariant, PTL

(* The report of a scan that was not resumed has every open port and every
   silent host of every batch, or the error that hid them, whatever phases
   raised and writes failed (_wrapped_phase, write_reports). *)
THEOREM ReportsAccountForEstate == ScanSpec => []ReportAccountsForEstate
  <1>1. ScanInv => ReportAccountsForEstate
    BY DEF ScanInv, AccountInv, ReportAccountsForEstate
  <1>2. QED
    BY <1>1, ScanInvariant, PTL

(* A process leaves discovery with the ports and advisories of every batch it
   did not see fail, swept now or taken from the cache (RestoreBatch). *)
THEOREM BatchesAreNotLost == ScanSpec => []NoBatchLost
  <1>1. ScanInv => NoBatchLost
    BY DEF ScanInv, CoverInv, Covered, NoBatchLost, Running
  <1>2. QED
    BY <1>1, ScanInvariant, PTL
=============================================================================
