------------------------- MODULE ConsoleIngestProofs -------------------------
(***************************************************************************)
(* ConsoleIngest's invariants, for every set of sensors, payloads and      *)
(* connections and every replay window.                                    *)
(*                                                                         *)
(* None of them is inductive alone.  What carries them is the write lock:  *)
(* the one transaction that is open belongs to the lock's holder, and its  *)
(* payload is not in the database yet, so committing it stores the payload *)
(* for the first time.  ConsoleInv adds that to the invariants, and what   *)
(* each step of a request already knows.                                   *)
(***************************************************************************)
EXTENDS ConsoleIngest, TLAPS

(* What a request knows in each step of sensor_push. *)
RequestInv ==
    \A w \in Requests :
        /\ req[w].pc # "idle" => req[w].pid \in Payloads
        /\ req[w].pc = "reading" =>
              req[w].token \in Sensors /\ sensor[req[w].token] # "absent"
        /\ req[w].pc \in {"waiting", "inserted"} =>
              req[w].now \in Time /\ sensor[Owner[req[w].pid]] # "absent"
        /\ req[w].pc = "inserted" <=> lock = w
        /\ req[w].pc = "inserted" => ~Stored(req[w].pid)
        /\ req[w].pc \in {"committed", "answering"} => Stored(req[w].pid)
        /\ req[w].pc = "answering" => OkRow(req[w].pid) \in audit

(* The same for the import process. *)
ImportInv ==
    /\ imp.pc # "idle" => imp.pid \in Payloads /\ imp.now \in Time
    /\ imp.pc = "inserted" <=> lock = Importer
    /\ imp.pc = "inserted" =>
          ~Stored(imp.pid) /\ sensor[Owner[imp.pid]] # "absent"

ConsoleInv ==
    /\ ConsoleTypeOK
    /\ RequestInv
    /\ ImportInv
    /\ IngestedOnce
    /\ LastPushIsStored
    /\ AnswerIsTruthful
    /\ OkAuditIsTruthful

-----------------------------------------------------------------------------
(* Steps that store nothing. *)

(* AtStep builds requests. *)
LEMMA AtStepType ==
    ASSUME NEW pc \in PC, NEW p \in Payloads \cup {NoOne}, NEW now \in Stamp,
           NEW c \in Code
    PROVE  /\ AtStep(pc, p, now, c) \in Request
           /\ AtStep(pc, p, now, c).pc = pc
           /\ AtStep(pc, p, now, c).pid = p
           /\ AtStep(pc, p, now, c).now = now
           /\ AtStep(pc, p, now, c).code = c
  <1>1. Never \in Stamp
    BY PushAssumption DEF Never, Stamp
  <1>2. QED
    BY <1>1 DEF AtStep, Request, Body

LEMMA AnsweredType ==
    ASSUME NEW p \in Payloads, NEW c \in Code
    PROVE  /\ Answered(p, c) \in Request
           /\ Answered(p, c).pc = "done"
           /\ Answered(p, c).pid = p
           /\ Answered(p, c).code = c
  <1>1. Never \in Stamp /\ "done" \in PC
    BY PushAssumption DEF Never, Stamp, PC
  <1>2. QED
    BY <1>1, AtStepType DEF Answered

LEMMA IdleType == IdleRequest \in Request /\ IdleRequest.pc = "idle"
  <1>1. Never \in Stamp /\ "idle" \in PC /\ 0 \in Code
    BY PushAssumption DEF Never, Stamp, PC, Code
  <1>2. QED
    BY <1>1, AtStepType DEF IdleRequest

LEMMA RefusalCodes == {400, 401, 403, 409, 413, 422, 500} \subseteq Code
  BY DEF Code

(* A request is answered without storing anything: what an error path of
   sensor_push or require_sensor_auth does, with the lock freed if it held
   it. *)
LEMMA AnswerStep ==
    ASSUME ConsoleInv,
           NEW w \in Requests, NEW p \in Payloads, NEW c \in Code,
           req' = [req EXCEPT ![w] = Answered(p, c)],
           (lock' = lock /\ lock # w) \/ (lock' = NoOne /\ lock = w),
           audit \subseteq audit', audit' \subseteq AuditRow,
           \A q \in Payloads : OkRow(q) \in audit' => OkRow(q) \in audit,
           (c # 200 /\ c # 409) \/ Stored(p),
           c = 200 => OkRow(p) \in audit,
           UNCHANGED <<sensor, lastPush, received, endpoints, importVars, clock>>
    PROVE  ConsoleInv'
  <1>1. ConsoleTypeOK'
    BY AnsweredType DEF ConsoleInv, ConsoleTypeOK, importVars
  <1>2. RequestInv'
    BY AnsweredType, ConsoleAssumption
    DEF ConsoleInv, RequestInv, ConsoleTypeOK, Stored
  <1>3. ImportInv'
    BY ConsoleAssumption DEF ConsoleInv, ImportInv, importVars, Stored
  <1>4. IngestedOnce' /\ LastPushIsStored'
    BY DEF ConsoleInv, IngestedOnce, LastPushIsStored, Stored
  <1>5. AnswerIsTruthful'
    BY AnsweredType DEF ConsoleInv, AnswerIsTruthful, ConsoleTypeOK, Stored
  <1>6. OkAuditIsTruthful'
    BY DEF ConsoleInv, OkAuditIsTruthful, Stored
  <1>7. QED
    BY <1>1, <1>2, <1>3, <1>4, <1>5, <1>6 DEF ConsoleInv

(* The error paths go through Refuse: a failed audit row at most. *)
LEMMA RefuseStep ==
    ASSUME ConsoleInv,
           NEW w \in Requests, NEW c \in Code,
           req[w].pc # "idle",
           Refuse(w, c),
           (lock' = lock /\ lock # w) \/ (lock' = NoOne /\ lock = w),
           c # 200,
           c = 409 => Stored(req[w].pid)
    PROVE  ConsoleInv'
  <1>1. req[w].pid \in Payloads
    BY DEF ConsoleInv, RequestInv
  <1>2. /\ audit \subseteq audit' /\ audit' \subseteq AuditRow
        /\ \A q \in Payloads : OkRow(q) \in audit' => OkRow(q) \in audit
    BY <1>1 DEF Refuse, Audit, ConsoleInv, ConsoleTypeOK, AuditRow, FailedRow, OkRow
  <1>3. QED
    BY <1>1, <1>2, AnswerStep DEF Refuse, Reply

-----------------------------------------------------------------------------
(* Steps that store an envelope. *)

(* The database part of a commit: the payload was not there, its sensor is
   enrolled and no answer had been given for it. *)
LEMMA StoreRowsStep ==
    ASSUME ConsoleInv,
           NEW p \in Payloads, NEW now \in Time,
           ~Stored(p),
           sensor[Owner[p]] # "absent",
           StoreRows(p, now)
    PROVE  /\ received' \in [Payloads -> Stamp]
           /\ lastPush' \in [Sensors -> Stamp]
           /\ endpoints' \in [Payloads -> Nat]
           /\ sensor' = sensor
           /\ \A q \in Payloads : Stored(q)' <=> q = p \/ Stored(q)
           /\ IngestedOnce'
           /\ LastPushIsStored'
  <1>1. /\ Owner[p] \in Sensors /\ now \in Stamp /\ now # Never
        /\ received \in [Payloads -> Stamp] /\ lastPush \in [Sensors -> Stamp]
        /\ endpoints \in [Payloads -> Nat]
    BY PushAssumption DEF ConsoleInv, ConsoleTypeOK, Time, Stamp, Never
  <1>2. /\ received' \in [Payloads -> Stamp]
        /\ lastPush' \in [Sensors -> Stamp]
        /\ endpoints' \in [Payloads -> Nat]
        /\ sensor' = sensor
    BY <1>1 DEF StoreRows
  <1>3. \A q \in Payloads : Stored(q)' <=> q = p \/ Stored(q)
    BY <1>1 DEF StoreRows, Stored
  <1>4. IngestedOnce'
    BY <1>1, <1>3 DEF StoreRows, IngestedOnce, ConsoleInv
  <1>5. LastPushIsStored'
    <2> SUFFICES ASSUME NEW s \in Sensors
                 PROVE  /\ lastPush'[s] # Never =>
                              \E q \in Payloads : Owner[q] = s /\ received'[q] = lastPush'[s]
                        /\ (\E q \in Payloads : Owner[q] = s /\ Stored(q)') =>
                              lastPush'[s] # Never /\ sensor'[s] # "absent"
      BY DEF LastPushIsStored
    <2>1. CASE s = Owner[p]
      BY <1>1, <1>2, <2>1 DEF StoreRows
    <2>2. CASE s # Owner[p]
      <3>1. lastPush'[s] = lastPush[s]
        BY <1>1, <2>2 DEF StoreRows
      <3>2. \A q \in Payloads : Owner[q] = s => received'[q] = received[q]
        BY <1>1, <2>2 DEF StoreRows
      <3>3. QED
        BY <1>2, <3>1, <3>2 DEF ConsoleInv, LastPushIsStored, Stored
    <2>3. QED
      BY <2>1, <2>2
  <1>6. QED
    BY <1>2, <1>3, <1>4, <1>5

(* A request commits: CommitWithAudit and PersistHardware. *)
LEMMA CommitStep ==
    ASSUME ConsoleInv,
           NEW w \in Requests, NEW pc \in {"committed", "answering"},
           req[w].pc = "inserted",
           StoreRows(req[w].pid, req[w].now),
           audit' = audit \/ audit' = audit \cup {OkRow(req[w].pid)},
           pc = "answering" => OkRow(req[w].pid) \in audit',
           req' = [req EXCEPT ![w].pc = pc],
           lock' = NoOne,
           UNCHANGED <<importVars, clock>>
    PROVE  ConsoleInv'
  <1> DEFINE p == req[w].pid
  <1>1. /\ p \in Payloads /\ req[w].now \in Time /\ lock = w
        /\ ~Stored(p) /\ sensor[Owner[p]] # "absent"
    BY DEF ConsoleInv, RequestInv
  <1>2. /\ received' \in [Payloads -> Stamp]
        /\ lastPush' \in [Sensors -> Stamp]
        /\ endpoints' \in [Payloads -> Nat]
        /\ sensor' = sensor
        /\ \A q \in Payloads : Stored(q)' <=> q = p \/ Stored(q)
        /\ IngestedOnce'
        /\ LastPushIsStored'
    BY <1>1, StoreRowsStep
  <1>3. audit' \subseteq AuditRow /\ audit \subseteq audit'
    BY <1>1 DEF ConsoleInv, ConsoleTypeOK, AuditRow, OkRow
  <1>4. /\ req' \in [Requests -> Request]
        /\ \A v \in Requests : req'[v].pid = req[v].pid
        /\ \A v \in Requests \ {w} : req'[v] = req[v]
        /\ req'[w].pc = pc
    BY DEF ConsoleInv, ConsoleTypeOK, Request, PC
  <1>5. ConsoleTypeOK'
    BY <1>2, <1>3, <1>4 DEF ConsoleInv, ConsoleTypeOK, importVars
  <1>6. RequestInv'
    BY <1>1, <1>2, <1>3, <1>4, ConsoleAssumption DEF ConsoleInv, RequestInv
  <1>7. ImportInv'
    BY <1>1, <1>2, ConsoleAssumption DEF ConsoleInv, ImportInv, importVars
  <1>8. AnswerIsTruthful'
    BY <1>2, <1>3, <1>4 DEF ConsoleInv, AnswerIsTruthful, RequestInv
  <1>9. OkAuditIsTruthful'
    BY <1>1, <1>2 DEF ConsoleInv, OkAuditIsTruthful, OkRow
  <1>10. QED
    BY <1>2, <1>5, <1>6, <1>7, <1>8, <1>9 DEF ConsoleInv

(* The import commits. *)
LEMMA ImportCommitStep ==
    ASSUME ConsoleInv, ImportCommit
    PROVE  ConsoleInv'
  <1> DEFINE p == imp.pid
  <1>1. /\ p \in Payloads /\ imp.now \in Time /\ lock = Importer
        /\ ~Stored(p) /\ sensor[Owner[p]] # "absent"
    BY DEF ConsoleInv, ImportInv, ImportCommit
  <1>2. /\ received' \in [Payloads -> Stamp]
        /\ lastPush' \in [Sensors -> Stamp]
        /\ endpoints' \in [Payloads -> Nat]
        /\ sensor' = sensor
        /\ \A q \in Payloads : Stored(q)' <=> q = p \/ Stored(q)
        /\ IngestedOnce'
        /\ LastPushIsStored'
    BY <1>1, StoreRowsStep DEF ImportCommit
  <1>3. /\ imp' = IdleImport /\ IdleImport.pc = "idle" /\ IdleImport \in ImportState
        /\ lock' = NoOne /\ audit' = audit /\ req' = req /\ clock' = clock
        /\ reported' = reported \cup {p}
    BY PushAssumption DEF ImportCommit, IdleImport, ImportState, Never, Stamp
  <1>4. ConsoleTypeOK'
    BY <1>1, <1>2, <1>3 DEF ConsoleInv, ConsoleTypeOK
  <1>5. RequestInv'
    BY <1>1, <1>2, <1>3, ConsoleAssumption DEF ConsoleInv, RequestInv
  <1>6. ImportInv'
    BY <1>3, ConsoleAssumption DEF ImportInv
  <1>7. AnswerIsTruthful'
    BY <1>2, <1>3 DEF ConsoleInv, AnswerIsTruthful, RequestInv
  <1>8. OkAuditIsTruthful'
    BY <1>2, <1>3 DEF ConsoleInv, OkAuditIsTruthful
  <1>9. QED
    BY <1>2, <1>4, <1>5, <1>6, <1>7, <1>8 DEF ConsoleInv

-----------------------------------------------------------------------------
(* The remaining steps change one request, the import process or a token. *)

(* Nothing but one request changes, and it moves to a step it knows enough
   for; the lock follows it in and out of its transaction. *)
LEMMA RequestStep ==
    ASSUME ConsoleInv,
           NEW w \in Requests, NEW r \in Request,
           req' = [req EXCEPT ![w] = r],
           r.pc # "idle" => r.pid \in Payloads,
           r.pc = "reading" => r.token \in Sensors /\ sensor[r.token] # "absent",
           r.pc \in {"waiting", "inserted"} =>
                 r.now \in Time /\ sensor[Owner[r.pid]] # "absent",
           r.pc = "inserted" => ~Stored(r.pid) /\ lock = NoOne /\ lock' = w,
           r.pc # "inserted" => lock' = lock /\ lock # w,
           r.pc \in {"committed", "answering"} => Stored(r.pid),
           r.pc = "answering" => OkRow(r.pid) \in audit,
           r.pc # "done",
           UNCHANGED <<dbVars, importVars, clock>>
    PROVE  ConsoleInv'
  <1>1. ConsoleTypeOK'
    BY DEF ConsoleInv, ConsoleTypeOK, dbVars, importVars
  <1>2. RequestInv'
    BY ConsoleAssumption
    DEF ConsoleInv, RequestInv, ConsoleTypeOK, Stored, dbVars
  <1>3. ImportInv'
    BY ConsoleAssumption DEF ConsoleInv, ImportInv, importVars, dbVars, Stored
  <1>4. IngestedOnce' /\ LastPushIsStored' /\ OkAuditIsTruthful'
    BY DEF ConsoleInv, IngestedOnce, LastPushIsStored, OkAuditIsTruthful, Stored, dbVars
  <1>5. AnswerIsTruthful'
    BY DEF ConsoleInv, AnswerIsTruthful, ConsoleTypeOK, Stored, dbVars
  <1>6. QED
    BY <1>1, <1>2, <1>3, <1>4, <1>5 DEF ConsoleInv

(* A token is minted or revoked. *)
LEMMA TokenStep ==
    ASSUME ConsoleInv,
           NEW s \in Sensors, NEW state \in {"active", "revoked"},
           sensor' = [sensor EXCEPT ![s] = state],
           UNCHANGED <<lastPush, received, endpoints, audit, lock, req, importVars, clock>>
    PROVE  ConsoleInv'
  <1>1. /\ sensor' \in [Sensors -> {"absent", "active", "revoked"}]
        /\ \A t \in Sensors : sensor[t] # "absent" => sensor'[t] # "absent"
    BY DEF ConsoleInv, ConsoleTypeOK
  <1>2. \A p \in Payloads : Owner[p] \in Sensors
    BY PushAssumption
  <1>3. ConsoleTypeOK'
    BY <1>1 DEF ConsoleInv, ConsoleTypeOK, importVars
  <1>4. RequestInv' /\ ImportInv'
    BY <1>1, <1>2 DEF ConsoleInv, RequestInv, ImportInv, Stored, importVars
  <1>5. IngestedOnce' /\ LastPushIsStored'
    BY <1>1 DEF ConsoleInv, IngestedOnce, LastPushIsStored, Stored
  <1>6. AnswerIsTruthful' /\ OkAuditIsTruthful'
    BY DEF ConsoleInv, AnswerIsTruthful, OkAuditIsTruthful, Stored
  <1>7. QED
    BY <1>3, <1>4, <1>5, <1>6 DEF ConsoleInv

(* The import process moves without a commit of its rows. *)
LEMMA ImportStep ==
    ASSUME ConsoleInv,
           imp' \in ImportState, reported' \subseteq Payloads,
           imp'.pc # "idle" => imp'.pid \in Payloads /\ imp'.now \in Time,
           imp'.pc = "inserted" =>
                 ~Stored(imp'.pid) /\ sensor[Owner[imp'.pid]] # "absent"
                 /\ lock = NoOne /\ lock' = Importer,
           imp'.pc # "inserted" =>
                 lock' = IF lock = Importer THEN NoOne ELSE lock,
           UNCHANGED <<dbVars, req, clock>>
    PROVE  ConsoleInv'
  <1>1. ConsoleTypeOK'
    BY DEF ConsoleInv, ConsoleTypeOK, dbVars
  <1>2. RequestInv'
    BY ConsoleAssumption DEF ConsoleInv, RequestInv, Stored, dbVars
  <1>3. ImportInv'
    BY ConsoleAssumption DEF ConsoleInv, ImportInv, Stored, dbVars, ImportState
  <1>4. /\ IngestedOnce' /\ LastPushIsStored'
        /\ AnswerIsTruthful' /\ OkAuditIsTruthful'
    BY DEF ConsoleInv, IngestedOnce, LastPushIsStored, AnswerIsTruthful,
           OkAuditIsTruthful, Stored, dbVars
  <1>5. QED
    BY <1>1, <1>2, <1>3, <1>4 DEF ConsoleInv

-----------------------------------------------------------------------------
(* One step per action. *)

LEMMA AuthenticateStep ==
    ASSUME ConsoleInv,
           NEW w \in Requests, NEW p \in Payloads, NEW t \in Sensors,
           NEW at \in Time, NEW b \in Body,
           Authenticate(w, p, t, at, b)
    PROVE  ConsoleInv'
  <1>0. req[w].pc = "idle" /\ lock # w
    BY DEF Authenticate, ConsoleInv, RequestInv
  <1>1. CASE sensor[t] = "active"
    <2> DEFINE r == [pc |-> "reading", pid |-> p, token |-> t, pushedAt |-> at,
                     body |-> b, receivedAt |-> clock, now |-> Never, code |-> 0]
    <2>1. r \in Request
      BY PushAssumption
      DEF Request, PC, Code, Stamp, Never, Time, ConsoleInv, ConsoleTypeOK
    <2>2. req' = [req EXCEPT ![w] = r] /\ UNCHANGED <<dbVars, lock, importVars, clock>>
      BY <1>1 DEF Authenticate, dbVars
    <2>3. /\ r.pc = "reading" /\ r.pid = p /\ r.token = t
      OBVIOUS
    <2> HIDE DEF r
    <2>4. QED
      BY <1>0, <1>1, <2>1, <2>2, <2>3, RequestStep
  <1>2. CASE sensor[t] # "active"
    <2>1. /\ Audit(FailedRow(p))
          /\ UNCHANGED <<sensor, lastPush, received, endpoints, importVars, clock>>
          /\ lock' = lock
      BY <1>2 DEF Authenticate
    <2>2. /\ audit \subseteq audit' /\ audit' \subseteq AuditRow
          /\ \A q \in Payloads : OkRow(q) \in audit' => OkRow(q) \in audit
      BY <2>1 DEF Audit, ConsoleInv, ConsoleTypeOK, AuditRow, FailedRow, OkRow
    <2>3. PICK c \in Code : c = 401
      BY RefusalCodes
    <2>4. /\ req' = [req EXCEPT ![w] = Answered(p, c)]
          /\ c # 200 /\ c # 409
      BY <1>2, <2>3 DEF Authenticate
    <2>5. QED
      BY <1>0, <2>1, <2>2, <2>4, AnswerStep
  <1>3. QED
    BY <1>1, <1>2

LEMMA CheckEnvelopeStep ==
    ASSUME ConsoleInv, NEW w \in Requests, CheckEnvelope(w)
    PROVE  ConsoleInv'
  <1>1. /\ req[w].pc = "reading" /\ lock # w /\ lock' = lock
        /\ req[w].pid \in Payloads /\ sensor[req[w].token] # "absent"
    BY DEF CheckEnvelope, ConsoleInv, RequestInv
  <1>2. CASE \E c \in {400, 403, 413, 422} : Refuse(w, c)
    <2>1. PICK c \in {400, 403, 413, 422} : Refuse(w, c)
      BY <1>2
    <2>2. c \in Code /\ c # 200 /\ c # 409 /\ req[w].pc # "idle"
      BY <1>1, RefusalCodes
    <2>3. QED
      BY <1>1, <2>1, <2>2, RefuseStep
  <1>3. CASE /\ Owner[req[w].pid] = req[w].token
             /\ req' = [req EXCEPT ![w] = AtStep("waiting", req[w].pid, clock, 0)]
             /\ UNCHANGED <<dbVars, importVars, clock>>
    <2>1. "waiting" \in PC /\ clock \in Stamp /\ clock \in Time /\ 0 \in Code
      BY PushAssumption DEF PC, Code, Stamp, Time, ConsoleInv, ConsoleTypeOK
    <2> DEFINE r == AtStep("waiting", req[w].pid, clock, 0)
    <2>2. r \in Request /\ r.pc = "waiting" /\ r.pid = req[w].pid /\ r.now = clock
      BY <1>1, <2>1, AtStepType
    <2>3. /\ req' = [req EXCEPT ![w] = r] /\ UNCHANGED <<dbVars, importVars, clock>>
          /\ r.pid \in Payloads /\ sensor[Owner[r.pid]] # "absent"
      BY <1>1, <1>3, <2>2
    <2> HIDE DEF r
    <2>4. QED
      BY <1>1, <2>1, <2>2, <2>3, RequestStep
  <1>4. QED
    BY <1>2, <1>3 DEF CheckEnvelope

LEMMA ServeStep ==
    ASSUME ConsoleInv, NEW w \in Requests, Serve(w)
    PROVE  ConsoleInv'
  <1>1. CASE CheckEnvelope(w)
    BY <1>1, CheckEnvelopeStep
  <1>2. CASE InsertPush(w)
    <2>1. req[w].pc = "waiting" /\ lock = NoOne /\ lock # w
      BY <1>2, ConsoleAssumption DEF InsertPush
    <2>2. CASE Duplicate(req[w].pid)
      <3>1. /\ Refuse(w, 409) /\ lock' = lock /\ Stored(req[w].pid)
            /\ 409 \in Code /\ 409 # 200 /\ req[w].pc # "idle"
        BY <1>2, <2>1, <2>2, RefusalCodes DEF InsertPush, Duplicate
      <3>2. QED
        BY <2>1, <3>1, RefuseStep
    <2>3. CASE ~Duplicate(req[w].pid)
      <3> DEFINE r == [req[w] EXCEPT !.pc = "inserted"]
      <3>1. /\ r \in Request /\ r.pc = "inserted" /\ r.pid = req[w].pid
            /\ r.now = req[w].now
        BY DEF ConsoleInv, ConsoleTypeOK, Request, PC
      <3>2. /\ req' = [req EXCEPT ![w] = r] /\ lock' = w
            /\ UNCHANGED <<dbVars, importVars, clock>>
        BY <1>2, <2>3 DEF InsertPush
      <3>3. /\ r.pid \in Payloads /\ r.now \in Time
            /\ sensor[Owner[r.pid]] # "absent" /\ ~Stored(r.pid)
        BY <2>1, <2>3, <3>1 DEF ConsoleInv, RequestInv, Duplicate
      <3> HIDE DEF r
      <3>4. QED
        BY <2>1, <3>1, <3>2, <3>3, RequestStep
    <2>4. QED
      BY <2>2, <2>3
  <1>3. CASE LockTimeout(w)
    <2>1. req[w].pc = "waiting" /\ lock' = lock /\ lock # w
      BY <1>3 DEF LockTimeout, ConsoleInv, RequestInv
    <2>2. QED
      <3>1. /\ Refuse(w, 500) /\ req[w].pc # "idle"
            /\ 500 \in Code /\ 500 # 200 /\ 500 # 409
        BY <1>3, <2>1, RefusalCodes DEF LockTimeout
      <3>2. QED
        BY <2>1, <3>1, RefuseStep
  <1>4. CASE CommitWithAudit(w)
    BY <1>4, CommitStep DEF CommitWithAudit
  <1>5. CASE PersistHardware(w)
    BY <1>5, CommitStep DEF PersistHardware
  <1>6. CASE CommitFails(w)
    <2>1. req[w].pc = "inserted" /\ lock = w /\ lock' = NoOne
      BY <1>6 DEF CommitFails, ConsoleInv, RequestInv
    <2>2. QED
      <3>1. /\ Refuse(w, 500) /\ req[w].pc # "idle"
            /\ 500 \in Code /\ 500 # 200 /\ 500 # 409
        BY <1>6, <2>1, RefusalCodes DEF CommitFails
      <3>2. QED
        BY <2>1, <3>1, RefuseStep
  <1>7. CASE CommitAudit(w)
    <2> DEFINE p == req[w].pid
    <2>1. /\ req[w].pc = "committed" /\ p \in Payloads /\ Stored(p)
          /\ lock = NoOne /\ lock # w /\ OkRow(p) \in AuditRow
      BY <1>7, ConsoleAssumption
      DEF CommitAudit, ConsoleInv, RequestInv, OkRow, AuditRow
    <2>2. /\ req' \in [Requests -> Request]
          /\ \A v \in Requests \ {w} : req'[v] = req[v]
          /\ req'[w].pc = "answering" /\ req'[w].pid = p
      BY <1>7 DEF CommitAudit, ConsoleInv, ConsoleTypeOK, Request, PC
    <2>3. /\ audit' = audit \cup {OkRow(p)}
          /\ UNCHANGED <<sensor, lastPush, received, endpoints, lock, importVars, clock>>
      BY <1>7 DEF CommitAudit
    <2>4. ConsoleTypeOK'
      BY <2>1, <2>2, <2>3 DEF ConsoleInv, ConsoleTypeOK, importVars
    <2>5. RequestInv'
      BY <2>1, <2>2, <2>3 DEF ConsoleInv, RequestInv, Stored
    <2>6. ImportInv' /\ IngestedOnce' /\ LastPushIsStored'
      BY <2>3 DEF ConsoleInv, ImportInv, IngestedOnce, LastPushIsStored, Stored, importVars
    <2>7. AnswerIsTruthful'
      BY <2>2, <2>3 DEF ConsoleInv, AnswerIsTruthful, Stored
    <2>8. OkAuditIsTruthful'
      BY <2>1, <2>3 DEF ConsoleInv, OkAuditIsTruthful, Stored, OkRow
    <2>9. QED
      BY <2>4, <2>5, <2>6, <2>7, <2>8 DEF ConsoleInv
  <1>8. CASE CommitAuditFails(w)
    <2>1. req[w].pc = "committed" /\ lock' = lock /\ lock # w
      BY <1>8 DEF CommitAuditFails, ConsoleInv, RequestInv
    <2>2. QED
      <3>1. /\ Refuse(w, 500) /\ req[w].pc # "idle"
            /\ 500 \in Code /\ 500 # 200 /\ 500 # 409
        BY <1>8, <2>1, RefusalCodes DEF CommitAuditFails
      <3>2. QED
        BY <2>1, <3>1, RefuseStep
  <1>9. CASE TriggerRaises(w)
    <2>1. /\ req[w].pid \in Payloads /\ lock' = lock /\ lock # w
          /\ UNCHANGED <<dbVars, importVars, clock>>
      BY <1>9 DEF TriggerRaises, ConsoleInv, RequestInv
    <2>2. /\ audit' = audit /\ audit' \subseteq AuditRow
          /\ UNCHANGED <<sensor, lastPush, received, endpoints, importVars, clock>>
      BY <2>1 DEF dbVars, ConsoleInv, ConsoleTypeOK
    <2>3. PICK c \in Code : c = 500
      BY RefusalCodes
    <2>4. /\ req' = [req EXCEPT ![w] = Answered(req[w].pid, c)]
          /\ c # 200 /\ c # 409
      BY <1>9, <2>3 DEF TriggerRaises, Reply
    <2>5. QED
      BY <2>1, <2>2, <2>4, AnswerStep
  <1>10. QED
    BY <1>1, <1>2, <1>3, <1>4, <1>5, <1>6, <1>7, <1>8, <1>9 DEF Serve

LEMMA OperatorStep ==
    ASSUME ConsoleInv, Operator
    PROVE  ConsoleInv'
  <1>0. IdleImport \in ImportState /\ IdleImport.pc = "idle"
    BY PushAssumption DEF IdleImport, ImportState, Never, Stamp
  <1>1. ASSUME NEW s \in Sensors, Enroll(s) PROVE ConsoleInv'
    BY <1>1, TokenStep DEF Enroll
  <1>2. ASSUME NEW s \in Sensors, RevokeSensor(s) PROVE ConsoleInv'
    BY <1>2, TokenStep DEF RevokeSensor
  <1>3. CASE ImportInsert
    <2>1. /\ imp.pc = "waiting" /\ imp \in ImportState /\ lock = NoOne
          /\ imp.pid \in Payloads /\ imp.now \in Time
          /\ lock # Importer /\ reported \subseteq Payloads
      BY <1>3, ConsoleAssumption
      DEF ImportInsert, ConsoleInv, ImportInv, ConsoleTypeOK
    <2>2. UNCHANGED <<dbVars, req, clock>> /\ reported' = reported
      BY <1>3 DEF ImportInsert
    <2>3. CASE imp' = IdleImport /\ lock' = lock
      BY <1>0, <2>1, <2>2, <2>3, ImportStep
    <2>4. CASE /\ ~Duplicate(imp.pid) /\ sensor[Owner[imp.pid]] # "absent"
               /\ imp' = [imp EXCEPT !.pc = "inserted"]
               /\ lock' = Importer
      <3>1. /\ imp' \in ImportState /\ imp'.pc = "inserted"
            /\ imp'.pid = imp.pid /\ imp'.now = imp.now
        BY <2>1, <2>4 DEF ImportState
      <3>2. QED
        BY <2>1, <2>2, <2>4, <3>1, ImportStep DEF Duplicate
    <2>5. QED
      BY <1>3, <2>3, <2>4 DEF ImportInsert
  <1>4. CASE ImportFails
    <2>1. /\ imp' = IdleImport /\ reported' \subseteq Payloads
          /\ lock' = IF lock = Importer THEN NoOne ELSE lock
          /\ UNCHANGED <<dbVars, req, clock>>
      BY <1>4 DEF ImportFails, ConsoleInv, ConsoleTypeOK
    <2>2. QED
      BY <1>0, <2>1, ImportStep
  <1>5. CASE ImportCommit
    BY <1>5, ImportCommitStep
  <1>6. CASE ImportHardwareFails
    <2>1. /\ imp' = IdleImport /\ reported' \subseteq Payloads
          /\ lock = Importer /\ lock' = NoOne
          /\ UNCHANGED <<dbVars, req, clock>>
      BY <1>6 DEF ImportHardwareFails, ConsoleInv, ConsoleTypeOK, ImportInv
    <2>2. QED
      BY <1>0, <2>1, ImportStep
  <1>7. QED
    BY <1>1, <1>2, <1>3, <1>4, <1>5, <1>6 DEF Operator

(* The console dies: every request is dropped, and so is the transaction of
   the one that held the lock. *)
LEMMA CrashStep ==
    ASSUME ConsoleInv, DropRequests
    PROVE  ConsoleInv'
  <1>1. /\ \A w \in Requests : req'[w] = IdleRequest
        /\ req' \in [Requests -> Request]
    BY IdleType DEF DropRequests
  <1>2. lock' \notin Requests /\ (lock' = Importer <=> lock = Importer)
    BY ConsoleAssumption DEF DropRequests
  <1>3. UNCHANGED <<dbVars, importVars, clock>> /\ lock' \in {lock, NoOne}
    BY DEF DropRequests
  <1>4. ConsoleTypeOK'
    BY <1>1, <1>3 DEF ConsoleInv, ConsoleTypeOK, dbVars, importVars
  <1>5. RequestInv' /\ AnswerIsTruthful'
    BY <1>1, <1>2, IdleType DEF RequestInv, AnswerIsTruthful
  <1>6. ImportInv'
    BY <1>2, <1>3 DEF ConsoleInv, ImportInv, importVars, dbVars, Stored
  <1>7. IngestedOnce' /\ LastPushIsStored' /\ OkAuditIsTruthful'
    BY <1>3 DEF ConsoleInv, IngestedOnce, LastPushIsStored, OkAuditIsTruthful, Stored, dbVars
  <1>8. QED
    BY <1>4, <1>5, <1>6, <1>7 DEF ConsoleInv

LEMMA TickStep ==
    ASSUME ConsoleInv, Tick, UNCHANGED consoleVars
    PROVE  ConsoleInv'
  <1>1. clock' \in Time
    BY PushAssumption DEF Tick, Time, ConsoleInv, ConsoleTypeOK
  <1>2. UNCHANGED <<dbVars, lock, req, importVars>>
    BY DEF consoleVars
  <1>3. QED
    BY <1>1, <1>2
    DEF ConsoleInv, ConsoleTypeOK, RequestInv, ImportInv, IngestedOnce,
        LastPushIsStored, AnswerIsTruthful, OkAuditIsTruthful, Stored, dbVars, importVars

LEMMA ConsoleInductive ==
    ASSUME ConsoleInv, [ConsoleNext]_<<consoleVars, clock>>
    PROVE  ConsoleInv'
  <1>1. ASSUME NEW w \in Requests, NEW p \in Payloads, NEW t \in Sensors,
               NEW at \in Time, NEW b \in Body, Authenticate(w, p, t, at, b)
        PROVE  ConsoleInv'
    BY <1>1, AuthenticateStep
  <1>2. ASSUME NEW w \in Requests, Serve(w) PROVE ConsoleInv'
    BY <1>2, ServeStep
  <1>3. ASSUME NEW w \in Requests, Answer(w) PROVE ConsoleInv'
    <2>1. /\ req[w].pid \in Payloads /\ Stored(req[w].pid)
          /\ OkRow(req[w].pid) \in audit /\ lock # w /\ lock' = lock
          /\ audit' = audit /\ audit' \subseteq AuditRow
          /\ UNCHANGED <<sensor, lastPush, received, endpoints, importVars, clock>>
      BY <1>3 DEF Answer, ConsoleInv, RequestInv, ConsoleTypeOK, dbVars
    <2>2. PICK c \in Code : c = 200
      BY DEF Code
    <2>3. req' = [req EXCEPT ![w] = Answered(req[w].pid, c)]
      BY <1>3, <2>2 DEF Answer, Reply
    <2>4. QED
      BY <2>1, <2>3, AnswerStep
  <1>4. ASSUME NEW w \in Requests, Release(w) PROVE ConsoleInv'
    <2>1. /\ lock # w /\ lock' = lock /\ req' = [req EXCEPT ![w] = IdleRequest]
          /\ UNCHANGED <<dbVars, importVars, clock>>
      BY <1>4 DEF Release, ConsoleInv, RequestInv
    <2>2. PICK r \in Request : r = IdleRequest
      BY IdleType
    <2>3. r.pc = "idle" /\ req' = [req EXCEPT ![w] = r]
      BY <2>1, <2>2, IdleType
    <2>4. QED
      BY <2>1, <2>3, RequestStep
  <1>5. CASE Operator
    BY <1>5, OperatorStep
  <1>6. ASSUME NEW p \in Payloads, ImportResults(p) PROVE ConsoleInv'
    <2>1. /\ imp.pc = "idle" /\ lock # Importer /\ lock' = lock
          /\ clock \in Time /\ clock \in Stamp /\ reported' \subseteq Payloads
          /\ UNCHANGED <<dbVars, req, clock>>
          /\ imp' = [pc |-> "waiting", pid |-> p, now |-> clock]
      BY <1>6, PushAssumption
      DEF ImportResults, ConsoleInv, ImportInv, ConsoleTypeOK, Time, Stamp
    <2>2. /\ imp' \in ImportState /\ imp'.pc = "waiting"
          /\ imp'.pid = p /\ imp'.now = clock
      BY <2>1 DEF ImportState
    <2>3. QED
      BY <2>1, <2>2, ImportStep
  <1>7. CASE ConsoleCrash
    BY <1>7, CrashStep DEF ConsoleCrash
  <1>8. CASE Tick /\ UNCHANGED consoleVars
    BY <1>8, TickStep
  <1>9. CASE UNCHANGED <<consoleVars, clock>>
    BY <1>9
    DEF ConsoleInv, ConsoleTypeOK, RequestInv, ImportInv, IngestedOnce, LastPushIsStored,
        AnswerIsTruthful, OkAuditIsTruthful, Stored, consoleVars, dbVars, importVars
  <1>10. QED
    BY <1>1, <1>2, <1>3, <1>4, <1>5, <1>6, <1>7, <1>8, <1>9 DEF ConsoleNext

LEMMA ConsoleInitially == ConsoleInit => ConsoleInv
  <1> SUFFICES ASSUME ConsoleInit PROVE ConsoleInv
    OBVIOUS
  <1>1. /\ \A w \in Requests : req[w] = IdleRequest
        /\ req \in [Requests -> Request]
        /\ imp.pc = "idle" /\ imp \in ImportState
    BY IdleType, PushAssumption DEF ConsoleInit, IdleImport, ImportState, Never, Stamp
  <1>2. ConsoleTypeOK
    BY <1>1, PushAssumption DEF ConsoleInit, ConsoleTypeOK, Time, Stamp, Never
  <1>3. RequestInv /\ ImportInv /\ AnswerIsTruthful
    BY <1>1, IdleType, ConsoleAssumption
    DEF ConsoleInit, RequestInv, ImportInv, AnswerIsTruthful
  <1>4. IngestedOnce /\ LastPushIsStored /\ OkAuditIsTruthful
    BY PushAssumption
    DEF ConsoleInit, IngestedOnce, LastPushIsStored, OkAuditIsTruthful, Stored
  <1>5. QED
    BY <1>2, <1>3, <1>4 DEF ConsoleInv

-----------------------------------------------------------------------------
(* Theorems *)

(* ConsoleInv, the inductive strengthening of the properties below: it adds to
   them what each request and the import know at each of their steps. *)
THEOREM ConsoleInvariant == ConsoleSpec => []ConsoleInv
  BY ConsoleInitially, ConsoleInductive, PTL DEF ConsoleSpec

(* Every column and every request stays within its type. *)
THEOREM ConsoleTypeCorrect == ConsoleSpec => []ConsoleTypeOK
  <1>1. ConsoleInv => ConsoleTypeOK
    BY DEF ConsoleInv
  <1>2. QED
    BY <1>1, ConsoleInvariant, PTL

(* However often and by however many paths at once it arrives, an envelope's
   findings are in crypto_endpoints once if it has a sensor_pushes row and not
   at all otherwise. *)
THEOREM ExactlyOnce == ConsoleSpec => []IngestedOnce
  <1>1. ConsoleInv => IngestedOnce
    BY DEF ConsoleInv
  <1>2. QED
    BY <1>1, ConsoleInvariant, PTL

(* A sensor that was told 200 or 409, and deletes its copy, can rely on it. *)
THEOREM AnswersAreTruthful == ConsoleSpec => []AnswerIsTruthful
  <1>1. ConsoleInv => AnswerIsTruthful
    BY DEF ConsoleInv
  <1>2. QED
    BY <1>1, ConsoleInvariant, PTL

(* An ok audit row has its push, although the two are not always committed
   together. *)
THEOREM OkAuditsAreTruthful == ConsoleSpec => []OkAuditIsTruthful
  <1>1. ConsoleInv => OkAuditIsTruthful
    BY DEF ConsoleInv
  <1>2. QED
    BY <1>1, ConsoleInvariant, PTL

(* sensors.last_push_at names a stored push of an enrolled sensor. *)
THEOREM LastPushesAreStored == ConsoleSpec => []LastPushIsStored
  <1>1. ConsoleInv => LastPushIsStored
    BY DEF ConsoleInv
  <1>2. QED
    BY <1>1, ConsoleInvariant, PTL

(* What may never happen to the ledger in one step. *)
LEMMA LedgerStep ==
    ASSUME ConsoleInv, [ConsoleNext]_<<consoleVars, clock>>,
           NEW p \in Payloads, Stored(p)
    PROVE  received'[p] = received[p] /\ endpoints'[p] = endpoints[p]
  <1>1. ASSUME NEW q \in Payloads, NEW now \in Time, ~Stored(q), StoreRows(q, now)
        PROVE  received'[p] = received[p] /\ endpoints'[p] = endpoints[p]
    BY <1>1 DEF StoreRows, ConsoleInv, ConsoleTypeOK
  <1>2. ASSUME NEW w \in Requests, req[w].pc = "inserted",
               StoreRows(req[w].pid, req[w].now)
        PROVE  received'[p] = received[p] /\ endpoints'[p] = endpoints[p]
    <2>1. req[w].pid \in Payloads /\ req[w].now \in Time /\ ~Stored(req[w].pid)
      BY <1>2 DEF ConsoleInv, RequestInv
    <2>2. QED
      BY <1>1, <1>2, <2>1
  <1>3. CASE ImportCommit
    <2>1. imp.pid \in Payloads /\ imp.now \in Time /\ ~Stored(imp.pid)
      BY <1>3 DEF ImportCommit, ConsoleInv, ImportInv
    <2>2. QED
      BY <1>1, <1>3, <2>1 DEF ImportCommit
  <1>4. CASE UNCHANGED <<received, endpoints>>
    BY <1>4
  <1>5. ASSUME NEW w \in Requests, Serve(w)
        PROVE  received'[p] = received[p] /\ endpoints'[p] = endpoints[p]
    <2>1. CASE CommitWithAudit(w) \/ PersistHardware(w)
      BY <1>2, <2>1 DEF CommitWithAudit, PersistHardware
    <2>2. CASE ~(CommitWithAudit(w) \/ PersistHardware(w))
      BY <1>4, <1>5, <2>2
      DEF Serve, CheckEnvelope, InsertPush, LockTimeout, CommitFails, CommitAudit,
          CommitAuditFails, TriggerRaises, Refuse, dbVars
    <2>3. QED
      BY <2>1, <2>2
  <1>6. CASE Operator
    BY <1>3, <1>4, <1>6
    DEF Operator, Enroll, RevokeSensor, ImportInsert, ImportFails, ImportHardwareFails, dbVars
  <1>7. CASE ConsoleCrash
    BY <1>4, <1>7 DEF ConsoleCrash, DropRequests, dbVars
  <1>8. CASE Tick /\ UNCHANGED consoleVars
    BY <1>4, <1>8 DEF consoleVars, dbVars
  <1>9. CASE UNCHANGED <<consoleVars, clock>>
    BY <1>4, <1>9 DEF consoleVars, dbVars
  <1>10. CASE \E q \in Payloads : ImportResults(q)
    BY <1>4, <1>10 DEF ImportResults, dbVars
  <1>11. ASSUME NEW w \in Requests, Answer(w) \/ Release(w)
         PROVE  received'[p] = received[p] /\ endpoints'[p] = endpoints[p]
    BY <1>4, <1>11 DEF Answer, Release, dbVars
  <1>12. ASSUME NEW w \in Requests, NEW q \in Payloads, NEW t \in Sensors, NEW at \in Time,
                NEW b \in Body, Authenticate(w, q, t, at, b)
         PROVE  received'[p] = received[p] /\ endpoints'[p] = endpoints[p]
    BY <1>4, <1>12 DEF Authenticate, dbVars
  <1>13. CASE ConsoleNext
    BY <1>5, <1>6, <1>7, <1>8, <1>10, <1>11, <1>12, <1>13 DEF ConsoleNext
  <1>14. QED
    BY <1>9, <1>13

(* sensor_pushes is append-only. *)
THEOREM LedgerIsAppendOnly == ConsoleSpec => LedgerAppendOnly
  <1>1. ConsoleInv /\ [ConsoleNext]_<<consoleVars, clock>> =>
          [\A p \in Payloads : Stored(p) =>
              received'[p] = received[p] /\ endpoints'[p] = endpoints[p]]_consoleVars
    BY LedgerStep
  <1>2. QED
    BY <1>1, ConsoleInvariant, PTL DEF ConsoleSpec, LedgerAppendOnly
=============================================================================
