--------------------------- MODULE ConsoleIngest ---------------------------
(***************************************************************************)
(* The console's ingest path: POST /api/sensor/push (routes/sensor.py with *)
(* middleware/sensor_auth.py), the shared _ingest_envelope and the CLI     *)
(* commands enroll, revoke-sensor and import-results (cli/console_cmd.py), *)
(* over one SQLite database.                                               *)
(*                                                                         *)
(* A request is processed in steps, because other processes write to the   *)
(* same database and the console may die between two of them:              *)
(*                                                                         *)
(*   idle -> reading -> waiting -> inserted -> committed -> answering      *)
(*                                        \________________/     -> done   *)
(*                                                                         *)
(* From its first INSERT to its COMMIT a transaction holds SQLite's write  *)
(* lock; the rows it inserted are not in the database before the COMMIT,   *)
(* so a request in "inserted" that is rolled back leaves no trace.  The    *)
(* handler is an `async def' without an await after the body is read:      *)
(* requests do not interleave from that point on, but the CLI processes    *)
(* do interleave with them.                                                *)
(***************************************************************************)
EXTENDS PushTypes

CONSTANTS
    Requests,   \* connections the console can serve at the same time
    Importer,   \* the `quirk console import-results' process
    NoOne       \* nobody holds the write lock; no payload

ASSUME ConsoleAssumption ==
    /\ Importer \notin Requests
    /\ NoOne \notin Requests \cup {Importer}
    /\ NoOne \notin Payloads

VARIABLES
    sensor,     \* sensors and sensor_tokens: "absent", "active" or "revoked"
    lastPush,   \* sensors.last_push_at
    received,   \* sensor_pushes.received_at by payload_id; Never: no row
    endpoints,  \* how often the findings of a payload are in crypto_endpoints
    audit,      \* integration_deliveries rows of destination sensor_push
    lock,       \* who holds SQLite's write lock
    req,        \* the requests being served
    imp,        \* the import-results process
    reported    \* payloads for which import-results printed "Imported: ..."

dbVars == <<sensor, lastPush, received, endpoints, audit>>
importVars == <<imp, reported>>
consoleVars == <<dbVars, lock, req, importVars>>

Stored(p) == received[p] # Never

(* The UNIQUE constraint on sensor_pushes.payload_id. *)
Duplicate_Unchecked(p) == FALSE
Duplicate(p) == Stored(p)

-----------------------------------------------------------------------------
(* Requests *)

PC == {"idle", "reading", "waiting", "inserted", "committed", "answering",
       "done"}
Body == {"intact", "unreadable", "oversized"}
Code == {0, 200, 400, 401, 403, 409, 413, 422, 500}

(* pid and pushedAt are what the envelope says, token is the sensor the
   bearer token was minted for, receivedAt is stamped when the handler
   starts, now when _ingest_envelope starts, code is the answer. *)
Request == [pc : PC, pid : Payloads \cup {NoOne}, token : Sensors \cup {NoOne},
            pushedAt : Stamp, body : Body, receivedAt : Stamp, now : Stamp,
            code : Code]

(* A request past the checks on its headers and body. *)
AtStep(pc, p, now, code) ==
    [pc |-> pc, pid |-> p, token |-> NoOne, pushedAt |-> Never,
     body |-> "intact", receivedAt |-> Never, now |-> now, code |-> code]

IdleRequest == AtStep("idle", NoOne, Never, 0)

(* An integration_deliveries row; the error_summary that says which branch
   wrote a failed row is left out. *)
AuditRow == [pid : Payloads, status : {"ok", "failed"}]

OkRow(p) == [pid |-> p, status |-> "ok"]
FailedRow(p) == [pid |-> p, status |-> "failed"]

(* _audit: a row in a transaction of its own.  A commit that fails is logged
   and swallowed, so the row may be missing. *)
Audit(row) == audit' \in {audit, audit \cup {row}}

(* The answer is on its way; the handler's locals are gone. *)
Answered(p, code) == AtStep("done", p, Never, code)
Reply(w, code) == req' = [req EXCEPT ![w] = Answered(@.pid, code)]

(* raise HTTPException after an audit row: nothing else is written. *)
Refuse(w, code) ==
    /\ Reply(w, code)
    /\ Audit(FailedRow(req[w].pid))
    /\ UNCHANGED <<sensor, lastPush, received, endpoints, importVars, clock>>

StoreRows_RoundedUp(p, now) ==
    /\ received' = [received EXCEPT ![p] = now + 1]
    /\ lastPush' = [lastPush EXCEPT ![Owner[p]] = now + 1]
    /\ endpoints' = [endpoints EXCEPT ![p] = @ + 1]
    /\ UNCHANGED sensor

StoreRows_NoLastPush(p, now) ==
    /\ received' = [received EXCEPT ![p] = now]
    /\ endpoints' = [endpoints EXCEPT ![p] = @ + 1]
    /\ UNCHANGED <<sensor, lastPush>>

(* The rows of one ingested envelope: its sensor_pushes row, the sensor's
   last_push_at and one crypto_endpoints row per finding. *)
StoreRows(p, now) ==
    /\ received' = [received EXCEPT ![p] = now]
    /\ lastPush' = [lastPush EXCEPT ![Owner[p]] = now]
    /\ endpoints' = [endpoints EXCEPT ![p] = @ + 1]
    /\ UNCHANGED sensor

-----------------------------------------------------------------------------
(* POST /api/sensor/push *)

(* A request arrives and require_sensor_auth looks its token up; the handler
   then stamps received_at and starts reading the body. *)
Authenticate(w, p, t, at, body) ==
    /\ req[w].pc = "idle"
    /\ \/ /\ sensor[t] = "active"
          /\ req' = [req EXCEPT ![w] =
                        [pc |-> "reading", pid |-> p, token |-> t,
                         pushedAt |-> at, body |-> body, receivedAt |-> clock,
                         now |-> Never, code |-> 0]]
          /\ UNCHANGED audit
       \/ /\ sensor[t] # "active"
          /\ req' = [req EXCEPT ![w] = Answered(p, 401)]
          /\ Audit(FailedRow(p))
    /\ UNCHANGED <<sensor, lastPush, received, endpoints, lock, importVars, clock>>

(* The handler runs on the event loop: once a request has its body, no other
   request makes progress past that point until it is answered. *)
OnLoop(w) == req[w].pc \in {"waiting", "inserted", "committed", "answering"}
LoopFree == \A w \in Requests : ~OnLoop(w)

Distance(a, b) == IF a < b THEN b - a ELSE a - b

InWindow(r) == Distance(r.receivedAt, r.pushedAt) <= Window

(* The failure ladder between the end of the body and _ingest_envelope, which
   reads nothing of the request but its envelope.  Rows of sensors are never
   deleted, so the ladder's 404 cannot happen to a token that authenticated. *)
CheckEnvelope(w) ==
    /\ req[w].pc = "reading"
    /\ LoopFree
    /\ UNCHANGED lock
    /\ LET r == req[w]
       IN  \/ r.body = "oversized" /\ Refuse(w, 413)
           \/ r.body = "unreadable" /\ Refuse(w, 400)
           \/ /\ r.body = "intact" /\ ~InWindow(r)
              /\ Refuse(w, 422)
           \/ /\ r.body = "intact" /\ InWindow(r) /\ Owner[r.pid] # r.token
              /\ Refuse(w, 403)
           \/ /\ r.body = "intact" /\ InWindow(r) /\ Owner[r.pid] = r.token
              /\ req' = [req EXCEPT ![w] = AtStep("waiting", r.pid, clock, 0)]
              /\ UNCHANGED <<dbVars, importVars, clock>>

(* The INSERT into sensor_pushes takes the write lock, and fails on the
   UNIQUE payload_id when the row is there already. *)
InsertPush(w) ==
    /\ req[w].pc = "waiting"
    /\ lock = NoOne
    /\ \/ /\ Duplicate(req[w].pid)
          /\ Refuse(w, 409)
          /\ UNCHANGED lock
       \/ /\ ~Duplicate(req[w].pid)
          /\ req' = [req EXCEPT ![w].pc = "inserted"]
          /\ lock' = w
          /\ UNCHANGED <<dbVars, importVars, clock>>

LockTimeout_AsDuplicate(w) ==
    /\ req[w].pc = "waiting"
    /\ lock # NoOne
    /\ Refuse(w, 409)
    /\ UNCHANGED lock

(* The INSERT gives up waiting for the lock (`database is locked'). *)
LockTimeout(w) ==
    /\ req[w].pc = "waiting"
    /\ lock # NoOne
    /\ Refuse(w, 500)
    /\ UNCHANGED lock

(* No device in the envelope: persist_and_reconcile returns at once, and the
   rows of the push are committed together with the ok audit row. *)
CommitWithAudit(w) ==
    /\ req[w].pc = "inserted"
    /\ Hardware[req[w].pid] # "devices"
    /\ StoreRows(req[w].pid, req[w].now)
    /\ audit' = audit \cup {OkRow(req[w].pid)}
    /\ req' = [req EXCEPT ![w].pc = "answering"]
    /\ lock' = NoOne
    /\ UNCHANGED <<importVars, clock>>

(* With devices, persist_and_reconcile commits the session it was handed:
   the rows of the push are in the database before the ok audit row is. *)
PersistHardware(w) ==
    /\ req[w].pc = "inserted"
    /\ Hardware[req[w].pid] = "devices"
    /\ StoreRows(req[w].pid, req[w].now)
    /\ req' = [req EXCEPT ![w].pc = "committed"]
    /\ lock' = NoOne
    /\ UNCHANGED <<audit, importVars, clock>>

CommitFails_OkAudited(w) ==
    /\ req[w].pc = "inserted"
    /\ Reply(w, 500)
    /\ audit' = audit \cup {OkRow(req[w].pid)}
    /\ lock' = NoOne
    /\ UNCHANGED <<sensor, lastPush, received, endpoints, importVars, clock>>

(* Either commit fails.  persist_and_reconcile swallows the error without a
   rollback and leaves a session whose next commit raises; in both cases the
   handler rolls back and answers 500. *)
CommitFails(w) ==
    /\ req[w].pc = "inserted"
    /\ Refuse(w, 500)
    /\ lock' = NoOne

(* The final commit after PersistHardware: only the ok row is left in it. *)
CommitAudit(w) ==
    /\ req[w].pc = "committed"
    /\ lock = NoOne
    /\ audit' = audit \cup {OkRow(req[w].pid)}
    /\ req' = [req EXCEPT ![w].pc = "answering"]
    /\ UNCHANGED <<sensor, lastPush, received, endpoints, lock, importVars, clock>>

CommitAuditFails(w) ==
    /\ req[w].pc = "committed"
    /\ Refuse(w, 500)
    /\ UNCHANGED lock

Answer(w) ==
    /\ req[w].pc = "answering"
    /\ Reply(w, 200)
    /\ UNCHANGED <<dbVars, lock, importVars, clock>>

(* Evaluating the auto-merge trigger raises (a database error, a malformed
   config value): a bare 500, although everything is committed. *)
TriggerRaises(w) ==
    /\ req[w].pc = "answering"
    /\ Reply(w, 500)
    /\ UNCHANGED <<dbVars, lock, importVars, clock>>

(* The answer has been sent, or its reader has gone. *)
Release(w) ==
    /\ req[w].pc = "done"
    /\ req' = [req EXCEPT ![w] = IdleRequest]
    /\ UNCHANGED <<dbVars, lock, importVars, clock>>

(* The console process dies: connections drop and SQLite rolls the open
   transaction back.  It is ready again when it restarts. *)
DropRequests ==
    /\ req' = [w \in Requests |-> IdleRequest]
    /\ lock' = IF lock \in Requests THEN NoOne ELSE lock
    /\ UNCHANGED <<dbVars, importVars, clock>>

ConsoleCrash == (\E w \in Requests : req[w].pc # "idle") /\ DropRequests

-----------------------------------------------------------------------------
(* quirk console enroll | revoke-sensor | import-results *)

(* A sensor_id that has a row is left alone: no second token is minted. *)
Enroll(s) ==
    /\ sensor[s] = "absent"
    /\ lock = NoOne
    /\ sensor' = [sensor EXCEPT ![s] = "active"]
    /\ UNCHANGED <<lastPush, received, endpoints, audit, lock, req, importVars, clock>>

RevokeSensor(s) ==
    /\ sensor[s] = "active"
    /\ lock = NoOne
    /\ sensor' = [sensor EXCEPT ![s] = "revoked"]
    /\ UNCHANGED <<lastPush, received, endpoints, audit, lock, req, importVars, clock>>

IdleImport == [pc |-> "idle", pid |-> NoOne, now |-> Never]
ImportState == [pc : {"idle", "waiting", "inserted"},
                pid : Payloads \cup {NoOne}, now : Stamp]

(* import-results opens a session of its own and stamps the time; the replay
   window is not checked. *)
ImportResults(p) ==
    /\ imp.pc = "idle"
    /\ imp' = [pc |-> "waiting", pid |-> p, now |-> clock]
    /\ UNCHANGED <<dbVars, lock, req, reported, clock>>

ImportInsert_NoDedup ==
    /\ imp.pc = "waiting"
    /\ lock = NoOne
    /\ sensor[Owner[imp.pid]] # "absent"
    /\ imp' = [imp EXCEPT !.pc = "inserted"]
    /\ lock' = Importer
    /\ UNCHANGED <<dbVars, req, reported, clock>>

(* UNIQUE payload_id and the FOREIGN KEY on sensor_id both exit 1. *)
ImportInsert ==
    /\ imp.pc = "waiting"
    /\ lock = NoOne
    /\ \/ /\ Duplicate(imp.pid) \/ sensor[Owner[imp.pid]] = "absent"
          /\ imp' = IdleImport
          /\ UNCHANGED lock
       \/ /\ ~Duplicate(imp.pid) /\ sensor[Owner[imp.pid]] # "absent"
          /\ imp' = [imp EXCEPT !.pc = "inserted"]
          /\ lock' = Importer
    /\ UNCHANGED <<dbVars, req, reported, clock>>

(* The lock is never free in time, or the process is killed: exit without a
   row written. *)
ImportFails ==
    /\ imp.pc # "idle"
    /\ imp' = IdleImport
    /\ lock' = IF lock = Importer THEN NoOne ELSE lock
    /\ UNCHANGED <<dbVars, req, reported, clock>>

ImportCommit ==
    /\ imp.pc = "inserted"
    /\ StoreRows(imp.pid, imp.now)
    /\ reported' = reported \cup {imp.pid}
    /\ imp' = IdleImport
    /\ lock' = NoOne
    /\ UNCHANGED <<audit, req, clock>>

(* The commit inside persist_and_reconcile fails.  It takes the session for
   its own (owns_session), rolls back every pending row and returns; the
   import then commits an empty transaction and reports success. *)
ImportHardwareFails ==
    /\ imp.pc = "inserted"
    /\ Hardware[imp.pid] = "devices"
    /\ reported' = reported \cup {imp.pid}
    /\ imp' = IdleImport
    /\ lock' = NoOne
    /\ UNCHANGED <<dbVars, req, clock>>

-----------------------------------------------------------------------------

ConsoleInit ==
    /\ sensor = [s \in Sensors |-> "absent"]
    /\ lastPush = [s \in Sensors |-> Never]
    /\ received = [p \in Payloads |-> Never]
    /\ endpoints = [p \in Payloads |-> 0]
    /\ audit = {}
    /\ lock = NoOne
    /\ req = [w \in Requests |-> IdleRequest]
    /\ imp = IdleImport
    /\ reported = {}
    /\ clock = 1

(* What the console does with the requests it has. *)
Serve(w) ==
    \/ CheckEnvelope(w) \/ InsertPush(w) \/ LockTimeout(w)
    \/ CommitWithAudit(w) \/ PersistHardware(w) \/ CommitFails(w)
    \/ CommitAudit(w) \/ CommitAuditFails(w) \/ TriggerRaises(w)

Operator ==
    \/ \E s \in Sensors : Enroll(s) \/ RevokeSensor(s)
    \/ ImportInsert \/ ImportFails \/ ImportCommit \/ ImportHardwareFails

(* The console against every possible client: any bearer of any token may
   send any envelope at any time, and any file may be imported. *)
ConsoleNext ==
    \/ \E w \in Requests :
         \/ \E p \in Payloads, t \in Sensors, at \in Time, b \in Body :
               Authenticate(w, p, t, at, b)
         \/ Serve(w) \/ Answer(w) \/ Release(w)
    \/ Operator
    \/ \E p \in Payloads : ImportResults(p)
    \/ ConsoleCrash
    \/ Tick /\ UNCHANGED consoleVars

ConsoleSpec == ConsoleInit /\ [][ConsoleNext]_<<consoleVars, clock>>

-----------------------------------------------------------------------------
(* Properties *)

(* Every column and every request stays within its type: last_push_at and
   received_at are instants or NULL, a request is one of the handler's
   states. *)
ConsoleTypeOK ==
    /\ clock \in Time
    /\ sensor \in [Sensors -> {"absent", "active", "revoked"}]
    /\ lastPush \in [Sensors -> Stamp]
    /\ received \in [Payloads -> Stamp]
    /\ endpoints \in [Payloads -> Nat]
    /\ audit \subseteq AuditRow
    /\ lock \in Requests \cup {Importer, NoOne}
    /\ req \in [Requests -> Request]
    /\ imp \in ImportState
    /\ reported \subseteq Payloads

(* A payload's findings are in crypto_endpoints exactly once if it has a
   sensor_pushes row and not at all otherwise, however often it is pushed,
   retried and imported at once (the UNIQUE payload_id gate, taken under the
   write lock and in one transaction with the rows). *)
IngestedOnce ==
    \A p \in Payloads : endpoints[p] = IF Stored(p) THEN 1 ELSE 0

(* The answer a sensor acts on is true: 200 and 409, which make it delete its
   copy, are only given when the payload is durably stored, and a 200 also
   has its ok audit row. *)
AnswerIsTruthful ==
    \A w \in Requests : req[w].pc = "done" =>
        /\ req[w].code \in {200, 409} => Stored(req[w].pid)
        /\ req[w].code = 200 => OkRow(req[w].pid) \in audit

(* An ok audit row is never written for a push that is not in the database. *)
OkAuditIsTruthful ==
    \A p \in Payloads : OkRow(p) \in audit => Stored(p)

(* last_push_at names a stored push of that sensor and no sensor that was
   never enrolled has one: no failed, rolled back or foreign push moves it. *)
LastPushIsStored ==
    \A s \in Sensors :
        /\ lastPush[s] # Never =>
              \E p \in Payloads : Owner[p] = s /\ received[p] = lastPush[s]
        /\ (\E p \in Payloads : Owner[p] = s /\ Stored(p)) =>
              lastPush[s] # Never /\ sensor[s] # "absent"

(* sensor_pushes is append-only: no step withdraws or re-dates a stored push
   or writes its findings again. *)
LedgerAppendOnly ==
    [][\A p \in Payloads : Stored(p) =>
          received'[p] = received[p] /\ endpoints'[p] = endpoints[p]]_consoleVars

(* `Success summary (SENSOR-04 operator confirmation of what was ingested)':
   what import-results reported as imported is in the database. *)
ImportReportIsTrue == \A p \in reported : Stored(p)
=============================================================================
