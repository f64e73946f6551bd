---------------------------- MODULE PushPipeline ----------------------------
(***************************************************************************)
(* A sensor host and its console joined by HTTPS: SensorAgent's POSTs are  *)
(* ConsoleIngest's requests.  The network may fail a connection, delay an  *)
(* answer past the sensor's timeout (the console goes on with the request  *)
(* and may still store it, while the sensor retries), or cut a connection  *)
(* when the console dies.  An operator carries .qpush files across.        *)
(***************************************************************************)
EXTENDS SensorAgent, ConsoleIngest

VARIABLE conn       \* the request whose answer the sensor awaits, or NoOne

pipelineVars == <<agentVars, consoleVars, conn, clock>>

StatusOutcome_AnyRefusalIsDone(code) ==
    CASE code = 200 -> "200"
      [] code = 500 -> "5xx"
      [] OTHER -> "409"

(* What _do_push makes of a status code. *)
StatusOutcome(code) ==
    CASE code = 200 -> "200"
      [] code = 409 -> "409"
      [] code = 500 -> "5xx"
      [] OTHER -> "4xx"

Post(w) ==
    /\ Send
    /\ Authenticate(w, Target.pid, Agent, built[Target.pid],
                    IF Target.intact THEN "intact" ELSE "unreadable")
    /\ conn' = w

(* The connection is refused, or the request is lost on the way. *)
PostFails ==
    /\ Send
    /\ conn' = NoOne
    /\ UNCHANGED consoleVars

(* ConnectError or TimeoutException: the sensor stops waiting. *)
GiveUpWaiting ==
    /\ HandleOutcome("net") \/ CrashWhileSpooling("net")
    /\ conn' = NoOne
    /\ UNCHANGED consoleVars

GetAnswer ==
    /\ conn \in Requests
    /\ req[conn].pc = "done"
    /\ LET o == StatusOutcome(req[conn].code)
       IN  HandleOutcome(o) \/ CrashWhileSpooling(o)
    /\ Release(conn)
    /\ conn' = NoOne

(* The console died with the connection open: not a retryable exception. *)
ConnectionCut ==
    /\ conn \in Requests
    /\ req[conn].pc = "idle"
    /\ HandleOutcome("other")
    /\ conn' = NoOne
    /\ UNCHANGED consoleVars

(* The rest of what the sensor, the console and the operator do. *)
SensorStep ==
    /\ \/ \E p \in Payloads : StartPush(p) \/ ExportResults(p)
       \/ FlushDone
    /\ UNCHANGED <<consoleVars, conn>>

SensorDies ==
    /\ AgentCrash
    /\ conn' = NoOne
    /\ UNCHANGED consoleVars

ConsoleStep ==
    /\ \/ \E w \in Requests : Serve(w) \/ Answer(w) \/ (w # conn /\ Release(w))
       \/ Operator
       \/ \E p \in exported : ImportResults(p)
       \/ ConsoleCrash
    /\ UNCHANGED <<agentVars, conn>>

PipelineInit == AgentInit /\ ConsoleInit /\ conn = NoOne

PipelineNext ==
    \/ \E w \in Requests : Post(w)
    \/ PostFails \/ GiveUpWaiting \/ GetAnswer \/ ConnectionCut
    \/ SensorStep \/ SensorDies \/ ConsoleStep
    \/ Tick /\ UNCHANGED <<agentVars, consoleVars, conn>>

PipelineSpec == PipelineInit /\ [][PipelineNext]_pipelineVars

-----------------------------------------------------------------------------
(* Properties *)

(* What the sensor deletes is in the console's database: a payload it counts
   as delivered has its sensor_pushes row, and its findings exactly once,
   through lost answers, late requests, retries, crashes of either side and
   an import in parallel. *)
DeliveredIsStored ==
    \A p \in delivered : Stored(p) /\ endpoints[p] = 1

(* The pipeline implements the contract.  The sensor's good copies are the
   envelope of the running push, the intact spool files and the .qpush
   files. *)
Contract == INSTANCE PushContract WITH
    made <- {p \in Payloads : built[p] # Never},
    kept <- (IF job.phase = "idle" THEN {} ELSE {job.cur})
              \cup {f.pid : f \in {g \in ToSet(spool) : g.intact}} \cup exported,
    stored <- endpoints,
    acked <- delivered,
    dropped <- evicted \cup lost

ImplementsContract == Contract!Spec

(* `Terminal network failure after retries -- spool for later delivery': a
   spooled envelope that is sent again is not refused for its age, given that
   the clocks of the two hosts agree (they are one variable here). *)
LaterDeliveryPossible ==
    \A w \in Requests :
        req[w].pc = "done" /\ req[w].pid \in Spooled => req[w].code # 422
=============================================================================
