------------------------------ MODULE AutoMerge ------------------------------
(***************************************************************************)
(* Merging the fleet: the auto-merge trigger and background task of        *)
(* routes/sensor.py, `quirk sensor merge' (cli/sensor_cmd.py) and          *)
(* merge_scan (merge/scan.py), on top of ConsoleIngest.                    *)
(*                                                                         *)
(* A successful push evaluates the trigger before it is answered and may   *)
(* leave a background task behind.  The task is a plain function and runs  *)
(* in a worker thread, so it does interleave with the pushes that follow.  *)
(* merge_scan stamps its time, reads each sensor's latest push, derives    *)
(* the score and the CBOM, and writes one merge_runs row; pushes may       *)
(* commit between any two of these steps.                                  *)
(***************************************************************************)
EXTENDS ConsoleIngest, FiniteSetsExt

CONSTANTS
    Trigger,        \* console.auto_merge: its condition, or "off"
    CadenceWindow,  \* cadence_window_minutes
    Manual,         \* the `quirk sensor merge' process
    MaxManual       \* bound: it is started only while there are fewer merges

ASSUME MergeAssumption ==
    /\ Trigger \in {"off", "all-sensors-in", "cadence-window"}
    /\ CadenceWindow \in Nat
    /\ MaxManual \in Nat
    /\ Manual \notin Requests

VARIABLES
    merges,     \* merge_runs
    task,       \* the merges under way, by the connection that left them
    abandoned   \* a merge failed, or died with the console

mergeVars == <<merges, task, abandoned>>

Tasks == Requests \cup {Manual}

(* Which push of each sensor a merge is made of. *)
Union == [Sensors -> Payloads \cup {NoOne}]

(* active: the sensors the trigger took to be all in; {} when it was not
   all-sensors-in that started the merge. *)
MergeRun == [at : Time, union : Union, active : SUBSET Sensors]

Task == [pc : {"idle", "queued", "stamped", "read"}, at : Stamp,
         union : Union, active : SUBSET Sensors]
IdleTask == [pc |-> "idle", at |-> Never, union |-> [s \in Sensors |-> NoOne],
             active |-> {}]

-----------------------------------------------------------------------------
(* _eval_trigger_condition *)

MergedAt == Max({m.at : m \in merges})

ActiveSensors == {s \in Sensors : sensor[s] = "active"}

AllSensorsIn_SomeIn ==
    /\ \E s \in ActiveSensors : lastPush[s] # Never
    /\ merges = {} \/ Max({lastPush[s] : s \in ActiveSensors}) > MergedAt

AllSensorsIn ==
    /\ ActiveSensors # {}
    /\ \A s \in ActiveSensors : lastPush[s] # Never
    /\ merges = {} \/ Max({lastPush[s] : s \in ActiveSensors}) > MergedAt

CadenceElapsed == merges = {} \/ clock - MergedAt >= CadenceWindow

TriggerHolds ==
    \/ Trigger = "all-sensors-in" /\ AllSensorsIn
    \/ Trigger = "cadence-window" /\ CadenceElapsed

(* The end of sensor_push, in place of ConsoleIngest's Answer alone. *)
AnswerAndTrigger(w) ==
    /\ Answer(w)
    /\ task' = IF TriggerHolds
               THEN [task EXCEPT ![w] = [IdleTask EXCEPT !.pc = "queued",
                        !.active = IF Trigger = "all-sensors-in"
                                   THEN ActiveSensors ELSE {}]]
               ELSE task
    /\ UNCHANGED <<merges, abandoned>>

-----------------------------------------------------------------------------
(* run_auto_merge and merge_scan *)

AlreadyCovered_AnyMerge == merges # {}

(* D-05: a merge is dated at or after the newest push. *)
AlreadyCovered ==
    /\ merges # {}
    /\ \E s \in Sensors : lastPush[s] # Never
    /\ Max({lastPush[s] : s \in Sensors}) <= MergedAt

(* The re-check, then merge_scan's own stamp. *)
StartMerge(t) ==
    /\ task[t].pc = "queued"
    /\ \/ /\ t \in Requests /\ AlreadyCovered
          /\ task' = [task EXCEPT ![t] = IdleTask]
       \/ /\ t = Manual \/ ~AlreadyCovered
          /\ task' = [task EXCEPT ![t].pc = "stamped", ![t].at = clock]
    /\ UNCHANGED <<consoleVars, merges, abandoned, clock>>

PushesOf(s) == {p \in Payloads : Owner[p] = s /\ Stored(p)}

LatestPushes(s) == {p \in PushesOf(s) : \A q \in PushesOf(s) : received[q] <= received[p]}

(* _assemble_union: the last ingested push of each sensor; of two with the
   same received_at the one with the larger row id, here either. *)
ReadUnion(t) ==
    /\ task[t].pc = "stamped"
    /\ \E u \in Union :
          /\ \A s \in Sensors : IF PushesOf(s) = {} THEN u[s] = NoOne
                                ELSE u[s] \in LatestPushes(s)
          /\ task' = [task EXCEPT ![t].pc = "read", ![t].union = u]
    /\ UNCHANGED <<consoleVars, merges, abandoned, clock>>

CommitMerge(t) ==
    /\ task[t].pc = "read"
    /\ lock = NoOne
    /\ merges' = merges \cup {[at |-> task[t].at, union |-> task[t].union,
                               active |-> task[t].active]}
    /\ task' = [task EXCEPT ![t] = IdleTask]
    /\ UNCHANGED <<consoleVars, abandoned, clock>>

(* Any exception: rolled back, a failed auto_merge audit row at best. *)
MergeFails(t) ==
    /\ task[t].pc # "idle"
    /\ task' = [task EXCEPT ![t] = IdleTask]
    /\ abandoned' = TRUE
    /\ UNCHANGED <<consoleVars, merges, clock>>

(* quirk sensor merge: merge_scan without the re-check. *)
ManualMerge ==
    /\ task[Manual].pc = "idle"
    /\ Cardinality(merges) < MaxManual
    /\ task' = [task EXCEPT ![Manual] = [IdleTask EXCEPT !.pc = "queued"]]
    /\ UNCHANGED <<consoleVars, merges, abandoned, clock>>

(* Background tasks are in memory only: they die with the console. *)
ConsoleDies ==
    /\ \E w \in Requests : req[w].pc # "idle" \/ task[w].pc # "idle"
    /\ DropRequests
    /\ task' = [t \in Tasks |-> IF t = Manual THEN task[t] ELSE IdleTask]
    /\ abandoned' = (abandoned \/ \E w \in Requests : task[w].pc # "idle")
    /\ UNCHANGED merges

-----------------------------------------------------------------------------

MergeInit ==
    /\ ConsoleInit
    /\ merges = {}
    /\ task = [t \in Tasks |-> IdleTask]
    /\ abandoned = FALSE

(* A sensor pushes an envelope it has just built.  A connection serves its
   next request when the background task of the previous one has returned. *)
Push(w, p) ==
    /\ task[w].pc = "idle"
    /\ Authenticate(w, p, Owner[p], clock, "intact")

MergeStep(t) == StartMerge(t) \/ ReadUnion(t) \/ CommitMerge(t)

MergeNext ==
    \/ /\ \/ \E w \in Requests :
               \/ \E p \in Payloads : Push(w, p)
               \/ Serve(w) \/ Release(w)
          \/ \E s \in Sensors : Enroll(s) \/ RevokeSensor(s)
          \/ Tick /\ UNCHANGED consoleVars
       /\ UNCHANGED mergeVars
    \/ \E w \in Requests : AnswerAndTrigger(w)
    \/ \E t \in Tasks : MergeStep(t) \/ MergeFails(t)
    \/ ManualMerge \/ ConsoleDies

allVars == <<consoleVars, mergeVars, clock>>

(* A thread that runs a merge is scheduled until it is done, and a request
   that holds the write lock is served: its handler awaits nothing. *)
MergeFairness ==
    /\ \A t \in Tasks : WF_allVars(MergeStep(t))
    /\ \A w \in Requests : WF_allVars(Serve(w) /\ UNCHANGED mergeVars)

MergeSpec == MergeInit /\ [][MergeNext]_allVars
MergeFairSpec == MergeSpec /\ MergeFairness

-----------------------------------------------------------------------------
(* Properties *)

(* merge_runs rows are dated by merge_scan's stamp and made of one push per
   sensor; a task is in one of the steps of run_auto_merge. *)
MergeTypeOK ==
    /\ merges \subseteq MergeRun
    /\ task \in [Tasks -> Task]
    /\ abandoned \in BOOLEAN

(* all-sensors-in keeps its word: the merge it starts has a push of every
   sensor that was active at the trigger, whatever is revoked, pushed or
   merged between the trigger and the row. *)
MergeHasWholeFleet ==
    \A m \in merges : \A s \in m.active : m.union[s] # NoOne

(* A merge never shows a push that is not durably stored, in particular none
   whose transaction was open during the merge and rolled back after it, and
   shows it under the sensor that made it. *)
MergeShowsStoredPushes ==
    \A m \in merges : \A s \in Sensors :
        m.union[s] # NoOne => Stored(m.union[s]) /\ Owner[m.union[s]] = s

(* A merge is the fleet as the console holds it: none of those it was
   triggered for is missing and nothing in it is not stored. *)
MergeIsFaithful == MergeHasWholeFleet /\ MergeShowsStoredPushes

(* A triggered merge happens: once a task is queued for pushes up to instant
   d, a merge_runs row dated d or later appears, unless a merge fails or the
   console dies with its tasks. *)
TriggeredMergeHappens ==
    \A d \in Time :
        ((\E w \in Requests : task[w].pc = "queued")
              /\ Max({lastPush[s] : s \in Sensors}) >= d)
        ~> (abandoned \/ (merges # {} /\ MergedAt >= d))

(* `no-op if a MergeRun already covers latest pushes': when a waiting task is
   about to find its work already covered, the newest merge shows the latest
   push of every sensor whose last_push_at is before that merge. *)
NoOpIsCovered ==
    (\E w \in Requests : task[w].pc = "queued") /\ AlreadyCovered =>
        \A m \in merges : m.at = MergedAt =>
            \A s \in Sensors :
                lastPush[s] \in 1..(m.at - 1) => m.union[s] \in LatestPushes(s)
=============================================================================
