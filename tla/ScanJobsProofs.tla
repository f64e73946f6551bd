--------------------------- MODULE ScanJobsProofs ---------------------------
(***************************************************************************)
(* Proofs about ScanJobs, for any number of jobs and handler threads and   *)
(* whichever commits may fail.                                             *)
(***************************************************************************)
EXTENDS ScanJobs, TLAPS

(* The scan of j has ended, or a sweep has given it up. *)
Settled(j) == scan[j] # "scanning" \/ blame[j] = "sweep"

(* What the writers of a row's status leave behind. *)
RowInv ==
    \A j \in Jobs :
        /\ status[j] \in Terminal => Settled(j)
        /\ recorded[j] # "none" => status[j] \in Terminal
        /\ j \in stale => status[j] # "absent"

(* What a handler knows although the row it read may be stale. *)
CallInv ==
    \A t \in Threads : call[t].op # "idle" =>
        /\ call[t].job \in Jobs
        /\ call[t].op = "inserted" => scan[call[t].job] = "none"
        /\ call[t].op # "inserted" => scan[call[t].job] # "none"
        /\ Inserting(t) => status[call[t].job] = "absent"
        /\ call[t].op = "reaped" => scan[call[t].job] = "dead"
        /\ call[t].op \in {"cancelling", "killed"} =>
              /\ status[call[t].job] # "absent"
              /\ call[t].seen # "absent"
              /\ call[t].seen \in Terminal => Settled(call[t].job)
        /\ call[t].op = "killed" => Settled(call[t].job)

(* create_job's transaction is the only one. *)
OneInsert ==
    \A t, u \in Threads : Inserting(t) /\ Inserting(u) => t = u

JobsInv == JobsTypeOK /\ RowInv /\ CallInv /\ OneInsert /\ PollVerdictIsTrue

(* CancelStopsScan is a case of RowInv. *)
LEMMA InvGivesCancel == JobsInv => CancelStopsScan
  BY DEF JobsInv, RowInv, Settled, CancelStopsScan, Terminal

LEMMA JobsInitially == JobsInit => JobsInv
  BY DEF JobsInit, JobsInv, JobsTypeOK, RowInv, CallInv, OneInsert, Inserting, PollVerdictIsTrue,
         Status, Terminal, Call, Idle

(* A thread that moves to op leaves every other thread as it was. *)
LEMMA CallStep ==
    ASSUME JobsTypeOK, NEW t \in Threads, NEW c \in Call, call' = [call EXCEPT ![t] = c]
    PROVE  /\ call' \in [Threads -> Call]
           /\ call'[t] = c
           /\ \A u \in Threads : u # t => call'[u] = call[u]
  BY DEF JobsTypeOK

LEMMA IdleIsCall == Idle \in Call /\ Idle.op = "idle"
  BY DEF Idle, Call, Status

LEMMA JobsInductive == JobsInv /\ [JobsNext]_jobsVars => JobsInv'
  <1> SUFFICES ASSUME JobsInv, [JobsNext]_jobsVars PROVE JobsInv'
    OBVIOUS
  <1> USE DEF JobsInv
  <1>1. ASSUME NEW t \in Threads, NEW j \in Jobs, InsertJob(t, j) PROVE JobsInv'
    <2>1. [op |-> "inserted", job |-> j, seen |-> "absent"] \in Call
      BY DEF Call, Status
    <2>2. /\ call' \in [Threads -> Call]
          /\ call'[t] = [op |-> "inserted", job |-> j, seen |-> "absent"]
          /\ \A u \in Threads : u # t => call'[u] = call[u]
      BY <1>1, <2>1, CallStep DEF InsertJob, Go
    <2>3. UNCHANGED <<rowVars, scan, recorded, serverVars>> /\ status[j] = "absent" /\ scan[j] = "none"
      BY <1>1 DEF InsertJob, JobsTypeOK
    <2>4. JobsTypeOK' /\ RowInv' /\ PollVerdictIsTrue'
      BY <2>2, <2>3 DEF JobsTypeOK, RowInv, PollVerdictIsTrue, Settled, rowVars, serverVars
    <2>5. CallInv'
      BY <2>2, <2>3 DEF CallInv, Inserting, Settled, rowVars
    <2>6. OneInsert'
      BY <1>1, <2>2 DEF InsertJob, Unlocked, OneInsert, Inserting
    <2>7. QED
      BY <2>4, <2>5, <2>6
  <1>2. ASSUME NEW t \in Threads, SpawnScan(t) PROVE JobsInv'
    <2>1. PICK j \in Jobs : j = call[t].job /\ status[j] = "absent" /\ scan[j] = "none"
      BY <1>2 DEF SpawnScan, Doing, CallInv, Inserting
    <2>2. [op |-> "spawned", job |-> j, seen |-> "absent"] \in Call
      BY DEF Call, Status
    <2>3. /\ call' \in [Threads -> Call]
          /\ call'[t] = [op |-> "spawned", job |-> j, seen |-> "absent"]
          /\ \A u \in Threads : u # t => call'[u] = call[u]
      BY <1>2, <2>1, <2>2, CallStep DEF SpawnScan, Go
    <2>4. /\ scan' \in [Jobs -> {"none", "scanning", "returning", "dead"}]
          /\ scan'[j] = "scanning"
          /\ \A i \in Jobs : i # j => scan'[i] = scan[i]
          /\ UNCHANGED <<status, blame, recorded, api, stale>> /\ handles' \subseteq Jobs
      BY <1>2, <2>1 DEF SpawnScan, JobsTypeOK, rowVars
    <2>5. \A u \in Threads : u # t => ~Inserting(u)
      BY <1>2 DEF SpawnScan, Doing, OneInsert, Inserting
    <2>6. JobsTypeOK'
      BY <2>3, <2>4 DEF JobsTypeOK
    <2>7. RowInv' /\ PollVerdictIsTrue'
      BY <2>1, <2>4 DEF RowInv, PollVerdictIsTrue, Settled, Terminal
    <2>8. CallInv' /\ OneInsert'
      BY <2>1, <2>3, <2>4, <2>5 DEF CallInv, OneInsert, Inserting, Settled
    <2>9. QED
      BY <2>6, <2>7, <2>8
  <1>3. ASSUME NEW t \in Threads, CommitCreate(t) PROVE JobsInv'
    <2>1. /\ call' \in [Threads -> Call] /\ call'[t].op = "idle"
          /\ \A u \in Threads : u # t => call'[u] = call[u]
      BY <1>3, CallStep, IdleIsCall DEF CommitCreate, Return
    <2>2. PICK j \in Jobs : j = call[t].job /\ status[j] = "absent" /\ scan[j] # "none"
      BY <1>3 DEF CommitCreate, Doing, CallInv, Inserting
    <2>3. recorded[j] = "none"
      BY <2>2 DEF RowInv, Terminal
    <2>4. /\ status' \in [Jobs -> Status] /\ status'[j] = "running"
          /\ \A i \in Jobs : i # j => status'[i] = status[i]
      BY <1>3, <2>2 DEF CommitCreate, JobsTypeOK, Status
    <2>5. JobsTypeOK'
      BY <1>3, <2>1, <2>2, <2>4 DEF CommitCreate, JobsTypeOK, serverVars
    <2>6. RowInv' /\ PollVerdictIsTrue'
      BY <1>3, <2>3, <2>4 DEF CommitCreate, RowInv, PollVerdictIsTrue, Settled, Terminal, serverVars
    <2>7. \A u \in Threads : u # t => ~Inserting(u)
      BY <1>3 DEF CommitCreate, Doing, OneInsert, Inserting
    <2>8. CallInv' /\ OneInsert'
      BY <1>3, <2>1, <2>4, <2>7 DEF CommitCreate, CallInv, OneInsert, Inserting, Settled
    <2>9. QED
      BY <2>5, <2>6, <2>8
  <1>4. ASSUME NEW t \in Threads, NEW j \in Jobs, PollRead(t, j) \/ CancelRead(t, j)
        PROVE  JobsInv'
    <2>1. PICK op \in {"polling", "cancelling"} : Go(t, op, j, status[j])
      BY <1>4 DEF PollRead, CancelRead
    <2>2. [op |-> op, job |-> j, seen |-> status[j]] \in Call
      BY DEF Call, JobsTypeOK
    <2>3. /\ call' \in [Threads -> Call]
          /\ call'[t] = [op |-> op, job |-> j, seen |-> status[j]]
          /\ \A u \in Threads : u # t => call'[u] = call[u]
      BY <2>1, <2>2, CallStep DEF Go
    <2>4. UNCHANGED <<rowVars, scan, recorded, serverVars>> /\ status[j] # "absent"
      BY <1>4 DEF PollRead, CancelRead
    <2>5. JobsTypeOK' /\ RowInv' /\ PollVerdictIsTrue'
      BY <2>3, <2>4 DEF JobsTypeOK, RowInv, PollVerdictIsTrue, Settled, rowVars, serverVars
    <2>6. CallInv' /\ OneInsert'
      BY <2>3, <2>4 DEF JobsTypeOK, RowInv, CallInv, OneInsert, Inserting, Settled, rowVars, serverVars
    <2>7. QED
      BY <2>5, <2>6
  <1>5. ASSUME NEW t \in Threads, PollReap(t) PROVE JobsInv'
    <2>1. PICK j \in Jobs : j = call[t].job
      BY <1>5 DEF PollReap, Doing, CallInv, Inserting
    <2>2. PICK c \in Call : /\ call' = [call EXCEPT ![t] = c]
                            /\ \/ c.op = "idle"
                               \/ c.op = "reaped" /\ c.job = j /\ scan[j] = "dead"
      BY <1>5, <2>1, IdleIsCall DEF PollReap, Go, Return, Call, Status
    <2>3. /\ call' \in [Threads -> Call] /\ call'[t] = c
          /\ \A u \in Threads : u # t => call'[u] = call[u]
      BY <2>2, CallStep
    <2>4. UNCHANGED <<status, blame, scan, recorded, api, stale>> /\ handles' \subseteq Jobs
      BY <1>5 DEF PollReap, JobsTypeOK, rowVars
    <2>5. JobsTypeOK' /\ RowInv' /\ PollVerdictIsTrue'
      BY <2>3, <2>4 DEF JobsTypeOK, RowInv, PollVerdictIsTrue, Settled
    <2>6. CallInv' /\ OneInsert'
      BY <2>2, <2>3, <2>4 DEF CallInv, OneInsert, Inserting, Settled
    <2>7. QED
      BY <2>5, <2>6
  <1>6. ASSUME NEW t \in Threads, PollUpdate(t) PROVE JobsInv'
    <2>1. PICK j \in Jobs : j = call[t].job /\ scan[j] = "dead"
      BY <1>6 DEF PollUpdate, Doing, CallInv, Inserting
    <2>2. /\ call' \in [Threads -> Call] /\ call'[t].op = "idle"
          /\ \A u \in Threads : u # t => call'[u] = call[u]
      BY <1>6, CallStep, IdleIsCall DEF PollUpdate, Return
    <2>3. UNCHANGED <<scan, recorded, handles, api, stale>>
      BY <1>6 DEF PollUpdate, serverVars
    <2>4. CASE status[j] # "running"
      <3>1. UNCHANGED <<status, blame>>
        BY <1>6, <2>1, <2>4 DEF PollUpdate, rowVars
      <3>2. QED
        BY <2>2, <2>3, <3>1
        DEF JobsTypeOK, RowInv, CallInv, OneInsert, Inserting, PollVerdictIsTrue, Settled
    <2>5. CASE status[j] = "running"
      <3>1. /\ status' = [status EXCEPT ![j] = "failed"]
            /\ blame' = [blame EXCEPT ![j] = "poll"]
        BY <1>6, <2>1, <2>5 DEF PollUpdate
      <3>2. /\ recorded[j] = "none"
            /\ status'[j] = "failed"
            /\ \A i \in Jobs : i # j => status'[i] = status[i] /\ blame'[i] = blame[i]
        BY <2>5, <3>1 DEF RowInv, Terminal, JobsTypeOK
      <3>3. JobsTypeOK'
        BY <2>2, <2>3, <2>5, <3>1 DEF JobsTypeOK, Status, Terminal
      <3>4. RowInv' /\ PollVerdictIsTrue'
        BY <2>1, <2>3, <3>2 DEF RowInv, PollVerdictIsTrue, Settled, Terminal
      <3>5. CallInv' /\ OneInsert'
        BY <2>1, <2>2, <2>3, <2>5, <3>2 DEF CallInv, OneInsert, Inserting, Settled
      <3>6. QED
        BY <3>3, <3>4, <3>5
    <2>6. QED
      BY <2>4, <2>5
  <1>7. ASSUME NEW t \in Threads, CancelKill(t) PROVE JobsInv'
    <2>1. PICK j \in Jobs : /\ j = call[t].job /\ scan[j] # "none" /\ status[j] # "absent"
                            /\ call[t].seen # "absent"
                            /\ call[t].seen \in Terminal => Settled(j)
      BY <1>7 DEF CancelKill, Doing, CallInv, Inserting
    <2>2. [op |-> "killed", job |-> j, seen |-> call[t].seen] \in Call
      BY DEF Call, JobsTypeOK
    <2>3. /\ call' \in [Threads -> Call]
          /\ call'[t] = [op |-> "killed", job |-> j, seen |-> call[t].seen]
          /\ \A u \in Threads : u # t => call'[u] = call[u]
      BY <1>7, <2>1, <2>2, CallStep DEF CancelKill, Go
    <2>4. /\ scan' \in [Jobs -> {"none", "scanning", "returning", "dead"}]
          /\ \A i \in Jobs : scan'[i] = scan[i] \/ scan'[i] = "dead"
          /\ call[t].seen = "running" => scan'[j] = "dead"
          /\ \A i \in Jobs : scan[i] = "none" => scan'[i] = "none"
      BY <1>7, <2>1 DEF CancelKill, JobsTypeOK
    <2>5. UNCHANGED <<status, blame, recorded, handles, api, stale>>
      BY <1>7 DEF CancelKill, rowVars, serverVars
    <2>6. call[t].seen = "running" \/ call[t].seen \in Terminal
      BY <2>1 DEF JobsTypeOK, Call, Status
    <2>7. JobsTypeOK' /\ RowInv' /\ PollVerdictIsTrue'
      BY <2>3, <2>4, <2>5 DEF JobsTypeOK, RowInv, PollVerdictIsTrue, Settled
    <2>8. CallInv' /\ OneInsert'
      BY <2>1, <2>3, <2>4, <2>5, <2>6 DEF CallInv, OneInsert, Inserting, Settled
    <2>9. QED
      BY <2>7, <2>8
  <1>8. ASSUME NEW t \in Threads, CancelWrite(t) PROVE JobsInv'
    <2>1. PICK j \in Jobs : j = call[t].job /\ Settled(j) /\ status[j] # "absent"
      BY <1>8 DEF CancelWrite, Doing, CallInv, Inserting
    <2>2. /\ call' \in [Threads -> Call] /\ call'[t].op = "idle"
          /\ \A u \in Threads : u # t => call'[u] = call[u]
      BY <1>8, CallStep, IdleIsCall DEF CancelWrite, Return
    <2>3. UNCHANGED <<blame, scan, recorded, handles, api, stale>>
      BY <1>8 DEF CancelWrite, serverVars
    <2>4. /\ status' \in [Jobs -> Status]
          /\ status'[j] = status[j] \/ status'[j] = "cancelled"
          /\ \A i \in Jobs : i # j => status'[i] = status[i]
      BY <1>8, <2>1 DEF CancelWrite, JobsTypeOK, Status, Terminal
    <2>5. JobsTypeOK' /\ RowInv' /\ PollVerdictIsTrue'
      BY <2>1, <2>2, <2>3, <2>4 DEF JobsTypeOK, RowInv, PollVerdictIsTrue, Settled, Terminal
    <2>6. CallInv' /\ OneInsert'
      BY <2>1, <2>2, <2>3, <2>4 DEF CallInv, OneInsert, Inserting, Settled
    <2>7. QED
      BY <2>5, <2>6
  <1>9. ASSUME NEW t \in Threads, HandlerFails(t) PROVE JobsInv'
    <2>1. /\ call' \in [Threads -> Call] /\ call'[t].op = "idle"
          /\ \A u \in Threads : u # t => call'[u] = call[u]
      BY <1>9, CallStep, IdleIsCall DEF HandlerFails, Return
    <2>2. QED
      BY <1>9, <2>1
      DEF HandlerFails, rowVars, serverVars, JobsTypeOK, RowInv, CallInv, OneInsert, Inserting,
          PollVerdictIsTrue, Settled
  <1>10. ASSUME NEW j \in Jobs, NEW st \in {"completed", "failed"}, Record(j, st)
        PROVE  JobsInv'
    <2>1. /\ scan[j] = "scanning" /\ scan'[j] = "returning"
          /\ \A i \in Jobs : i # j => scan'[i] = scan[i]
          /\ scan' \in [Jobs -> {"none", "scanning", "returning", "dead"}]
          /\ UNCHANGED <<handles, api, stale, call>>
      BY <1>10 DEF Record, JobsTypeOK, serverVars
    <2>2. /\ \A i \in Jobs : i # j => /\ status'[i] = status[i] /\ blame'[i] = blame[i]
                                      /\ recorded'[i] = recorded[i]
          /\ status' \in [Jobs -> Status]
          /\ blame' \in [Jobs -> {"none", "poll", "sweep", "scan"}]
          /\ recorded' \in [Jobs -> {"none", "completed", "failed"}]
          /\ \/ UNCHANGED <<status, blame, recorded>>
             \/ /\ status[j] # "absent" /\ status'[j] = st
                /\ st = "failed" => blame'[j] = "scan"
      <3>1. CASE UNCHANGED <<rowVars, recorded>>
        BY <3>1 DEF JobsTypeOK, rowVars
      <3>2. CASE /\ status[j] # "absent"
                 /\ status' = [status EXCEPT ![j] = st]
                 /\ blame' = [blame EXCEPT ![j] = IF st = "failed" THEN "scan" ELSE @]
                 /\ recorded' = [recorded EXCEPT ![j] = st]
        BY <3>2 DEF JobsTypeOK, Status, Terminal
      <3>3. QED
        BY <1>10, <3>1, <3>2 DEF Record
    <2>3. JobsTypeOK'
      BY <2>1, <2>2 DEF JobsTypeOK
    <2>4. RowInv' /\ PollVerdictIsTrue'
      BY <2>1, <2>2 DEF RowInv, PollVerdictIsTrue, Settled, Terminal
    <2>5. CallInv' /\ OneInsert'
      BY <2>1, <2>2 DEF CallInv, OneInsert, Inserting, Settled
    <2>6. QED
      BY <2>3, <2>4, <2>5
  <1>11. ASSUME NEW j \in Jobs, ScanEnds(j) PROVE JobsInv'
    <2>1. /\ scan[j] # "none" /\ scan'[j] = "dead"
          /\ \A i \in Jobs : i # j => scan'[i] = scan[i]
          /\ scan' \in [Jobs -> {"none", "scanning", "returning", "dead"}]
          /\ UNCHANGED <<status, blame, recorded, handles, api, stale, call>>
      BY <1>11 DEF ScanEnds, JobsTypeOK, rowVars, serverVars
    <2>2. QED
      BY <2>1
      DEF JobsTypeOK, RowInv, CallInv, OneInsert, Inserting, PollVerdictIsTrue, Settled
  <1>12. CASE ApiStops
    <2>1. /\ call' \in [Threads -> Call] /\ \A t \in Threads : call'[t].op = "idle"
      BY <1>12, IdleIsCall DEF ApiStops
    <2>2. QED
      BY <1>12, <2>1
      DEF ApiStops, rowVars, JobsTypeOK, RowInv, CallInv, OneInsert, Inserting, PollVerdictIsTrue, Settled
  <1>13. CASE ApiStarts \/ SweepFails
    BY <1>13
    DEF ApiStarts, SweepFails, rowVars, JobsTypeOK, RowInv, CallInv, OneInsert, Inserting,
        PollVerdictIsTrue, Settled
  <1>14. CASE SweepCommit
    <2>1. /\ UNCHANGED <<scan, recorded, handles, call>> /\ api' = "up" /\ stale' = {}
          /\ \A j \in Jobs : j \in stale =>
                status[j] # "absent" /\ status'[j] = "failed" /\ blame'[j] = "sweep"
          /\ \A j \in Jobs : j \notin stale => status'[j] = status[j] /\ blame'[j] = blame[j]
          /\ status' \in [Jobs -> Status]
          /\ blame' \in [Jobs -> {"none", "poll", "sweep", "scan"}]
      BY <1>14 DEF SweepCommit, JobsTypeOK, RowInv, Status, Terminal
    <2>2. JobsTypeOK'
      BY <2>1 DEF JobsTypeOK
    <2>3. RowInv' /\ PollVerdictIsTrue'
      BY <2>1 DEF RowInv, PollVerdictIsTrue, Settled, Terminal
    <2>4. CallInv' /\ OneInsert'
      BY <2>1 DEF CallInv, OneInsert, Inserting, Settled
    <2>5. QED
      BY <2>2, <2>3, <2>4
  <1>15. CASE UNCHANGED jobsVars
    BY <1>15
    DEF jobsVars, JobsTypeOK, RowInv, CallInv, OneInsert, Inserting, PollVerdictIsTrue, Settled
  <1>16. QED
    BY <1>1, <1>2, <1>3, <1>4, <1>5, <1>6, <1>7, <1>8, <1>9, <1>10, <1>11, <1>12, <1>13,
       <1>14, <1>15
    DEF JobsNext, Handle, ScanStep

-----------------------------------------------------------------------------
(* Theorems *)

(* JobsInv, the inductive strengthening: what each of the four writers of a
   status may rely on although it read the row some steps ago. *)
THEOREM JobsInvariant == JobsSpec => []JobsInv
  BY JobsInitially, JobsInductive, PTL DEF JobsSpec

(* Rows, processes and threads stay within their types. *)
THEOREM JobsTypeCorrect == JobsSpec => []JobsTypeOK
  <1>1. JobsInv => JobsTypeOK
    BY DEF JobsInv
  <1>2. QED
    BY <1>1, JobsInvariant, PTL

(* The guarded UPDATE of _reconcile_if_dead never contradicts the scan. *)
THEOREM PollVerdictsAreTrue == JobsSpec => []PollVerdictIsTrue
  <1>1. JobsInv => PollVerdictIsTrue
    BY DEF JobsInv
  <1>2. QED
    BY <1>1, JobsInvariant, PTL

(* A cancelled job scans no more unless a sweep gave its process up. *)
THEOREM CancelsStopScans == JobsSpec => []CancelStopsScan
  BY InvGivesCancel, JobsInvariant, PTL
=============================================================================
