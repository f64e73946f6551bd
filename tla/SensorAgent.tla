----------------------------- MODULE SensorAgent -----------------------------
(***************************************************************************)
(* One sensor host: `quirk sensor push' and `quirk sensor export-results'  *)
(* (cli/sensor_cmd.py) and the spool directory they leave behind.          *)
(*                                                                         *)
(* A push builds an envelope, re-sends every spooled file oldest first,    *)
(* then sends its own envelope, and spools it when it was not delivered.   *)
(* The envelope lives in memory until then.  Each file is POSTed up to     *)
(* MaxTries times (tenacity); what happened to one POST is its outcome:    *)
(*                                                                         *)
(*   "200", "409"   accepted now, or accepted before                       *)
(*   "4xx"          refused; never retried                                 *)
(*   "5xx", "net"   HTTPStatusError; ConnectError or a timeout: retried    *)
(*   "other"        any other exception, e.g. the connection was cut       *)
(***************************************************************************)
EXTENDS PushTypes, Sequences, SequencesExt

CONSTANTS
    Agent,      \* this host's sensor_id
    Size,       \* [Payloads -> Nat]: bytes of the compressed envelope
    MaxFiles,   \* _SPOOL_MAX_FILES
    MaxBytes,   \* _SPOOL_MAX_BYTES
    MaxTries,   \* stop_after_attempt of _do_push
    None        \* no payload

ASSUME AgentAssumption ==
    /\ Agent \in Sensors
    /\ Size \in [Payloads -> Nat]
    /\ MaxFiles \in Nat \ {0}
    /\ MaxBytes \in Nat
    /\ MaxTries \in Nat \ {0}
    /\ None \notin Payloads

VARIABLES
    built,      \* when an envelope was built, its pushed_at; Never: not yet
    spool,      \* the spool directory by mtime, oldest first
    job,        \* the push command that is running
    exit,       \* exit code of the last push, and its payload
    exported,   \* payloads written to a .qpush file
    delivered,  \* payloads a POST of which was answered 200 or 409
    evicted,    \* payloads dropped from a full spool
    lost        \* payloads whose push died with them in memory

agentVars == <<built, spool, job, exit, exported, delivered, evicted, lost>>

Outcome == {"200", "409", "4xx", "5xx", "net", "other"}
Accepted == {"200", "409"}
Retryable == {"5xx", "net"}         \* _is_retryable

File == [pid : Payloads, intact : BOOLEAN]
Whole(p) == [pid |-> p, intact |-> TRUE]
Torn(p) == [pid |-> p, intact |-> FALSE]

Phase == {"idle", "flush", "push"}
Job == [phase : Phase, cur : Payloads \cup {None}, todo : Seq(File),
        tries : 0..MaxTries, waiting : BOOLEAN]
IdleJob == [phase |-> "idle", cur |-> None, todo |-> <<>>, tries |-> 0,
            waiting |-> FALSE]

-----------------------------------------------------------------------------
(* The spool directory *)

Spooled == {f.pid : f \in ToSet(spool)}

(* The size of the first n files, for every n. *)
Sums(files) ==
    LET sum[n \in 0..Len(files)] ==
            IF n = 0 THEN 0 ELSE sum[n - 1] + Size[files[n].pid]
    IN  sum

Bytes(files) == Sums(files)[Len(files)]

Full_OffByOne(files) == Len(files) > MaxFiles \/ Bytes(files) > MaxBytes

(* _evict_if_full: drop the oldest file while there are MaxFiles or more, or
   more than MaxBytes.  The file about to be written is not counted. *)
Full(files) == Len(files) >= MaxFiles \/ Bytes(files) > MaxBytes

Drop(files, n) == SubSeq(files, n + 1, Len(files))

EvictCount(files) ==
    CHOOSE n \in 0..Len(files) :
        /\ n = Len(files) \/ ~Full(Drop(files, n))
        /\ \A m \in 0..(n - 1) : Full(Drop(files, m))

Evict(files) == Drop(files, EvictCount(files))

(* f.unlink: the file of a payload leaves the directory. *)
Unlink(files, p) == RemoveAt(files, CHOOSE i \in DOMAIN files : files[i].pid = p)

(* _spool_payload: evict, then write the file. *)
SpoolFile(f) ==
    /\ spool' = Append(Evict(spool), f)
    /\ evicted' = evicted \cup
          {spool[i].pid : i \in 1..EvictCount(spool)}

-----------------------------------------------------------------------------
(* quirk sensor push *)

(* The local scan is done: build the envelope and list the spool. *)
StartPush(p) ==
    /\ job.phase = "idle"
    /\ built[p] = Never
    /\ Owner[p] = Agent
    /\ built' = [built EXCEPT ![p] = clock]
    /\ job' = [IdleJob EXCEPT !.phase = "flush", !.cur = p, !.todo = spool]
    /\ exit' = [code |-> -1, pid |-> p]
    /\ UNCHANGED <<spool, exported, delivered, evicted, lost, clock>>

(* The file being sent. *)
Target == IF job.phase = "flush" THEN Head(job.todo) ELSE Whole(job.cur)
CanSend ==
    /\ ~job.waiting
    /\ \/ job.phase = "push"
       \/ job.phase = "flush" /\ job.todo # <<>>

(* One POST: client.post in _do_push. *)
Send ==
    /\ CanSend
    /\ job' = [job EXCEPT !.waiting = TRUE, !.tries = @ + 1]
    /\ UNCHANGED <<built, spool, exit, exported, delivered, evicted, lost, clock>>

FlushDone ==
    /\ job.phase = "flush" /\ job.todo = <<>>
    /\ job' = [job EXCEPT !.phase = "push"]
    /\ UNCHANGED <<built, spool, exit, exported, delivered, evicted, lost, clock>>

(* The tenacity policy on _do_push. *)
MayRetry(o) == o \in Retryable /\ job.tries < MaxTries

Retry(o) ==
    /\ job.waiting
    /\ MayRetry(o)
    /\ job' = [job EXCEPT !.waiting = FALSE]
    /\ UNCHANGED <<built, spool, exit, exported, delivered, evicted, lost, clock>>

SettleFlush_UnlinkAlways(o) ==
    /\ job.waiting /\ job.phase = "flush"
    /\ ~MayRetry(o)
    /\ spool' = Unlink(spool, Target.pid)
    /\ job' = [job EXCEPT !.todo = Tail(@), !.tries = 0, !.waiting = FALSE]
    /\ UNCHANGED <<built, exit, exported, delivered, evicted, lost, clock>>

SettleFlush_SameFileAgain(o) ==
    /\ job.waiting /\ job.phase = "flush"
    /\ ~MayRetry(o) /\ o \notin Accepted
    /\ job' = [job EXCEPT !.tries = 0, !.waiting = FALSE]
    /\ UNCHANGED <<built, spool, exit, exported, delivered, evicted, lost, clock>>

(* _flush_spool: unlink on 200 and 409, leave the file otherwise, and go on
   with the next file in every case. *)
SettleFlush(o) ==
    /\ job.waiting /\ job.phase = "flush"
    /\ ~MayRetry(o)
    /\ \/ /\ o \in Accepted
          /\ spool' = Unlink(spool, Target.pid)
          /\ delivered' = delivered \cup {Target.pid}
       \/ /\ o \notin Accepted
          /\ UNCHANGED <<spool, delivered>>
    /\ job' = [job EXCEPT !.todo = Tail(@), !.tries = 0, !.waiting = FALSE]
    /\ UNCHANGED <<built, exit, exported, evicted, lost, clock>>

ExitCode_OfflineIsFine(o) == CASE o \in Accepted \cup {"net"} -> 0
                              [] o = "4xx" -> 2
                              [] OTHER -> 4

ExitCode(o) == CASE o \in Accepted -> 0
                 [] o = "4xx" -> 2
                 [] o = "net" -> 3
                 [] OTHER -> 4

SettlePush_RejectedIsDropped(o) ==
    /\ job.waiting /\ job.phase = "push"
    /\ ~MayRetry(o)
    /\ \/ /\ o \in Accepted
          /\ delivered' = delivered \cup {job.cur}
          /\ UNCHANGED <<spool, evicted>>
       \/ /\ o = "4xx"
          /\ UNCHANGED <<spool, evicted, delivered>>
       \/ /\ o \notin Accepted \cup {"4xx"}
          /\ SpoolFile(Whole(job.cur))
          /\ UNCHANGED delivered
    /\ exit' = [code |-> ExitCode(o), pid |-> job.cur]
    /\ job' = IdleJob
    /\ UNCHANGED <<built, exported, lost, clock>>

(* The end of _cmd_push: delivered, or spooled and a non-zero exit. *)
SettlePush(o) ==
    /\ job.waiting /\ job.phase = "push"
    /\ ~MayRetry(o)
    /\ \/ /\ o \in Accepted
          /\ delivered' = delivered \cup {job.cur}
          /\ UNCHANGED <<spool, evicted>>
       \/ /\ o \notin Accepted
          /\ SpoolFile(Whole(job.cur))
          /\ UNCHANGED delivered
    /\ exit' = [code |-> ExitCode(o), pid |-> job.cur]
    /\ job' = IdleJob
    /\ UNCHANGED <<built, exported, lost, clock>>

HandleOutcome(o) == Retry(o) \/ SettleFlush(o) \/ SettlePush(o)

(* The push is killed: its own envelope was only in memory. *)
AgentCrash ==
    /\ job.phase # "idle"
    /\ lost' = lost \cup {job.cur}
    /\ job' = IdleJob
    /\ UNCHANGED <<built, spool, exit, exported, delivered, evicted, clock>>

(* It is killed inside _spool_payload, whose write is not atomic: the
   eviction has happened and the new file is truncated. *)
CrashWhileSpooling(o) ==
    /\ job.waiting /\ job.phase = "push"
    /\ ~MayRetry(o) /\ o \notin Accepted
    /\ SpoolFile(Torn(job.cur))
    /\ lost' = lost \cup {job.cur}
    /\ job' = IdleJob
    /\ UNCHANGED <<built, exit, exported, delivered, clock>>

(* quirk sensor export-results: an envelope of its own, to a file. *)
ExportResults(p) ==
    /\ built[p] = Never
    /\ Owner[p] = Agent
    /\ built' = [built EXCEPT ![p] = clock]
    /\ exported' = exported \cup {p}
    /\ UNCHANGED <<spool, job, exit, delivered, evicted, lost, clock>>

-----------------------------------------------------------------------------

AgentInit ==
    /\ built = [p \in Payloads |-> Never]
    /\ spool = <<>>
    /\ job = IdleJob
    /\ exit = [code |-> -1, pid |-> None]
    /\ exported = {} /\ delivered = {} /\ evicted = {} /\ lost = {}
    /\ clock = 1

(* The sensor against every possible console and network. *)
AgentNext ==
    \/ \E p \in Payloads : StartPush(p) \/ ExportResults(p)
    \/ Send \/ FlushDone
    \/ \E o \in Outcome : HandleOutcome(o) \/ CrashWhileSpooling(o)
    \/ AgentCrash
    \/ Tick /\ UNCHANGED agentVars

AgentFairness ==
    /\ WF_agentVars(Send) /\ WF_agentVars(FlushDone)
    /\ WF_agentVars(\E o \in Outcome : HandleOutcome(o))

AgentSpec == AgentInit /\ [][AgentNext]_<<agentVars, clock>>
AgentFairSpec == AgentSpec /\ AgentFairness

-----------------------------------------------------------------------------
(* Properties *)

(* The spool holds files, the command is in one of _cmd_push's phases and
   never past its retry budget. *)
AgentTypeOK ==
    /\ clock \in Time
    /\ built \in [Payloads -> Stamp]
    /\ spool \in Seq(File)
    /\ job \in Job
    /\ exit \in [code : {-1, 0, 2, 3, 4}, pid : Payloads \cup {None}]
    /\ exported \subseteq Payloads /\ delivered \subseteq Payloads
    /\ evicted \subseteq Payloads /\ lost \subseteq Payloads

(* The spool never holds more than MaxFiles files nor two files for one
   payload, and all but its newest file are within MaxBytes, whatever order
   crashes, retries and evictions come in.  (The newest file is written
   without being counted, so the whole spool may exceed the budget by it.) *)
SpoolBounded ==
    /\ Len(spool) <= MaxFiles
    /\ Bytes(SubSeq(spool, 1, Len(spool) - 1)) <= MaxBytes
    /\ \A i, j \in DOMAIN spool : spool[i].pid = spool[j].pid => i = j

(* No silent loss: an envelope that was built is in a running push, in the
   spool, in a .qpush file, delivered, evicted with a warning, or was in the
   memory of a push that was killed. *)
NothingLostSilently ==
    \A p \in Payloads : built[p] # Never =>
        \/ job.phase # "idle" /\ job.cur = p
        \/ p \in Spooled \cup exported \cup delivered \cup evicted \cup lost

(* The exit code a scheduler acts on is true: 0 means delivered, 2, 3 and 4
   mean that the payload is in the spool, intact and as its newest file,
   until the next push starts. *)
ExitIsTruthful ==
    job.phase = "idle" /\ exit.pid \notin lost =>
        /\ exit.code = 0 => exit.pid \in delivered
        /\ exit.code \in {2, 3, 4} => spool # <<>> /\ Last(spool) = Whole(exit.pid)

(* Only an acceptance or a full spool removes a file: one that leaves the
   spool was just answered 200 or 409, or is evicted, and an eviction takes
   every older file too. *)
LeavesOnlyWhenAccepted ==
    [][\A i \in DOMAIN spool :
          \/ spool[i] \in ToSet(spool')
          \/ job.waiting /\ job.phase = "flush" /\ Target.pid = spool[i].pid
                /\ spool[i].pid \in delivered'
          \/ \A j \in 1..i : spool[j].pid \in evicted' /\ spool[j] \notin ToSet(spool')
      ]_agentVars

(* A push that is not killed comes to its end: the flush visits each file
   once and every retry budget is finite. *)
PushTerminates == (job.phase # "idle") ~> (job.phase = "idle")
=============================================================================
