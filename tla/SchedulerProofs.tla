--------------------------- MODULE SchedulerProofs ---------------------------
(***************************************************************************)
(* Scheduler's invariants, for every number of schedules, every set of     *)
(* cron firings, every threshold of recovery and every set of channels.    *)
(***************************************************************************)
EXTENDS Scheduler, SequenceTheorems, NaturalsInduction, WellFoundedInduction,
        TLAPS

Deliveries == [dest : Channels \cup {"siem"}, ok : BOOLEAN]
ScheduleRow == [state : {"absent", "enabled", "disabled", "removed"}, last : Nat]
RunCfg == [trust : SUBSET Schedules, otics : BOOLEAN]
RunRow == [s : Schedules, at : Nat \ {0},
           status : {"running", "failed", "completed", "deleted"},
           out : {"none", "findings", "empty", "INTERRUPTED"},
           scan : Nat, cfg : RunCfg, life : {"none", "on", "done", "cut"}, found : BOOLEAN,
           listed : BOOLEAN, given : BOOLEAN, own : BOOLEAN]
Process == [at : {"down", "loop", "sleep", "visit", "scan", "notify", "send", "siem"},
            todo : SUBSET Schedules, now : Nat, since : Nat, run : Nat,
            stop : BOOLEAN, broken : BOOLEAN, left : SUBSET Channels,
            sent : SUBSET Deliveries, audits : SUBSET Deliveries]

(* The tables and the process hold what their columns and fields may hold. *)
SchedTypeOK ==
    /\ clock \in Nat \ {0}
    /\ sched \in [Schedules -> ScheduleRow]
    /\ runs \in Seq(RunRow)
    /\ proc \in Process
    /\ server \in Policies
    /\ scanFile \in ScanConfig
    /\ sessions \in [n : Nat, alarm : BOOLEAN]
    /\ faults \in Nat

(* The scheduler has a run in hand from its dispatch to its export: the
   newest row, which is no longer `running' once the scan has ended.  A
   channel it need not try any more has been tried. *)
ProcInv ==
    /\ proc.now <= clock
    /\ proc.at \in {"down", "loop", "sleep", "visit"} => proc.run = 0
    /\ proc.at \in {"scan", "notify", "send", "siem"} =>
           proc.run = Len(runs) /\ Len(runs) > 0
    /\ proc.at \in {"notify", "send", "siem"} => runs[proc.run].status # "running"
    /\ proc.at = "send" =>
           \A dest \in Channels \ proc.left :
               \E ok \in BOOLEAN : Delivery(dest, ok) \in proc.sent

(* A row was written in the past; its configuration refuses a target that the
   policy in force excluded. *)
Allowed(r) == (~ r.given /\ r.listed) \/ (r.given /\ r.own)
RowInv ==
    \A i \in DOMAIN runs :
        /\ runs[i].at <= clock
        /\ Refused(runs[i].s, runs[i].cfg) \/ Allowed(runs[i])

(* last_run_at is the past and no older than any scan that came to its end. *)
LastInv ==
    /\ \A s \in Schedules : sched[s].last <= clock
    /\ \A i \in DOMAIN runs : runs[i].life = "done" => runs[i].at <= sched[runs[i].s].last

(* A scan process that runs, and that the scheduler was not cut off from, is the
   one in hand; last_run_at is not yet its own. *)
ScanInv ==
    /\ \A i \in DOMAIN runs : runs[i].life = "on" <=> proc.at = "scan" /\ i = proc.run
    /\ proc.at = "scan" => sched[runs[proc.run].s].last <= runs[proc.run].at

SchedInv ==
    /\ SchedTypeOK
    /\ ProcInv
    /\ RowInv
    /\ LastInv
    /\ ScanInv
    /\ NoZombieRun
    /\ EachSlotScannedOnce
    /\ ScansHaveConsent
    /\ AuditIsTruthful

-----------------------------------------------------------------------------
(* Lemmas *)

(* Of a nonempty set of schedules one has the smallest id, so that the loop
   visits a schedule of its snapshot. *)
LEMMA VisitedIsLeft ==
    ASSUME SchedTypeOK, proc.todo # {}
    PROVE  Visited \in proc.todo /\ Visited \in Schedules
  <1> DEFINE T == proc.todo
  <1>1. T \in SUBSET Schedules
    BY DEF SchedTypeOK, Process
  <1>2. T \in SUBSET Nat
    BY <1>1 DEF Schedules
  <1>3. \E x \in T : \A y \in T : ~(<<y, x>> \in OpToRel(<, Nat))
    BY <1>2, NatLessThanWellFounded, WFMin
  <1>4. PICK x \in T : \A y \in T : ~(<<y, x>> \in OpToRel(<, Nat))
    BY <1>3
  <1>5. \A y \in T : ~(y < x)
    BY <1>2, <1>4 DEF OpToRel
  <1>6. \A y \in T : x <= y
    BY <1>2, <1>5
  <1>7. Min(T) \in T
    BY <1>6 DEF Min
  <1>8. QED
    BY <1>1, <1>7 DEF Visited

(* A later upper end or an earlier base loses no firing. *)
LEMMA FiresMonotone ==
    ASSUME SchedulerAssumption, NEW s \in Schedules,
           NEW a \in Nat, NEW b \in Nat, NEW c \in Nat, NEW d \in Nat,
           a <= b, c <= d, FiresIn(s, b, c)
    PROVE  FiresIn(s, a, d)
  <1>1. PICK m \in Cron[s] : b < m /\ m <= c
    BY DEF FiresIn
  <1>2. m \in Nat
    BY DEF SchedulerAssumption
  <1>3. a < m /\ m <= d
    BY <1>1, <1>2
  <1>4. QED
    BY <1>3 DEF FiresIn

(* What is known of the two tables, whatever the process does. *)
TableInv == RowInv /\ LastInv /\ EachSlotScannedOnce /\ ScansHaveConsent

(* What a row keeps, and what it keeps until its scan ends. *)
SameScan(r, q) ==
    /\ r.s = q.s /\ r.at = q.at /\ r.cfg = q.cfg
    /\ r.listed = q.listed /\ r.given = q.given /\ r.own = q.own
SameRow(r, q) == SameScan(r, q) /\ r.life = q.life /\ r.found = q.found

(* A step that ends no scan keeps it. *)
LEMMA TablesKept ==
    ASSUME SchedTypeOK, TableInv,
           runs' \in Seq(RunRow), Len(runs') = Len(runs),
           \A i \in 1 .. Len(runs) : SameRow(runs'[i], runs[i]),
           \A s \in Schedules : sched'[s].last = sched[s].last,
           clock' \in Nat, clock <= clock'
    PROVE  TableInv'
  <1>1. DOMAIN runs = 1 .. Len(runs) /\ DOMAIN runs' = 1 .. Len(runs)
    BY DEF SchedTypeOK
  <1>2. \A i \in 1 .. Len(runs) : runs[i] \in RunRow
    BY DEF SchedTypeOK
  <1>3. \A i \in 1 .. Len(runs) : runs[i].s \in Schedules /\ runs[i].at \in Nat
    BY <1>2 DEF RunRow
  <1>4. \A s \in Schedules : sched[s].last \in Nat
    BY DEF SchedTypeOK, ScheduleRow
  <1>5. \A i \in 1 .. Len(runs) : /\ runs'[i].s = runs[i].s /\ runs'[i].at = runs[i].at
                                  /\ runs'[i].cfg = runs[i].cfg /\ runs'[i].life = runs[i].life
    BY DEF SameRow, SameScan
  <1>6. RowInv'
    <2>1. \A i \in 1 .. Len(runs) : runs'[i].at <= clock'
      <3>1. \A i \in 1 .. Len(runs) : runs[i].at <= clock
        BY <1>1 DEF TableInv, RowInv
      <3>2. clock \in Nat
        BY DEF SchedTypeOK
      <3>3. QED
        BY <1>3, <1>5, <3>1, <3>2
    <2>2. ASSUME NEW i \in 1 .. Len(runs)
          PROVE  Refused(runs'[i].s, runs'[i].cfg) \/ Allowed(runs'[i])
      <3>1. Refused(runs[i].s, runs[i].cfg) \/ Allowed(runs[i])
        BY <1>1 DEF TableInv, RowInv
      <3>2. SameScan(runs'[i], runs[i])
        BY DEF SameRow
      <3>3. PICK r, q : r = runs'[i] /\ q = runs[i]
        OBVIOUS
      <3>4. (Refused(q.s, q.cfg) \/ Allowed(q)) /\ SameScan(r, q)
        BY <3>1, <3>2, <3>3
      <3>5. Refused(r.s, r.cfg) \/ Allowed(r)
        BY <3>4 DEF Refused, Allowed, SameScan
      <3>6. QED
        BY <3>3, <3>5
    <2>3. QED
      BY <1>1, <2>1, <2>2 DEF RowInv, Refused, Allowed
  <1>7. LastInv'
    <2>1. \A s \in Schedules : (sched[s].last <= clock)'
      BY <1>4 DEF TableInv, LastInv, SchedTypeOK
    <2>2. ASSUME NEW i \in 1 .. Len(runs), runs'[i].life = "done"
          PROVE  (runs[i].at <= sched[runs[i].s].last)'
      BY <1>1, <1>3, <1>5, <2>2 DEF TableInv, LastInv
    <2>3. QED
      BY <1>1, <2>1, <2>2 DEF LastInv
  <1>8. EachSlotScannedOnce'
    BY <1>1, <1>5 DEF TableInv, EachSlotScannedOnce, FiresIn, Launched
  <1>9. ScansHaveConsent'
    BY <1>1 DEF TableInv, ScansHaveConsent, SameRow, SameScan
  <1>10. QED
    BY <1>6, <1>7, <1>8, <1>9 DEF TableInv

(* A new row is typed, of now, without result and refuses what is forbidden. *)
LEMMA RowFacts ==
    ASSUME SchedTypeOK, NEW s \in Schedules, NEW st \in {"running", "failed"},
           NEW life \in {"none", "on"}
    PROVE  /\ Row(s, st, life) \in RunRow
           /\ Row(s, st, life).s = s
           /\ Row(s, st, life).at = clock
           /\ Row(s, st, life).status = st
           /\ Row(s, st, life).life = life
           /\ ~ Row(s, st, life).found
           /\ Row(s, st, life).cfg.otics => s \notin Fast
           /\ Refused(s, Row(s, st, life).cfg) \/ Allowed(Row(s, st, life))
  <1> DEFINE c == _materialize_scan_config(s)  r == Row(s, st, life)
  <1>1. PICK g \in BOOLEAN, t \in SUBSET Schedules, o \in BOOLEAN, p \in BOOLEAN :
            g = scanFile.given /\ t = scanFile.trusts /\ o = scanFile.otics
            /\ p = scanFile.optIn
    BY DEF SchedTypeOK, ScanConfig
  <1>2. /\ c = [trust |-> IF g THEN t ELSE {x \in Schedules : Trusts(x)},
                otics |-> o /\ p /\ s \notin Fast]
        /\ {x \in Schedules : Trusts(x)} \in SUBSET Schedules
    BY <1>1 DEF _materialize_scan_config
  <1>3. /\ c \in RunCfg /\ (c.otics => s \notin Fast)
        /\ c.trust = IF g THEN t ELSE {x \in Schedules : Trusts(x)}
    <2>1. PICK b \in BOOLEAN, u \in SUBSET Schedules :
              /\ b = (o /\ p /\ s \notin Fast)
              /\ u = IF g THEN t ELSE {x \in Schedules : Trusts(x)}
      BY <1>2
    <2>2. c = [trust |-> u, otics |-> b]
      BY <1>2, <2>1
    <2>3. b => s \notin Fast
      BY <2>1
    <2> HIDE DEF c
    <2>4. c \in RunCfg /\ c.otics = b /\ c.trust = u
      BY <2>2 DEF RunCfg
    <2>5. QED
      BY <2>1, <2>3, <2>4
  <1> HIDE DEF c
  <1>4. r = [s |-> s, at |-> clock, status |-> st, out |-> "none", scan |-> 0,
             cfg |-> c, life |-> life, found |-> FALSE,
             listed |-> Trusts(s), given |-> g, own |-> s \in t]
    BY <1>1 DEF Row, c
  <1>5. PICK k \in BOOLEAN, w \in BOOLEAN : k = Trusts(s) /\ w = (s \in t)
    <2>1. PICK w \in BOOLEAN : w = (s \in t)
      <3> DEFINE z == s \in t
      <3>1. z \in BOOLEAN
        BY SMT
      <3> HIDE DEF z
      <3>2. PICK w \in BOOLEAN : w = z
        BY <3>1, Zenon
      <3>3. QED
        BY <3>2, Zenon DEF z
    <2>2. Trusts(s) \in BOOLEAN
      BY Zenon DEF Trusts
    <2>3. PICK k \in BOOLEAN : k = Trusts(s)
      BY <2>2, Zenon
    <2>4. QED
      BY <2>1, <2>3, Zenon
  <1>6. r = [s |-> s, at |-> clock, status |-> st, out |-> "none", scan |-> 0,
             cfg |-> c, life |-> life, found |-> FALSE,
             listed |-> k, given |-> g, own |-> w]
    BY <1>4, <1>5
  <1>7. clock \in Nat \ {0}
    BY DEF SchedTypeOK
  <1> HIDE DEF r
  <1>8. /\ r \in RunRow /\ r.s = s /\ r.at = clock /\ r.status = st /\ r.life = life
        /\ r.cfg = c /\ r.found = FALSE /\ r.listed = k /\ r.given = g /\ r.own = w
    BY <1>3, <1>6, <1>7 DEF RunRow
  <1>9. Refused(s, c) \/ Allowed(r)
    BY <1>3, <1>5, <1>8 DEF Refused, Allowed
  <1>10. QED
    BY <1>3, <1>8, <1>9 DEF r

(* So is the table with such a row at its end. *)
LEMMA TablesGrow ==
    ASSUME SchedTypeOK, TableInv,
           NEW s \in Schedules, NEW st \in {"running", "failed"}, NEW life \in {"none", "on"},
           runs' = Append(runs, Row(s, st, life)),
           UNCHANGED <<clock, sched>>,
           life = "on" =>
               \A i \in 1 .. Len(runs) :
                   (runs[i].s = s /\ Launched(i) /\ runs[i].life # "cut") =>
                       FiresIn(s, runs[i].at, clock)
    PROVE  /\ runs' \in Seq(RunRow) /\ Len(runs') = Len(runs) + 1
           /\ \A i \in 1 .. Len(runs) : runs'[i] = runs[i]
           /\ runs'[Len(runs) + 1] = Row(s, st, life)
           /\ TableInv'
  <1> DEFINE r == Row(s, st, life)  n == Len(runs) + 1
  <1>1. /\ r \in RunRow /\ r.s = s /\ r.at = clock /\ r.life = life /\ ~ r.found
        /\ r.cfg.otics => s \notin Fast
        /\ Refused(s, r.cfg) \/ Allowed(r)
    BY RowFacts
  <1> HIDE DEF r
  <1>2. /\ runs' \in Seq(RunRow) /\ Len(runs') = n /\ runs'[n] = r
        /\ \A i \in 1 .. Len(runs) : runs'[i] = runs[i]
    BY <1>1, AppendProperties DEF SchedTypeOK, r
  <1>3. /\ DOMAIN runs = 1 .. Len(runs) /\ DOMAIN runs' = 1 .. n
        /\ \A i \in 1 .. n : i # n => i \in 1 .. Len(runs)
        /\ n \in Nat
    BY <1>2, LenProperties DEF SchedTypeOK
  <1>4. \A i \in 1 .. n : n = i \/ i < n
    BY <1>3
  <1> HIDE DEF n
  <1>5. clock \in Nat
    BY DEF SchedTypeOK
  <1>6. RowInv'
    BY <1>1, <1>2, <1>3, <1>5 DEF TableInv, RowInv, Refused, Allowed
  <1>7. LastInv'
    BY <1>1, <1>2, <1>3 DEF TableInv, LastInv
  <1>8. EachSlotScannedOnce'
    <2> SUFFICES ASSUME NEW i \in 1 .. n, NEW j \in 1 .. n, i < j,
                        runs'[i].s = runs'[j].s, runs'[i].life # "none",
                        runs'[j].life # "none", runs'[i].life # "cut"
                 PROVE  FiresIn(runs'[i].s, runs'[i].at, runs'[j].at)
      BY <1>3 DEF EachSlotScannedOnce, FiresIn, Launched
    <2>1. i \in 1 .. Len(runs) /\ runs'[i] = runs[i]
      BY <1>2, <1>3
    <2>2. CASE j = n
      BY <1>1, <1>2, <2>1, <2>2 DEF Launched
    <2>3. CASE j # n
      BY <1>2, <1>3, <2>1, <2>3 DEF TableInv, EachSlotScannedOnce, Launched
    <2>4. QED
      BY <2>2, <2>3
  <1>9. ScansHaveConsent'
    BY <1>1, <1>2, <1>3 DEF TableInv, ScansHaveConsent
  <1>10. QED
    BY <1>2, <1>6, <1>7, <1>8, <1>9 DEF TableInv, n, r

(* So is the table whose last row, of a scan that was started, has ended. *)
LEMMA TablesEnd ==
    ASSUME SchedTypeOK, TableInv, UNCHANGED clock, NEW n \in 1 .. Len(runs), n = Len(runs),
           NEW r \in RunRow, runs' = [runs EXCEPT ![n] = r],
           SameScan(r, runs[n]), runs[n].life # "none",
           r.found => ~ Refused(r.s, r.cfg),
           LastInv'
    PROVE  /\ runs' \in Seq(RunRow) /\ Len(runs') = Len(runs) /\ runs'[n] = r
           /\ \A i \in 1 .. Len(runs) : i # n => runs'[i] = runs[i]
           /\ TableInv'
  <1>1. runs \in Seq(RunRow) /\ Len(runs) \in Nat /\ DOMAIN runs = 1 .. Len(runs)
    BY LenProperties DEF SchedTypeOK
  <1>2. /\ runs' \in Seq(RunRow) /\ Len(runs') = Len(runs) /\ runs'[n] = r
        /\ \A i \in 1 .. Len(runs) : i # n => runs'[i] = runs[i]
        /\ DOMAIN runs' = 1 .. Len(runs)
    <2>1. runs' \in Seq(RunRow) /\ Len(runs') = Len(runs)
      BY <1>1, ExceptSeq
    <2>2. QED
      BY <1>1, <2>1
  <1>3. r.s = runs[n].s /\ r.at = runs[n].at /\ r.cfg = runs[n].cfg
    BY DEF SameScan
  <1>4. (Refused(r.s, r.cfg) \/ Allowed(r)) /\ (r.cfg.otics => r.s \notin Fast)
    BY <1>1, <1>3 DEF TableInv, RowInv, ScansHaveConsent, Allowed, SameScan
  <1>5. RowInv'
    <2>1. \A i \in 1 .. Len(runs) : runs'[i].at <= clock
      BY <1>1, <1>2, <1>3 DEF TableInv, RowInv
    <2>2. \A i \in 1 .. Len(runs) : Refused(runs'[i].s, runs'[i].cfg) \/ Allowed(runs'[i])
      BY <1>1, <1>2, <1>4 DEF TableInv, RowInv
    <2>3. QED
      BY <1>2, <2>1, <2>2 DEF RowInv, Refused, Allowed
  <1>6. EachSlotScannedOnce'
    <2> SUFFICES ASSUME NEW i \in 1 .. Len(runs), NEW j \in 1 .. Len(runs), i < j,
                        runs'[i].s = runs'[j].s, runs'[i].life # "none",
                        runs'[j].life # "none", runs'[i].life # "cut"
                 PROVE  FiresIn(runs'[i].s, runs'[i].at, runs'[j].at)
      BY <1>2 DEF EachSlotScannedOnce, FiresIn, Launched
    <2>1. i # n
      BY <1>1
    <2>2. runs'[i] = runs[i] /\ runs[j].s = runs'[j].s /\ runs[j].at = runs'[j].at
          /\ runs[j].life # "none"
      BY <1>2, <1>3, <2>1
    <2>3. QED
      BY <1>1, <2>2 DEF TableInv, EachSlotScannedOnce, Launched
  <1>7. ScansHaveConsent'
    <2>1. r.found => Allowed(r)
      BY <1>4
    <2>2. \A i \in 1 .. Len(runs) : /\ runs'[i].cfg.otics => runs'[i].s \notin Fast
                                    /\ runs'[i].found => Allowed(runs'[i])
      BY <1>1, <1>2, <1>4, <2>1 DEF TableInv, ScansHaveConsent, Allowed
    <2>3. QED
      BY <1>2, <2>2 DEF ScansHaveConsent, Allowed
  <1>8. QED
    BY <1>2, <1>5, <1>6, <1>7 DEF TableInv

(* What is known of the process. *)
HandInv == ProcInv /\ ScanInv /\ NoZombieRun /\ AuditIsTruthful

(* The command line, the API and the clock leave the process alone. *)
LEMMA HandKept ==
    ASSUME SchedTypeOK, HandInv,
           runs' \in Seq(RunRow), Len(runs') = Len(runs),
           \A i \in 1 .. Len(runs) :
               /\ runs'[i].s = runs[i].s /\ runs'[i].at = runs[i].at
               /\ runs'[i].life = runs[i].life
               /\ runs'[i].status = runs[i].status \/ runs'[i].status = "deleted",
           \A s \in Schedules : sched'[s].last = sched[s].last,
           clock' \in Nat, clock <= clock', UNCHANGED proc
    PROVE  HandInv'
  <1>1. DOMAIN runs = 1 .. Len(runs) /\ DOMAIN runs' = 1 .. Len(runs) /\ Len(runs) \in Nat
    BY LenProperties DEF SchedTypeOK
  <1>0. \A i \in 1 .. Len(runs) : runs[i] \in RunRow
    BY DEF SchedTypeOK
  <1>2. \A i \in 1 .. Len(runs) : runs[i].s \in Schedules
    BY <1>0 DEF RunRow
  <1>3. proc.now \in Nat /\ clock \in Nat /\ proc.run \in Nat
    BY DEF SchedTypeOK, Process
  <1>4. proc.at \in {"scan", "notify", "send", "siem"} => proc.run \in 1 .. Len(runs)
    BY <1>1 DEF HandInv, ProcInv
  <1>5. ProcInv'
    <2>1. proc'.now <= clock'
      BY <1>3 DEF HandInv, ProcInv
    <2>2. /\ proc'.at \in {"down", "loop", "sleep", "visit"} => proc'.run = 0
          /\ proc'.at \in {"scan", "notify", "send", "siem"} =>
                 proc'.run = Len(runs') /\ Len(runs') > 0
      BY DEF HandInv, ProcInv
    <2>3. proc'.at \in {"notify", "send", "siem"} => runs'[proc'.run].status # "running"
      BY <1>4 DEF HandInv, ProcInv
    <2>4. proc'.at = "send" =>
             \A dest \in Channels \ proc'.left :
                 \E ok \in BOOLEAN : Delivery(dest, ok) \in proc'.sent
      BY DEF HandInv, ProcInv, Delivery
    <2>5. QED
      BY <2>1, <2>2, <2>3, <2>4 DEF ProcInv, Delivery
  <1>6. ScanInv'
    BY <1>1, <1>2, <1>4 DEF HandInv, ScanInv
  <1>7. NoZombieRun'
    BY <1>1 DEF HandInv, NoZombieRun
  <1>8. AuditIsTruthful'
    BY DEF HandInv, AuditIsTruthful, Delivery
  <1>9. QED
    BY <1>5, <1>6, <1>7, <1>8 DEF HandInv

(* Without a run in hand there is little to know of the process. *)
LEMMA HandFree ==
    ASSUME SchedTypeOK,
           proc'.at \in {"down", "loop", "sleep", "visit"}, proc'.run = 0,
           (proc.now <= clock)',
           proc'.audits \subseteq proc'.sent,
           ~ proc'.broken => proc'.audits = proc'.sent,
           proc'.broken => proc'.at = "visit",
           \A i \in DOMAIN runs' : runs'[i].life # "on",
           NoZombieRun'
    PROVE  HandInv'
  BY DEF HandInv, ProcInv, ScanInv, AuditIsTruthful

(* Between the scan and its export the run in hand is a finished row. *)
LEMMA HandKeptAfterScan ==
    ASSUME SchedTypeOK, HandInv,
           runs' \in Seq(RunRow), Len(runs') = Len(runs),
           \A i \in 1 .. Len(runs) :
               /\ runs'[i].at = runs[i].at /\ runs'[i].status = runs[i].status
               /\ runs'[i].life = runs[i].life,
           proc.at \in {"notify", "send", "siem"},
           proc'.at \in {"notify", "send", "siem"},
           proc'.run = proc.run, proc'.since = proc.since, proc'.now = proc.now,
           UNCHANGED clock,
           proc'.at = "send" =>
               \A dest \in Channels \ proc'.left :
                   \E ok \in BOOLEAN : Delivery(dest, ok) \in proc'.sent,
           proc'.audits \subseteq proc'.sent,
           (proc'.at # "send" /\ ~ proc'.broken) => proc'.audits = proc'.sent,
           proc'.broken => proc'.at # "notify"
    PROVE  HandInv'
  <1>1. DOMAIN runs = 1 .. Len(runs) /\ DOMAIN runs' = 1 .. Len(runs) /\ Len(runs) \in Nat
    BY LenProperties DEF SchedTypeOK
  <1>2. proc.run \in 1 .. Len(runs)
    BY <1>1 DEF HandInv, ProcInv
  <1>3. ProcInv'
    BY <1>2 DEF HandInv, ProcInv, Delivery
  <1>4. ScanInv'
    BY <1>1 DEF HandInv, ScanInv
  <1>5. NoZombieRun'
    BY <1>1 DEF HandInv, NoZombieRun
  <1>6. AuditIsTruthful'
    BY DEF AuditIsTruthful, Delivery
  <1>7. QED
    BY <1>3, <1>4, <1>5, <1>6 DEF HandInv

(* With the run in hand settled, or none, giving it up leaves no zombie. *)
LEMMA NoZombieLeft ==
    ASSUME SchedTypeOK, HandInv, UNCHANGED runs,
           proc.at \notin {"down", "scan"}, proc'.since = proc.since
    PROVE  NoZombieRun'
  <1>1. DOMAIN runs = 1 .. Len(runs) /\ Len(runs) \in Nat
    BY LenProperties DEF SchedTypeOK
  <1>2. proc.at \in {"loop", "sleep", "visit", "notify", "send", "siem"}
    BY DEF SchedTypeOK, Process
  <1>3. \A i \in DOMAIN runs : runs[i].status = "running" => i # proc.run
    BY <1>1, <1>2 DEF HandInv, ProcInv
  <1>4. QED
    BY <1>3 DEF HandInv, NoZombieRun

(* The process is down. *)
LEMMA HandDown ==
    ASSUME SchedTypeOK, proc' = Down, clock' \in Nat,
           \A i \in DOMAIN runs' : runs'[i].life # "on"
    PROVE  HandInv' /\ proc' \in Process
  <1>1. /\ proc'.at = "down" /\ proc'.run = 0 /\ proc'.now = 0
        /\ proc'.audits = {} /\ proc'.sent = {} /\ proc'.broken = FALSE
    BY DEF Down
  <1>2. NoZombieRun'
    BY <1>1 DEF NoZombieRun
  <1>3. HandInv'
    BY <1>1, <1>2, HandFree
  <1>4. QED
    BY <1>3 DEF Down, Process

LEMMA SchedInvParts == SchedInv <=> SchedTypeOK /\ TableInv /\ HandInv
  BY DEF SchedInv, TableInv, HandInv

-----------------------------------------------------------------------------
(* The steps *)

LEMMA SchedInitially == SchedInit => SchedInv
  <1> SUFFICES ASSUME SchedInit PROVE SchedInv
    OBVIOUS
  <1> USE SchedulerAssumption DEF SchedInit
  <1>1. runs = <<>> /\ Len(runs) = 0 /\ DOMAIN runs = {} /\ runs \in Seq(RunRow)
    OBVIOUS
  <1>2. proc \in Process /\ proc.at = "down" /\ proc.now = 0 /\ proc.run = 0
        /\ proc.audits = {} /\ proc.sent = {} /\ proc.broken = FALSE
    BY DEF Down, Process
  <1>3. sched \in [Schedules -> ScheduleRow] /\ \A s \in Schedules : sched[s].last = 0
    BY DEF ScheduleRow
  <1>4. SchedTypeOK
    BY <1>1, <1>2, <1>3 DEF SchedTypeOK, Policies, SchedulerAssumption
  <1>5. ProcInv /\ ScanInv /\ NoZombieRun /\ AuditIsTruthful
    BY <1>1, <1>2 DEF ProcInv, ScanInv, NoZombieRun, AuditIsTruthful
  <1>6. RowInv /\ LastInv /\ EachSlotScannedOnce /\ ScansHaveConsent
    BY <1>1, <1>3 DEF RowInv, LastInv, EachSlotScannedOnce, ScansHaveConsent
  <1>7. QED
    BY <1>4, <1>5, <1>6 DEF SchedInv

(* The state column is nobody's concern here. *)
LEMMA StateStep ==
    ASSUME SchedTypeOK, NEW s \in Schedules, NEW st \in {"enabled", "disabled", "removed"},
           sched' = [sched EXCEPT ![s].state = st]
    PROVE  /\ sched' \in [Schedules -> ScheduleRow]
           /\ \A x \in Schedules : sched'[x].last = sched[x].last
  BY DEF SchedTypeOK, ScheduleRow

LEMMA FaultStep ==
    ASSUME SchedTypeOK, Fault \/ UNCHANGED faults
    PROVE  faults' \in Nat
  BY DEF SchedTypeOK, Fault

LEMMA OperatorStep ==
    ASSUME SchedInv,
           \/ \E s \in Schedules :
                \/ create_schedule(s)
                \/ \E state \in {"enabled", "disabled"} : update_schedule(s, state)
                \/ delete_schedule(s)
                \/ _cmd_remove(s)
           \/ EditConfig
           \/ Tick
    PROVE  SchedInv'
  <1>0. SchedTypeOK /\ TableInv /\ HandInv
    BY SchedInvParts
  <1>1. UNCHANGED proc /\ UNCHANGED sessions
    BY DEF create_schedule, update_schedule, delete_schedule, _cmd_remove, RemoveRow,
           EditConfig, Tick
  <1>2. faults' \in Nat
    BY <1>0, FaultStep DEF create_schedule, update_schedule, delete_schedule, _cmd_remove,
           RemoveRow, EditConfig, Tick
  <1>3. clock' \in Nat \ {0} /\ clock <= clock' /\ clock' \in Nat
    BY <1>0 DEF create_schedule, update_schedule, delete_schedule, _cmd_remove, RemoveRow,
           EditConfig, Tick, SchedTypeOK
  <1>4. server' \in Policies /\ scanFile' \in ScanConfig
    BY <1>0, SchedulerAssumption DEF create_schedule, update_schedule, delete_schedule,
           _cmd_remove, RemoveRow, EditConfig, Tick, SchedTypeOK, SchedulerAssumption
  <1>5. /\ sched' \in [Schedules -> ScheduleRow]
        /\ \A x \in Schedules : sched'[x].last = sched[x].last
    <2>1. CASE EditConfig \/ Tick
      BY <2>1, <1>0 DEF EditConfig, Tick, SchedTypeOK
    <2>2. CASE \E s \in Schedules :
                \/ create_schedule(s)
                \/ \E state \in {"enabled", "disabled"} : update_schedule(s, state)
                \/ delete_schedule(s)
                \/ _cmd_remove(s)
      <3>1. PICK s \in Schedules, st \in {"enabled", "disabled", "removed"} :
                sched' = [sched EXCEPT ![s].state = st]
        BY <2>2 DEF create_schedule, update_schedule, delete_schedule, _cmd_remove, RemoveRow
      <3>2. QED
        BY <3>1, <1>0, StateStep
    <2>3. QED
      BY <2>1, <2>2
  <1>6. /\ runs' \in Seq(RunRow) /\ Len(runs') = Len(runs)
        /\ \A i \in 1 .. Len(runs) :
               /\ SameRow(runs'[i], runs[i])
               /\ runs'[i].status = runs[i].status \/ runs'[i].status = "deleted"
    <2>1. CASE UNCHANGED runs
      BY <2>1, <1>0 DEF SchedTypeOK, SameRow, SameScan
    <2>2. CASE \E s \in Schedules : delete_schedule(s)
      <3>1. PICK s \in Schedules : delete_schedule(s)
        BY <2>2
      <3> DEFINE del(r) == IF r.s = s THEN [r EXCEPT !.status = "deleted"] ELSE r
      <3>2. \A r \in RunRow :
               /\ del(r) \in RunRow /\ SameRow(del(r), r)
               /\ del(r).status = r.status \/ del(r).status = "deleted"
        BY DEF RunRow, SameRow, SameScan
      <3>3. runs' = [i \in 1 .. Len(runs) |-> del(runs[i])]
        BY <3>1, <1>0 DEF delete_schedule, SchedTypeOK
      <3> HIDE DEF del
      <3>4. \A i \in 1 .. Len(runs) : runs[i] \in RunRow
        BY <1>0 DEF SchedTypeOK
      <3>5. Len(runs) \in Nat
        BY <1>0, LenProperties DEF SchedTypeOK
      <3>6. runs' \in Seq(RunRow) /\ Len(runs') = Len(runs)
        BY <3>2, <3>3, <3>4, <3>5, IsASeq
      <3>7. QED
        BY <3>2, <3>3, <3>4, <3>6
    <2>3. QED
      BY <2>1, <2>2 DEF create_schedule, update_schedule, _cmd_remove, EditConfig, Tick
  <1>7. TableInv'
    BY <1>0, <1>3, <1>5, <1>6, TablesKept
  <1>8. HandInv'
    BY <1>0, <1>1, <1>3, <1>5, <1>6, HandKept DEF SameRow, SameScan
  <1>9. SchedTypeOK'
    BY <1>0, <1>1, <1>2, <1>3, <1>4, <1>5, <1>6 DEF SchedTypeOK
  <1>10. QED
    BY <1>7, <1>8, <1>9 DEF SchedInv, TableInv, HandInv

(* Of a step that writes neither table only the process need be looked at. *)
LEMMA ProcessOnly ==
    ASSUME SchedInv, UNCHANGED <<clock, sched, runs, server, scanFile>>,
           sessions' \in [n : Nat, alarm : BOOLEAN], faults' \in Nat,
           proc' \in Process, HandInv'
    PROVE  SchedInv'
  <1>0. SchedTypeOK /\ TableInv /\ HandInv
    BY SchedInvParts
  <1>1. clock \in Nat /\ runs \in Seq(RunRow)
    BY <1>0 DEF SchedTypeOK
  <1>2. TableInv'
    BY <1>0, <1>1, TablesKept DEF SameRow, SameScan
  <1>3. SchedTypeOK'
    BY <1>0 DEF SchedTypeOK
  <1>4. QED
    BY <1>2, <1>3 DEF SchedInv, TableInv, HandInv

(* Recovery closes every row that is too old. *)
LEMMA RunSchedulerStep ==
    ASSUME SchedInv, run_scheduler
    PROVE  SchedInv'
  <1>0. SchedTypeOK /\ TableInv /\ HandInv
    BY SchedInvParts
  <1> DEFINE rec(r) == IF IsStale(r) THEN [r EXCEPT !.status = "failed", !.out = "INTERRUPTED"]
                       ELSE r
  <1>1. \A r \in RunRow :
           /\ rec(r) \in RunRow /\ SameRow(rec(r), r)
           /\ rec(r).status = "running" => ~(r.at + Stale < clock)
    <2>1. SUFFICES ASSUME NEW r \in RunRow
                   PROVE  /\ rec(r) \in RunRow /\ SameRow(rec(r), r)
                          /\ rec(r).status = "running" => ~(r.at + Stale < clock)
      OBVIOUS
    <2>2. CASE IsStale(r)
      <3>1. rec(r) = [r EXCEPT !.status = "failed", !.out = "INTERRUPTED"]
        BY <2>2
      <3> HIDE DEF rec
      <3>2. rec(r) \in RunRow /\ rec(r).status = "failed"
        BY <3>1 DEF RunRow
      <3>3. SameRow(rec(r), r)
        BY <3>1 DEF RunRow, SameRow, SameScan
      <3>4. QED
        BY <3>2, <3>3
    <2>3. CASE ~ IsStale(r)
      BY <2>3 DEF IsStale, SameRow, SameScan
    <2>4. QED
      BY <2>2, <2>3
  <1>2. runs' = [i \in 1 .. Len(runs) |-> rec(runs[i])]
    <2>1. runs' = [i \in DOMAIN runs |-> rec(runs[i])]
      BY DEF run_scheduler, _recover_stale_runs
    <2>2. DOMAIN runs = 1 .. Len(runs)
      BY <1>0 DEF SchedTypeOK
    <2>3. QED
      BY <2>1, <2>2
  <1> HIDE DEF rec
  <1>3. \A i \in 1 .. Len(runs) : runs[i] \in RunRow
    BY <1>0 DEF SchedTypeOK
  <1>4. Len(runs) \in Nat
    BY <1>0, LenProperties DEF SchedTypeOK
  <1>5. runs' \in Seq(RunRow) /\ Len(runs') = Len(runs)
    BY <1>1, <1>2, <1>3, <1>4, IsASeq
  <1>6. \A i \in 1 .. Len(runs) :
           /\ SameRow(runs'[i], runs[i])
           /\ runs'[i].status = "running" => ~(runs[i].at + Stale < clock)
    BY <1>1, <1>2, <1>3
  <1>7. /\ proc' \in Process /\ proc'.at = "loop" /\ proc'.run = 0 /\ proc'.now = 0
        /\ proc'.since = clock /\ proc'.audits = {} /\ proc'.sent = {} /\ ~ proc'.broken
    BY <1>0 DEF run_scheduler, Down, Process, SchedTypeOK
  <1>8. UNCHANGED <<clock, sched, server, scanFile, sessions, faults>> /\ clock \in Nat
    BY <1>0 DEF run_scheduler, SchedTypeOK
  <1>9. TableInv'
    BY <1>0, <1>5, <1>6, <1>8, TablesKept
  <1>10. NoZombieRun'
    <2>1. \A i \in 1 .. Len(runs) : runs[i].at \in Nat
      BY <1>3 DEF RunRow
    <2>2. DOMAIN runs' = 1 .. Len(runs) /\ Stale \in Nat
      BY <1>2, SchedulerAssumption DEF SchedulerAssumption
    <2>3. QED
      BY <1>6, <1>7, <1>8, <2>1, <2>2 DEF NoZombieRun, SameRow, SameScan
  <1>11. HandInv'
    <2>1. \A i \in DOMAIN runs' : runs'[i].life # "on"
      BY <1>0, <1>2, <1>6 DEF run_scheduler, HandInv, ScanInv, SchedTypeOK, SameRow
    <2>2. QED
      BY <1>0, <1>7, <1>8, <1>10, <2>1, HandFree
  <1>12. SchedTypeOK'
    BY <1>0, <1>5, <1>7, <1>8 DEF SchedTypeOK
  <1>13. QED
    BY <1>9, <1>11, <1>12 DEF SchedInv, TableInv, HandInv

(* The loop between two dispatches, and a hook with nothing to do. *)
LEMMA LoopStep ==
    ASSUME SchedInv,
           _check_and_dispatch_due \/ EndIteration \/ NothingToExport \/ ExportSkipped
    PROVE  SchedInv'
  <1>0. SchedTypeOK /\ TableInv /\ HandInv
    BY SchedInvParts
  <1>1. UNCHANGED <<clock, sched, runs, server, scanFile, sessions, faults>>
    BY DEF _check_and_dispatch_due, EndIteration, NothingToExport, ExportSkipped
  <1>2. /\ proc.at \in {"loop", "sleep", "visit", "siem"}
        /\ proc \in Process /\ clock \in Nat /\ proc.now <= clock
        /\ proc.audits \subseteq proc.sent
        /\ ~ proc.broken => proc.audits = proc.sent
        /\ proc.broken => proc.at \in {"siem", "visit"}
        /\ proc.at # "siem" => proc.run = 0
        /\ \A i \in DOMAIN runs : runs[i].life # "on"
    <2>1. proc.at \in {"loop", "sleep", "visit", "siem"}
      BY DEF _check_and_dispatch_due, EndIteration, NothingToExport, ExportSkipped
    <2>2. proc \in Process /\ clock \in Nat
      BY <1>0 DEF SchedTypeOK
    <2>3. /\ proc.audits \subseteq proc.sent
          /\ ~ proc.broken => proc.audits = proc.sent
          /\ proc.broken => proc.at \in {"siem", "visit"}
      BY <1>0, <2>1 DEF HandInv, AuditIsTruthful
    <2>4. /\ proc.now <= clock
          /\ proc.at # "siem" => proc.run = 0
          /\ \A i \in DOMAIN runs : runs[i].life # "on"
      BY <1>0, <2>1 DEF HandInv, ProcInv, ScanInv
    <2>5. QED
      BY <2>1, <2>2, <2>3, <2>4
  <1>3. Enabled \subseteq Schedules
    BY DEF Enabled
  <1>4. /\ proc' \in Process /\ proc'.at \in {"sleep", "visit"}
        /\ proc'.run = 0 /\ proc'.since = proc.since
        /\ proc'.now <= clock /\ proc'.audits \subseteq proc'.sent
        /\ ~ proc'.broken => proc'.audits = proc'.sent
        /\ proc'.broken => proc'.at = "visit"
    <2>1. CASE _check_and_dispatch_due
      <3>1. /\ proc' = [proc EXCEPT !.at = "visit", !.now = clock, !.todo = Enabled]
            /\ proc.at \in {"loop", "sleep"}
        BY <2>1 DEF _check_and_dispatch_due
      <3>2. proc.run = 0
        BY <3>1, <1>2
      <3>3. proc' \in Process
        BY <1>2, <1>3, <3>1 DEF Process
      <3>4. /\ proc'.at = "visit" /\ proc'.now = clock /\ proc'.run = proc.run
            /\ proc'.since = proc.since /\ proc'.sent = proc.sent /\ proc'.audits = proc.audits
            /\ proc'.broken = proc.broken
        BY <1>2, <3>1 DEF Process
      <3>5. QED
        BY <1>2, <3>2, <3>3, <3>4
    <2>2. CASE EndIteration
      <3>1. /\ proc' = [Cleared(proc) EXCEPT !.at = "sleep"]
            /\ proc.at = "visit" /\ ~ proc.broken
        BY <2>2 DEF EndIteration
      <3>2. /\ proc' \in Process /\ proc'.at = "sleep" /\ proc'.now = proc.now
            /\ proc'.run = proc.run /\ proc'.since = proc.since /\ proc'.sent = {}
            /\ proc'.audits = {} /\ proc'.broken = proc.broken
        BY <1>2, <3>1 DEF Cleared, Process
      <3>3. QED
        BY <1>2, <3>1, <3>2
    <2>3. CASE NothingToExport \/ ExportSkipped
      <3>1. proc' = Handled
        BY <2>3 DEF NothingToExport, ExportSkipped
      <3>2. /\ proc' \in Process /\ proc'.at = "visit" /\ proc'.now = proc.now
            /\ proc'.run = 0 /\ proc'.since = proc.since /\ proc'.sent = proc.sent
            /\ proc'.audits = proc.audits /\ proc'.broken = proc.broken
        BY <1>2, <3>1 DEF Handled, Process
      <3>3. QED
        BY <1>2, <3>2
    <2>4. QED
      BY <2>1, <2>2, <2>3
  <1>5. NoZombieRun'
    BY <1>0, <1>1, <1>2, <1>4, NoZombieLeft
  <1>6. HandInv'
    <2>1. \A i \in DOMAIN runs' : runs'[i].life # "on"
      BY <1>1, <1>2
    <2>2. QED
      BY <1>0, <1>1, <1>4, <1>5, <2>1, HandFree
  <1>7. sessions' \in [n : Nat, alarm : BOOLEAN] /\ faults' \in Nat
    BY <1>0, <1>1 DEF SchedTypeOK
  <1>8. QED
    BY <1>1, <1>4, <1>6, <1>7, ProcessOnly

(* The run in hand is a row whose scan was started. *)
LEMMA InHand ==
    ASSUME SchedTypeOK, HandInv, proc.at = "scan"
    PROVE  /\ Len(runs) \in Nat /\ proc.run \in 1 .. Len(runs) /\ proc.run = Len(runs)
           /\ DOMAIN runs = 1 .. Len(runs) /\ runs[proc.run] \in RunRow
           /\ runs[proc.run].s \in Schedules /\ runs[proc.run].at \in Nat
           /\ runs[proc.run].life = "on"
           /\ \A i \in 1 .. Len(runs) : i # proc.run => runs[i].life # "on"
  <1>1. Len(runs) \in Nat /\ DOMAIN runs = 1 .. Len(runs) /\ runs \in Seq(RunRow)
    BY LenProperties DEF SchedTypeOK
  <1>2. proc.run = Len(runs) /\ proc.run \in 1 .. Len(runs)
    BY <1>1 DEF HandInv, ProcInv
  <1>3. runs[proc.run] \in RunRow
    BY <1>1, <1>2
  <1>4. runs[proc.run].s \in Schedules /\ runs[proc.run].at \in Nat
    BY <1>3 DEF RunRow
  <1>5. QED
    BY <1>1, <1>2, <1>3, <1>4 DEF HandInv, ScanInv

(* A scheduler that is cut off from its scan goes down. *)
LEMMA CutOffStep ==
    ASSUME SchedInv, proc.at = "scan", NEW session \in BOOLEAN,
           LeavesSession(session), CutOff(session), proc' = Down,
           UNCHANGED <<clock, sched, server, scanFile>>, faults' \in Nat
    PROVE  SchedInv'
  <1>0. SchedTypeOK /\ TableInv /\ HandInv
    BY SchedInvParts
  <1> DEFINE n == proc.run
             r == [runs[n] EXCEPT !.life = "cut", !.found = session]
  <1>1. /\ Len(runs) \in Nat /\ n \in 1 .. Len(runs) /\ n = Len(runs)
        /\ DOMAIN runs = 1 .. Len(runs) /\ runs[n] \in RunRow /\ runs[n].life = "on"
        /\ \A i \in 1 .. Len(runs) : i # n => runs[i].life # "on"
    BY <1>0, InHand
  <1>2. /\ r \in RunRow /\ SameScan(r, runs[n]) /\ r.life = "cut" /\ r.found = session
        /\ r.s = runs[n].s /\ r.cfg = runs[n].cfg /\ r.at = runs[n].at
    BY <1>1 DEF RunRow, SameScan
  <1>3. runs' = [runs EXCEPT ![n] = r]
    BY <1>1 DEF CutOff
  <1>4. /\ session => ~ Refused(runs[n].s, runs[n].cfg)
        /\ sessions' \in [n : Nat, alarm : BOOLEAN]
    BY <1>0 DEF LeavesSession, NewSession, SchedTypeOK
  <1> HIDE DEF r
  <1>5. LastInv'
    <2>1. DOMAIN runs' = 1 .. Len(runs) /\ runs'[n] = r
          /\ \A i \in 1 .. Len(runs) : i # n => runs'[i] = runs[i]
      BY <1>1, <1>3
    <2>2. QED
      BY <1>0, <1>1, <1>2, <2>1 DEF TableInv, LastInv
  <1>6. /\ runs' \in Seq(RunRow) /\ Len(runs') = Len(runs) /\ runs'[n] = r
        /\ \A i \in 1 .. Len(runs) : i # n => runs'[i] = runs[i]
        /\ TableInv'
    <2>1. runs[n].life # "none" /\ (r.found => ~ Refused(r.s, r.cfg)) /\ UNCHANGED clock
      BY <1>1, <1>2, <1>4
    <2> HIDE DEF n
    <2>2. QED
      BY <1>0, <1>1, <1>2, <1>3, <1>5, <2>1, TablesEnd
  <1>7. HandInv' /\ proc' \in Process
    <2>1. \A i \in DOMAIN runs' : runs'[i].life # "on"
      BY <1>1, <1>2, <1>3, <1>6
    <2>2. clock' \in Nat
      BY <1>0 DEF SchedTypeOK
    <2>3. QED
      BY <1>0, <2>1, <2>2, HandDown
  <1>8. SchedTypeOK'
    BY <1>0, <1>4, <1>6, <1>7 DEF SchedTypeOK
  <1>9. QED
    BY <1>6, <1>7, <1>8 DEF SchedInv, TableInv, HandInv

LEMMA EndStep ==
    ASSUME SchedInv, DispatchRaises \/ SessionRaises \/ Stops \/ Killed
    PROVE  SchedInv'
  <1>0. SchedTypeOK /\ TableInv /\ HandInv
    BY SchedInvParts
  <1>1. UNCHANGED <<clock, sched, server, scanFile>> /\ proc' = Down
    BY DEF DispatchRaises, SessionRaises, Stops, Killed
  <1>2. faults' \in Nat
    BY <1>0, FaultStep DEF DispatchRaises, SessionRaises, Stops, Killed
  <1>3. CASE proc.at = "scan"
    <2>1. \E session \in BOOLEAN : LeavesSession(session) /\ CutOff(session)
      BY <1>3 DEF DispatchRaises, SessionRaises, Stops, Killed
    <2>2. QED
      BY <1>1, <1>2, <1>3, <2>1, CutOffStep
  <1>4. CASE proc.at # "scan"
    <2>1. UNCHANGED <<runs, sessions>>
      BY <1>4 DEF DispatchRaises, SessionRaises, Stops, Killed
    <2>2. \A i \in DOMAIN runs' : runs'[i].life # "on"
      BY <1>0, <1>4, <2>1 DEF HandInv, ScanInv
    <2>3. clock' \in Nat /\ sessions' \in [n : Nat, alarm : BOOLEAN]
      BY <1>0, <1>1, <2>1 DEF SchedTypeOK
    <2>4. HandInv' /\ proc' \in Process
      BY <1>0, <1>1, <2>2, <2>3, HandDown
    <2>5. QED
      BY <1>1, <1>2, <2>1, <2>3, <2>4, ProcessOnly
  <1>5. QED
    BY <1>3, <1>4

LEMMA SignalStep ==
    ASSUME SchedInv, _handle_signal
    PROVE  SchedInv'
  <1>0. SchedTypeOK /\ TableInv /\ HandInv
    BY SchedInvParts
  <1>1. /\ UNCHANGED <<clock, sched, runs, server, scanFile, sessions>> /\ faults' \in Nat
        /\ proc' = [proc EXCEPT !.stop = TRUE]
    BY <1>0, FaultStep DEF _handle_signal
  <1>2. /\ proc' \in Process /\ proc'.at = proc.at /\ proc'.run = proc.run
        /\ proc'.now = proc.now /\ proc'.since = proc.since /\ proc'.left = proc.left
        /\ proc'.sent = proc.sent /\ proc'.audits = proc.audits /\ proc'.broken = proc.broken
    BY <1>0, <1>1 DEF SchedTypeOK, Process
  <1>3. ProcInv' /\ NoZombieRun' /\ AuditIsTruthful'
    BY <1>0, <1>1, <1>2 DEF HandInv, ProcInv, NoZombieRun, AuditIsTruthful, Delivery
  <1>4. ScanInv'
    BY <1>0, <1>1, <1>2 DEF HandInv, ScanInv
  <1>5. HandInv'
    BY <1>3, <1>4 DEF HandInv
  <1>6. sessions' \in [n : Nat, alarm : BOOLEAN]
    BY <1>0, <1>1 DEF SchedTypeOK
  <1>7. QED
    BY <1>1, <1>2, <1>5, <1>6, ProcessOnly

(* The hooks. *)
LEMMA HookStep ==
    ASSUME SchedInv,
           \/ NotifyNothing \/ dispatch_notifications \/ ScanIdNotWritten
           \/ CommitAudits \/ AuditsNotWritten
           \/ \E dest \in Channels, ok \in BOOLEAN : Send(dest, ok)
    PROVE  SchedInv'
  <1>0. SchedTypeOK /\ TableInv /\ HandInv
    BY SchedInvParts
  <1>1. UNCHANGED <<clock, sched, server, scanFile, sessions>> /\ clock \in Nat
    BY <1>0 DEF NotifyNothing, dispatch_notifications, ScanIdNotWritten, CommitAudits,
                AuditsNotWritten, Send, SchedTypeOK
  <1>2. faults' \in Nat
    BY <1>0, FaultStep DEF NotifyNothing, dispatch_notifications, ScanIdNotWritten, CommitAudits,
                           AuditsNotWritten, Send
  <1>3. /\ proc.at \in {"notify", "send"} /\ proc \in Process /\ proc.audits \subseteq proc.sent
        /\ proc.at = "notify" => proc.audits = proc.sent /\ ~ proc.broken
        /\ Len(runs) \in Nat /\ proc.run \in 1 .. Len(runs)
    <2>1. proc.at \in {"notify", "send"}
      BY DEF NotifyNothing, dispatch_notifications, ScanIdNotWritten, CommitAudits,
             AuditsNotWritten, Send
    <2>2. Len(runs) \in Nat /\ proc \in Process
      BY <1>0, LenProperties DEF SchedTypeOK
    <2>3. proc.run \in 1 .. Len(runs)
      BY <1>0, <2>1, <2>2 DEF HandInv, ProcInv
    <2>4. /\ proc.audits \subseteq proc.sent
          /\ proc.at = "notify" => proc.audits = proc.sent /\ ~ proc.broken
      BY <1>0 DEF HandInv, AuditIsTruthful
    <2>5. QED
      BY <2>1, <2>2, <2>3, <2>4
  <1>4. /\ runs' \in Seq(RunRow) /\ Len(runs') = Len(runs)
        /\ \A i \in 1 .. Len(runs) :
             SameRow(runs'[i], runs[i]) /\ runs'[i].status = runs[i].status
    <2>1. CASE UNCHANGED runs
      BY <2>1, <1>0 DEF SchedTypeOK, SameRow, SameScan
    <2>2. CASE dispatch_notifications
      <3> DEFINE r == [runs[proc.run] EXCEPT !.scan = IF @ = 0 THEN sessions.n ELSE @]
      <3>1. runs[proc.run] \in RunRow /\ sessions.n \in Nat
        BY <1>0, <1>3 DEF SchedTypeOK
      <3>2. r \in RunRow /\ SameRow(r, runs[proc.run]) /\ r.status = runs[proc.run].status
        BY <3>1 DEF RunRow, SameRow, SameScan
      <3>3. runs' = [runs EXCEPT ![proc.run] = r]
        BY <2>2 DEF dispatch_notifications
      <3> HIDE DEF r
      <3>4. runs' \in Seq(RunRow) /\ Len(runs') = Len(runs)
        BY <1>0, <1>3, <3>2, <3>3, ExceptSeq DEF SchedTypeOK
      <3>5. \A i \in 1 .. Len(runs) : runs'[i] = IF i = proc.run THEN r ELSE runs[i]
        BY <1>0, <1>3, <3>3 DEF SchedTypeOK
      <3>6. QED
        BY <3>2, <3>4, <3>5 DEF SameRow, SameScan
    <2>3. QED
      BY <2>1, <2>2 DEF NotifyNothing, ScanIdNotWritten, CommitAudits, AuditsNotWritten, Send
  <1>5. /\ proc' \in Process /\ proc'.at \in {"send", "siem"}
        /\ proc'.run = proc.run /\ proc'.since = proc.since /\ proc'.now = proc.now
        /\ proc'.audits \subseteq proc'.sent
        /\ (proc'.at # "send" /\ ~ proc'.broken) => proc'.audits = proc'.sent
        /\ proc'.at = "send" =>
               \A dest \in Channels \ proc'.left :
                   \E ok \in BOOLEAN : Delivery(dest, ok) \in proc'.sent
    <2>1. CASE NotifyNothing
      BY <2>1, <1>3 DEF NotifyNothing, Process
    <2>2. CASE dispatch_notifications \/ ScanIdNotWritten
      <3>1. PICK b \in BOOLEAN :
                proc' = [proc EXCEPT !.at = "send", !.left = Channels, !.broken = b]
        <4>1. proc = [proc EXCEPT !.broken = proc.broken] /\ proc.broken \in BOOLEAN
          BY <1>3 DEF Process
        <4>2. CASE dispatch_notifications
          BY <4>1, <4>2, <1>3 DEF dispatch_notifications, Process
        <4>3. CASE ScanIdNotWritten
          BY <4>3 DEF ScanIdNotWritten
        <4>4. QED
          BY <2>2, <4>2, <4>3
      <3>2. /\ proc' \in Process /\ proc'.at = "send" /\ proc'.run = proc.run
            /\ proc'.since = proc.since /\ proc'.now = proc.now /\ proc'.left = Channels
            /\ proc'.audits = proc.audits /\ proc'.sent = proc.sent
        BY <1>3, <3>1 DEF Process
      <3>3. QED
        BY <1>3, <3>2
    <2>3. CASE CommitAudits
      <3>1. proc' = [proc EXCEPT !.at = "siem", !.audits = proc.sent]
        BY <2>3 DEF CommitAudits
      <3>2. /\ proc' \in Process /\ proc'.at = "siem" /\ proc'.run = proc.run
            /\ proc'.since = proc.since /\ proc'.now = proc.now
            /\ proc'.audits = proc.sent /\ proc'.sent = proc.sent
        BY <1>3, <3>1 DEF Process
      <3>3. QED
        BY <3>2
    <2>4. CASE AuditsNotWritten
      <3>1. proc' = [proc EXCEPT !.at = "siem", !.broken = TRUE]
        BY <2>4 DEF AuditsNotWritten
      <3>2. /\ proc' \in Process /\ proc'.at = "siem" /\ proc'.run = proc.run
            /\ proc'.since = proc.since /\ proc'.now = proc.now /\ proc'.broken = TRUE
            /\ proc'.audits = proc.audits /\ proc'.sent = proc.sent
        BY <1>3, <3>1 DEF Process
      <3>3. QED
        BY <1>3, <3>2
    <2>5. CASE \E dest \in Channels, ok \in BOOLEAN : Send(dest, ok)
      <3>1. PICK dest \in Channels, ok \in BOOLEAN : Send(dest, ok)
        BY <2>5
      <3>2. Delivery(dest, ok) \in Deliveries
        BY DEF Delivery, Deliveries
      <3>3. /\ proc' = [proc EXCEPT !.left = proc.left \ {dest},
                                    !.sent = proc.sent \cup {Delivery(dest, ok)}]
            /\ proc.at = "send"
        BY <3>1 DEF Send, AfterSend
      <3>4. /\ proc' \in Process /\ proc'.at = "send"
            /\ proc'.run = proc.run /\ proc'.since = proc.since /\ proc'.now = proc.now
            /\ proc'.audits = proc.audits /\ proc'.left = proc.left \ {dest}
            /\ proc'.sent = proc.sent \cup {Delivery(dest, ok)}
        BY <1>3, <3>2, <3>3 DEF Process
      <3>5. \A d \in Channels \ proc.left :
               \E k \in BOOLEAN : Delivery(d, k) \in proc.sent
        BY <1>0, <3>3 DEF HandInv, ProcInv
      <3>6. \A d \in Channels \ proc'.left :
               \E k \in BOOLEAN : Delivery(d, k) \in proc'.sent
        BY <3>4, <3>5
      <3>7. QED
        BY <1>3, <3>4, <3>6
    <2>6. QED
      BY <2>1, <2>2, <2>3, <2>4, <2>5
  <1>6. TableInv'
    BY <1>0, <1>1, <1>4, TablesKept
  <1>7. HandInv'
    <2>1. \A i \in 1 .. Len(runs) :
             /\ runs'[i].at = runs[i].at /\ runs'[i].status = runs[i].status
             /\ runs'[i].life = runs[i].life
      BY <1>4 DEF SameRow, SameScan
    <2>2. QED
      BY <1>0, <1>1, <1>3, <1>4, <1>5, <2>1, HandKeptAfterScan
  <1>8. SchedTypeOK'
    BY <1>0, <1>1, <1>2, <1>4, <1>5 DEF SchedTypeOK
  <1>9. QED
    BY <1>6, <1>7, <1>8 DEF SchedInv, TableInv, HandInv

(* The SIEM hook audits what it tried unless the session is broken, and is the
   last of them. *)
LEMMA ExportStep ==
    ASSUME SchedInv, NEW lost \in SUBSET Findings,
           export_after_scan_hook(lost) \/ ExportNotAudited(lost)
    PROVE  SchedInv'
  <1>0. SchedTypeOK /\ TableInv /\ HandInv
    BY SchedInvParts
  <1> DEFINE d == Delivery("siem", lost = {})
  <1>1. d \in Deliveries
    BY DEF Delivery, Deliveries
  <1>2. /\ proc.at = "siem" /\ UNCHANGED <<clock, sched, runs, server, scanFile, sessions>>
        /\ \/ /\ ~ proc.broken
              /\ proc' = [Handled EXCEPT !.sent = @ \cup {d}, !.audits = @ \cup {d}]
           \/ proc' = [Handled EXCEPT !.sent = @ \cup {d}, !.broken = TRUE]
    BY DEF export_after_scan_hook, ExportNotAudited, BatchStatus
  <1> HIDE DEF d
  <1>3. /\ proc \in Process /\ proc.now <= clock /\ proc.audits \subseteq proc.sent
        /\ ~ proc.broken => proc.audits = proc.sent
        /\ \A i \in DOMAIN runs : runs[i].life # "on"
    <2>1. proc \in Process /\ proc.now <= clock
      BY <1>0 DEF SchedTypeOK, HandInv, ProcInv
    <2>2. proc.audits \subseteq proc.sent /\ (~ proc.broken => proc.audits = proc.sent)
      BY <1>0, <1>2 DEF HandInv, AuditIsTruthful
    <2>3. \A i \in DOMAIN runs : runs[i].life # "on"
      BY <1>0, <1>2 DEF HandInv, ScanInv
    <2>4. QED
      BY <2>1, <2>2, <2>3
  <1>4. /\ Handled \in Process /\ Handled.at = "visit" /\ Handled.run = 0
        /\ Handled.since = proc.since /\ Handled.now = proc.now
        /\ Handled.sent = proc.sent /\ Handled.audits = proc.audits
        /\ Handled.broken = proc.broken
    BY <1>3 DEF Handled, Process
  <1>5. /\ proc' \in Process /\ proc'.at = "visit" /\ proc'.run = 0
        /\ proc'.since = proc.since /\ proc'.now <= clock
        /\ proc'.audits \subseteq proc'.sent
        /\ ~ proc'.broken => proc'.audits = proc'.sent
    <2> HIDE DEF Handled
    <2>1. CASE /\ ~ proc.broken
               /\ proc' = [Handled EXCEPT !.sent = @ \cup {d}, !.audits = @ \cup {d}]
      <3>1. /\ proc' \in Process /\ proc'.at = "visit" /\ proc'.run = 0
            /\ proc'.since = proc.since /\ proc'.now = proc.now
            /\ proc'.sent = proc.sent \cup {d} /\ proc'.audits = proc.audits \cup {d}
        BY <2>1, <1>1, <1>4 DEF Process
      <3>2. QED
        BY <2>1, <3>1, <1>3
    <2>2. CASE proc' = [Handled EXCEPT !.sent = @ \cup {d}, !.broken = TRUE]
      <3>1. /\ proc' \in Process /\ proc'.at = "visit" /\ proc'.run = 0
            /\ proc'.since = proc.since /\ proc'.now = proc.now /\ proc'.broken = TRUE
            /\ proc'.sent = proc.sent \cup {d} /\ proc'.audits = proc.audits
        BY <2>2, <1>1, <1>4 DEF Process
      <3>2. QED
        BY <3>1, <1>3
    <2>3. QED
      BY <2>1, <2>2, <1>2
  <1>6. NoZombieRun'
    BY <1>0, <1>2, <1>5, NoZombieLeft
  <1>7. HandInv'
    <2>1. \A i \in DOMAIN runs' : runs'[i].life # "on"
      BY <1>2, <1>3
    <2>2. clock' = clock
      BY <1>2
    <2>3. QED
      BY <1>0, <1>5, <1>6, <2>1, <2>2, HandFree
  <1>8. faults' \in Nat
    BY <1>0, FaultStep DEF export_after_scan_hook, ExportNotAudited
  <1>9. sessions' \in [n : Nat, alarm : BOOLEAN]
    BY <1>0, <1>2 DEF SchedTypeOK
  <1>10. QED
    BY <1>2, <1>5, <1>7, <1>8, <1>9, ProcessOnly

LEMMA SkipStep ==
    ASSUME SchedInv, Skip
    PROVE  SchedInv'
  <1>0. SchedTypeOK /\ TableInv /\ HandInv
    BY SchedInvParts
  <1>1. /\ proc.at = "visit" /\ proc.todo # {} /\ proc' = Cleared(Handled) /\ ~ proc.broken
        /\ UNCHANGED <<clock, sched, server, scanFile, sessions, faults>>
    BY DEF Skip
  <1>2. PICK s \in Schedules : s = Visited
    BY <1>0, <1>1, VisitedIsLeft
  <1>3. proc \in Process /\ proc.now <= clock /\ clock \in Nat /\ Len(runs) \in Nat
        /\ runs \in Seq(RunRow)
    BY <1>0, LenProperties DEF SchedTypeOK, HandInv, ProcInv
  <1>4. /\ Handled \in Process /\ Handled.at = "visit" /\ Handled.run = 0
        /\ Handled.since = proc.since /\ Handled.now = proc.now
        /\ Handled.broken = proc.broken
    BY <1>3 DEF Handled, Process
  <1>5. /\ proc' \in Process /\ proc'.at = "visit" /\ proc'.run = 0
        /\ proc'.since = proc.since /\ proc'.now <= clock
        /\ proc'.audits = {} /\ proc'.sent = {} /\ ~ proc'.broken
    BY <1>1, <1>3, <1>4 DEF Cleared, Process
  <1>10. \A i \in DOMAIN runs : runs[i].life # "on"
    BY <1>0, <1>1 DEF HandInv, ScanInv
  <1>6. runs' = runs \/ runs' = Append(runs, Row(s, "failed", "none"))
    BY <1>2 DEF Skip
  <1>7. CASE runs' = runs
    <2>1. NoZombieRun'
      BY <1>0, <1>1, <1>5, <1>7, NoZombieLeft
    <2>2. HandInv'
      BY <1>0, <1>1, <1>5, <1>7, <1>10, <2>1, HandFree
    <2>3. sessions' \in [n : Nat, alarm : BOOLEAN] /\ faults' \in Nat
      BY <1>0, <1>1 DEF SchedTypeOK
    <2>4. QED
      BY <1>1, <1>5, <1>7, <2>2, <2>3, ProcessOnly
  <1>8. CASE runs' = Append(runs, Row(s, "failed", "none"))
    <2>1. /\ runs' \in Seq(RunRow) /\ Len(runs') = Len(runs) + 1
          /\ \A i \in 1 .. Len(runs) : runs'[i] = runs[i]
          /\ runs'[Len(runs) + 1] = Row(s, "failed", "none")
          /\ TableInv'
      BY <1>0, <1>1, <1>8, TablesGrow
    <2>2. Row(s, "failed", "none").status = "failed" /\ Row(s, "failed", "none").life = "none"
      BY <1>0, RowFacts
    <2>3. DOMAIN runs = 1 .. Len(runs) /\ DOMAIN runs' = 1 .. (Len(runs) + 1)
          /\ \A i \in DOMAIN runs' : i \in DOMAIN runs \/ i = Len(runs) + 1
      BY <1>3, <2>1
    <2>4. \A i \in DOMAIN runs : i > 0
      BY <2>3
    <2>5. NoZombieRun'
      BY <1>0, <1>1, <1>5, <2>1, <2>2, <2>3, <2>4 DEF HandInv, NoZombieRun, ProcInv
    <2>6. HandInv'
      <3>1. \A i \in DOMAIN runs' : runs'[i].life # "on"
        BY <1>10, <2>1, <2>2, <2>3
      <3>2. QED
        BY <1>0, <1>1, <1>5, <2>5, <3>1, HandFree
    <2>7. SchedTypeOK'
      BY <1>0, <1>1, <1>5, <2>1 DEF SchedTypeOK
    <2>8. QED
      BY <2>1, <2>6, <2>7 DEF SchedInv, TableInv, HandInv
  <1>9. QED
    BY <1>6, <1>7, <1>8

(* The dispatched run answers to a firing later than last_run_at, hence later
   than every finished run of the schedule. *)
LEMMA DispatchStep ==
    ASSUME SchedInv, _dispatch_schedule
    PROVE  SchedInv'
  <1>0. SchedTypeOK /\ TableInv /\ HandInv
    BY SchedInvParts
  <1>1. /\ proc.at = "visit" /\ proc.todo # {} /\ ~ proc.broken
        /\ proc' = [Cleared(proc) EXCEPT !.at = "scan", !.run = Len(runs) + 1]
        /\ UNCHANGED <<clock, sched, server, scanFile, sessions, faults>>
    BY DEF _dispatch_schedule
  <1>2. PICK s \in Schedules : s = Visited
    BY <1>0, <1>1, VisitedIsLeft
  <1>3. Due(s) /\ runs' = Append(runs, Row(s, "running", "on"))
    BY <1>2 DEF _dispatch_schedule
  <1> DEFINE n == Len(runs) + 1
  <1>4. proc \in Process /\ proc.now \in Nat /\ proc.now <= clock /\ clock \in Nat
        /\ Len(runs) \in Nat /\ n \in Nat /\ n > 0
    BY <1>0, LenProperties DEF SchedTypeOK, HandInv, ProcInv, Process
  <1>5. \A i \in 1 .. Len(runs) : runs[i].life # "on"
    BY <1>0, <1>1 DEF HandInv, ScanInv, SchedTypeOK
  <1>6. ASSUME NEW i \in 1 .. Len(runs), runs[i].s = s, Launched(i), runs[i].life # "cut"
        PROVE  FiresIn(s, runs[i].at, clock)
    <2>1. runs[i] \in RunRow
      BY <1>0 DEF SchedTypeOK
    <2>2. /\ runs[i].at \in Nat /\ runs[i].at > 0 /\ sched[s].last \in Nat
          /\ runs[i].life \in {"none", "on", "done", "cut"}
      BY <1>0, <2>1 DEF RunRow, SchedTypeOK, ScheduleRow
    <2>3. runs[i].life = "done"
      BY <1>5, <1>6, <2>2 DEF Launched
    <2>4. runs[i].at <= sched[s].last
      BY <1>0, <1>6, <2>3 DEF TableInv, LastInv, SchedTypeOK
    <2>5. FiresIn(s, sched[s].last, proc.now)
      BY <1>3, <2>2, <2>4 DEF Due
    <2>6. QED
      BY <1>4, <2>2, <2>4, <2>5, FiresMonotone, SchedulerAssumption
  <1>7. /\ runs' \in Seq(RunRow) /\ Len(runs') = n
        /\ \A i \in 1 .. Len(runs) : runs'[i] = runs[i]
        /\ runs'[n] = Row(s, "running", "on")
        /\ TableInv'
    BY <1>0, <1>1, <1>3, <1>6, TablesGrow
  <1>8. /\ runs'[n].s = s /\ runs'[n].at = clock
        /\ runs'[n].life = "on" /\ runs'[n].status = "running"
    BY <1>0, <1>7, RowFacts
  <1>9. DOMAIN runs = 1 .. Len(runs) /\ DOMAIN runs' = 1 .. n
        /\ \A i \in 1 .. n : i \in 1 .. Len(runs) \/ i = n
    BY <1>0, <1>4, <1>7 DEF SchedTypeOK
  <1>10. /\ proc' \in Process /\ proc'.at = "scan" /\ proc'.run = n
         /\ proc'.since = proc.since /\ proc'.now = proc.now
         /\ proc'.audits = {} /\ proc'.sent = {} /\ proc'.broken = proc.broken
    BY <1>1, <1>4 DEF Cleared, Process
  <1>16. n \notin 1 .. Len(runs)
    BY <1>4
  <1> HIDE DEF n
  <1>11. ScanInv'
    <2>1. sched'[runs'[n].s].last <= runs'[n].at
      BY <1>0, <1>1, <1>8 DEF TableInv, LastInv
    <2>2. \A i \in 1 .. n : runs'[i].life = "on" <=> i = n
      BY <1>5, <1>7, <1>8, <1>9, <1>16
    <2>3. QED
      BY <1>9, <1>10, <2>1, <2>2 DEF ScanInv
  <1>12. ProcInv'
    BY <1>1, <1>4, <1>7, <1>10 DEF ProcInv, n
  <1>13. NoZombieRun'
    BY <1>0, <1>1, <1>7, <1>9, <1>10 DEF HandInv, ProcInv, NoZombieRun
  <1>14. AuditIsTruthful'
    BY <1>1, <1>10 DEF AuditIsTruthful
  <1>15. SchedTypeOK'
    BY <1>0, <1>1, <1>7, <1>10 DEF SchedTypeOK
  <1>17. QED
    BY <1>7, <1>11, <1>12, <1>13, <1>14, <1>15 DEF SchedInv, TableInv

(* The finish of the run and last_run_at are written together. *)
LEMMA FinishStep ==
    ASSUME SchedInv, NEW status \in {"completed", "failed"}, NEW session \in BOOLEAN,
           FinishRun(status, session)
    PROVE  SchedInv'
  <1>0. SchedTypeOK /\ TableInv /\ HandInv
    BY SchedInvParts
  <1> DEFINE n == proc.run  s == runs[n].s
             r == [runs[n] EXCEPT !.status = status,
                                  !.out = IF session THEN "findings" ELSE "empty",
                                  !.life = "done", !.found = session]
  <1>1. /\ proc.at = "scan" /\ UNCHANGED <<clock, server, scanFile, faults>>
        /\ LeavesSession(session)
    BY DEF FinishRun
  <1>2. /\ Len(runs) \in Nat /\ n \in 1 .. Len(runs) /\ n = Len(runs)
        /\ DOMAIN runs = 1 .. Len(runs) /\ runs[n] \in RunRow
        /\ s \in Schedules /\ runs[n].at \in Nat /\ runs[n].life = "on"
        /\ \A i \in 1 .. Len(runs) : i # n => runs[i].life # "on"
    BY <1>0, <1>1, InHand
  <1>3. proc \in Process /\ clock \in Nat /\ faults \in Nat /\ runs \in Seq(RunRow)
    BY <1>0 DEF SchedTypeOK
  <1>4. /\ session => ~ Refused(s, runs[n].cfg)
        /\ sessions' \in [n : Nat, alarm : BOOLEAN]
    BY <1>0, <1>1 DEF LeavesSession, NewSession, SchedTypeOK
  <1>5. CASE sched[s].state = "removed"
    <2>1. proc' = Down /\ CutOff(session) /\ UNCHANGED sched
      BY <1>5 DEF FinishRun
    <2>2. faults' \in Nat
      BY <1>1, <1>3
    <2>3. QED
      BY <1>1, <2>1, <2>2, CutOffStep
  <1>6. CASE sched[s].state # "removed"
    <2>1. /\ runs' = [runs EXCEPT ![n].status = status,
                         ![n].out = IF session THEN "findings" ELSE "empty",
                         ![n].life = "done", ![n].found = session]
          /\ sched' = [sched EXCEPT ![s].last = runs[n].at]
          /\ proc' = [proc EXCEPT !.at = "notify"]
      BY <1>6 DEF FinishRun, LastFinished
    <2>2. /\ r \in RunRow /\ SameScan(r, runs[n]) /\ r.s = s /\ r.at = runs[n].at
          /\ r.cfg = runs[n].cfg /\ r.status # "running" /\ r.life = "done"
          /\ r.found = session
      <3>1. PICK old \in RunRow, out \in {"findings", "empty"} :
              old = runs[n] /\ out = IF session THEN "findings" ELSE "empty"
        BY <1>2
      <3>2. r = [old EXCEPT !.status = status, !.out = out, !.life = "done",
                            !.found = session]
        BY <3>1
      <3>3. /\ r \in RunRow /\ SameScan(r, old) /\ r.s = old.s /\ r.at = old.at
            /\ r.cfg = old.cfg /\ r.status = status /\ r.life = "done" /\ r.found = session
        BY <3>2 DEF RunRow, SameScan
      <3>4. QED
        BY <3>1, <3>3
    <2>3. runs' = [runs EXCEPT ![n] = r]
      BY <1>2, <2>1
    <2> HIDE DEF r
    <2>4. /\ runs'[n] = r /\ DOMAIN runs' = 1 .. Len(runs)
          /\ \A i \in 1 .. Len(runs) : i # n => runs'[i] = runs[i]
      <3> HIDE DEF n
      <3>1. QED
        BY <1>2, <2>3
    <2>5. /\ sched' \in [Schedules -> ScheduleRow] /\ sched'[s].last = runs[n].at
          /\ \A x \in Schedules : x # s => sched'[x].last = sched[x].last
      BY <1>0, <1>2, <2>1 DEF SchedTypeOK, ScheduleRow
    <2>6. /\ proc' \in Process /\ proc'.at = "notify" /\ proc'.run = n
          /\ proc'.since = proc.since /\ proc'.now = proc.now
          /\ proc'.audits = proc.audits /\ proc'.sent = proc.sent
          /\ proc'.broken = proc.broken
      BY <1>3, <2>1 DEF Process
    <2>7. sched[s].last <= runs[n].at /\ runs[n].at <= clock
      BY <1>0, <1>1, <1>2 DEF HandInv, ScanInv, TableInv, RowInv
    <2>8. LastInv'
      <3>1. \A x \in Schedules : sched'[x].last <= clock'
        BY <1>0, <1>1, <2>5, <2>7 DEF TableInv, LastInv
      <3>2. ASSUME NEW i \in 1 .. Len(runs), i # n, runs[i].life = "done"
            PROVE  runs[i].at <= sched'[runs[i].s].last
        <4>1. runs[i].at <= sched[runs[i].s].last
          BY <1>0, <1>2, <3>2 DEF TableInv, LastInv
        <4>2. runs[i] \in RunRow
          BY <1>3
        <4>3. runs[i].s \in Schedules /\ runs[i].at \in Nat
          BY <4>2 DEF RunRow
        <4>4. CASE runs[i].s # s
          BY <4>1, <4>3, <4>4, <2>5
        <4>5. CASE runs[i].s = s
          <5>1. sched[s].last \in Nat
            BY <1>0, <1>2 DEF SchedTypeOK, ScheduleRow
          <5>2. runs[i].at <= sched[s].last
            BY <4>1, <4>5
          <5>3. runs[i].at <= runs[n].at
            <6>1. runs[n].at \in Nat
              BY <1>2
            <6> HIDE DEF n, s
            <6>2. QED
              BY <4>3, <5>1, <5>2, <6>1, <2>7
          <5>4. QED
            BY <4>3, <4>5, <1>2, <2>5, <5>3
        <4>6. QED
          BY <4>4, <4>5
      <3>3. runs'[n].at <= sched'[runs'[n].s].last
        <4>1. runs'[n].s = s /\ runs'[n].at = runs[n].at /\ runs[n].at \in Nat
          BY <1>2, <2>2, <2>4
        <4> HIDE DEF n, s
        <4>2. QED
          BY <4>1, <2>5
      <3>4. QED
        BY <2>4, <3>1, <3>2, <3>3 DEF LastInv
    <2>9. runs' \in Seq(RunRow) /\ Len(runs') = Len(runs) /\ TableInv'
      <3>1. runs[n].life # "none" /\ (r.found => ~ Refused(r.s, r.cfg)) /\ UNCHANGED clock
        BY <1>1, <1>2, <1>4, <2>2
      <3> HIDE DEF n, s
      <3>2. QED
        BY <1>0, <1>2, <2>2, <2>3, <2>8, <3>1, TablesEnd
    <2>10. ProcInv'
      <3>1. /\ proc.now <= clock /\ UNCHANGED clock
            /\ runs'[n].status # "running" /\ Len(runs') = n /\ n > 0
        BY <1>0, <1>1, <1>2, <2>2, <2>4, <2>9 DEF HandInv, ProcInv
      <3> HIDE DEF n
      <3>2. QED
        BY <2>6, <3>1 DEF ProcInv
    <2>11. ScanInv'
      <3>1. runs'[n].life # "on" /\ (\A i \in 1 .. Len(runs) : i # n => runs'[i].life # "on")
        BY <1>2, <2>2, <2>4
      <3> HIDE DEF n
      <3>2. QED
        BY <2>4, <2>6, <3>1 DEF ScanInv
    <2>12. AuditIsTruthful'
      BY <1>0, <1>1, <2>6 DEF HandInv, AuditIsTruthful
    <2>13. NoZombieRun'
      <3>1. \A i \in 1 .. Len(runs) :
               runs[i].status = "running" => i = n \/ runs[i].at + Stale >= proc.since
        BY <1>0, <1>1, <1>2 DEF HandInv, NoZombieRun
      <3> HIDE DEF n
      <3>2. QED
        BY <2>4, <2>6, <3>1 DEF NoZombieRun
    <2>14. SchedTypeOK'
      BY <1>0, <1>1, <1>4, <2>5, <2>6, <2>9 DEF SchedTypeOK
    <2>15. QED
      BY <2>9, <2>10, <2>11, <2>12, <2>13, <2>14 DEF SchedInv, TableInv
  <1>7. QED
    BY <1>5, <1>6

-----------------------------------------------------------------------------
(* Theorems *)

(* SchedInv is an invariant of the scheduler: of its loop, its recovery, its
   hooks and of whatever the CLI, the API and the operator do meanwhile. *)
THEOREM SchedulerInvariant == SchedSpec => []SchedInv
  <1>1. SchedInv /\ [SchedNext]_schedVars => SchedInv'
    <2> SUFFICES ASSUME SchedInv, [SchedNext]_schedVars PROVE SchedInv'
      OBVIOUS
    <2>1. CASE UNCHANGED schedVars
      <3>1. SchedTypeOK /\ HandInv /\ HandInv'
        BY <2>1, SchedInvParts DEF HandInv, ProcInv, ScanInv, NoZombieRun, AuditIsTruthful,
               schedVars, Delivery
      <3>2. sessions' \in [n : Nat, alarm : BOOLEAN] /\ faults' \in Nat /\ proc' \in Process
        BY <2>1, <3>1 DEF SchedTypeOK, schedVars
      <3>3. QED
        BY <2>1, <3>1, <3>2, ProcessOnly DEF schedVars
    <2>2. CASE \/ \E s \in Schedules :
                    \/ create_schedule(s)
                    \/ \E state \in {"enabled", "disabled"} : update_schedule(s, state)
                    \/ delete_schedule(s)
                    \/ _cmd_remove(s)
               \/ EditConfig
               \/ Tick
      BY <2>2, OperatorStep
    <2>3. CASE run_scheduler
      BY <2>3, RunSchedulerStep
    <2>4. CASE _check_and_dispatch_due \/ EndIteration \/ NothingToExport \/ ExportSkipped
      BY <2>4, LoopStep
    <2>5. CASE DispatchRaises \/ SessionRaises \/ Stops \/ Killed
      BY <2>5, EndStep
    <2>6. CASE Skip
      BY <2>6, SkipStep
    <2>7. CASE _dispatch_schedule
      BY <2>7, DispatchStep
    <2>8. CASE \E status \in {"completed", "failed"}, session \in BOOLEAN :
                   FinishRun(status, session)
      BY <2>8, FinishStep
    <2>9. CASE _handle_signal
      BY <2>9, SignalStep
    <2>10. CASE \/ NotifyNothing \/ dispatch_notifications \/ ScanIdNotWritten
                \/ CommitAudits \/ AuditsNotWritten
                \/ \E dest \in Channels, ok \in BOOLEAN : Send(dest, ok)
      BY <2>10, HookStep
    <2>11. CASE \E lost \in SUBSET Findings :
                    export_after_scan_hook(lost) \/ ExportNotAudited(lost)
      BY <2>11, ExportStep
    <2>12. QED
      BY <2>1, <2>2, <2>3, <2>4, <2>5, <2>6, <2>7, <2>8, <2>9, <2>10, <2>11 DEF SchedNext
  <1>2. QED
    BY <1>1, SchedInitially, PTL DEF SchedSpec

(* While the loop runs, a row that is still `running' is its own or was young
   when _recover_stale_runs looked. *)
THEOREM NoRunIsForgotten == SchedSpec => []NoZombieRun
  <1>1. SchedInv => NoZombieRun
    BY DEF SchedInv
  <1>2. QED
    BY <1>1, SchedulerInvariant, PTL

(* Two scan processes are started for one firing of a schedule only if the
   scheduler was cut off from the first one, by a kill or by the deletion of the
   schedule, whatever restarts, edits and failures of the hooks lie between
   (_compute_next_run, _dispatch_schedule). *)
THEOREM SlotsAreScannedOnce == SchedSpec => []EachSlotScannedOnce
  <1>1. SchedInv => EachSlotScannedOnce
    BY DEF SchedInv
  <1>2. QED
    BY <1>1, SchedulerInvariant, PTL

(* No recurring scan probes OT/ICS too often or leaves a session for a target
   that the policy in force at its dispatch excluded: the server's, or that of
   the --scan-config file in its place (_materialize_scan_config). *)
THEOREM RecurringScansHaveConsent == SchedSpec => []ScansHaveConsent
  <1>1. SchedInv => ScansHaveConsent
    BY DEF SchedInv
  <1>2. QED
    BY <1>1, SchedulerInvariant, PTL

(* The audit rows are among the deliveries tried, and all of them but for a
   broken session, over which no scan is started; the fan-out tries every
   channel (dispatch_notifications, export_findings, get_session). *)
THEOREM AuditsAreTruthful == SchedSpec => []AuditIsTruthful
  <1>1. SchedInv => AuditIsTruthful
    BY DEF SchedInv
  <1>2. QED
    BY <1>1, SchedulerInvariant, PTL
=============================================================================
