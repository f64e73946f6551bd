--------------------------- MODULE HardwareHistory ---------------------------
(***************************************************************************)
(* The history of the hardware and its drift events.  Three writers append *)
(* batches of device rows to one database: a full scan, a check-in, and a  *)
(* push from a sensor that the console takes in.  After its commit each    *)
(* of them compares the newest rows of every device of its batch, records  *)
(* confirmed changes, does the same for the fleet of each vendor, and      *)
(* sends alerts.                                                           *)
(*                                                                         *)
(* Each commit is a step, and so is each query that precedes one: between  *)
(* them the other process may run.  A scan and a check-in do not overlap   *)
(* here (process "cli"); a push (process "console") overlaps with both.    *)
(***************************************************************************)
EXTENDS Integers, DeviceProbes, SequencesExt, FiniteSetsExt

CONSTANTS
    Devices,         \* host and port of every device
    Route,           \* how a scan meets a device: "ssh", "ot" or "snmp"
    Behave,          \* Behave[d]: the ways in which it may answer
    First,           \* First[d]: its answer to the scan before the behaviour starts
    Afar,            \* the devices that the sensor scans
    EnableOt,        \* enable_modbus and enable_bacnet
    Retention,       \* hardware_history_retention_days of the scan
    DefaultRetention,\* the one of a push
    EventRetention,  \* hardware_drift_event_retention_days
    Channels,        \* configured for hardware lifecycle alerts
    MaxJobs,         \* bound on the batches probed
    Days,            \* the days on which something may happen, the first is 1
    MaxFaults        \* bound on failed writes and killed processes

ASSUME HardwareAssumption ==
    /\ IsFiniteSet(Devices) /\ "none" \notin Devices /\ Afar \subseteq Devices
    /\ Route \in [Devices -> {"ssh", "ot", "snmp"}]
    /\ Behave \in [Devices -> SUBSET Answer] /\ First \in [Devices -> Answer]
    /\ EnableOt \in BOOLEAN
    /\ EolDay \in Nat /\ Retention \in Nat /\ DefaultRetention \in Nat /\ EventRetention \in Nat
    /\ Days \subseteq Nat /\ MaxJobs \in Nat /\ MaxFaults \in Nat

VARIABLES
    rows,       \* table hardware_devices
    events,     \* the drift events ever inserted, in the order of ids
    live,       \* the ids of those in table hardware_drift_events
    trends,     \* table vendor_pqc_trend_events
    alerts,     \* the integration_deliveries of lifecycle alerts
    job,        \* what each process is doing
    spool,      \* the sensor's batch that is not yet pushed
    clock,      \* the last timestamp given out
    day,        \* the day
    jobs,       \* batches probed so far
    faults,     \* faults so far
    disturbed   \* history: devices whose comparison failed, was killed, or
                \* overlapped with that of the other process

hwVars == <<rows, events, live, trends, alerts, job, spool, clock, day, jobs, faults, disturbed>>

Procs == {"cli", "console"}
Idle == [at |-> "idle", kind |-> "none", batch |-> <<>>, left |-> {}, vendors |-> {},
         who |-> "none", cand |-> {}, found |-> {}]
EVENT_TYPES == {"tier_crossing", "upstream_mitigated_change", "cve_delta", "eol_state_change"}
DEFAULT_N == 2
DEFAULT_M == 3

Fault == faults < MaxFaults /\ faults' = faults + 1

-----------------------------------------------------------------------------
(* Queries *)

\* The m newest rows of a set, newest first.  No two rows have one timestamp, so
\* ids never decide.
Rank(r, S) == Cardinality({q \in S : q.seen >= r.seen})
Newest(S, m) ==
    [i \in 1 .. (IF Cardinality(S) < m THEN Cardinality(S) ELSE m) |-> CHOOSE r \in S : Rank(r, S) = i]

recent_successful_hardware_rows(d, m) == Newest({r \in rows : r.dev = d /\ r.ok}, m)

Successful_All(r) == TRUE
Successful(r) == r.ok

\* The fleet: the newest successful row of each device.
latest_successful_hardware_devices ==
    {r \in rows : /\ Successful(r)
                  /\ \A q \in rows : q.dev = r.dev /\ Successful(q) => q.seen <= r.seen}

\* One row for each device, the newest that names this vendor.
Named(v) == {r \in rows : r.ok /\ r.vendor = v}
vendor_fleet_snapshot_EveryRow(v, m) == Newest(Named(v), m)
vendor_fleet_snapshot(v, m) ==
    Newest({r \in Named(v) : \A q \in Named(v) : q.dev = r.dev => q.seen <= r.seen}, m)

-----------------------------------------------------------------------------
(* Comparison of a window of rows, newest first *)

bridge_evidence_state(r) == IF r.bridge THEN "evidence_present" ELSE "no_evidence"
eol_state_for_row(r) == eol_state(r.eol, day)
Reading(type, r) ==
    CASE type = "tier_crossing" -> r.tier
      [] type = "upstream_mitigated_change" -> bridge_evidence_state(r)
      [] type = "eol_state_change" -> eol_state_for_row(r)

\* The value that n of the readings share, if it is the newest one, together
\* with the value before it.
Confirmed_All(vals) == vals[1] # "none" /\ Cardinality({i \in DOMAIN vals : vals[i] = vals[1]}) >= DEFAULT_M
Confirmed(vals) == vals[1] # "none" /\ Cardinality({i \in DOMAIN vals : vals[i] = vals[1]}) >= DEFAULT_N
Changes(type, vals) ==
    LET other == {i \in DOMAIN vals : vals[i] # vals[1]} IN
    IF Confirmed(vals) /\ other # {}
    THEN {[type |-> type, old |-> vals[Min(other)], new |-> vals[1]]} ELSE {}

\* Two rows whose vendor is known; the catalogue is the one of today for both.
cve_delta(prior, current) ==
    IF "Unknown" \in {prior.vendor, current.vendor} THEN {}
    ELSE correlate_device(current) \ correlate_device(prior)

compute_drift_candidates(w) ==
    IF Len(w) < 2 THEN {}
    ELSE (UNION {Changes(type, [i \in DOMAIN w |-> Reading(type, w[i])]) : type \in EVENT_TYPES \ {"cve_delta"}})
         \cup {[type |-> "cve_delta", old |-> ToString(Cardinality(correlate_device(w[2]))), new |-> ToString(n)] :
                 n \in {Cardinality(cve_delta(w[2], w[1]))} \ {0}}

\* Of the events with these ids the most recent one: the id decides between
\* events of one instant.
MostRecent(table, ids) ==
    CHOOSE i \in ids : \A j \in ids :
        \/ table[j].detected < table[i].detected
        \/ table[j].detected = table[i].detected /\ j <= i
Known(table, ids, value) == ids # {} /\ table[MostRecent(table, ids)].new = value
EventsOf(d, type) == {i \in live : events[i].dev = d /\ events[i].type = type}
TrendsOf(v) == {i \in DOMAIN trends : trends[i].vendor = v}

\* What reconcile_device_history will insert: the changes less the ones that
\* the most recent event of their type already states.
NewEvents(d) ==
    LET w == recent_successful_hardware_rows(d, DEFAULT_M) IN
    {[dev |-> d, type |-> c.type, old |-> c.old, new |-> c.new,
      detected |-> w[1].seen, day |-> w[1].day, partial |-> w[1].partial] :
       c \in {x \in compute_drift_candidates(w) : ~ Known(events, EventsOf(d, x.type), x.new)}}

NewTrends(v) ==
    LET w == vendor_fleet_snapshot(v, DEFAULT_M) IN
    IF Len(w) < 2 THEN {}
    ELSE {[vendor |-> v, old |-> c.old, new |-> c.new, detected |-> w[1].seen] :
            c \in {x \in Changes("pqc_status_change", [i \in DOMAIN w |-> w[i].pqc]) : ~ Known(trends, TrendsOf(v), x.new)}}

\* TierNA is the highest rank, so a check-in that stores it looks like progress.
tier_direction(old, new) == IF TIER_ORDER[new] < TIER_ORDER[old] THEN "worsened" ELSE "improved"
Qualifying(found) ==
    {e \in found : \/ e.type = "eol_state_change"
                   \/ e.type = "tier_crossing" /\ tier_direction(e.old, e.new) = "worsened"}

-----------------------------------------------------------------------------
(* Probing: a batch gets timestamps in its order *)

Stamp(batch) == [i \in DOMAIN batch |-> [batch[i] EXCEPT !.seen = clock + i, !.day = day]]
DevsOn(route, among) == SetToSeq({d \in among : Route[d] = route})

\* The devices of a batch answer independently of one another.
Answers(devs) == {a \in [devs -> UNION {Behave[d] : d \in devs}] : \A d \in devs : a[d] \in Behave[d]}

\* The batch of a full scan: hosts with SSH, then the OT supplement.
build_ot_supplemental_endpoints(among) == IF EnableOt THEN DevsOn("ot", among) ELSE <<>>
ScanBatch(among, a) ==
    fingerprint_hardware(DevsOn("ssh", among), a, "ssh")
      \o fingerprint_hardware(build_ot_supplemental_endpoints(among), a, "ot")

\* The process goes to persist a batch; an empty one is not persisted.
ToPersist(p, kind, batch) ==
    /\ job' = [job EXCEPT ![p] = [Idle EXCEPT !.at = IF batch = <<>> THEN "idle" ELSE "probed",
                                              !.kind = kind, !.batch = Stamp(batch)]]
    /\ clock' = clock + Len(batch)

run_scan ==
    /\ job["cli"].at = "idle"
    /\ jobs < MaxJobs /\ jobs' = jobs + 1
    /\ \E a \in Answers({d \in Devices : Route[d] # "snmp"}) : ToPersist("cli", "scan", ScanBatch(Devices, a))
    /\ UNCHANGED <<rows, events, live, trends, alerts, spool, day, faults, disturbed>>

\* A device known through a disabled OT probe is skipped.
run_check_in ==
    LET known == {r \in latest_successful_hardware_devices : EnableOt \/ r.method \notin {"modbus", "bacnet"}} IN
    /\ job["cli"].at = "idle"
    /\ jobs < MaxJobs /\ jobs' = jobs + 1
    /\ known # {}
    /\ \E a \in Answers({r.dev : r \in known}) :
         LET devs == SetToSeq(known) IN
         ToPersist("cli", "check-in", [i \in DOMAIN devs |-> check_in_fingerprint_device(devs[i], a[devs[i].dev])])
    /\ UNCHANGED <<rows, events, live, trends, alerts, spool, day, faults, disturbed>>

\* A scan on the sensor's own host: its rows wait there for the push.
SensorScan ==
    /\ spool = <<>>
    /\ jobs < MaxJobs /\ jobs' = jobs + 1
    /\ \E a \in Answers({d \in Afar : Route[d] # "snmp"}) :
         /\ spool' = Stamp(ScanBatch(Afar, a))
         /\ clock' = clock + Len(spool')
    /\ UNCHANGED <<rows, events, live, trends, alerts, job, day, faults, disturbed>>
_ingest_envelope ==
    /\ job["console"].at = "idle" /\ spool # <<>>
    /\ job' = [job EXCEPT !["console"] = [Idle EXCEPT !.at = "probed", !.kind = "push", !.batch = spool]]
    /\ spool' = <<>>
    /\ UNCHANGED <<rows, events, live, trends, alerts, clock, day, jobs, faults, disturbed>>

-----------------------------------------------------------------------------
(* persist_and_reconcile *)

DevsIn(batch) == {batch[i].dev : i \in DOMAIN batch}
Expired(r, kept) == kept > 0 /\ r.day < day - kept
KeptFor(p) == IF p = "cli" THEN Retention ELSE DefaultRetention
purge_stale_hardware_history(p) ==
    {r \in rows : ~ (r.dev \in DevsIn(job[p].batch) /\ Expired(r, KeptFor(p)))}

\* Devices that the other process has still to compare.
Pending(p) == (UNION {job[q].left \cup {job[q].who} : q \in Procs \ {p}}) \ {"none"}

Commit(p) ==
    /\ job[p].at = "probed"
    /\ rows' = purge_stale_hardware_history(p) \cup ToSet(job[p].batch)
    /\ disturbed' = disturbed \cup (DevsIn(job[p].batch) \cap Pending(p))
    /\ job' = [job EXCEPT ![p].at = "device", ![p].left = DevsIn(job[p].batch),
                          ![p].vendors = {job[p].batch[i].vendor : i \in DOMAIN job[p].batch},
                          ![p].batch = <<>>]
    /\ UNCHANGED <<events, live, trends, alerts, spool, clock, day, jobs, faults>>

\* After persist_and_reconcile a scan goes on, the others are done.
Leave(p) == [Idle EXCEPT !.at = IF job[p].kind = "scan" THEN "snmp" ELSE "idle"]

CommitFails(p) ==
    /\ job[p].at = "probed" /\ Fault
    /\ job' = [job EXCEPT ![p] = Leave(p)]
    /\ UNCHANGED <<rows, events, live, trends, alerts, spool, clock, day, jobs, disturbed>>

\* The order in which Python visits a set: one of them.
Visit(S) == {x \in S : x = CHOOSE y \in S : TRUE}

\* reconcile_device_history: the queries of one device, when they find something
\* new ...
Compared(p, found) == [job EXCEPT ![p].at = "device", ![p].who = "none", ![p].cand = {}, ![p].found = @ \cup found]
ReadHistory(p) ==
    /\ job[p].at = "device"
    /\ \E d \in Visit({x \in job[p].left : NewEvents(x) # {}}) : \E new \in {NewEvents(d)} :
         job' = [job EXCEPT ![p].at = "write", ![p].who = d, ![p].left = @ \ {d}, ![p].cand = new]
    /\ UNCHANGED <<rows, events, live, trends, alerts, spool, clock, day, jobs, faults, disturbed>>

\* ... and the commit of what they found, or its failure.
WriteEvents(p) ==
    /\ job[p].at = "write"
    /\ events' = events \o SetToSeq(job[p].cand)
    /\ live' = live \cup (Len(events) + 1 .. Len(events'))
    /\ job' = Compared(p, job[p].cand)
    /\ UNCHANGED <<rows, trends, alerts, spool, clock, day, jobs, faults, disturbed>>
FoundOnFailure(p) == {}
WriteEventsFails(p) ==
    /\ job[p].at = "write" /\ Fault
    /\ job' = Compared(p, FoundOnFailure(p))
    /\ disturbed' = disturbed \cup {job[p].who}
    /\ UNCHANGED <<rows, events, live, trends, alerts, spool, clock, day, jobs>>

\* Then the vendors of the batch; they do not meet, so one step is enough.  It
\* includes the comparisons that find nothing, which write nothing.
reconcile_vendor_pqc_trend(p) ==
    /\ job[p].at = "device" /\ \A d \in job[p].left : NewEvents(d) = {}
    /\ trends' = trends \o SetToSeq(UNION {NewTrends(v) : v \in job[p].vendors})
    /\ job' = [job EXCEPT ![p] = IF Qualifying(@.found) = {} THEN Leave(p)
                                 ELSE [@ EXCEPT !.at = "notify", !.left = {}, !.vendors = {}]]
    /\ UNCHANGED <<rows, events, live, alerts, spool, clock, day, jobs, faults, disturbed>>

\* Last the alerts, one message for all events that qualify; the delivery on each
\* channel is recorded, also when it fails.
Sent(p, failed) ==
    {[about |-> Qualifying(job[p].found), channel |-> c, status |-> IF c \in failed THEN "failed" ELSE "ok"] :
       c \in Channels}
_notify_hardware_lifecycle(p) ==
    /\ job[p].at = "notify"
    /\ job' = [job EXCEPT ![p] = Leave(p)]
    /\ \/ alerts' = alerts \cup Sent(p, {}) /\ UNCHANGED faults
       \/ Fault /\ \E failed \in SUBSET Channels \ {{}} : alerts' = alerts \cup Sent(p, failed)
    /\ UNCHANGED <<rows, events, live, trends, spool, clock, day, jobs, disturbed>>

-----------------------------------------------------------------------------
(* The end of a scan *)

_purge_stale_drift_events == {i \in live : ~ Expired(events[i], EventRetention)}

\* The SNMP phase has one row for each host that has none from this scan.
SnmpBatch(a) ==
    LET devs == DevsOn("snmp", Devices) IN [i \in DOMAIN devs |-> SnmpPhaseRow(devs[i], a[devs[i]])]

\* Old events are purged and the SNMP phase asks its hosts.
SnmpPhase ==
    /\ job["cli"].at = "snmp"
    /\ live' = _purge_stale_drift_events
    /\ \E a \in Answers({d \in Devices : Route[d] = "snmp"}) : ToPersist("cli", "snmp", SnmpBatch(a))
    /\ UNCHANGED <<rows, events, trends, alerts, spool, day, jobs, faults, disturbed>>

\* The process dies after its commit; before it, CommitFails has the same effect.
Kill(p) ==
    /\ job[p].at \in {"device", "write"} /\ Fault
    /\ job' = [job EXCEPT ![p] = Idle]
    /\ disturbed' = disturbed \cup ((job[p].left \cup {job[p].who}) \ {"none"})
    /\ UNCHANGED <<rows, events, live, trends, alerts, spool, clock, day, jobs>>

NextDay ==
    /\ \A p \in Procs : job[p].at = "idle"
    /\ \E d \in Days : d > day /\ day' = d
    /\ UNCHANGED <<rows, events, live, trends, alerts, job, spool, clock, jobs, faults, disturbed>>

-----------------------------------------------------------------------------
\* One scan is over: there is no event yet, and every device is known.
HwInit ==
    /\ clock = 0 /\ day = 1 /\ jobs = 0 /\ faults = 0 /\ disturbed = {}
    /\ rows = LET b == ScanBatch(Devices, First) \o SnmpBatch(First) IN
               {[b[i] EXCEPT !.seen = i - Len(b), !.day = day] : i \in DOMAIN b}
    /\ events = <<>> /\ live = {} /\ trends = <<>> /\ alerts = {}
    /\ job = [p \in Procs |-> Idle] /\ spool = <<>>

HwNext ==
    \/ run_scan \/ run_check_in \/ SensorScan \/ _ingest_envelope
    \/ SnmpPhase \/ NextDay
    \/ \E p \in Procs :
         \/ Commit(p) \/ CommitFails(p) \/ ReadHistory(p) \/ WriteEvents(p) \/ WriteEventsFails(p)
         \/ reconcile_vendor_pqc_trend(p) \/ _notify_hardware_lifecycle(p) \/ Kill(p)

HwSpec == HwInit /\ [][HwNext]_hwVars

-----------------------------------------------------------------------------
(* Properties *)

Settled(d) == d \notin disturbed /\ \A p \in Procs : d \notin job[p].left /\ job[p].who # d

\* A change of tier or of bridge evidence that holds for two probes after two
\* that agreed on something else has its event, the most recent of its type
\* that was ever inserted: reconcile_device_history misses none that it was
\* allowed to compare, in whatever order scans, check-ins and late pushes
\* arrive and whatever the retention has removed.
SettledChangeIsRecorded ==
    \A d \in {x \in Devices : Settled(x)} :
        LET w == recent_successful_hardware_rows(d, 4) IN
        Len(w) = 4 => \A type \in {"tier_crossing", "upstream_mitigated_change"} :
            LET v == [i \in 1 .. 4 |-> Reading(type, w[i])] IN
            v[1] = v[2] /\ v[3] = v[4] /\ v[2] # v[3]
                => Known(events, {i \in DOMAIN events : events[i].dev = d /\ events[i].type = type}, v[1])

\* The events of one device and type in the table never state one value twice in
\* a row (the dedup-on-write of reconcile_device_history), unless two processes
\* compared the device at once or an event between them was lost.
NoRepeatedEvent ==
    \A j \in live :
        LET before == {i \in EventsOf(events[j].dev, events[j].type) : i < j} IN
        events[j].dev \notin disturbed /\ before # {} => events[Max(before)].new # events[j].new

\* The drift events tell the history of a device: every settled change, each
\* of them once (reconcile_device_history).
EventsFollowHistory == SettledChangeIsRecorded /\ NoRepeatedEvent

\* The devices that have shown what a trend states.
VotesFor(t) == {r.dev : r \in {x \in rows : x.ok /\ x.vendor = t.vendor /\ x.pqc = t.new}}
\* A trend of a vendor is confirmed by two devices: however often one device is
\* probed, it has one vote (vendor_fleet_snapshot).
TrendNeedsTwoDevices ==
    [][\A i \in DOMAIN trends' \ DOMAIN trends : Cardinality(VotesFor(trends'[i])) >= 2]_hwVars

\* Retention ends what the fleet shows of a device.
Forgets(r) == r \notin rows' /\ \E p \in Procs : job[p].at = "probed" /\ Expired(r, KeptFor(p))
Newer(r) == {q \in latest_successful_hardware_devices' : q.dev = r.dev /\ q.seen > r.seen}

\* A device that answered once stays in the fleet with what it answered: a later
\* failed probe, or a push that arrives late, never replaces it; only a newer
\* answer or its retention does (latest_successful_hardware_devices), or the
\* SNMP phase of a scan: its row of a device that says nothing counts as a
\* success too (SnmpPhaseRow), and the device becomes an unknown one.
FleetKeepsGoodState ==
    [][rows' # rows => \A r \in latest_successful_hardware_devices :
          \/ r \in latest_successful_hardware_devices' \/ Forgets(r)
          \/ \E q \in Newer(r) : q.heard \/ q.method = "snmp"]_hwVars

\* models_util.py: a currently-failing re-probe never displaces a device's
\* last-known-good state.  The SNMP phase breaks this for a device that has
\* fallen silent.
SilenceDisplacesNothing ==
    [][rows' # rows => \A r \in latest_successful_hardware_devices : r.heard =>
          \/ r \in latest_successful_hardware_devices' \/ Forgets(r)
          \/ \E q \in Newer(r) : q.heard]_hwVars

\* An alert is sent only for events that were put on record: a comparison whose
\* commit failed alerts nobody.
AlertHasEvent ==
    [][\A al \in alerts' \ alerts : al.about \subseteq ToSet(events)]_hwVars

\* Nobody is told what is not confirmed: no trend of one device, and no alert
\* without its event (reconcile_vendor_pqc_trend, persist_and_reconcile).
OnlyConfirmedIsTold == TrendNeedsTwoDevices /\ AlertHasEvent

\* docs/operators-guide.md: a single anomalous reading does not generate a drift
\* event.  In the three rows of the window the reading after the anomaly is
\* confirmed by the one before it, and the anomaly is the old value: a change
\* from it is about to be recorded.
OneAnomalyIsNoDrift ==
    \A p \in Procs : \A e \in {x \in job[p].cand : x.type = "tier_crossing"} :
        LET w == recent_successful_hardware_rows(e.dev, DEFAULT_M) IN
        ~ (Len(w) = 3 /\ w[1].tier = e.new /\ w[2].tier = e.old /\ w[3].tier = e.new)
=============================================================================
