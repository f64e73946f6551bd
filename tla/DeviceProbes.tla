----------------------------- MODULE DeviceProbes -----------------------------
(***************************************************************************)
(* Fingerprinting of hardware: quirk/scanner/hardware_scanner.py with the  *)
(* SNMP, Modbus and BACnet probes, the catalogues of vendors, end-of-life  *)
(* dates and CVEs, and the remediation tier.  An answer is a record of how *)
(* a device behaves during one probe; an operator gives the device row.    *)
(***************************************************************************)
EXTENDS Naturals, Sequences, FiniteSets

CONSTANT EolDay   \* the day on which the FortiGate of the catalogue reaches its end of life

(* ---- Catalogues -------------------------------------------------------- *)

\* Four entries of HARDWARE_MATRIX, by the text that their pattern matches.
\* Only a match that has a digit or several words gives high confidence.
HARDWARE_MATRIX ==
    [BigIp |-> [vendor |-> "F5", model |-> "BigIp", pqc |-> "partial", conf |-> "high"],
     FortiGate |-> [vendor |-> "Fortinet", model |-> "FortiGate", pqc |-> "partial", conf |-> "medium"],
     Cisco |-> [vendor |-> "Cisco", model |-> "none", pqc |-> "partial", conf |-> "medium"],
     Ipmi |-> [vendor |-> "IPMI", model |-> "none", pqc |-> "unsupported", conf |-> "medium"]]
_match_matrix(text) == text \in DOMAIN HARDWARE_MATRIX

\* End-of-life dates by vendor and model; the one of BIG-IP lies before the
\* window of the post-quantum migration, the one of FortiGate after it.
NoEol == 99
EOL_TABLE == [BigIp |-> 0, FortiGate |-> EolDay]
correlate_eol(model) == IF model \in DOMAIN EOL_TABLE THEN EOL_TABLE[model] ELSE NoEol
_APPROACHING_WINDOW_DAYS == 1
eol_state(eol, today) ==
    IF eol = NoEol THEN "none" ELSE IF eol < today THEN "passed"
    ELSE IF eol <= today + _APPROACHING_WINDOW_DAYS THEN "approaching" ELSE "none"

\* CVEs by vendor, model and the firmware that Modbus or BACnet named.
correlate_device(r) ==
    CASE r.vendor = "Schneider" /\ r.fw = "1.6.1" -> {"CVE-2018-7789", "CVE-2018-7821"}
      [] r.vendor = "Schneider" /\ r.fw = "1.7" -> {"CVE-2018-7821"}
      [] r.vendor = "JohnsonControls" -> {"CVE-2017-16744"}
      [] OTHER -> {}

TIER_ORDER == [Tier1 |-> 0, Tier2 |-> 1, Tier3 |-> 2, TierNA |-> 3]
assign_tier(r) ==
    IF r.eol # NoEol /\ r.model = "BigIp" THEN "TierNA"
    ELSE IF r.pqc = "supported" THEN "Tier3"
    ELSE IF r.pqc = "unsupported" /\ r.conf \in {"medium", "high"} THEN "Tier1"
    ELSE "Tier2"

(* ---- One probe ---------------------------------------------------------- *)

\* How a device behaves: what each protocol says, or that it is silent; whether
\* the credential and the public community work; whether its ARP table can be
\* read and whether a probe raises.
Answer == [ssh : STRING, http : STRING, snmp : STRING, v3 : STRING, public : BOOLEAN,
           modbus : STRING, bacnet : STRING, arp : BOOLEAN, raises : BOOLEAN]

\* The column remediation_tier has a default.  `heard' is not a column: it records,
\* for the properties, whether the device answered at all.
NewDevice == [dev |-> "none", seen |-> 0, day |-> 0, ok |-> FALSE, vendor |-> "Unknown", model |-> "none",
              pqc |-> "unknown", conf |-> "unknown", method |-> "unknown", tier |-> "TierNA",
              eol |-> NoEol, bridge |-> FALSE, fw |-> "none", partial |-> FALSE, heard |-> FALSE]

_apply_entry(r, text, method) ==
    LET entry == HARDWARE_MATRIX[text] IN
    [r EXCEPT !.vendor = entry.vendor, !.model = entry.model, !.pqc = entry.pqc, !.conf = entry.conf,
              !.method = method]

\* A probe that answers is an observation, also when nothing matches.
ByBanner(r, a) ==
    IF a.ssh = "none" THEN r
    ELSE IF _match_matrix(a.ssh) THEN [_apply_entry(r, a.ssh, "ssh_banner") EXCEPT !.ok = TRUE]
    ELSE [r EXCEPT !.ok = TRUE, !.method = "ssh_banner", !.conf = "low"]

\* The management ports in order; the first that answers ends the search.
_probe_http_mgmt(r, a) ==
    IF r.vendor # "Unknown" \/ a.http = "none" THEN r
    ELSE IF _match_matrix(a.http) THEN [_apply_entry(r, a.http, "http_mgmt") EXCEPT !.ok = TRUE]
    ELSE [r EXCEPT !.ok = TRUE]

\* SNMPv3 when there is a credential; when that fails, or without one, the
\* public community.
probe_snmp_target(a) == IF a.v3 = "ok" \/ a.public THEN a.snmp ELSE "none"
parse_sysdescr(text) == IF text \in {"Cisco", "Linux"} THEN text ELSE "Unknown"
BySnmp(r, a) ==
    LET text == probe_snmp_target(a) IN
    IF r.vendor # "Unknown" \/ text = "none" THEN r
    ELSE IF parse_sysdescr(text) = "Unknown" THEN [r EXCEPT !.ok = TRUE]
    ELSE IF _match_matrix(text) THEN [_apply_entry(r, text, "snmp") EXCEPT !.ok = TRUE]
    ELSE [r EXCEPT !.ok = TRUE, !.vendor = parse_sysdescr(text), !.method = "snmp", !.conf = "medium"]

\* Modbus: anything but silence is an observation, an error or a reset too.
probe_modbus_target(r, a) ==
    IF a.modbus = "no_response" THEN r
    ELSE IF a.modbus \in {"aborted_error_response", "aborted_anomalous_response", "no_match"} THEN [r EXCEPT !.ok = TRUE]
    ELSE IF r.vendor # "Unknown" THEN [r EXCEPT !.ok = TRUE, !.fw = a.modbus]
    ELSE [r EXCEPT !.ok = TRUE, !.fw = a.modbus, !.vendor = "Schneider", !.model = "M221",
                            !.method = "modbus", !.conf = "medium"]
probe_bacnet_target(r, a) ==
    IF a.bacnet = "no_response" THEN r
    ELSE IF a.bacnet # "identified" \/ r.vendor # "Unknown" THEN [r EXCEPT !.ok = TRUE]
    ELSE [r EXCEPT !.ok = TRUE, !.vendor = "JohnsonControls", !.model = "FacilityExplorer",
                            !.method = "bacnet", !.conf = "medium"]
apply_eol_date(r) == [r EXCEPT !.eol = correlate_eol(r.model)]

Hears(a, on) ==
    \/ "ssh" \in on /\ a.ssh # "none"
    \/ "http" \in on /\ a.http # "none"
    \/ "snmp" \in on /\ probe_snmp_target(a) # "none"
    \/ "modbus" \in on /\ a.modbus # "no_response"
    \/ "bacnet" \in on /\ a.bacnet # "no_response"

\* The waterfall of one device.  `on' says which probes this call makes; an
\* exception on the way leaves what was found, as a failed probe.
fingerprint_one(d, a, on) ==
    LET new == [NewDevice EXCEPT !.dev = d, !.heard = Hears(a, on)]
        banner == IF "ssh" \in on THEN ByBanner(new, a) ELSE new
        http == IF "http" \in on THEN _probe_http_mgmt(banner, a) ELSE banner
        snmp == IF "snmp" \in on THEN BySnmp(http, a) ELSE http
        modbus == IF "modbus" \in on THEN probe_modbus_target(snmp, a) ELSE snmp
        bacnet == IF "bacnet" \in on THEN probe_bacnet_target(modbus, a) ELSE modbus IN
    IF a.raises THEN [snmp EXCEPT !.ok = FALSE] ELSE apply_eol_date(bacnet)

(* ---- A batch ------------------------------------------------------------- *)

_BRIDGE_PQC_CAPABLE == {"partial", "supported"}

\* In one subnet, the devices that can do post-quantum exchanges are gateways
\* when there is one that cannot; a gateway whose ARP table can be read is
\* evidence of a crypto bridge.
_local_gateway_candidates(batch) ==
    IF \E i \in DOMAIN batch : batch[i].pqc \notin _BRIDGE_PQC_CAPABLE
    THEN {i \in DOMAIN batch : batch[i].pqc \in _BRIDGE_PQC_CAPABLE} ELSE {}
_confirm_bridge_evidence(batch, arp) ==
    [i \in DOMAIN batch |-> [batch[i] EXCEPT !.bridge = i \in _local_gateway_candidates(batch) /\ arp[i]]]

\* The probes of fingerprint_hardware in a scan: only OT probes for the hosts of
\* the supplement.  A host without an open Modbus port answers `no_response'.
ScanProbes(route) == IF route = "ot" THEN {"modbus", "bacnet"} ELSE {"ssh", "http", "snmp", "modbus", "bacnet"}
fingerprint_hardware(devs, answers, route) ==
    LET found == [i \in DOMAIN devs |-> fingerprint_one(devs[i], answers[devs[i]], ScanProbes(route))]
        bridged == _confirm_bridge_evidence(found, [i \in DOMAIN devs |-> answers[devs[i]].arp]) IN
    [i \in DOMAIN devs |-> [bridged[i] EXCEPT !.tier = assign_tier(bridged[i])]]

\* A check-in repeats the probe that identified the device and no other; the
\* tier is left at its default and there is no bridge evidence.
CheckInProbes(method) ==
    CASE method = "ssh_banner" -> {"ssh", "http", "snmp", "bacnet"}
      [] method = "snmp" -> {"snmp", "bacnet"}
      [] method = "modbus" -> {"modbus", "bacnet"}
      [] method = "bacnet" -> {"bacnet"}
      [] OTHER -> {"http", "snmp", "bacnet"}
check_in_fingerprint_device(known, a) ==
    [fingerprint_one(known.dev, a, CheckInProbes(known.method)) EXCEPT !.partial = TRUE]

\* The SNMP phase of a scan writes a row for every other host it asked, and
\* calls it a success whether or not there was an answer.
SnmpPhaseRow(d, a) ==
    LET vendor == parse_sysdescr(probe_snmp_target(a)) IN
    [NewDevice EXCEPT !.dev = d, !.ok = TRUE, !.vendor = vendor, !.conf = "medium", !.method = "snmp",
                      !.heard = Hears(a, {"snmp"})]
=============================================================================
