--------------------------- MODULE HardwareProofs ---------------------------
(***************************************************************************)
(* HardwareHistory's invariants, for every fleet, every way in which its   *)
(* devices may answer, every retention and any number of scans, check-ins, *)
(* pushes, failed commits and killed processes.                            *)
(***************************************************************************)
EXTENDS HardwareHistory, FiniteSetTheorems, NaturalsInduction, WellFoundedInduction, TLAPS

Tiers == {"Tier1", "Tier2", "Tier3", "TierNA"}
Vendors == {"F5", "Fortinet", "Cisco", "IPMI", "Linux", "Schneider", "JohnsonControls", "Unknown"}
Models == {"BigIp", "FortiGate", "M221", "FacilityExplorer", "none"}
Support == {"partial", "supported", "unsupported", "unknown"}
Methods == {"ssh_banner", "http_mgmt", "snmp", "modbus", "bacnet", "unknown"}
Confidence == {"high", "medium", "low", "unknown"}
DeviceRow ==
    [dev : Devices, seen : Int, day : Nat, ok : BOOLEAN, vendor : Vendors, model : Models,
     pqc : Support, conf : Confidence, method : Methods, tier : Tiers, eol : Nat,
     bridge : BOOLEAN, fw : STRING \cup {"none"}, partial : BOOLEAN, heard : BOOLEAN]

-----------------------------------------------------------------------------
(* Probes *)

(* An entry of the catalogue fits the columns it is copied to. *)
LEMMA MatrixEntry ==
    ASSUME NEW t, _match_matrix(t)
    PROVE  /\ HARDWARE_MATRIX[t].vendor \in Vendors /\ HARDWARE_MATRIX[t].model \in Models
           /\ HARDWARE_MATRIX[t].pqc \in Support /\ HARDWARE_MATRIX[t].conf \in Confidence
  <1>1. t \in {"BigIp", "FortiGate", "Cisco", "Ipmi"}
    BY DEF _match_matrix, HARDWARE_MATRIX
  <1>2. CASE t = "BigIp"
    BY <1>2 DEF HARDWARE_MATRIX, Vendors, Models, Support, Confidence
  <1>3. CASE t = "FortiGate"
    BY <1>3 DEF HARDWARE_MATRIX, Vendors, Models, Support, Confidence
  <1>4. CASE t = "Cisco"
    BY <1>4 DEF HARDWARE_MATRIX, Vendors, Models, Support, Confidence
  <1>5. CASE t = "Ipmi"
    BY <1>5 DEF HARDWARE_MATRIX, Vendors, Models, Support, Confidence
  <1>6. QED
    BY <1>1, <1>2, <1>3, <1>4, <1>5

LEMMA EntryType ==
    ASSUME NEW r \in DeviceRow, NEW t, _match_matrix(t), NEW m \in Methods
    PROVE  _apply_entry(r, t, m) \in DeviceRow /\ _apply_entry(r, t, m).dev = r.dev
  <1> DEFINE e == HARDWARE_MATRIX[t]
  <1>1. /\ e.vendor \in Vendors /\ e.model \in Models
        /\ e.pqc \in Support /\ e.conf \in Confidence
    BY MatrixEntry
  <1>2. _apply_entry(r, t, m) = [r EXCEPT !.vendor = e.vendor, !.model = e.model, !.pqc = e.pqc,
                                          !.conf = e.conf, !.method = m]
    BY DEF _apply_entry
  <1> HIDE DEF e
  <1>3. PICK v \in Vendors, o \in Models, q \in Support, c \in Confidence :
          v = e.vendor /\ o = e.model /\ q = e.pqc /\ c = e.conf
    BY <1>1
  <1>4. PICK u : u = [r EXCEPT !.vendor = v, !.model = o, !.pqc = q, !.conf = c, !.method = m]
    OBVIOUS
  <1>5. u \in DeviceRow /\ u.dev = r.dev
    BY <1>4 DEF DeviceRow
  <1>6. QED
    BY <1>2, <1>3, <1>4, <1>5

(* Each probe of the waterfall turns a row into a row of the same device. *)
LEMMA ProbeTypes ==
    ASSUME NEW r \in DeviceRow, NEW a \in Answer
    PROVE  /\ ByBanner(r, a) \in DeviceRow /\ ByBanner(r, a).dev = r.dev
           /\ _probe_http_mgmt(r, a) \in DeviceRow /\ _probe_http_mgmt(r, a).dev = r.dev
           /\ BySnmp(r, a) \in DeviceRow /\ BySnmp(r, a).dev = r.dev
           /\ probe_modbus_target(r, a) \in DeviceRow /\ probe_modbus_target(r, a).dev = r.dev
           /\ probe_bacnet_target(r, a) \in DeviceRow /\ probe_bacnet_target(r, a).dev = r.dev
           /\ apply_eol_date(r) \in DeviceRow /\ apply_eol_date(r).dev = r.dev
  <1>0. \A x \in DeviceRow : [x EXCEPT !.ok = TRUE] \in DeviceRow /\ [x EXCEPT !.ok = TRUE].dev = x.dev
    BY DEF DeviceRow
  <1>1. ByBanner(r, a) \in DeviceRow /\ ByBanner(r, a).dev = r.dev
    <2>1. CASE a.ssh = "none"
      BY <2>1 DEF ByBanner
    <2>2. CASE a.ssh # "none" /\ _match_matrix(a.ssh)
      <3>1. _apply_entry(r, a.ssh, "ssh_banner") \in DeviceRow /\ _apply_entry(r, a.ssh, "ssh_banner").dev = r.dev
        BY <2>2, EntryType DEF Methods
      <3>2. QED
        BY <3>1, <2>2, <1>0 DEF ByBanner
    <2>3. CASE a.ssh # "none" /\ ~ _match_matrix(a.ssh)
      BY <2>3 DEF ByBanner, DeviceRow, Methods, Confidence
    <2>4. QED
      BY <2>1, <2>2, <2>3
  <1>2. _probe_http_mgmt(r, a) \in DeviceRow /\ _probe_http_mgmt(r, a).dev = r.dev
    <2>1. CASE r.vendor # "Unknown" \/ a.http = "none"
      BY <2>1 DEF _probe_http_mgmt
    <2>2. CASE ~ (r.vendor # "Unknown" \/ a.http = "none") /\ _match_matrix(a.http)
      <3>1. _apply_entry(r, a.http, "http_mgmt") \in DeviceRow /\ _apply_entry(r, a.http, "http_mgmt").dev = r.dev
        BY <2>2, EntryType DEF Methods
      <3>2. QED
        BY <3>1, <2>2, <1>0 DEF _probe_http_mgmt
    <2>3. CASE ~ (r.vendor # "Unknown" \/ a.http = "none") /\ ~ _match_matrix(a.http)
      BY <2>3, <1>0 DEF _probe_http_mgmt
    <2>4. QED
      BY <2>1, <2>2, <2>3
  <1>3. BySnmp(r, a) \in DeviceRow /\ BySnmp(r, a).dev = r.dev
    <2> DEFINE text == probe_snmp_target(a)
    <2> HIDE DEF text
    <2>0. BySnmp(r, a) = IF r.vendor # "Unknown" \/ text = "none" THEN r
              ELSE IF parse_sysdescr(text) = "Unknown" THEN [r EXCEPT !.ok = TRUE]
              ELSE IF _match_matrix(text) THEN [_apply_entry(r, text, "snmp") EXCEPT !.ok = TRUE]
              ELSE [r EXCEPT !.ok = TRUE, !.vendor = parse_sysdescr(text), !.method = "snmp", !.conf = "medium"]
      BY DEF BySnmp, text
    <2>1. CASE r.vendor # "Unknown" \/ text = "none"
      BY <2>0, <2>1
    <2>2. CASE ~ (r.vendor # "Unknown" \/ text = "none") /\ parse_sysdescr(text) = "Unknown"
      BY <2>0, <2>2, <1>0
    <2>3. CASE ~ (r.vendor # "Unknown" \/ text = "none") /\ parse_sysdescr(text) # "Unknown" /\ _match_matrix(text)
      <3>1. _apply_entry(r, text, "snmp") \in DeviceRow /\ _apply_entry(r, text, "snmp").dev = r.dev
        BY <2>3, EntryType DEF Methods
      <3>2. QED
        BY <3>1, <2>0, <2>3, <1>0
    <2>4. CASE ~ (r.vendor # "Unknown" \/ text = "none") /\ parse_sysdescr(text) # "Unknown" /\ ~ _match_matrix(text)
      <3>1. parse_sysdescr(text) \in Vendors
        BY DEF parse_sysdescr, Vendors
      <3>2. PICK v \in Vendors, m \in Methods, c \in Confidence :
              v = parse_sysdescr(text) /\ m = "snmp" /\ c = "medium"
        BY <3>1 DEF Methods, Confidence
      <3>3. PICK u : u = [r EXCEPT !.ok = TRUE, !.vendor = v, !.method = m, !.conf = c]
        OBVIOUS
      <3>4. u \in DeviceRow /\ u.dev = r.dev
        BY <3>3 DEF DeviceRow
      <3>5. BySnmp(r, a) = u
        BY <2>0, <2>4, <3>2, <3>3
      <3>6. QED
        BY <3>4, <3>5
    <2>5. QED
      BY <2>1, <2>2, <2>3, <2>4
  <1>4. probe_modbus_target(r, a) \in DeviceRow /\ probe_modbus_target(r, a).dev = r.dev
    <2> DEFINE fw == a.modbus
    <2>1. fw \in STRING \cup {"none"}
      BY DEF Answer
    <2>2. probe_modbus_target(r, a) \in
            {r, [r EXCEPT !.ok = TRUE], [r EXCEPT !.ok = TRUE, !.fw = fw],
             [r EXCEPT !.ok = TRUE, !.fw = fw, !.vendor = "Schneider", !.model = "M221",
                       !.method = "modbus", !.conf = "medium"]}
      BY ZenonT(30) DEF probe_modbus_target
    <2> HIDE DEF fw
    <2>3. [r EXCEPT !.ok = TRUE, !.fw = fw] \in DeviceRow
      BY <2>1 DEF DeviceRow
    <2>4. [r EXCEPT !.ok = TRUE, !.fw = fw, !.vendor = "Schneider", !.model = "M221",
                    !.method = "modbus", !.conf = "medium"] \in DeviceRow
      <3>1. PICK v \in Vendors, o \in Models, m \in Methods, c \in Confidence :
              v = "Schneider" /\ o = "M221" /\ m = "modbus" /\ c = "medium"
        BY DEF Vendors, Models, Methods, Confidence
      <3>2. [r EXCEPT !.ok = TRUE, !.fw = fw, !.vendor = v, !.model = o, !.method = m, !.conf = c] \in DeviceRow
        BY <2>1 DEF DeviceRow
      <3>3. QED
        BY <3>1, <3>2
    <2>5. \A x \in {[r EXCEPT !.ok = TRUE, !.fw = fw],
             [r EXCEPT !.ok = TRUE, !.fw = fw, !.vendor = "Schneider", !.model = "M221",
                       !.method = "modbus", !.conf = "medium"]} : x.dev = r.dev
      BY DEF DeviceRow
    <2>6. QED
      BY <1>0, <2>2, <2>3, <2>4, <2>5
  <1>5. probe_bacnet_target(r, a) \in DeviceRow /\ probe_bacnet_target(r, a).dev = r.dev
    <2>1. probe_bacnet_target(r, a) \in
            {r, [r EXCEPT !.ok = TRUE],
             [r EXCEPT !.ok = TRUE, !.vendor = "JohnsonControls", !.model = "FacilityExplorer",
                       !.method = "bacnet", !.conf = "medium"]}
      BY ZenonT(30) DEF probe_bacnet_target
    <2>2. [r EXCEPT !.ok = TRUE, !.vendor = "JohnsonControls", !.model = "FacilityExplorer",
                    !.method = "bacnet", !.conf = "medium"] \in DeviceRow
      <3>1. PICK v \in Vendors, o \in Models, m \in Methods, c \in Confidence :
              v = "JohnsonControls" /\ o = "FacilityExplorer" /\ m = "bacnet" /\ c = "medium"
        BY DEF Vendors, Models, Methods, Confidence
      <3>2. [r EXCEPT !.ok = TRUE, !.vendor = v, !.model = o, !.method = m, !.conf = c] \in DeviceRow
        BY DEF DeviceRow
      <3>3. QED
        BY <3>1, <3>2
    <2>3. [r EXCEPT !.ok = TRUE, !.vendor = "JohnsonControls", !.model = "FacilityExplorer",
                    !.method = "bacnet", !.conf = "medium"].dev = r.dev
      BY DEF DeviceRow
    <2>4. QED
      BY <1>0, <2>1, <2>2, <2>3
  <1>6. apply_eol_date(r) \in DeviceRow /\ apply_eol_date(r).dev = r.dev
    <2>1. correlate_eol(r.model) \in Nat
      <3>1. CASE r.model = "BigIp"
        BY <3>1 DEF correlate_eol, EOL_TABLE
      <3>2. CASE r.model = "FortiGate"
        BY <3>2, HardwareAssumption DEF correlate_eol, EOL_TABLE
      <3>3. CASE r.model \notin {"BigIp", "FortiGate"}
        BY <3>3 DEF correlate_eol, EOL_TABLE, NoEol
      <3>4. QED
        BY <3>1, <3>2, <3>3
    <2>2. QED
      BY <2>1 DEF apply_eol_date, DeviceRow
  <1>7. QED
    BY <1>1, <1>2, <1>3, <1>4, <1>5, <1>6

(* The waterfall of one device. *)
LEMMA FingerprintType ==
    ASSUME NEW d \in Devices, NEW a \in Answer, NEW on
    PROVE  fingerprint_one(d, a, on) \in DeviceRow /\ fingerprint_one(d, a, on).dev = d
  <1> DEFINE Fits(r) == r \in DeviceRow /\ r.dev = d
             new == [NewDevice EXCEPT !.dev = d, !.heard = Hears(a, on)]
             banner == IF "ssh" \in on THEN ByBanner(new, a) ELSE new
             http == IF "http" \in on THEN _probe_http_mgmt(banner, a) ELSE banner
             snmp == IF "snmp" \in on THEN BySnmp(http, a) ELSE http
             modbus == IF "modbus" \in on THEN probe_modbus_target(snmp, a) ELSE snmp
             bacnet == IF "bacnet" \in on THEN probe_bacnet_target(modbus, a) ELSE modbus
  <1>1. fingerprint_one(d, a, on) = IF a.raises THEN [snmp EXCEPT !.ok = FALSE] ELSE apply_eol_date(bacnet)
    BY DEF fingerprint_one
  <1>2. Fits(new)
    <2>1. NoEol \in Nat
      BY DEF NoEol
    <2>2. NewDevice \in
            [dev : {"none"}, seen : Int, day : Nat, ok : BOOLEAN, vendor : Vendors, model : Models,
             pqc : Support, conf : Confidence, method : Methods, tier : Tiers, eol : Nat,
             bridge : BOOLEAN, fw : STRING \cup {"none"}, partial : BOOLEAN, heard : BOOLEAN]
      BY <2>1 DEF NewDevice, Vendors, Models, Support, Methods, Confidence, Tiers
    <2> HIDE DEF NewDevice
    <2>3. PICK h \in BOOLEAN : h = Hears(a, on)
      BY Zenon DEF Hears
    <2>4. new = [NewDevice EXCEPT !.dev = d, !.heard = h]
      BY <2>3
    <2> HIDE DEF new
    <2>5. QED
      BY <2>2, <2>4 DEF DeviceRow
  <1> HIDE DEF new
  <1>3. Fits(banner)
    BY <1>2, ProbeTypes
  <1> HIDE DEF banner
  <1>4. Fits(http)
    BY <1>3, ProbeTypes
  <1> HIDE DEF http
  <1>5. Fits(snmp)
    BY <1>4, ProbeTypes
  <1> HIDE DEF snmp
  <1>6. Fits(modbus)
    BY <1>5, ProbeTypes
  <1> HIDE DEF modbus
  <1>7. Fits(bacnet)
    BY <1>6, ProbeTypes
  <1> HIDE DEF bacnet
  <1>8. Fits(apply_eol_date(bacnet))
    BY <1>7, ProbeTypes
  <1>9. Fits([snmp EXCEPT !.ok = FALSE])
    BY <1>5 DEF DeviceRow
  <1>10. QED
    BY <1>1, <1>8, <1>9

(* A successful probe heard the device, except a row of the SNMP phase, which calls
   silence a success. *)
Heard(r) == r.ok => r.heard \/ r.method = "snmp"

(* Filling in a catalogue entry does not say that there was an answer. *)
LEMMA EntryHeard ==
    ASSUME NEW r \in DeviceRow, NEW t, NEW m
    PROVE  /\ _apply_entry(r, t, m).heard = r.heard
           /\ [_apply_entry(r, t, m) EXCEPT !.ok = TRUE].heard = r.heard
  <1>1. PICK e : e = HARDWARE_MATRIX[t]
    OBVIOUS
  <1>2. PICK v, o, q, c : v = e.vendor /\ o = e.model /\ q = e.pqc /\ c = e.conf
    OBVIOUS
  <1>3. _apply_entry(r, t, m) = [r EXCEPT !.vendor = v, !.model = o, !.pqc = q, !.conf = c, !.method = m]
    BY <1>1, <1>2 DEF _apply_entry
  <1>4. PICK u : u = [r EXCEPT !.vendor = v, !.model = o, !.pqc = q, !.conf = c, !.method = m]
    OBVIOUS
  <1>5. u.heard = r.heard /\ [u EXCEPT !.ok = TRUE].heard = r.heard
    BY <1>4 DEF DeviceRow
  <1>6. QED
    BY <1>3, <1>4, <1>5

(* A probe that hears nothing leaves the row as it is. *)
LEMMA ProbeHeard ==
    ASSUME NEW r \in DeviceRow, NEW a \in Answer
    PROVE  /\ ByBanner(r, a).heard = r.heard /\ (a.ssh = "none" => ByBanner(r, a) = r)
           /\ _probe_http_mgmt(r, a).heard = r.heard /\ (a.http = "none" => _probe_http_mgmt(r, a) = r)
           /\ BySnmp(r, a).heard = r.heard /\ (probe_snmp_target(a) = "none" => BySnmp(r, a) = r)
           /\ probe_modbus_target(r, a).heard = r.heard
           /\ (a.modbus = "no_response" => probe_modbus_target(r, a) = r)
           /\ probe_bacnet_target(r, a).heard = r.heard
           /\ (a.bacnet = "no_response" => probe_bacnet_target(r, a) = r)
           /\ apply_eol_date(r).heard = r.heard /\ apply_eol_date(r).ok = r.ok
  <1>1. ByBanner(r, a).heard = r.heard /\ (a.ssh = "none" => ByBanner(r, a) = r)
    <2>1. PICK x, y : /\ x = [_apply_entry(r, a.ssh, "ssh_banner") EXCEPT !.ok = TRUE]
                      /\ y = [r EXCEPT !.ok = TRUE, !.method = "ssh_banner", !.conf = "low"]
      OBVIOUS
    <2>2. x.heard = r.heard
      BY <2>1, EntryHeard, Zenon
    <2>3. y.heard = r.heard
      BY <2>1 DEF DeviceRow
    <2>4. ByBanner(r, a) \in {r, x, y} /\ (a.ssh = "none" => ByBanner(r, a) = r)
      BY <2>1, Zenon DEF ByBanner
    <2>5. QED
      BY <2>2, <2>3, <2>4
  <1>2. _probe_http_mgmt(r, a).heard = r.heard /\ (a.http = "none" => _probe_http_mgmt(r, a) = r)
    <2>1. PICK x, y : /\ x = [_apply_entry(r, a.http, "http_mgmt") EXCEPT !.ok = TRUE]
                      /\ y = [r EXCEPT !.ok = TRUE]
      OBVIOUS
    <2>2. x.heard = r.heard
      BY <2>1, EntryHeard, Zenon
    <2>3. y.heard = r.heard
      BY <2>1 DEF DeviceRow
    <2>4. _probe_http_mgmt(r, a) \in {r, x, y} /\ (a.http = "none" => _probe_http_mgmt(r, a) = r)
      BY <2>1, Zenon DEF _probe_http_mgmt
    <2>5. QED
      BY <2>2, <2>3, <2>4
  <1>3. BySnmp(r, a).heard = r.heard /\ (probe_snmp_target(a) = "none" => BySnmp(r, a) = r)
    <2>1. PICK text, v : text = probe_snmp_target(a) /\ v = parse_sysdescr(text)
      OBVIOUS
    <2>2. PICK x, y, z : /\ x = [_apply_entry(r, text, "snmp") EXCEPT !.ok = TRUE]
                         /\ y = [r EXCEPT !.ok = TRUE]
                         /\ z = [r EXCEPT !.ok = TRUE, !.vendor = v, !.method = "snmp", !.conf = "medium"]
      OBVIOUS
    <2>3. x.heard = r.heard
      BY <2>2, EntryHeard, Zenon
    <2>4. y.heard = r.heard /\ z.heard = r.heard
      BY <2>2 DEF DeviceRow
    <2>5. BySnmp(r, a) \in {r, x, y, z} /\ (probe_snmp_target(a) = "none" => BySnmp(r, a) = r)
      BY <2>1, <2>2, Zenon DEF BySnmp
    <2>6. QED
      BY <2>3, <2>4, <2>5
  <1>4. /\ probe_modbus_target(r, a).heard = r.heard
        /\ (a.modbus = "no_response" => probe_modbus_target(r, a) = r)
    <2>1. PICK x, y, z : /\ x = [r EXCEPT !.ok = TRUE]
                         /\ y = [r EXCEPT !.ok = TRUE, !.fw = a.modbus]
                         /\ z = [r EXCEPT !.ok = TRUE, !.fw = a.modbus, !.vendor = "Schneider", !.model = "M221",
                                          !.method = "modbus", !.conf = "medium"]
      OBVIOUS
    <2>2. x.heard = r.heard /\ y.heard = r.heard /\ z.heard = r.heard
      BY <2>1 DEF DeviceRow
    <2>3. probe_modbus_target(r, a) \in {r, x, y, z}
      BY <2>1, ZenonT(30) DEF probe_modbus_target
    <2>4. a.modbus = "no_response" => probe_modbus_target(r, a) = r
      BY Zenon DEF probe_modbus_target
    <2>5. QED
      BY <2>2, <2>3, <2>4
  <1>5. /\ probe_bacnet_target(r, a).heard = r.heard
        /\ (a.bacnet = "no_response" => probe_bacnet_target(r, a) = r)
    <2>1. PICK x, y : /\ x = [r EXCEPT !.ok = TRUE]
                      /\ y = [r EXCEPT !.ok = TRUE, !.vendor = "JohnsonControls", !.model = "FacilityExplorer",
                                       !.method = "bacnet", !.conf = "medium"]
      OBVIOUS
    <2>2. x.heard = r.heard /\ y.heard = r.heard
      BY <2>1 DEF DeviceRow
    <2>3. probe_bacnet_target(r, a) \in {r, x, y}
      BY <2>1, ZenonT(30) DEF probe_bacnet_target
    <2>4. a.bacnet = "no_response" => probe_bacnet_target(r, a) = r
      BY Zenon DEF probe_bacnet_target
    <2>5. QED
      BY <2>2, <2>3, <2>4
  <1>6. apply_eol_date(r).heard = r.heard /\ apply_eol_date(r).ok = r.ok
    <2>1. PICK e : e = correlate_eol(r.model)
      OBVIOUS
    <2>2. apply_eol_date(r) = [r EXCEPT !.eol = e]
      BY <2>1 DEF apply_eol_date
    <2>3. QED
      BY <2>2 DEF DeviceRow
  <1>7. QED
    BY <1>1, <1>2, <1>3, <1>4, <1>5, <1>6

(* A waterfall that ends in success heard the device. *)
LEMMA FingerprintHeard ==
    ASSUME NEW d \in Devices, NEW a \in Answer, NEW on
    PROVE  fingerprint_one(d, a, on).ok => fingerprint_one(d, a, on).heard
  <1>0. PICK h \in BOOLEAN : h = Hears(a, on)
    BY Zenon DEF Hears
  <1> DEFINE Fits(r) == r \in DeviceRow /\ r.heard = h /\ (r.ok => h)
             new == [NewDevice EXCEPT !.dev = d, !.heard = Hears(a, on)]
             banner == IF "ssh" \in on THEN ByBanner(new, a) ELSE new
             http == IF "http" \in on THEN _probe_http_mgmt(banner, a) ELSE banner
             snmp == IF "snmp" \in on THEN BySnmp(http, a) ELSE http
             modbus == IF "modbus" \in on THEN probe_modbus_target(snmp, a) ELSE snmp
             bacnet == IF "bacnet" \in on THEN probe_bacnet_target(modbus, a) ELSE modbus
  <1>1. fingerprint_one(d, a, on) = IF a.raises THEN [snmp EXCEPT !.ok = FALSE] ELSE apply_eol_date(bacnet)
    BY DEF fingerprint_one
  <1>2. Fits(new)
    <2>1. NoEol \in Nat
      BY DEF NoEol
    <2>2. NewDevice \in
            [dev : {"none"}, seen : Int, day : Nat, ok : {FALSE}, vendor : Vendors, model : Models,
             pqc : Support, conf : Confidence, method : Methods, tier : Tiers, eol : Nat,
             bridge : BOOLEAN, fw : STRING \cup {"none"}, partial : BOOLEAN, heard : BOOLEAN]
      BY <2>1 DEF NewDevice, Vendors, Models, Support, Methods, Confidence, Tiers
    <2> HIDE DEF NewDevice
    <2>3. PICK u : u = [NewDevice EXCEPT !.dev = d, !.heard = h]
      OBVIOUS
    <2>4. u \in DeviceRow /\ u.heard = h /\ u.ok = FALSE
      BY <2>2, <2>3 DEF DeviceRow
    <2>5. new = u
      BY <1>0, <2>3
    <2> HIDE DEF new
    <2>6. QED
      BY <2>4, <2>5, Zenon
  <1> HIDE DEF new
  <1>3. Fits(banner)
    <2>1. "ssh" \in on /\ a.ssh # "none" => h
      BY <1>0, Zenon DEF Hears
    <2>2. ByBanner(new, a) \in DeviceRow /\ ByBanner(new, a).heard = new.heard
      BY <1>2, ProbeTypes, ProbeHeard
    <2>3. a.ssh = "none" => ByBanner(new, a) = new
      BY <1>2, ProbeHeard
    <2>4. QED
      BY <1>2, <2>1, <2>2, <2>3, Zenon
  <1> HIDE DEF banner
  <1>4. Fits(http)
    <2>1. "http" \in on /\ a.http # "none" => h
      BY <1>0, Zenon DEF Hears
    <2>2. _probe_http_mgmt(banner, a) \in DeviceRow /\ _probe_http_mgmt(banner, a).heard = banner.heard
      BY <1>3, ProbeTypes, ProbeHeard
    <2>3. a.http = "none" => _probe_http_mgmt(banner, a) = banner
      BY <1>3, ProbeHeard
    <2>4. QED
      BY <1>3, <2>1, <2>2, <2>3, Zenon
  <1> HIDE DEF http
  <1>5. Fits(snmp)
    <2>1. "snmp" \in on /\ probe_snmp_target(a) # "none" => h
      BY <1>0, Zenon DEF Hears
    <2>2. BySnmp(http, a) \in DeviceRow /\ BySnmp(http, a).heard = http.heard
      BY <1>4, ProbeTypes, ProbeHeard
    <2>3. probe_snmp_target(a) = "none" => BySnmp(http, a) = http
      BY <1>4, ProbeHeard
    <2>4. QED
      BY <1>4, <2>1, <2>2, <2>3, Zenon
  <1> HIDE DEF snmp
  <1>6. Fits(modbus)
    <2>1. "modbus" \in on /\ a.modbus # "no_response" => h
      BY <1>0, Zenon DEF Hears
    <2>2. probe_modbus_target(snmp, a) \in DeviceRow /\ probe_modbus_target(snmp, a).heard = snmp.heard
      BY <1>5, ProbeTypes, ProbeHeard
    <2>3. a.modbus = "no_response" => probe_modbus_target(snmp, a) = snmp
      BY <1>5, ProbeHeard
    <2>4. QED
      BY <1>5, <2>1, <2>2, <2>3, Zenon
  <1> HIDE DEF modbus
  <1>7. Fits(bacnet)
    <2>1. "bacnet" \in on /\ a.bacnet # "no_response" => h
      BY <1>0, Zenon DEF Hears
    <2>2. probe_bacnet_target(modbus, a) \in DeviceRow /\ probe_bacnet_target(modbus, a).heard = modbus.heard
      BY <1>6, ProbeTypes, ProbeHeard
    <2>3. a.bacnet = "no_response" => probe_bacnet_target(modbus, a) = modbus
      BY <1>6, ProbeHeard
    <2>4. QED
      BY <1>6, <2>1, <2>2, <2>3, Zenon
  <1> HIDE DEF bacnet
  <1>8. Fits(apply_eol_date(bacnet))
    <2>1. /\ apply_eol_date(bacnet) \in DeviceRow
          /\ apply_eol_date(bacnet).heard = bacnet.heard /\ apply_eol_date(bacnet).ok = bacnet.ok
      BY <1>7, ProbeTypes, ProbeHeard
    <2>2. QED
      BY <1>7, <2>1, Zenon
  <1>9. [snmp EXCEPT !.ok = FALSE].ok = FALSE
    BY <1>5 DEF DeviceRow
  <1>10. QED
    BY <1>1, <1>8, <1>9, Zenon

(* A sequence of rows of the devices in a list, in its order. *)
RowsOf(batch, devs) ==
    /\ batch \in Seq(DeviceRow)
    /\ Len(batch) = Len(devs)
    /\ \A i \in 1 .. Len(devs) : batch[i].dev = devs[i] /\ Heard(batch[i])

LEMMA FunctionIsSeq ==
    ASSUME NEW S, NEW n \in Nat, NEW f \in [1 .. n -> S]
    PROVE  f \in Seq(S) /\ Len(f) = n /\ DOMAIN f = 1 .. n
  OBVIOUS

LEMMA TierType ==
    ASSUME NEW r
    PROVE  assign_tier(r) \in Tiers
  BY DEF assign_tier, Tiers

LEMMA HardwareBatchType ==
    ASSUME NEW devs \in Seq(Devices), NEW a, NEW route,
           \A i \in 1 .. Len(devs) : a[devs[i]] \in Answer
    PROVE  RowsOf(fingerprint_hardware(devs, a, route), devs)
  <1> DEFINE n == Len(devs)
             found == [i \in 1 .. n |-> fingerprint_one(devs[i], a[devs[i]], ScanProbes(route))]
             arp == [i \in 1 .. n |-> a[devs[i]].arp]
             bridged == _confirm_bridge_evidence(found, arp)
             batch == fingerprint_hardware(devs, a, route)
  <1>1. n \in Nat /\ DOMAIN devs = 1 .. n /\ \A i \in 1 .. n : devs[i] \in Devices
    OBVIOUS
  <1>2. batch = [i \in 1 .. n |-> [bridged[i] EXCEPT !.tier = assign_tier(bridged[i])]]
    BY <1>1 DEF fingerprint_hardware
  <1>3. DOMAIN found = 1 .. n
    OBVIOUS
  <1>4. \A i \in 1 .. n : /\ found[i] \in DeviceRow /\ found[i].dev = devs[i] /\ Heard(found[i])
                         /\ arp[i] \in BOOLEAN
    <2>1. SUFFICES ASSUME NEW i \in 1 .. n
                   PROVE  /\ found[i] \in DeviceRow /\ found[i].dev = devs[i] /\ Heard(found[i])
                          /\ arp[i] \in BOOLEAN
      OBVIOUS
    <2>2. a[devs[i]] \in Answer /\ devs[i] \in Devices
      BY <1>1
    <2>3. arp[i] \in BOOLEAN
      BY <2>2 DEF Answer
    <2>4. found[i] = fingerprint_one(devs[i], a[devs[i]], ScanProbes(route))
      OBVIOUS
    <2> HIDE DEF found, arp
    <2>5. found[i] \in DeviceRow /\ found[i].dev = devs[i]
      BY <2>2, <2>4, FingerprintType
    <2>6. found[i].ok => found[i].heard
      BY <2>2, <2>4, FingerprintHeard
    <2>7. QED
      BY <2>3, <2>5, <2>6 DEF Heard
  <1> HIDE DEF found, arp
  <1>5. bridged = [i \in 1 .. n |-> [found[i] EXCEPT !.bridge = i \in _local_gateway_candidates(found) /\ arp[i]]]
    BY <1>3 DEF _confirm_bridge_evidence
  <1>6. \A i \in 1 .. n : bridged[i] \in DeviceRow /\ bridged[i].dev = devs[i] /\ Heard(bridged[i])
    <2>1. SUFFICES ASSUME NEW i \in 1 .. n
                   PROVE  bridged[i] \in DeviceRow /\ bridged[i].dev = devs[i] /\ Heard(bridged[i])
      OBVIOUS
    <2>2. PICK b \in BOOLEAN : b = (i \in _local_gateway_candidates(found) /\ arp[i])
      BY <1>4, Zenon
    <2>3. bridged[i] = [found[i] EXCEPT !.bridge = b]
      BY <1>5, <2>2, Zenon
    <2>4. QED
      BY <1>4, <2>3 DEF DeviceRow, Heard
  <1> HIDE DEF bridged
  <1>7. \A i \in 1 .. n : batch[i] \in DeviceRow /\ batch[i].dev = devs[i] /\ Heard(batch[i])
    <2>1. SUFFICES ASSUME NEW i \in 1 .. n
                   PROVE  batch[i] \in DeviceRow /\ batch[i].dev = devs[i] /\ Heard(batch[i])
      OBVIOUS
    <2>2. batch[i] = [bridged[i] EXCEPT !.tier = assign_tier(bridged[i])]
      BY <1>2
    <2>3. assign_tier(bridged[i]) \in Tiers
      BY TierType
    <2>4. bridged[i] \in DeviceRow /\ bridged[i].dev = devs[i] /\ Heard(bridged[i])
      BY <1>6
    <2>5. QED
      BY <2>2, <2>3, <2>4 DEF DeviceRow, Heard
  <1>8. DOMAIN batch = 1 .. n
    BY <1>2
  <1>9. batch \in [1 .. n -> DeviceRow]
    BY <1>2, <1>7, <1>8
  <1> HIDE DEF batch
  <1>10. batch \in Seq(DeviceRow) /\ Len(batch) = n
    BY <1>9, <1>1, FunctionIsSeq
  <1>11. QED
    BY <1>7, <1>10 DEF RowsOf, batch

-----------------------------------------------------------------------------
(* The inductive invariant *)

EventValues == Tiers \cup {"evidence_present", "no_evidence", "none", "passed", "approaching"}
                     \cup {ToString(n) : n \in Nat}
Event == [dev : Devices, type : EVENT_TYPES, old : EventValues, new : EventValues,
          detected : Int, day : Nat, partial : BOOLEAN]
Trend == [vendor : Vendors, old : Support, new : Support, detected : Int]
Job == [at : {"idle", "probed", "device", "write", "notify", "snmp"},
        kind : {"none", "scan", "check-in", "push", "snmp"}, batch : Seq(DeviceRow),
        left : SUBSET Devices, vendors : SUBSET Vendors, who : Devices \cup {"none"},
        cand : SUBSET Event, found : SUBSET Event]

HwTypeOK ==
    /\ rows \subseteq DeviceRow /\ IsFiniteSet(rows)
    /\ events \in Seq(Event) /\ live \subseteq DOMAIN events
    /\ trends \in Seq(Trend)
    /\ job \in [Procs -> Job]
    /\ spool \in Seq(DeviceRow)
    /\ clock \in Nat /\ day \in Nat /\ jobs \in Nat /\ faults \in Nat
    /\ disturbed \subseteq Devices

(* What a process holds at each of its steps; what it is going to alert about is
   on record. *)
StepInv ==
    \A p \in Procs :
        /\ job[p].at # "probed" => job[p].batch = <<>>
        /\ job[p].at \notin {"device", "write"} => job[p].left = {}
        /\ job[p].at # "write" => job[p].who = "none" /\ job[p].cand = {}
        /\ job[p].at = "write" => job[p].who # "none" /\ IsFiniteSet(job[p].cand)
        /\ \A c \in job[p].cand : c.dev = job[p].who
        /\ job[p].at \in {"idle", "probed", "snmp"} => job[p].found = {}
        /\ job[p].found \subseteq ToSet(events)

(* Rows that wait for their commit, and the timestamp and day of everything that
   has them.  Timestamps are given once, and later ones not on an earlier day;
   at most one row of a device waits from a day gone by. *)
Waiting == ToSet(spool) \cup (UNION {ToSet(job[p].batch) : p \in Procs})
Marks ==
    {<<r.seen, r.day>> : r \in rows \cup Waiting}
      \cup {<<e.detected, e.day>> : e \in ToSet(events) \cup (UNION {job[p].cand : p \in Procs})}
StampInv ==
    /\ \A q, r \in rows \cup Waiting : q.seen = r.seen => q = r
    /\ \A x \in Marks : x[1] <= clock /\ x[2] <= day
    /\ \A x, y \in Marks : x[1] <= y[1] => x[2] <= y[2]
    /\ \A q, r \in ToSet(spool) : q.dev = r.dev => q = r
    /\ \A q, r \in Waiting : q.dev = r.dev /\ q.day < day /\ r.day < day => q = r

(* Devices that no comparison was lost of, their readings and their events, in
   the table or not. *)
Calm == Devices \ disturbed
Good(d) == {r \in rows : r.dev = d /\ r.ok}
Compares(p, d) == d \in job[p].left \/ job[p].who = d
History(d) == {i \in DOMAIN events : events[i].dev = d}
HistoryOf(d, type) == {i \in History(d) : events[i].type = type}

(* Two processes do not compare one device at once.  A device has readings as new
   as its events, or has lost them to retention: then it has at most one from
   before.  Its events are in the order of what they are about, and retention
   removes the first of them. *)
OrderInv ==
    \A d \in Calm :
        /\ \A p, q \in Procs : Compares(p, d) /\ Compares(q, d) => p = q
        /\ \A i \in History(d) :
              \/ \E r \in Good(d) : r.seen >= events[i].detected
              \/ \A q, r \in Good(d) \cup {x \in Waiting : x.dev = d} :
                    q.seen <= events[i].detected /\ r.seen <= events[i].detected => q = r
        /\ \A i, j \in History(d) : i < j => events[i].detected <= events[j].detected
        /\ \A i, j \in History(d) : i \notin live /\ j \in live => i < j

(* The types whose readings a day does not change, and what the window of three
   says of them. *)
Static == {"tier_crossing", "upstream_mitigated_change"}
Window(d) == recent_successful_hardware_rows(d, DEFAULT_M)
Changed(d, type) ==
    IF Len(Window(d)) < 2 THEN {}
    ELSE Changes(type, [i \in DOMAIN Window(d) |-> Reading(type, Window(d)[i])])

(* What a process is about to insert is about the newest reading, is news, one
   event of a type, and with it every change of the window is on record. *)
CandFits(d, cand) ==
    /\ \A c \in cand :
          /\ c.dev = d
          /\ \E r \in Good(d) : r.seen = c.detected
          /\ \A i \in History(d) : events[i].detected <= c.detected
          /\ ~ Known(events, EventsOf(d, c.type), c.new)
    /\ \A b, c \in cand : b.type = c.type => b = c
    /\ \A b, c \in cand : b.detected = c.detected
    /\ \A type \in Static : \A x \in Changed(d, type) :
          \/ \E c \in cand : c.type = type /\ c.new = x.new
          \/ /\ \A c \in cand : c.type # type
             /\ Known(events, HistoryOf(d, type), x.new)
CandInv ==
    \A p \in Procs : job[p].at = "write" /\ job[p].who \in Calm => CandFits(job[p].who, job[p].cand)

(* A device that nobody is comparing has its changes on record. *)
Recorded(d) ==
    \A type \in Static : \A x \in Changed(d, type) : Known(events, HistoryOf(d, type), x.new)
RecordInv ==
    \A d \in Calm : (\A p \in Procs : ~ Compares(p, d)) => Recorded(d)

HwInv ==
    /\ HwTypeOK
    /\ StepInv
    /\ StampInv
    /\ OrderInv
    /\ CandInv
    /\ RecordInv
    /\ NoRepeatedEvent

-----------------------------------------------------------------------------
(* Sequences of sets, windows and the most recent event *)

LEMMA SetToSeqFacts ==
    ASSUME NEW S, IsFiniteSet(S)
    PROVE  /\ SetToSeq(S) \in Seq(S)
           /\ Len(SetToSeq(S)) = Cardinality(S) /\ Cardinality(S) \in Nat
           /\ \A x \in S : \E i \in 1 .. Len(SetToSeq(S)) : SetToSeq(S)[i] = x
           /\ \A i, j \in 1 .. Len(SetToSeq(S)) : SetToSeq(S)[i] = SetToSeq(S)[j] => i = j
  <1> DEFINE n == Cardinality(S)
             s == SetToSeq(S)
  <1>1. n \in Nat /\ ExistsBijection(1 .. n, S)
    BY FS_CardinalityType
  <1>2. PICK f : f \in Bijection(1 .. n, S)
    BY <1>1 DEF ExistsBijection
  <1>3. f \in [1 .. n -> S] /\ IsInjective(f)
    BY <1>2 DEF Bijection, Injection, IsInjective
  <1>4. s \in [1 .. n -> S] /\ IsInjective(s)
    BY <1>3 DEF SetToSeq
  <1>5. s \in Injection(1 .. n, S)
    BY <1>4 DEF Injection, IsInjective
  <1>6. IsFiniteSet(1 .. n) /\ Cardinality(1 .. n) = n
    BY <1>1, FS_Interval
  <1>7. s \in Surjection(1 .. n, S)
    BY <1>5, <1>6, FS_Injection
  <1> HIDE DEF s
  <1>8. s \in Seq(S) /\ Len(s) = n
    BY <1>1, <1>4, FunctionIsSeq
  <1>9. QED
    BY <1>1, <1>4, <1>7, <1>8 DEF s, Surjection, IsInjective

(* The image of a finite set of positions, without an operator to pass. *)
LEMMA ImageFinite ==
    ASSUME NEW S, IsFiniteSet(S), NEW f, DOMAIN f = S
    PROVE  IsFiniteSet({f[x] : x \in S})
  <1> DEFINE T == {f[x] : x \in S}
             g == [x \in S |-> f[x]]
  <1>1. g \in Surjection(S, T)
    BY DEF Surjection
  <1>2. QED
    BY <1>1, FS_Surjection

Stamped(S) == /\ S \subseteq DeviceRow /\ IsFiniteSet(S)
              /\ \A q, r \in S : q.seen = r.seen => q = r

(* A rank is a place, and every place has its row. *)
LEMMA Ranks ==
    ASSUME NEW S, Stamped(S)
    PROVE  /\ Cardinality(S) \in Nat
           /\ \A r \in S : Rank(r, S) \in 1 .. Cardinality(S)
           /\ \A q, r \in S : q.seen < r.seen => Rank(r, S) < Rank(q, S)
           /\ \A i \in 1 .. Cardinality(S) : \E r \in S : Rank(r, S) = i
  <1> DEFINE n == Cardinality(S)
             From(r) == {q \in S : q.seen >= r.seen}
             f == [r \in S |-> Rank(r, S)]
  <1>1. n \in Nat /\ \A r \in S : r.seen \in Int
    BY FS_CardinalityType DEF Stamped, DeviceRow
  <1>2. \A r \in S : IsFiniteSet(From(r)) /\ Cardinality(From(r)) \in 1 .. n
    <2>1. SUFFICES ASSUME NEW r \in S
                   PROVE  IsFiniteSet(From(r)) /\ Cardinality(From(r)) \in 1 .. n
      OBVIOUS
    <2>2. From(r) \in SUBSET S /\ {r} \in SUBSET From(r)
      BY <1>1
    <2> HIDE DEF From
    <2>3. IsFiniteSet(From(r)) /\ Cardinality(From(r)) <= n
      BY <2>2, FS_Subset DEF Stamped
    <2>4. Cardinality({r}) = 1 /\ Cardinality({r}) <= Cardinality(From(r))
      BY <2>2, <2>3, FS_Subset, FS_Singleton
    <2>5. Cardinality(From(r)) \in Nat
      BY <2>3, FS_CardinalityType
    <2>6. QED
      BY <2>3, <2>4, <2>5, <1>1
  <1>3. \A q, r \in S : q.seen < r.seen => Cardinality(From(r)) < Cardinality(From(q))
    <2>1. SUFFICES ASSUME NEW q \in S, NEW r \in S, q.seen < r.seen
                   PROVE  Cardinality(From(r)) < Cardinality(From(q))
      OBVIOUS
    <2>2. From(r) \in SUBSET From(q) /\ q \in From(q) /\ q \notin From(r)
      BY <2>1, <1>1
    <2>3. IsFiniteSet(From(q)) /\ Cardinality(From(q)) \in Nat /\ Cardinality(From(r)) \in Nat
      BY <1>2
    <2> HIDE DEF From
    <2>4. Cardinality(From(r)) <= Cardinality(From(q)) /\ Cardinality(From(r)) # Cardinality(From(q))
      BY <2>2, <2>3, FS_Subset
    <2>5. QED
      BY <2>3, <2>4
  <1>4. \A r \in S : Rank(r, S) = Cardinality(From(r))
    BY DEF Rank
  <1> HIDE DEF From
  <1>5. \A r \in S : Rank(r, S) \in 1 .. n
    BY <1>2, <1>4
  <1>6. \A q, r \in S : q.seen < r.seen => Rank(r, S) < Rank(q, S)
    BY <1>3, <1>4
  <1>7. f \in Injection(S, 1 .. n)
    <2>1. \A q, r \in S : f[q] = f[r] => q = r
      <3>1. SUFFICES ASSUME NEW q \in S, NEW r \in S, Rank(q, S) = Rank(r, S)
                     PROVE  q = r
        OBVIOUS
      <3>2. ~ (q.seen < r.seen) /\ ~ (r.seen < q.seen)
        BY <1>5, <1>6, <3>1
      <3>3. q.seen = r.seen
        BY <3>2, <1>1
      <3>4. QED
        BY <3>3 DEF Stamped
    <2>2. QED
      BY <1>5, <2>1 DEF Injection, IsInjective
  <1>8. IsFiniteSet(1 .. n) /\ Cardinality(1 .. n) = n
    BY <1>1, FS_Interval
  <1>9. f \in Surjection(S, 1 .. n)
    BY <1>7, <1>8, FS_Injection
  <1>10. \A i \in 1 .. n : \E r \in S : Rank(r, S) = i
    BY <1>9 DEF Surjection
  <1>11. QED
    BY <1>1, <1>5, <1>6, <1>10

(* The newest rows: each once, the first the newest. *)
LEMMA NewestFacts ==
    ASSUME NEW S, Stamped(S), NEW m \in Nat
    PROVE  /\ Newest(S, m) \in Seq(DeviceRow)
           /\ Len(Newest(S, m)) = IF Cardinality(S) < m THEN Cardinality(S) ELSE m
           /\ Cardinality(S) \in Nat
           /\ \A i \in 1 .. Len(Newest(S, m)) : Newest(S, m)[i] \in S
           /\ \A i, j \in 1 .. Len(Newest(S, m)) : Newest(S, m)[i] = Newest(S, m)[j] => i = j
           /\ Len(Newest(S, m)) > 0 => \A r \in S : r.seen <= Newest(S, m)[1].seen
  <1> DEFINE n == Cardinality(S)
             k == IF n < m THEN n ELSE m
             At(i) == CHOOSE r \in S : Rank(r, S) = i
             w == Newest(S, m)
  <1>1. n \in Nat /\ k \in Nat /\ k <= n
    BY Ranks
  <1>2. w = [i \in 1 .. k |-> At(i)]
    BY DEF Newest
  <1>3. \A i \in 1 .. k : At(i) \in S /\ Rank(At(i), S) = i
    <2>1. \A i \in 1 .. k : \E r \in S : Rank(r, S) = i
      BY <1>1, Ranks
    <2>2. QED
      BY <2>1
  <1> HIDE DEF At
  <1>4. \A i \in 1 .. k : w[i] \in S /\ Rank(w[i], S) = i
    BY <1>2, <1>3
  <1>5. w \in [1 .. k -> DeviceRow]
    BY <1>2, <1>3 DEF Stamped
  <1> HIDE DEF w
  <1>6. w \in Seq(DeviceRow) /\ Len(w) = k
    BY <1>1, <1>5, FunctionIsSeq
  <1>7. \A i, j \in 1 .. k : w[i] = w[j] => i = j
    BY <1>4
  <1>8. k > 0 => \A r \in S : r.seen <= w[1].seen
    <2>1. SUFFICES ASSUME k > 0, NEW r \in S, ~ (r.seen <= w[1].seen)
                   PROVE  FALSE
      OBVIOUS
    <2>2. w[1] \in S /\ Rank(w[1], S) = 1
      BY <1>1, <1>4, <2>1
    <2>3. w[1].seen \in Int /\ r.seen \in Int
      BY <2>2 DEF Stamped, DeviceRow
    <2>4. Rank(r, S) < Rank(w[1], S) /\ Rank(r, S) \in 1 .. n
      BY <2>1, <2>2, <2>3, Ranks
    <2>5. QED
      BY <2>2, <2>4, <1>1
  <1>9. QED
    BY <1>1, <1>4, <1>6, <1>7, <1>8 DEF w

(* Where the events of a set are in the order of what they are about, the most
   recent one is the last. *)
LastOf(ids, m) == m \in ids /\ \A i \in ids : i <= m

LEMMA LastIsMostRecent ==
    ASSUME NEW table, NEW ids \in SUBSET Nat, NEW m, LastOf(ids, m),
           \A i \in ids : table[i].detected \in Int,
           \A i, j \in ids : i < j => table[i].detected <= table[j].detected
    PROVE  MostRecent(table, ids) = m /\ \A value : Known(table, ids, value) <=> table[m].new = value
  <1> DEFINE Recent(i) == \A j \in ids : \/ table[j].detected < table[i].detected
                                         \/ table[j].detected = table[i].detected /\ j <= i
  <1>1. m \in ids /\ Recent(m)
    <2>1. m \in ids /\ \A i \in ids : i \in Nat /\ i <= m
      BY DEF LastOf
    <2>2. SUFFICES ASSUME NEW j \in ids
                   PROVE  \/ table[j].detected < table[m].detected
                          \/ table[j].detected = table[m].detected /\ j <= m
      BY <2>1
    <2>3. j = m \/ j < m
      BY <2>1
    <2>4. table[j].detected \in Int /\ table[m].detected \in Int
      BY <2>1
    <2>5. CASE j < m
      <3>1. table[j].detected <= table[m].detected
        BY <2>1, <2>5
      <3>2. QED
        BY <3>1, <2>4, <2>1
    <2>6. QED
      BY <2>1, <2>3, <2>5
  <1>2. \A i \in ids : Recent(i) => i = m
    <2>1. SUFFICES ASSUME NEW i \in ids, Recent(i), i # m
                   PROVE  FALSE
      OBVIOUS
    <2>2. m \in ids /\ m \in Nat /\ i \in Nat /\ i < m
      BY <2>1 DEF LastOf
    <2>3. table[i].detected <= table[m].detected
      BY <2>2
    <2>4. QED
      BY <2>1, <2>2, <2>3
  <1>3. MostRecent(table, ids) = m
    BY <1>1, <1>2 DEF MostRecent
  <1>4. QED
    BY <1>1, <1>3 DEF Known

LEMMA LeastNat ==
    ASSUME NEW T \in SUBSET Nat, T # {}
    PROVE  \E n \in T : \A m \in T : n <= m
  <1>1. PICK x \in T : \A y \in T : ~(<<y, x>> \in OpToRel(<, Nat))
    BY NatLessThanWellFounded, WFMin
  <1>2. \A y \in T : ~(y < x)
    BY <1>1 DEF OpToRel
  <1>3. QED
    BY <1>2

LEMMA LastExists ==
    ASSUME NEW n \in Nat, NEW ids \in SUBSET (1 .. n), ids # {}
    PROVE  \E m : LastOf(ids, m)
  <1> DEFINE S == {n - i : i \in ids}
  <1>1. \A i \in ids : i \in Nat /\ n - i \in Nat
    OBVIOUS
  <1>2. S \in SUBSET Nat /\ S # {}
    BY <1>1
  <1>3. PICK k \in S : \A j \in S : k <= j
    BY <1>2, LeastNat
  <1>4. PICK m \in ids : k = n - m
    BY <1>3
  <1>5. \A i \in ids : i <= m
    <2>1. SUFFICES ASSUME NEW i \in ids
                   PROVE  i <= m
      OBVIOUS
    <2>2. n - m <= n - i
      BY <1>3, <1>4
    <2>3. QED
      BY <2>2, <1>1
  <1>6. QED
    BY <1>4, <1>5 DEF LastOf

-----------------------------------------------------------------------------
(* What the comparison of a window finds *)

LEMMA CatalogueFinite ==
    ASSUME NEW r, NEW q
    PROVE  /\ Cardinality(correlate_device(r)) \in Nat
           /\ Cardinality(cve_delta(r, q)) \in Nat
  <1>1. \A x : IsFiniteSet(correlate_device(x))
    <2>1. SUFFICES ASSUME NEW x
                   PROVE  IsFiniteSet(correlate_device(x))
      OBVIOUS
    <2>2. /\ IsFiniteSet({"CVE-2018-7821"}) /\ IsFiniteSet({"CVE-2017-16744"}) /\ IsFiniteSet({})
      BY FS_Singleton, FS_EmptySet
    <2>3. IsFiniteSet({"CVE-2018-7789", "CVE-2018-7821"})
      <3>1. {"CVE-2018-7789", "CVE-2018-7821"} = {"CVE-2018-7821"} \cup {"CVE-2018-7789"}
        OBVIOUS
      <3>2. QED
        BY <3>1, <2>2, FS_AddElement
    <2>4. correlate_device(x) \in {{"CVE-2018-7789", "CVE-2018-7821"}, {"CVE-2018-7821"},
                                   {"CVE-2017-16744"}, {}}
      <3>1. CASE x.vendor = "Schneider" /\ x.fw = "1.6.1"
        BY <3>1 DEF correlate_device
      <3>2. CASE x.vendor = "Schneider" /\ x.fw = "1.7"
        BY <3>2 DEF correlate_device
      <3>3. CASE x.vendor = "JohnsonControls"
        BY <3>3 DEF correlate_device
      <3>4. CASE ~ (x.vendor = "Schneider" /\ x.fw = "1.6.1") /\ ~ (x.vendor = "Schneider" /\ x.fw = "1.7")
                 /\ ~ (x.vendor = "JohnsonControls")
        BY <3>4 DEF correlate_device
      <3>5. QED
        BY <3>1, <3>2, <3>3, <3>4
    <2>5. QED
      BY <2>2, <2>3, <2>4
  <1>2. IsFiniteSet(cve_delta(r, q))
    <2>1. cve_delta(r, q) \in SUBSET correlate_device(q)
      BY DEF cve_delta
    <2>2. QED
      BY <1>1, <2>1, FS_Subset
  <1>3. QED
    BY <1>1, <1>2, FS_CardinalityType

LEMMA ReadingType ==
    ASSUME NEW r \in DeviceRow, NEW type \in EVENT_TYPES \ {"cve_delta"}
    PROVE  Reading(type, r) \in EventValues /\ (type \in Static => Reading(type, r) # "none")
  <1>1. CASE type = "tier_crossing"
    BY <1>1 DEF Reading, EventValues, DeviceRow, Tiers
  <1>2. CASE type = "upstream_mitigated_change"
    BY <1>2 DEF Reading, bridge_evidence_state, EventValues
  <1>3. CASE type = "eol_state_change"
    <2>1. eol_state_for_row(r) \in {"none", "passed", "approaching"}
      BY DEF eol_state_for_row, eol_state
    <2>2. QED
      BY <1>3, <2>1 DEF Reading, EventValues, Static
  <1>4. QED
    BY <1>1, <1>2, <1>3 DEF EVENT_TYPES

(* A comparison finds at most one change of a type, to the newest value. *)
LEMMA ChangesFacts ==
    ASSUME NEW type, NEW n \in Nat, NEW vals, DOMAIN vals = 1 .. n
    PROVE  /\ IsFiniteSet(Changes(type, vals))
           /\ \A x \in Changes(type, vals) : \E i \in 1 .. n :
                 x = [type |-> type, old |-> vals[i], new |-> vals[1]]
           /\ \A x, y \in Changes(type, vals) : x = y
           /\ Changes(type, vals) # {} => Confirmed(vals)
  <1> DEFINE other == {i \in DOMAIN vals : vals[i] # vals[1]}
             x0 == [type |-> type, old |-> vals[Min(other)], new |-> vals[1]]
  <1>1. CASE Confirmed(vals) /\ other # {}
    <2>1. other \in SUBSET Nat
      OBVIOUS
    <2>2. Min(other) \in other
      <3> HIDE DEF other
      <3>1. PICK m \in other : \A k \in other : m <= k
        BY <2>1, <1>1, LeastNat
      <3>2. QED
        BY <3>1 DEF Min
    <2>3. Changes(type, vals) = {x0}
      BY <1>1 DEF Changes
    <2> HIDE DEF x0
    <2>4. IsFiniteSet({x0})
      BY FS_Singleton
    <2>5. Min(other) \in 1 .. n
      BY <2>2
    <2>6. QED
      BY <1>1, <2>3, <2>4, <2>5 DEF x0
  <1>2. CASE ~ (Confirmed(vals) /\ other # {})
    <2>1. Changes(type, vals) = {}
      BY <1>2 DEF Changes
    <2>2. QED
      BY <2>1, FS_EmptySet
  <1>3. QED
    BY <1>1, <1>2

Timed == EVENT_TYPES \ {"cve_delta"}
Values(w, type) == [i \in DOMAIN w |-> Reading(type, w[i])]
CveChanges(w) ==
    {[type |-> "cve_delta", old |-> ToString(Cardinality(correlate_device(w[2]))), new |-> ToString(n)] :
       n \in {Cardinality(cve_delta(w[2], w[1]))} \ {0}}

LEMMA Candidates ==
    ASSUME NEW w, Len(w) >= 2
    PROVE  compute_drift_candidates(w) = (UNION {Changes(type, Values(w, type)) : type \in Timed}) \cup CveChanges(w)
  <1>1. ~ (Len(w) < 2)
    OBVIOUS
  <1>2. QED
    BY <1>1, Zenon DEF compute_drift_candidates, Timed, Values, CveChanges

Change == [type : EVENT_TYPES, old : EventValues, new : EventValues]

LEMMA CandidateFacts ==
    ASSUME NEW w \in Seq(DeviceRow), Len(w) >= 2
    PROVE  LET C == compute_drift_candidates(w) IN
           /\ IsFiniteSet(C) /\ C \subseteq Change
           /\ \A x, y \in C : x.type = y.type => x = y
           /\ \A type \in Timed : \A x : x \in Changes(type, Values(w, type)) <=> x \in C /\ x.type = type
  <1> DEFINE C == compute_drift_candidates(w)
             F(type) == Changes(type, Values(w, type))
             V == CveChanges(w)
  <1>1. C = (UNION {F(type) : type \in Timed}) \cup V
    BY Candidates
  <1>2. Timed = {"tier_crossing", "upstream_mitigated_change", "eol_state_change"}
    BY DEF Timed, EVENT_TYPES
  <1>3. \A type \in Timed :
          /\ IsFiniteSet(F(type))
          /\ \A x \in F(type) : x \in Change /\ x.type = type
          /\ \A x, y \in F(type) : x = y
    <2>1. SUFFICES ASSUME NEW type \in Timed
                   PROVE  /\ IsFiniteSet(F(type))
                          /\ \A x \in F(type) : x \in Change /\ x.type = type
                          /\ \A x, y \in F(type) : x = y
      OBVIOUS
    <2> DEFINE n == Len(w)
               vals == Values(w, type)
    <2>2. n \in Nat /\ n >= 2 /\ DOMAIN vals = 1 .. n
      BY DEF Values
    <2>3. \A i \in 1 .. n : vals[i] \in EventValues
      <3>1. \A i \in 1 .. n : w[i] \in DeviceRow /\ vals[i] = Reading(type, w[i])
        BY DEF Values
      <3>2. QED
        BY <3>1, ReadingType DEF Timed
    <2> HIDE DEF vals, n
    <2>4. F(type) = Changes(type, vals)
      BY DEF vals
    <2>5. /\ IsFiniteSet(F(type))
          /\ \A x \in F(type) : \E i \in 1 .. n : x = [type |-> type, old |-> vals[i], new |-> vals[1]]
          /\ \A x, y \in F(type) : x = y
      BY <2>2, <2>4, ChangesFacts
    <2>6. \A x \in F(type) : x \in Change /\ x.type = type
      BY <2>2, <2>3, <2>5 DEF Change, Timed
    <2>7. QED
      BY <2>5, <2>6
  <1>4. /\ IsFiniteSet(V)
        /\ \A x \in V : x \in Change /\ x.type = "cve_delta"
        /\ \A x, y \in V : x = y
    <2> DEFINE n == Cardinality(cve_delta(w[2], w[1]))
               m == Cardinality(correlate_device(w[2]))
               x0 == [type |-> "cve_delta", old |-> ToString(m), new |-> ToString(n)]
    <2>1. n \in Nat /\ m \in Nat
      BY CatalogueFinite
    <2>2. ToString(n) \in EventValues /\ ToString(m) \in EventValues
      BY <2>1 DEF EventValues
    <2>3. V \subseteq {x0}
      BY DEF CveChanges
    <2> HIDE DEF n, m
    <2>4. x0 \in Change /\ x0.type = "cve_delta"
      BY <2>2 DEF Change, EVENT_TYPES
    <2> HIDE DEF x0
    <2>5. IsFiniteSet(V)
      BY <2>3, FS_Singleton, FS_Subset
    <2>6. QED
      BY <2>3, <2>4, <2>5
  <1> HIDE DEF F, V, C
  <1>5. C = (F("tier_crossing") \cup F("upstream_mitigated_change")) \cup (F("eol_state_change") \cup V)
    BY <1>1, <1>2
  <1>6. IsFiniteSet(C)
    <2>1. IsFiniteSet(F("tier_crossing") \cup F("upstream_mitigated_change"))
      BY <1>2, <1>3, FS_Union
    <2>2. IsFiniteSet(F("eol_state_change") \cup V)
      BY <1>2, <1>3, <1>4, FS_Union
    <2>3. QED
      BY <1>5, <2>1, <2>2, FS_Union
  <1>7. \A x \in C : \/ \E type \in Timed : x \in F(type) /\ x.type = type
                     \/ x \in V /\ x.type = "cve_delta"
    BY <1>1, <1>3, <1>4
  <1>8. C \subseteq Change
    BY <1>7, <1>3, <1>4
  <1>9. "cve_delta" \notin Timed
    BY DEF Timed
  <1>10. \A x, y \in C : x.type = y.type => x = y
    BY <1>3, <1>4, <1>7, <1>9
  <1>11. \A type \in Timed : \A x : x \in F(type) <=> x \in C /\ x.type = type
    BY <1>1, <1>3, <1>7, <1>9
  <1>12. QED
    BY <1>6, <1>8, <1>10, <1>11 DEF C, F

(* What reconcile_device_history is going to insert. *)
LEMMA NewEventsFacts ==
    ASSUME HwTypeOK, StampInv, NEW d \in Devices
    PROVE  LET w == Window(d)
               N == NewEvents(d) IN
           /\ IsFiniteSet(N) /\ N \subseteq Event
           /\ \A c \in N : /\ c.dev = d /\ ~ Known(events, EventsOf(d, c.type), c.new)
                           /\ Len(w) >= 2 /\ c.detected = w[1].seen /\ c.day = w[1].day
           /\ \A b, c \in N : b.type = c.type => b = c
           /\ \A type \in Static : \A x \in Changed(d, type) :
                 \/ \E c \in N : c.type = type /\ c.new = x.new
                 \/ /\ \A c \in N : c.type # type
                    /\ Known(events, EventsOf(d, type), x.new)
  <1> DEFINE w == Window(d)
             N == NewEvents(d)
             C == compute_drift_candidates(w)
             X == {x \in C : ~ Known(events, EventsOf(d, x.type), x.new)}
             E(c) == [dev |-> d, type |-> c.type, old |-> c.old, new |-> c.new,
                      detected |-> w[1].seen, day |-> w[1].day, partial |-> w[1].partial]
             f == [c \in X |-> E(c)]
  <1>1. w \in Seq(DeviceRow)
    <2>1. Stamped(Good(d))
      <3>1. Good(d) \in SUBSET rows
        BY DEF Good
      <3>2. IsFiniteSet(Good(d))
        BY <3>1, FS_Subset DEF HwTypeOK
      <3>3. QED
        BY <3>1, <3>2 DEF Stamped, HwTypeOK, StampInv
    <2>2. w = Newest(Good(d), DEFAULT_M)
      BY DEF Window, recent_successful_hardware_rows, Good
    <2>3. DEFAULT_M \in Nat
      BY DEF DEFAULT_M
    <2>4. QED
      BY <2>1, <2>2, <2>3, NewestFacts
  <1>2. N = {E(c) : c \in X}
    BY DEF NewEvents, Window
  <1>3. CASE ~ (Len(w) >= 2)
    <2>1. Len(w) < 2
      BY <1>1, <1>3
    <2>2. C = {}
      BY <2>1 DEF compute_drift_candidates
    <2>3. N = {}
      BY <1>2, <2>2
    <2>4. \A type : Changed(d, type) = {}
      BY <2>1 DEF Changed
    <2>5. QED
      BY <2>3, <2>4, FS_EmptySet
  <1>4. CASE Len(w) >= 2
    <2>1. /\ IsFiniteSet(C) /\ C \subseteq Change
          /\ \A x, y \in C : x.type = y.type => x = y
          /\ \A type \in Timed : \A x : x \in Changes(type, Values(w, type)) <=> x \in C /\ x.type = type
      BY <1>1, <1>4, CandidateFacts
    <2>2. w[1] \in DeviceRow
      BY <1>1, <1>4
    <2>3. w[1].seen \in Int /\ w[1].day \in Nat /\ w[1].partial \in BOOLEAN
      BY <2>2 DEF DeviceRow
    <2>4. \A type \in Static : \A x : x \in Changed(d, type) <=> x \in C /\ x.type = type
      <3>1. \A type \in Static : type \in Timed
        BY DEF Static, Timed, EVENT_TYPES
      <3>2. \A type : Changed(d, type) = Changes(type, Values(w, type))
        BY <1>1, <1>4 DEF Changed, Values
      <3>3. QED
        BY <2>1, <3>1, <3>2
    <2> HIDE DEF C, w
    <2>5. X \in SUBSET C
      OBVIOUS
    <2>6. IsFiniteSet(X)
      BY <2>1, <2>5, FS_Subset
    <2> HIDE DEF X
    <2>7. \A c \in X : f[c] = E(c) /\ E(c) \in Event
      <3>1. SUFFICES ASSUME NEW c \in X
                     PROVE  E(c) \in Event
        OBVIOUS
      <3>2. c \in Change
        BY <2>1, <2>5
      <3>3. c.type \in EVENT_TYPES /\ c.old \in EventValues /\ c.new \in EventValues
        BY <3>2 DEF Change
      <3>4. QED
        BY <3>3, <2>3 DEF Event
    <2>8. IsFiniteSet(N) /\ N \subseteq Event
      <3>1. N = {f[c] : c \in X} /\ DOMAIN f = X
        BY <1>2, <2>7
      <3>2. N \subseteq Event
        BY <1>2, <2>7
      <3> HIDE DEF f, N
      <3>3. QED
        BY <3>1, <3>2, <2>6, ImageFinite
    <2>9. \A e \in N : \E c \in X : e = E(c)
      BY <1>2
    <2>10. \A c \in X : E(c) \in N
      BY <1>2
    <2>11. \A c \in X : c \in C /\ ~ Known(events, EventsOf(d, c.type), c.new)
      BY DEF X
    <2>12. \A c \in C : c \in X \/ Known(events, EventsOf(d, c.type), c.new)
      BY DEF X
    <2> HIDE DEF N, f
    <2>13. \A e \in N : /\ e.dev = d /\ ~ Known(events, EventsOf(d, e.type), e.new)
                        /\ e.detected = w[1].seen /\ e.day = w[1].day
      BY <2>9, <2>11
    <2>14. \A b, c \in N : b.type = c.type => b = c
      BY <2>1, <2>9, <2>11
    <2>15. \A type \in Static : \A x \in Changed(d, type) :
                 \/ \E c \in N : c.type = type /\ c.new = x.new
                 \/ /\ \A c \in N : c.type # type
                    /\ Known(events, EventsOf(d, type), x.new)
      <3>1. SUFFICES ASSUME NEW type \in Static, NEW x \in Changed(d, type)
                     PROVE  \/ \E c \in N : c.type = type /\ c.new = x.new
                            \/ /\ \A c \in N : c.type # type
                               /\ Known(events, EventsOf(d, type), x.new)
        OBVIOUS
      <3>2. x \in C /\ x.type = type
        BY <2>4
      <3>3. CASE x \in X
        BY <3>2, <3>3, <2>10
      <3>4. CASE x \notin X
        <4>1. Known(events, EventsOf(d, type), x.new)
          BY <2>12, <3>2, <3>4
        <4>2. \A c \in N : c.type # type
          <5>1. SUFFICES ASSUME NEW c \in N, c.type = type
                         PROVE  FALSE
            OBVIOUS
          <5>2. PICK y \in X : c = E(y)
            BY <2>9
          <5>3. y.type = type /\ y \in C
            BY <5>1, <5>2, <2>11
          <5>4. y = x
            BY <5>3, <3>2, <2>1
          <5>5. QED
            BY <5>4, <3>4
        <4>3. QED
          BY <4>1, <4>2
      <3>5. QED
        BY <3>3, <3>4
    <2>16. QED
      BY <1>4, <2>8, <2>13, <2>14, <2>15 DEF N, w
  <1>5. QED
    BY <1>3, <1>4

-----------------------------------------------------------------------------
(* Batches *)

LEMMA DevsOnFacts ==
    ASSUME NEW route, NEW among \in SUBSET Devices
    PROVE  LET s == DevsOn(route, among) IN
           /\ s \in Seq(Devices)
           /\ \A i \in 1 .. Len(s) : s[i] \in among /\ Route[s[i]] = route
           /\ \A i, j \in 1 .. Len(s) : s[i] = s[j] => i = j
  <1> DEFINE S == {d \in among : Route[d] = route}
  <1>1. S \in SUBSET Devices
    OBVIOUS
  <1>2. IsFiniteSet(S)
    BY <1>1, HardwareAssumption, FS_Subset
  <1>3. DevsOn(route, among) = SetToSeq(S)
    BY DEF DevsOn
  <1>4. \A d \in S : d \in among /\ Route[d] = route
    OBVIOUS
  <1> HIDE DEF S
  <1>5. /\ SetToSeq(S) \in Seq(S)
        /\ \A i, j \in 1 .. Len(SetToSeq(S)) : SetToSeq(S)[i] = SetToSeq(S)[j] => i = j
    BY <1>2, SetToSeqFacts
  <1>6. QED
    BY <1>1, <1>3, <1>4, <1>5

LEMMA ConcatFacts ==
    ASSUME NEW S, NEW x \in Seq(S), NEW y \in Seq(S)
    PROVE  /\ x \o y \in Seq(S) /\ Len(x \o y) = Len(x) + Len(y)
           /\ \A i \in 1 .. Len(x) + Len(y) : (x \o y)[i] = IF i <= Len(x) THEN x[i] ELSE y[i - Len(x)]
  OBVIOUS

LEMMA ScanBatchFacts ==
    ASSUME NEW among \in SUBSET Devices, NEW a, \A d \in among : Route[d] # "snmp" => a[d] \in Answer
    PROVE  LET b == ScanBatch(among, a) IN
           /\ b \in Seq(DeviceRow)
           /\ \A i \in 1 .. Len(b) : b[i].dev \in among /\ Route[b[i].dev] # "snmp" /\ Heard(b[i])
           /\ \A i, j \in 1 .. Len(b) : b[i].dev = b[j].dev => i = j
  <1> DEFINE ssh == DevsOn("ssh", among)
             ot == build_ot_supplemental_endpoints(among)
             x == fingerprint_hardware(ssh, a, "ssh")
             y == fingerprint_hardware(ot, a, "ot")
  <1>1. /\ ssh \in Seq(Devices) /\ \A i \in 1 .. Len(ssh) : ssh[i] \in among /\ Route[ssh[i]] = "ssh"
        /\ \A i, j \in 1 .. Len(ssh) : ssh[i] = ssh[j] => i = j
    BY DevsOnFacts
  <1>2. /\ ot \in Seq(Devices) /\ \A i \in 1 .. Len(ot) : ot[i] \in among /\ Route[ot[i]] = "ot"
        /\ \A i, j \in 1 .. Len(ot) : ot[i] = ot[j] => i = j
    <2>1. CASE EnableOt
      BY <2>1, DevsOnFacts DEF build_ot_supplemental_endpoints
    <2>2. CASE ~ EnableOt
      BY <2>2 DEF build_ot_supplemental_endpoints
    <2>3. QED
      BY <2>1, <2>2
  <1>3. ScanBatch(among, a) = x \o y
    BY DEF ScanBatch
  <1> HIDE DEF ssh, ot
  <1>4. \A i \in 1 .. Len(ssh) : a[ssh[i]] \in Answer
    BY <1>1
  <1>5. \A i \in 1 .. Len(ot) : a[ot[i]] \in Answer
    BY <1>2
  <1>6. RowsOf(x, ssh) /\ RowsOf(y, ot)
    BY <1>1, <1>2, <1>4, <1>5, HardwareBatchType
  <1> HIDE DEF x, y
  <1> DEFINE b == x \o y
  <1>7. /\ x \in Seq(DeviceRow) /\ Len(x) = Len(ssh) /\ \A i \in 1 .. Len(ssh) : x[i].dev = ssh[i] /\ Heard(x[i])
        /\ y \in Seq(DeviceRow) /\ Len(y) = Len(ot) /\ \A i \in 1 .. Len(ot) : y[i].dev = ot[i] /\ Heard(y[i])
        /\ Len(ssh) \in Nat /\ Len(ot) \in Nat
    BY <1>6, <1>1, <1>2 DEF RowsOf
  <1>7a. /\ b \in Seq(DeviceRow) /\ Len(b) = Len(ssh) + Len(ot)
         /\ \A i \in 1 .. Len(x) + Len(y) : b[i] = IF i <= Len(x) THEN x[i] ELSE y[i - Len(x)]
    <2>1. x \in Seq(DeviceRow) /\ y \in Seq(DeviceRow)
      BY <1>7
    <2>2. /\ x \o y \in Seq(DeviceRow) /\ Len(x \o y) = Len(x) + Len(y)
          /\ \A i \in 1 .. Len(x) + Len(y) : (x \o y)[i] = IF i <= Len(x) THEN x[i] ELSE y[i - Len(x)]
      BY <2>1, ConcatFacts
    <2>3. QED
      BY <2>2, <1>7
  <1> HIDE DEF b
  <1>8. \A i \in 1 .. Len(b) :
           /\ Heard(b[i])
           /\ \/ i <= Len(ssh) /\ b[i].dev = ssh[i] /\ i \in 1 .. Len(ssh)
              \/ i > Len(ssh) /\ b[i].dev = ot[i - Len(ssh)] /\ i - Len(ssh) \in 1 .. Len(ot)
    <2>1. SUFFICES ASSUME NEW i \in 1 .. Len(b)
                   PROVE  /\ Heard(b[i])
                          /\ \/ i <= Len(ssh) /\ b[i].dev = ssh[i] /\ i \in 1 .. Len(ssh)
                             \/ i > Len(ssh) /\ b[i].dev = ot[i - Len(ssh)] /\ i - Len(ssh) \in 1 .. Len(ot)
      OBVIOUS
    <2>2. i \in 1 .. Len(x) + Len(y)
      BY <1>7, <1>7a
    <2>3. CASE i <= Len(x)
      <3>1. b[i] = x[i] /\ i \in 1 .. Len(ssh)
        BY <1>7, <1>7a, <2>2, <2>3
      <3>2. QED
        BY <3>1, <1>7
    <2>4. CASE ~ (i <= Len(x))
      <3>1. b[i] = y[i - Len(x)]
        BY <1>7a, <2>2, <2>4
      <3>2. i - Len(ssh) \in 1 .. Len(ot) /\ i > Len(ssh) /\ Len(x) = Len(ssh)
        BY <1>7, <2>2, <2>4
      <3>3. QED
        BY <3>1, <3>2, <1>7
    <2>5. QED
      BY <2>3, <2>4
  <1>9. \A i \in 1 .. Len(b) : b[i].dev \in among /\ Route[b[i].dev] # "snmp" /\ Heard(b[i])
    BY <1>1, <1>2, <1>8
  <1>10. \A i, j \in 1 .. Len(b) : b[i].dev = b[j].dev => i = j
    <2>1. SUFFICES ASSUME NEW i \in 1 .. Len(b), NEW j \in 1 .. Len(b), b[i].dev = b[j].dev
                   PROVE  i = j
      OBVIOUS
    <2>2. Len(ssh) \in Nat
      BY <1>1
    <2>a. ASSUME NEW k \in 1 .. Len(b), k <= Len(ssh)
          PROVE  b[k].dev = ssh[k] /\ k \in 1 .. Len(ssh) /\ Route[b[k].dev] = "ssh"
      <3>1. b[k].dev = ssh[k] /\ k \in 1 .. Len(ssh)
        BY <1>8, <2>2, <2>a
      <3>2. QED
        BY <1>1, <3>1
    <2>b. ASSUME NEW k \in 1 .. Len(b), k > Len(ssh)
          PROVE  b[k].dev = ot[k - Len(ssh)] /\ k - Len(ssh) \in 1 .. Len(ot) /\ Route[b[k].dev] = "ot"
      <3>1. ~ (k <= Len(ssh))
        BY <2>2, <2>b
      <3>2. b[k].dev = ot[k - Len(ssh)] /\ k - Len(ssh) \in 1 .. Len(ot)
        BY <1>8, <2>b, <3>1, Zenon
      <3>3. QED
        BY <1>2, <3>2
    <2>3. CASE i <= Len(ssh) /\ j <= Len(ssh)
      <3>1. ssh[i] = ssh[j] /\ i \in 1 .. Len(ssh) /\ j \in 1 .. Len(ssh)
        BY <2>a, <2>1, <2>3
      <3>2. QED
        BY <1>1, <3>1
    <2>4. CASE i > Len(ssh) /\ j > Len(ssh)
      <3>1. /\ ot[i - Len(ssh)] = ot[j - Len(ssh)]
            /\ i - Len(ssh) \in 1 .. Len(ot) /\ j - Len(ssh) \in 1 .. Len(ot)
        BY <2>b, <2>1, <2>4
      <3>2. i - Len(ssh) = j - Len(ssh)
        BY <1>2, <3>1
      <3>3. QED
        BY <3>2, <2>2
    <2>5. CASE i <= Len(ssh) /\ j > Len(ssh)
      <3>1. Route[b[i].dev] = "ssh" /\ Route[b[j].dev] = "ot"
        BY <2>a, <2>b, <2>5
      <3>2. QED
        BY <3>1, <2>1
    <2>6. CASE i > Len(ssh) /\ j <= Len(ssh)
      <3>1. Route[b[j].dev] = "ssh" /\ Route[b[i].dev] = "ot"
        BY <2>a, <2>b, <2>6
      <3>2. QED
        BY <3>1, <2>1
    <2>7. QED
      BY <2>2, <2>3, <2>4, <2>5, <2>6
  <1>11. QED
    BY <1>3, <1>7, <1>9, <1>10 DEF b

LEMMA SnmpBatchFacts ==
    ASSUME NEW a
    PROVE  LET b == SnmpBatch(a) IN
           /\ b \in Seq(DeviceRow)
           /\ \A i \in 1 .. Len(b) : Route[b[i].dev] = "snmp" /\ Heard(b[i])
           /\ \A i, j \in 1 .. Len(b) : b[i].dev = b[j].dev => i = j
  <1> DEFINE devs == DevsOn("snmp", Devices)
             n == Len(devs)
             b == SnmpBatch(a)
  <1>1. /\ devs \in Seq(Devices) /\ \A i \in 1 .. n : Route[devs[i]] = "snmp"
        /\ \A i, j \in 1 .. n : devs[i] = devs[j] => i = j
    BY DevsOnFacts
  <1>2. b = [i \in DOMAIN devs |-> SnmpPhaseRow(devs[i], a[devs[i]])]
    BY DEF SnmpBatch
  <1> HIDE DEF devs
  <1>3. n \in Nat /\ DOMAIN devs = 1 .. n /\ \A i \in 1 .. n : devs[i] \in Devices
    BY <1>1
  <1>4. \A d \in Devices : \A x : /\ SnmpPhaseRow(d, x) \in DeviceRow /\ SnmpPhaseRow(d, x).dev = d
                                 /\ SnmpPhaseRow(d, x).method = "snmp"
    <2>1. SUFFICES ASSUME NEW d \in Devices, NEW x
                   PROVE  /\ SnmpPhaseRow(d, x) \in DeviceRow /\ SnmpPhaseRow(d, x).dev = d
                          /\ SnmpPhaseRow(d, x).method = "snmp"
      OBVIOUS
    <2> DEFINE v == parse_sysdescr(probe_snmp_target(x))
    <2>1a. v \in Vendors
      BY DEF parse_sysdescr, Vendors
    <2>2. NoEol \in Nat
      BY DEF NoEol
    <2>3. NewDevice \in
            [dev : {"none"}, seen : Int, day : Nat, ok : BOOLEAN, vendor : Vendors, model : Models,
             pqc : Support, conf : Confidence, method : Methods, tier : Tiers, eol : Nat,
             bridge : BOOLEAN, fw : STRING \cup {"none"}, partial : BOOLEAN, heard : BOOLEAN]
      BY <2>2 DEF NewDevice, Vendors, Models, Support, Methods, Confidence, Tiers
    <2>4. SnmpPhaseRow(d, x) =
            [NewDevice EXCEPT !.dev = d, !.ok = TRUE, !.vendor = v, !.conf = "medium", !.method = "snmp",
                              !.heard = Hears(x, {"snmp"})]
      BY DEF SnmpPhaseRow
    <2> HIDE DEF NewDevice, v
    <2>5. PICK y \in Vendors, m \in Methods, c \in Confidence : y = v /\ m = "snmp" /\ c = "medium"
      BY <2>1a DEF Methods, Confidence
    <2>9. PICK h \in BOOLEAN : h = Hears(x, {"snmp"})
      BY Zenon DEF Hears
    <2>6. PICK u : u = [NewDevice EXCEPT !.dev = d, !.ok = TRUE, !.vendor = y, !.conf = c, !.method = m,
                                         !.heard = h]
      OBVIOUS
    <2>7. u \in DeviceRow /\ u.dev = d /\ u.method = m
      BY <2>3, <2>6 DEF DeviceRow
    <2>8. QED
      BY <2>4, <2>5, <2>6, <2>7, <2>9
  <1>5. \A i \in 1 .. n : b[i] \in DeviceRow /\ b[i].dev = devs[i] /\ b[i].method = "snmp"
    BY <1>2, <1>3, <1>4
  <1>6. b \in [1 .. n -> DeviceRow]
    BY <1>2, <1>3, <1>5
  <1> HIDE DEF b
  <1>7. b \in Seq(DeviceRow) /\ Len(b) = n
    BY <1>3, <1>6, FunctionIsSeq
  <1>8. QED
    BY <1>1, <1>5, <1>7 DEF b, Heard

LEMMA CheckInBatchType ==
    ASSUME NEW known \in SUBSET DeviceRow, IsFiniteSet(known), NEW a,
           \A d \in {r.dev : r \in known} : a[d] \in Answer
    PROVE  LET devs == SetToSeq(known)
               b == [i \in DOMAIN devs |-> check_in_fingerprint_device(devs[i], a[devs[i].dev])] IN
           b \in Seq(DeviceRow) /\ \A i \in 1 .. Len(b) : Heard(b[i])
  <1> DEFINE devs == SetToSeq(known)
             n == Len(devs)
             b == [i \in DOMAIN devs |-> check_in_fingerprint_device(devs[i], a[devs[i].dev])]
  <1>1. devs \in Seq(known)
    BY SetToSeqFacts
  <1> HIDE DEF devs
  <1>2. n \in Nat /\ DOMAIN devs = 1 .. n /\ \A i \in 1 .. n : devs[i] \in known
    BY <1>1
  <1>3. \A i \in 1 .. n : /\ check_in_fingerprint_device(devs[i], a[devs[i].dev]) \in DeviceRow
                         /\ Heard(check_in_fingerprint_device(devs[i], a[devs[i].dev]))
    <2>1. SUFFICES ASSUME NEW i \in 1 .. n
                   PROVE  /\ check_in_fingerprint_device(devs[i], a[devs[i].dev]) \in DeviceRow
                          /\ Heard(check_in_fingerprint_device(devs[i], a[devs[i].dev]))
      OBVIOUS
    <2> DEFINE r == devs[i]
               f == fingerprint_one(r.dev, a[r.dev], CheckInProbes(r.method))
    <2>2. r \in DeviceRow /\ r.dev \in Devices /\ a[r.dev] \in Answer
      BY <1>2 DEF DeviceRow
    <2>3. f \in DeviceRow /\ (f.ok => f.heard)
      BY <2>2, FingerprintType, FingerprintHeard
    <2>4. check_in_fingerprint_device(r, a[r.dev]) = [f EXCEPT !.partial = TRUE]
      BY DEF check_in_fingerprint_device
    <2> HIDE DEF f, r
    <2>5. [f EXCEPT !.partial = TRUE] \in DeviceRow /\ Heard([f EXCEPT !.partial = TRUE])
      BY <2>3 DEF DeviceRow, Heard
    <2>6. QED
      BY <2>4, <2>5 DEF r
  <1>4. b \in [1 .. n -> DeviceRow] /\ \A i \in 1 .. n : Heard(b[i])
    BY <1>2, <1>3
  <1> HIDE DEF b
  <1>5. b \in Seq(DeviceRow) /\ Len(b) = n
    BY <1>2, <1>4, FunctionIsSeq
  <1>6. QED
    BY <1>4, <1>5 DEF b, devs

LEMMA StampFacts ==
    ASSUME NEW b \in Seq(DeviceRow), clock \in Nat, day \in Nat
    PROVE  /\ Stamp(b) \in Seq(DeviceRow) /\ Len(Stamp(b)) = Len(b)
           /\ \A i \in 1 .. Len(b) : /\ Stamp(b)[i].seen = clock + i /\ Stamp(b)[i].day = day
                                     /\ Stamp(b)[i].dev = b[i].dev
                                     /\ Heard(b[i]) => Heard(Stamp(b)[i])
  <1> DEFINE n == Len(b)
             s == Stamp(b)
  <1>1. n \in Nat /\ DOMAIN b = 1 .. n /\ \A i \in 1 .. n : b[i] \in DeviceRow
    OBVIOUS
  <1>2. s = [i \in 1 .. n |-> [b[i] EXCEPT !.seen = clock + i, !.day = day]]
    BY <1>1 DEF Stamp
  <1>3. \A i \in 1 .. n : /\ s[i] \in DeviceRow /\ s[i].seen = clock + i /\ s[i].day = day
                         /\ s[i].dev = b[i].dev /\ (Heard(b[i]) => Heard(s[i]))
    <2>1. SUFFICES ASSUME NEW i \in 1 .. n
                   PROVE  /\ s[i] \in DeviceRow /\ s[i].seen = clock + i /\ s[i].day = day
                          /\ s[i].dev = b[i].dev /\ (Heard(b[i]) => Heard(s[i]))
      OBVIOUS
    <2> DEFINE r == b[i]
               t == clock + i
    <2>2. s[i] = [r EXCEPT !.seen = t, !.day = day]
      BY <1>2
    <2>3. r \in DeviceRow /\ t \in Int
      BY <1>1
    <2> HIDE DEF r, t
    <2>4. /\ [r EXCEPT !.seen = t, !.day = day] \in DeviceRow
          /\ [r EXCEPT !.seen = t, !.day = day].seen = t
          /\ [r EXCEPT !.seen = t, !.day = day].day = day
          /\ [r EXCEPT !.seen = t, !.day = day].dev = r.dev
          /\ Heard(r) => Heard([r EXCEPT !.seen = t, !.day = day])
      BY <2>3 DEF DeviceRow, Heard
    <2>5. QED
      BY <2>2, <2>4 DEF r, t
  <1>4. s \in [1 .. n -> DeviceRow]
    BY <1>2, <1>3
  <1> HIDE DEF s
  <1>5. s \in Seq(DeviceRow) /\ Len(s) = n
    BY <1>1, <1>4, FunctionIsSeq
  <1>6. QED
    BY <1>3, <1>5 DEF s

LEMMA AnswersAre ==
    ASSUME NEW devs \in SUBSET Devices, NEW a \in Answers(devs)
    PROVE  \A d \in devs : a[d] \in Answer
  BY HardwareAssumption DEF Answers

-----------------------------------------------------------------------------
(* Frames *)

(* The readings of the static types, without the day. *)
StaticReading(type, r) == IF type = "tier_crossing" THEN r.tier ELSE bridge_evidence_state(r)
ChangedIn(S, type) ==
    LET w == Newest(S, DEFAULT_M) IN
    IF Len(w) < 2 THEN {} ELSE Changes(type, [i \in DOMAIN w |-> StaticReading(type, w[i])])

LEMMA ChangedByRows ==
    ASSUME NEW d, NEW type \in Static
    PROVE  Changed(d, type) = ChangedIn(Good(d), type) /\ Changed(d, type)' = ChangedIn(Good(d)', type)
  <1>1. \A r : Reading(type, r) = StaticReading(type, r) /\ Reading(type, r)' = StaticReading(type, r)
    <2>1. CASE type = "tier_crossing"
      BY <2>1 DEF Reading, StaticReading
    <2>2. CASE type = "upstream_mitigated_change"
      BY <2>2 DEF Reading, StaticReading
    <2>3. QED
      BY <2>1, <2>2 DEF Static
  <1>2. Window(d) = Newest(Good(d), DEFAULT_M) /\ Window(d)' = Newest(Good(d)', DEFAULT_M)
    BY DEF Window, recent_successful_hardware_rows, Good
  <1>3. Changed(d, type) = ChangedIn(Good(d), type)
    BY <1>1, <1>2 DEF Changed, ChangedIn
  <1>4. Changed(d, type)' = ChangedIn(Good(d)', type)
    BY <1>1, <1>2 DEF Changed, ChangedIn
  <1>5. QED
    BY <1>3, <1>4

(* A device whose readings stay has the changes it had. *)
LEMMA SameReadings ==
    ASSUME NEW d, Good(d)' = Good(d)
    PROVE  \A type \in Static : Changed(d, type)' = Changed(d, type)
  BY ChangedByRows

(* What the type invariant says of one process, one row and one event. *)
LEMMA JobFields ==
    ASSUME HwTypeOK, NEW p \in Procs
    PROVE  /\ job[p].at \in {"idle", "probed", "device", "write", "notify", "snmp"}
           /\ job[p].kind \in {"none", "scan", "check-in", "push", "snmp"}
           /\ job[p].batch \in Seq(DeviceRow)
           /\ job[p].left \in SUBSET Devices
           /\ job[p].vendors \in SUBSET Vendors
           /\ job[p].who \in Devices \cup {"none"}
           /\ job[p].cand \in SUBSET Event
           /\ job[p].found \in SUBSET Event
  BY DEF HwTypeOK, Job

LEMMA IdleType ==
    Idle \in Job
  BY DEF Idle, Job

LEMMA ToSetIs ==
    ASSUME NEW S, NEW s \in Seq(S)
    PROVE  /\ ToSet(s) \in SUBSET S
           /\ \A x : x \in ToSet(s) <=> \E i \in 1 .. Len(s) : s[i] = x
  BY DEF ToSet

LEMMA EventIs ==
    ASSUME HwTypeOK
    PROVE  /\ Len(events) \in Nat /\ DOMAIN events = 1 .. Len(events)
           /\ \A i \in DOMAIN events :
                 /\ i \in Nat /\ events[i] \in Event /\ events[i] \in ToSet(events)
                 /\ events[i].detected \in Int /\ events[i].day \in Nat
  <1>1. events \in Seq(Event)
    BY DEF HwTypeOK
  <1>2. \A i \in DOMAIN events : events[i] \in Event /\ events[i] \in ToSet(events)
    BY <1>1 DEF ToSet
  <1>3. QED
    BY <1>1, <1>2 DEF Event

LEMMA MarksAre ==
    ASSUME HwTypeOK
    PROVE  /\ \A r \in rows \cup Waiting : /\ r \in DeviceRow /\ r.seen \in Int /\ r.day \in Nat
                                           /\ <<r.seen, r.day>> \in Marks
           /\ \A i \in DOMAIN events : <<events[i].detected, events[i].day>> \in Marks
           /\ \A x \in Marks : x[1] \in Int /\ x[2] \in Nat
  <1>1. \A r \in rows \cup Waiting : r \in DeviceRow
    <2>1. \A p \in Procs : ToSet(job[p].batch) \in SUBSET DeviceRow
      BY JobFields, ToSetIs
    <2>2. rows \in SUBSET DeviceRow /\ ToSet(spool) \in SUBSET DeviceRow
      BY ToSetIs DEF HwTypeOK
    <2>3. QED
      BY <2>1, <2>2 DEF Waiting
  <1>2. \A r \in rows \cup Waiting : r.seen \in Int /\ r.day \in Nat
    BY <1>1 DEF DeviceRow
  <1>3. \A r \in rows \cup Waiting : <<r.seen, r.day>> \in Marks
    BY DEF Marks
  <1>4. \A e \in ToSet(events) \cup (UNION {job[p].cand : p \in Procs}) : e \in Event
    <2>1. ToSet(events) \in SUBSET Event
      BY ToSetIs DEF HwTypeOK
    <2>2. \A p \in Procs : job[p].cand \in SUBSET Event
      BY JobFields
    <2>3. QED
      BY <2>1, <2>2
  <1>5. \A e \in Event : e.detected \in Int /\ e.day \in Nat
    BY DEF Event
  <1>6. \A i \in DOMAIN events : <<events[i].detected, events[i].day>> \in Marks
    BY EventIs DEF Marks
  <1>7. \A x \in Marks : x[1] \in Int /\ x[2] \in Nat
    <2>1. SUFFICES ASSUME NEW x \in Marks
                   PROVE  x[1] \in Int /\ x[2] \in Nat
      OBVIOUS
    <2>2. CASE \E r \in rows \cup Waiting : x = <<r.seen, r.day>>
      BY <2>2, <1>2
    <2>3. CASE \E e \in ToSet(events) \cup (UNION {job[p].cand : p \in Procs}) : x = <<e.detected, e.day>>
      BY <2>3, <1>4, <1>5
    <2>4. QED
      BY <2>1, <2>2, <2>3 DEF Marks
  <1>8. QED
    BY <1>1, <1>2, <1>3, <1>6, <1>7

(* Timestamps given since are above the clock that was, and of its day. *)
Fresh(seen, on) == seen \in Int /\ clock < seen /\ seen <= clock' /\ on = day

LEMMA StampStep ==
    ASSUME HwTypeOK, StampInv, clock' \in Nat, day' \in Nat, clock <= clock', day <= day',
           \A r \in (rows \cup Waiting)' : r \in rows \cup Waiting \/ Fresh(r.seen, r.day),
           \A q, r \in (rows \cup Waiting)' :
              Fresh(q.seen, q.day) /\ Fresh(r.seen, r.day) /\ q.seen = r.seen => q = r,
           \A x \in Marks' : x \in Marks \/ Fresh(x[1], x[2]),
           \A q, r \in ToSet(spool)' : q.dev = r.dev => q = r,
           \A q, r \in Waiting' : q.dev = r.dev /\ q.day < day' /\ r.day < day' => q = r
    PROVE  StampInv'
  <1>1. /\ clock \in Nat /\ clock' \in Nat /\ day \in Nat /\ day' \in Nat
        /\ \A x \in Marks : x[1] \in Int /\ x[2] \in Nat /\ x[1] <= clock /\ x[2] <= day
        /\ \A x, y \in Marks : x[1] <= y[1] => x[2] <= y[2]
        /\ \A r \in rows \cup Waiting : r.seen \in Int /\ r.seen <= clock
        /\ \A q, r \in rows \cup Waiting : q.seen = r.seen => q = r
    <2>1. clock \in Nat /\ clock' \in Nat /\ day \in Nat /\ day' \in Nat
      BY DEF HwTypeOK
    <2>2. /\ \A x \in Marks : x[1] \in Int /\ x[2] \in Nat
          /\ \A r \in rows \cup Waiting : r.seen \in Int /\ <<r.seen, r.day>> \in Marks
      BY MarksAre
    <2>3. \A x \in Marks : x[1] <= clock /\ x[2] <= day
      BY DEF StampInv
    <2>4. \A r \in rows \cup Waiting : r.seen <= clock
      BY <2>2, <2>3
    <2>5. QED
      BY <2>1, <2>2, <2>3, <2>4 DEF StampInv
  <1>2. \A q, r \in (rows \cup Waiting)' : q.seen = r.seen => q = r
    BY <1>1 DEF Fresh
  <1>3. \A x \in Marks' : x[1] \in Int /\ x[2] \in Nat /\ x[1] <= clock' /\ x[2] <= day'
    <2>1. SUFFICES ASSUME NEW x \in Marks'
                   PROVE  x[1] \in Int /\ x[2] \in Nat /\ x[1] <= clock' /\ x[2] <= day'
      OBVIOUS
    <2>2. CASE x \in Marks
      BY <2>2, <1>1
    <2>3. CASE Fresh(x[1], x[2])
      BY <2>3, <1>1 DEF Fresh
    <2>4. QED
      BY <2>2, <2>3
  <1>4. \A x, y \in Marks' : x[1] <= y[1] => x[2] <= y[2]
    <2>1. SUFFICES ASSUME NEW x \in Marks', NEW y \in Marks', x[1] <= y[1]
                   PROVE  x[2] <= y[2]
      OBVIOUS
    <2>2. x[1] \in Int /\ x[2] \in Nat /\ y[1] \in Int /\ y[2] \in Nat
      BY <1>3
    <2>3. CASE x \in Marks /\ y \in Marks
      BY <2>1, <2>3, <1>1
    <2>4. CASE x \in Marks /\ Fresh(y[1], y[2])
      BY <2>4, <1>1 DEF Fresh
    <2>5. CASE Fresh(x[1], x[2]) /\ y \in Marks
      BY <2>1, <2>2, <2>5, <1>1 DEF Fresh
    <2>6. CASE Fresh(x[1], x[2]) /\ Fresh(y[1], y[2])
      BY <2>6, <1>1 DEF Fresh
    <2>7. QED
      BY <2>3, <2>4, <2>5, <2>6
  <1>5. QED
    BY <1>2, <1>3, <1>4 DEF StampInv

-----------------------------------------------------------------------------
(* The events of a calm device *)

LEMMA HistoryIds ==
    ASSUME HwTypeOK, NEW d, NEW type
    PROVE  /\ EventsOf(d, type) \in SUBSET HistoryOf(d, type)
           /\ HistoryOf(d, type) \in SUBSET History(d)
           /\ History(d) \in SUBSET (1 .. Len(events)) /\ History(d) \in SUBSET Nat
           /\ \A i \in EventsOf(d, type) : i \in live
           /\ \A i \in HistoryOf(d, type) : i \in live => i \in EventsOf(d, type)
  BY EventIs DEF EventsOf, HistoryOf, History, HwTypeOK

LEMMA RecentFacts ==
    ASSUME HwTypeOK, OrderInv, NEW d \in Calm, NEW type,
           NEW ids \in SUBSET HistoryOf(d, type), NEW m, LastOf(ids, m)
    PROVE  MostRecent(events, ids) = m /\ \A value : Known(events, ids, value) <=> events[m].new = value
  <1>1. ids \in SUBSET Nat /\ \A i \in ids : i \in History(d)
    BY HistoryIds
  <1>2. \A i \in ids : events[i].detected \in Int
    BY <1>1, EventIs DEF History
  <1>3. \A i, j \in ids : i < j => events[i].detected <= events[j].detected
    BY <1>1 DEF OrderInv
  <1>4. QED
    BY <1>1, <1>2, <1>3, LastIsMostRecent

(* Retention removes the first, so what is left knows what the history knows. *)
LEMMA KnownForever ==
    ASSUME HwTypeOK, OrderInv, NEW d \in Calm, NEW type, NEW value,
           Known(events, EventsOf(d, type), value)
    PROVE  Known(events, HistoryOf(d, type), value)
  <1> DEFINE E == EventsOf(d, type)
             H == HistoryOf(d, type)
  <1>1. /\ E \in SUBSET H /\ H \in SUBSET (1 .. Len(events)) /\ H \in SUBSET History(d)
        /\ \A i \in E : i \in live
        /\ \A i \in H : i \in live => i \in E
    BY HistoryIds
  <1>2. E # {}
    BY DEF Known
  <1> HIDE DEF E, H
  <1>3. Len(events) \in Nat
    BY EventIs
  <1>4. PICK m : LastOf(E, m)
    BY <1>1, <1>2, <1>3, LastExists
  <1>5. PICK n : LastOf(H, n)
    BY <1>1, <1>2, <1>3, LastExists
  <1>6. n = m
    <2>1. m \in H /\ n \in H /\ m \in Nat /\ n \in Nat /\ m <= n
      BY <1>1, <1>4, <1>5 DEF LastOf
    <2>2. n \in live
      <3>1. CASE n \notin live
        <4>1. n < m
          BY <1>1, <1>4, <2>1, <3>1 DEF OrderInv, LastOf
        <4>2. QED
          BY <4>1, <2>1
      <3>2. QED
        BY <3>1
    <2>3. n <= m
      BY <1>1, <1>4, <2>1, <2>2 DEF LastOf
    <2>4. QED
      BY <2>1, <2>3
  <1>7. events[m].new = value
    BY <1>1, <1>4, RecentFacts DEF E, H
  <1>8. QED
    BY <1>5, <1>6, <1>7, RecentFacts DEF H

LEMMA PurgeKeepsLast ==
    ASSUME HwTypeOK, StampInv, OrderInv, NEW d \in Calm, NEW i \in History(d), NEW j \in History(d),
           i \notin _purge_stale_drift_events, j \in _purge_stale_drift_events
    PROVE  i < j
  <1> DEFINE K == EventRetention
             ei == events[i]
             ej == events[j]
  <1>1. i \in Nat /\ j \in Nat /\ i \in DOMAIN events /\ j \in DOMAIN events
    BY HistoryIds, EventIs DEF History
  <1>2. CASE i \notin live
    <2>1. j \in live
      BY DEF _purge_stale_drift_events
    <2>2. QED
      BY <1>2, <2>1 DEF OrderInv
  <1>3. CASE i \in live
    <2>1. Expired(ei, K) /\ ~ Expired(ej, K)
      BY <1>3 DEF _purge_stale_drift_events
    <2>2. /\ ei.day \in Nat /\ ej.day \in Nat /\ ei.detected \in Int /\ ej.detected \in Int
          /\ <<ei.detected, ei.day>> \in Marks /\ <<ej.detected, ej.day>> \in Marks
      BY <1>1, EventIs, MarksAre
    <2>3. K \in Nat /\ day \in Nat
      BY HardwareAssumption DEF HwTypeOK
    <2>4. \A x, y \in Marks : x[1] <= y[1] => x[2] <= y[2]
      BY DEF StampInv
    <2>5. j < i => ej.detected <= ei.detected
      BY DEF OrderInv
    <2> HIDE DEF ei, ej, K
    <2>6. ei.day < ej.day
      BY <2>1, <2>2, <2>3 DEF Expired
    <2>7. ~ (ej.detected <= ei.detected)
      BY <2>2, <2>4, <2>6
    <2>8. i # j
      BY <2>6 DEF ei, ej
    <2>9. QED
      BY <1>1, <2>5, <2>7, <2>8
  <1>4. QED
    BY <1>2, <1>3

LEMMA MaxIs ==
    ASSUME NEW ids \in SUBSET Nat, NEW m, LastOf(ids, m)
    PROVE  Max(ids) = m
  <1>1. m \in ids /\ \A i \in ids : m >= i
    BY DEF LastOf
  <1>2. \A n \in ids : (\A i \in ids : n >= i) => n = m
    BY <1>1
  <1>3. QED
    BY <1>1, <1>2 DEF Max

(* What retention leaves says what was said. *)
LEMMA PurgeKnown ==
    ASSUME HwTypeOK, StampInv, OrderInv, NEW d \in Calm, NEW type, NEW value,
           NEW ids \in SUBSET EventsOf(d, type), NEW left,
           left = {i \in ids : i \in _purge_stale_drift_events}, left # {}
    PROVE  /\ \E m : LastOf(ids, m) /\ LastOf(left, m)
           /\ Known(events, left, value) => Known(events, ids, value)
  <1>1. /\ ids \in SUBSET (1 .. Len(events)) /\ ids \in SUBSET History(d) /\ ids \in SUBSET HistoryOf(d, type)
        /\ ids \in SUBSET Nat /\ Len(events) \in Nat
    BY HistoryIds, EventIs
  <1>2. left \in SUBSET ids /\ ids # {}
    OBVIOUS
  <1>3. PICK m : LastOf(ids, m)
    BY <1>1, <1>2, LastExists
  <1>4. m \in left
    <2>1. PICK i \in left : TRUE
      OBVIOUS
    <2>2. i \in ids /\ i \in _purge_stale_drift_events /\ m \in ids /\ i <= m
      BY <2>1, <1>2, <1>3 DEF LastOf
    <2>3. SUFFICES ASSUME m \notin _purge_stale_drift_events
                   PROVE  FALSE
      BY <2>2
    <2>4. m < i
      BY <1>1, <2>2, <2>3, PurgeKeepsLast
    <2>5. QED
      BY <1>1, <2>2, <2>4
  <1>5. LastOf(left, m)
    BY <1>2, <1>3, <1>4 DEF LastOf
  <1>6. left \in SUBSET HistoryOf(d, type)
    BY <1>1, <1>2
  <1>7. Known(events, left, value) => events[m].new = value
    BY <1>5, <1>6, RecentFacts
  <1>8. events[m].new = value => Known(events, ids, value)
    BY <1>1, <1>3, RecentFacts
  <1>9. QED
    BY <1>3, <1>5, <1>7, <1>8

-----------------------------------------------------------------------------
(* Steps that leave the rows and what was ever inserted *)

(* Events may be purged, devices may be lost, rows may come to wait and a process
   may go on to something that is fit to be inserted. *)
Quiet ==
    /\ rows' = rows /\ events' = events /\ disturbed \subseteq disturbed'
    /\ live' = live \/ live' = _purge_stale_drift_events
    /\ \A d \in Calm' : \A p \in Procs : Compares(p, d)' => Compares(p, d)
    /\ \A r \in Waiting' : r \in Waiting \/ Fresh(r.seen, r.day)
    /\ \A p \in Procs : job'[p].at = "write" /\ job'[p].who \in Calm' => CandFits(job'[p].who, job'[p].cand)
    /\ \A d \in Calm' : (\A p \in Procs : ~ Compares(p, d)') => Recorded(d)

LEMMA QuietOrder ==
    ASSUME HwTypeOK, StampInv, OrderInv, Quiet
    PROVE  OrderInv'
  <1>1. Calm' \in SUBSET Calm
    BY DEF Quiet, Calm
  <1>2. SUFFICES ASSUME NEW d \in Calm'
                 PROVE
        /\ \A p, q \in Procs : Compares(p, d)' /\ Compares(q, d)' => p = q
        /\ \A i \in History(d)' :
              \/ \E r \in Good(d)' : r.seen >= events'[i].detected
              \/ \A q, r \in Good(d)' \cup {x \in Waiting' : x.dev = d} :
                    q.seen <= events'[i].detected /\ r.seen <= events'[i].detected => q = r
        /\ \A i, j \in History(d)' : i < j => events'[i].detected <= events'[j].detected
        /\ \A i, j \in History(d)' : i \notin live' /\ j \in live' => i < j
    BY DEF OrderInv
  <1>3. d \in Calm /\ Good(d)' = Good(d) /\ History(d)' = History(d) /\ events' = events
    BY <1>1, <1>2 DEF Quiet, Good, History
  <1>4. \A p, q \in Procs : Compares(p, d)' /\ Compares(q, d)' => p = q
    BY <1>2, <1>3 DEF OrderInv, Quiet
  <1>5. \A i \in History(d) :
              \/ \E r \in Good(d) : r.seen >= events[i].detected
              \/ \A q, r \in Good(d) \cup {x \in Waiting' : x.dev = d} :
                    q.seen <= events[i].detected /\ r.seen <= events[i].detected => q = r
    <2>1. SUFFICES ASSUME NEW i \in History(d), ~ \E r \in Good(d) : r.seen >= events[i].detected,
                          NEW q \in Good(d) \cup {x \in Waiting' : x.dev = d},
                          NEW r \in Good(d) \cup {x \in Waiting' : x.dev = d},
                          q.seen <= events[i].detected, r.seen <= events[i].detected
                   PROVE  q = r
      BY Zenon
    <2>2. events[i].detected \in Int /\ events[i].detected <= clock /\ clock \in Int
      <3>1. i \in DOMAIN events
        BY DEF History
      <3>2. events[i].detected \in Int /\ <<events[i].detected, events[i].day>> \in Marks
        BY <3>1, EventIs, MarksAre
      <3>3. QED
        BY <3>2 DEF StampInv, HwTypeOK
    <2>3. \A x \in Waiting' : x.seen <= events[i].detected => x \in Waiting
      BY <2>2 DEF Quiet, Fresh
    <2>4. /\ q \in Good(d) \cup {x \in Waiting : x.dev = d}
          /\ r \in Good(d) \cup {x \in Waiting : x.dev = d}
      BY <2>1, <2>3
    <2>5. QED
      BY <1>3, <2>1, <2>4 DEF OrderInv
  <1>6. \A i, j \in History(d) : i < j => events[i].detected <= events[j].detected
    BY <1>3 DEF OrderInv
  <1>7. \A i, j \in History(d) : i \notin live' /\ j \in live' => i < j
    <2>1. CASE live' = live
      BY <1>3, <2>1 DEF OrderInv
    <2>2. CASE live' = _purge_stale_drift_events
      BY <1>3, <2>2, PurgeKeepsLast
    <2>3. QED
      BY <2>1, <2>2 DEF Quiet
  <1>8. QED
    BY <1>3, <1>4, <1>5, <1>6, <1>7

LEMMA QuietKnown ==
    ASSUME HwTypeOK, StampInv, OrderInv, Quiet, NEW d \in Calm, NEW type, NEW value,
           Known(events, EventsOf(d, type), value)'
    PROVE  Known(events, EventsOf(d, type), value)
  <1> DEFINE E == EventsOf(d, type)
  <1>1. PICK left : left = EventsOf(d, type)'
    OBVIOUS
  <1>2. Known(events, left, value)
    BY <1>1 DEF Known, MostRecent, Quiet
  <1>3. left # {}
    BY <1>2 DEF Known
  <1>4. CASE live' = live
    <2>1. left = E
      BY <1>1, <1>4 DEF EventsOf, Quiet
    <2>2. QED
      BY <1>2, <2>1
  <1>5. CASE live' = _purge_stale_drift_events
    <2>1. left = {i \in E : i \in _purge_stale_drift_events}
      BY <1>1, <1>5 DEF EventsOf, Quiet, _purge_stale_drift_events
    <2>2. QED
      BY <1>2, <1>3, <2>1, PurgeKnown
  <1>6. QED
    BY <1>4, <1>5 DEF Quiet

LEMMA QuietCand ==
    ASSUME HwTypeOK, StampInv, OrderInv, Quiet
    PROVE  CandInv' /\ RecordInv'
  <1>1. Calm' \in SUBSET Calm
    BY DEF Quiet, Calm
  <1>2. \A d : /\ Good(d)' = Good(d) /\ History(d)' = History(d) /\ events' = events
               /\ \A type \in Static : Changed(d, type)' = Changed(d, type)
               /\ \A type, value : Known(events, HistoryOf(d, type), value)' <=> Known(events, HistoryOf(d, type), value)
    <2>1. SUFFICES ASSUME NEW d
                   PROVE  /\ Good(d)' = Good(d) /\ History(d)' = History(d) /\ events' = events
                          /\ \A type \in Static : Changed(d, type)' = Changed(d, type)
                          /\ \A type, value : Known(events, HistoryOf(d, type), value)' <=> Known(events, HistoryOf(d, type), value)
      OBVIOUS
    <2>2. Good(d)' = Good(d) /\ History(d)' = History(d) /\ events' = events
      BY DEF Quiet, Good, History
    <2>3. \A type \in Static : Changed(d, type)' = Changed(d, type)
      BY <2>2, SameReadings
    <2>4. \A type : HistoryOf(d, type)' = HistoryOf(d, type)
      BY <2>2 DEF HistoryOf
    <2>5. \A type, value : Known(events, HistoryOf(d, type), value)' <=> Known(events, HistoryOf(d, type), value)
      BY <2>2, <2>4 DEF Known, MostRecent
    <2>6. QED
      BY <2>2, <2>3, <2>5
  <1>3. \A d \in Calm' : Recorded(d) => Recorded(d)'
    BY <1>2 DEF Recorded
  <1>4. RecordInv'
    BY <1>3 DEF RecordInv, Quiet
  <1>5. \A d \in Calm : \A cand : CandFits(d, cand) => CandFits(d, cand)'
    <2>1. SUFFICES ASSUME NEW d \in Calm, NEW cand, CandFits(d, cand)
                   PROVE  CandFits(d, cand)'
      OBVIOUS
    <2>2. \A c \in cand :
            /\ c.dev = d
            /\ \E r \in Good(d) : r.seen = c.detected
            /\ \A i \in History(d) : events[i].detected <= c.detected
            /\ ~ Known(events, EventsOf(d, c.type), c.new)'
      BY <2>1, QuietKnown DEF CandFits
    <2>3. \A type \in Static : \A x \in Changed(d, type)' :
            \/ \E c \in cand : c.type = type /\ c.new = x.new
            \/ /\ \A c \in cand : c.type # type
               /\ Known(events, HistoryOf(d, type), x.new)'
      BY <1>2, <2>1 DEF CandFits
    <2>4. QED
      BY <1>2, <2>1, <2>2, <2>3 DEF CandFits
  <1>6. CandInv'
    BY <1>1, <1>5 DEF CandInv, Quiet
  <1>7. QED
    BY <1>4, <1>6

LEMMA QuietRepeats ==
    ASSUME HwTypeOK, StampInv, OrderInv, NoRepeatedEvent, Quiet
    PROVE  NoRepeatedEvent'
  <1>1. SUFFICES ASSUME NEW j \in live', events'[j].dev \notin disturbed',
                        {i \in EventsOf(events[j].dev, events[j].type)' : i < j} # {}
                 PROVE  events'[Max({i \in EventsOf(events[j].dev, events[j].type)' : i < j})].new # events'[j].new
    BY DEF NoRepeatedEvent, Quiet
  <1> DEFINE d == events[j].dev
             type == events[j].type
             before == {i \in EventsOf(d, type) : i < j}
             left == {i \in EventsOf(d, type)' : i < j}
  <1>2. events' = events /\ j \in live
    BY <1>1 DEF Quiet, _purge_stale_drift_events
  <1>3. j \in DOMAIN events /\ d \in Calm
    BY <1>1, <1>2, EventIs DEF HwTypeOK, Calm, Event, Quiet
  <1>4. CASE live' = live
    <2>1. EventsOf(d, type)' = EventsOf(d, type)
      BY <1>2, <1>4 DEF EventsOf
    <2>2. QED
      BY <1>1, <1>2, <2>1 DEF NoRepeatedEvent, Quiet
  <1>5. CASE live' = _purge_stale_drift_events
    <2>1. left = {i \in before : i \in _purge_stale_drift_events}
      BY <1>2, <1>5 DEF EventsOf, _purge_stale_drift_events
    <2>2. before \in SUBSET EventsOf(d, type) /\ left # {}
      BY <1>1
    <2> HIDE DEF before, left
    <2>3. PICK m : LastOf(before, m) /\ LastOf(left, m)
      BY <1>3, <2>1, <2>2, PurgeKnown
    <2>4. before \in SUBSET Nat /\ left \in SUBSET Nat /\ before # {}
      BY <2>1, <2>2, HistoryIds
    <2>5. Max(before) = m /\ Max(left) = m
      BY <2>3, <2>4, MaxIs
    <2>6. events[Max(before)].new # events[j].new
      BY <1>1, <1>2, <2>4 DEF NoRepeatedEvent, before, Quiet
    <2>7. QED
      BY <1>2, <2>5, <2>6 DEF left
  <1>6. QED
    BY <1>4, <1>5 DEF Quiet

LEMMA QuietStep ==
    ASSUME HwInv, HwTypeOK', StepInv', StampInv', Quiet
    PROVE  HwInv'
  BY QuietOrder, QuietCand, QuietRepeats DEF HwInv

(* Timestamps where nothing new gets one. *)
LEMMA StampShrinks ==
    ASSUME HwTypeOK, StampInv, clock' = clock, day' = day,
           (rows \cup Waiting)' \subseteq rows \cup Waiting, Waiting' \subseteq Waiting,
           Marks' \subseteq Marks, ToSet(spool)' \subseteq ToSet(spool)
    PROVE  StampInv'
  <1>1. clock \in Nat /\ clock' \in Nat /\ day' \in Nat /\ clock <= clock' /\ day <= day'
    BY DEF HwTypeOK
  <1>2. \A r \in (rows \cup Waiting)' : r.seen <= clock
    <2>1. \A x \in Marks : x[1] <= clock
      BY DEF StampInv
    <2>2. \A r \in rows \cup Waiting : <<r.seen, r.day>> \in Marks
      BY MarksAre
    <2>3. QED
      BY <2>1, <2>2
  <1>3. \A r \in (rows \cup Waiting)' : r.seen \in Int
    BY MarksAre
  <1>4. \A r \in (rows \cup Waiting)' : ~ Fresh(r.seen, r.day)
    BY <1>1, <1>2, <1>3 DEF Fresh
  <1>5. \A q, r \in ToSet(spool)' : q.dev = r.dev => q = r
    BY DEF StampInv
  <1>6. \A q, r \in Waiting' : q.dev = r.dev /\ q.day < day' /\ r.day < day' => q = r
    BY DEF StampInv
  <1>7. QED
    BY <1>1, <1>4, <1>5, <1>6, StampStep

LEMMA JobTo ==
    ASSUME HwTypeOK, NEW p \in Procs, NEW j \in Job, job' = [job EXCEPT ![p] = j]
    PROVE  /\ job' \in [Procs -> Job] /\ job'[p] = j
           /\ \A q \in Procs : q # p => job'[q] = job[q]
  BY DEF HwTypeOK

LEMMA LeaveIs ==
    ASSUME NEW p
    PROVE  LET j == Leave(p) IN
           /\ j \in Job /\ j.at \in {"idle", "snmp"} /\ j.batch = <<>> /\ j.left = {}
           /\ j.who = "none" /\ j.cand = {} /\ j.found = {}
  <1>1. /\ Idle \in Job /\ Idle.batch = <<>> /\ Idle.left = {}
        /\ Idle.who = "none" /\ Idle.cand = {} /\ Idle.found = {}
    BY IdleType DEF Idle
  <1>2. PICK at \in {"idle", "snmp"} : Leave(p) = [Idle EXCEPT !.at = at]
    BY DEF Leave
  <1>3. QED
    BY <1>1, <1>2 DEF Job

(* A process drops what it was doing. *)
LEMMA Drops ==
    ASSUME HwInv, NEW p \in Procs, NEW j \in Job, job' = [job EXCEPT ![p] = j],
           j.at \in {"idle", "snmp", "notify"}, j.batch = <<>>, j.left = {}, j.who = "none", j.cand = {},
           j.found \subseteq job[p].found, j.at # "notify" => j.found = {},
           rows' = rows, events' = events, live' = live, spool' = spool, clock' = clock, day' = day,
           trends' \in Seq(Trend), jobs' \in Nat, faults' \in Nat,
           disturbed \subseteq disturbed', disturbed' \subseteq Devices,
           \A d \in Calm' : Compares(p, d) => Recorded(d)
    PROVE  HwInv'
  <1>1. HwTypeOK /\ StepInv /\ StampInv /\ OrderInv /\ CandInv /\ RecordInv
    BY DEF HwInv
  <1>2. /\ job' \in [Procs -> Job] /\ job'[p] = j
        /\ \A q \in Procs : q # p => job'[q] = job[q]
    BY <1>1, JobTo
  <1>3. HwTypeOK'
    BY <1>1, <1>2 DEF HwTypeOK
  <1>4. StepInv'
    <2>1. SUFFICES ASSUME NEW q \in Procs
                   PROVE
            /\ job'[q].at # "probed" => job'[q].batch = <<>>
            /\ job'[q].at \notin {"device", "write"} => job'[q].left = {}
            /\ job'[q].at # "write" => job'[q].who = "none" /\ job'[q].cand = {}
            /\ job'[q].at = "write" => job'[q].who # "none" /\ IsFiniteSet(job'[q].cand)
            /\ \A c \in job'[q].cand : c.dev = job'[q].who
            /\ job'[q].at \in {"idle", "probed", "snmp"} => job'[q].found = {}
            /\ job'[q].found \subseteq ToSet(events')
      BY DEF StepInv
    <2>2. CASE q = p
      <3>1. job[p].found \subseteq ToSet(events')
        BY <1>1 DEF StepInv
      <3>2. QED
        BY <1>2, <2>2, <3>1
    <2>3. CASE q # p
      BY <1>1, <1>2, <2>3 DEF StepInv
    <2>4. QED
      BY <2>2, <2>3
  <1>5. \A q \in Procs : ToSet(job'[q].batch) \subseteq ToSet(job[q].batch) /\ job'[q].cand \subseteq job[q].cand
    <2>1. ToSet(<<>>) = {}
      BY DEF ToSet
    <2>2. QED
      BY <1>2, <2>1
  <1>6. Waiting' \subseteq Waiting /\ Marks' \subseteq Marks
    <2>1. Waiting' \subseteq Waiting
      BY <1>5 DEF Waiting
    <2>2. (UNION {job'[q].cand : q \in Procs}) \subseteq (UNION {job[q].cand : q \in Procs})
      BY <1>5
    <2>3. QED
      BY <2>1, <2>2 DEF Marks
  <1>7. StampInv'
    BY <1>1, <1>6, StampShrinks
  <1>8. \A d \in Calm' : \A q \in Procs : d # "none" /\ (Compares(q, d)' <=> q # p /\ Compares(q, d))
    BY <1>2, HardwareAssumption DEF Compares, Calm
  <1>9. Quiet
    <2>1. Calm' \in SUBSET Calm
      BY DEF Calm
    <2>2. \A q \in Procs : job'[q].at = "write" /\ job'[q].who \in Calm' => CandFits(job'[q].who, job'[q].cand)
      BY <1>1, <1>2, <2>1 DEF CandInv
    <2>3. \A d \in Calm' : (\A q \in Procs : ~ Compares(q, d)') => Recorded(d)
      BY <1>1, <1>8, <2>1 DEF RecordInv
    <2>4. QED
      BY <1>6, <1>8, <2>2, <2>3 DEF Quiet
  <1>10. QED
    BY <1>3, <1>4, <1>7, <1>9, QuietStep

-----------------------------------------------------------------------------
(* Trends *)

(* A confirmed value has a second position. *)
LEMMA SecondVote ==
    ASSUME NEW n \in Nat, NEW vals, DOMAIN vals = 1 .. n, n >= 1, Confirmed(vals)
    PROVE  \E k \in 2 .. n : vals[k] = vals[1]
  <1> DEFINE same == {i \in DOMAIN vals : vals[i] = vals[1]}
  <1>1. Cardinality(same) >= 2
    BY DEF Confirmed, DEFAULT_N
  <1>2. SUFFICES ASSUME ~ \E k \in 2 .. n : vals[k] = vals[1]
                 PROVE  FALSE
    OBVIOUS
  <1>3. same = {1}
    BY <1>2
  <1> HIDE DEF same
  <1>4. Cardinality(same) = 1
    BY <1>3, FS_Singleton
  <1>5. QED
    BY <1>1, <1>4

(* A trend states what two devices of the vendor have shown last. *)
LEMMA TrendFacts ==
    ASSUME HwTypeOK, StampInv, NEW v \in Vendors
    PROVE  /\ IsFiniteSet(NewTrends(v)) /\ NewTrends(v) \subseteq Trend
           /\ \A t \in NewTrends(v) :
                 /\ t.vendor = v
                 /\ \E q, r \in rows : /\ q.ok /\ q.vendor = v /\ q.pqc = t.new
                                       /\ r.ok /\ r.vendor = v /\ r.pqc = t.new
                                       /\ q.dev # r.dev
  <1> DEFINE S == {r \in Named(v) : \A q \in Named(v) : q.dev = r.dev => q.seen <= r.seen}
             w == vendor_fleet_snapshot(v, DEFAULT_M)
             n == Len(w)
             vals == [i \in DOMAIN w |-> w[i].pqc]
             C == Changes("pqc_status_change", vals)
             X == {x \in C : ~ Known(trends, TrendsOf(v), x.new)}
             T(c) == [vendor |-> v, old |-> c.old, new |-> c.new, detected |-> w[1].seen]
             f == [c \in X |-> T(c)]
  <1>1. w = Newest(S, DEFAULT_M)
    BY DEF vendor_fleet_snapshot
  <1>2. S \in SUBSET rows /\ \A r \in S : r.ok /\ r.vendor = v
    BY DEF Named
  <1>3. \A q, r \in S : q.dev = r.dev => q.seen <= r.seen
    OBVIOUS
  <1>4. NewTrends(v) = IF n < 2 THEN {} ELSE {T(c) : c \in X}
    BY DEF NewTrends
  <1> HIDE DEF S
  <1>5. Stamped(S)
    <2>1. IsFiniteSet(S)
      BY <1>2, FS_Subset DEF HwTypeOK
    <2>2. QED
      BY <1>2, <2>1 DEF Stamped, HwTypeOK, StampInv
  <1>6. /\ w \in Seq(DeviceRow) /\ \A i \in 1 .. n : w[i] \in S /\ w[i] \in DeviceRow
        /\ \A i, j \in 1 .. n : w[i] = w[j] => i = j
    <2>1. DEFAULT_M \in Nat
      BY DEF DEFAULT_M
    <2>2. /\ w \in Seq(DeviceRow) /\ \A i \in 1 .. n : w[i] \in S
          /\ \A i, j \in 1 .. n : w[i] = w[j] => i = j
      <3>1. /\ Newest(S, DEFAULT_M) \in Seq(DeviceRow)
            /\ \A i \in 1 .. Len(Newest(S, DEFAULT_M)) : Newest(S, DEFAULT_M)[i] \in S
            /\ \A i, j \in 1 .. Len(Newest(S, DEFAULT_M)) :
                  Newest(S, DEFAULT_M)[i] = Newest(S, DEFAULT_M)[j] => i = j
        BY <1>5, <2>1, NewestFacts
      <3>2. QED
        BY <1>1, <3>1
    <2>3. S \in SUBSET DeviceRow
      BY <1>5 DEF Stamped
    <2>4. QED
      BY <2>2, <2>3
  <1> HIDE DEF w
  <1>7. n \in Nat /\ DOMAIN vals = 1 .. n /\ \A i \in 1 .. n : vals[i] = w[i].pqc
    BY <1>6
  <1>8. \A i \in 1 .. n : vals[i] \in Support
    BY <1>6, <1>7 DEF DeviceRow
  <1> HIDE DEF vals
  <1>9. CASE n < 2
    BY <1>4, <1>9, FS_EmptySet
  <1>10. CASE ~ (n < 2)
    <2>1. NewTrends(v) = {T(c) : c \in X}
      BY <1>4, <1>10
    <2>2. /\ IsFiniteSet(C)
          /\ \A x \in C : \E i \in 1 .. n : x = [type |-> "pqc_status_change", old |-> vals[i], new |-> vals[1]]
          /\ C # {} => Confirmed(vals)
      BY <1>7, ChangesFacts
    <2>3. X \in SUBSET C
      OBVIOUS
    <2> HIDE DEF C, X
    <2>4. \A c \in X : c.old \in Support /\ c.new = vals[1] /\ c.new \in Support
      BY <1>7, <1>8, <1>10, <2>2, <2>3
    <2>5. w[1].seen \in Int
      BY <1>6, <1>7, <1>10 DEF DeviceRow
    <2>6. \A c \in X : f[c] = T(c) /\ T(c) \in Trend
      BY <2>4, <2>5 DEF Trend
    <2>7. IsFiniteSet(X)
      BY <2>2, <2>3, FS_Subset
    <2>8. IsFiniteSet(NewTrends(v))
      <3>1. NewTrends(v) = {f[c] : c \in X} /\ DOMAIN f = X
        BY <2>1, <2>6
      <3> HIDE DEF f
      <3>2. QED
        BY <3>1, <2>7, ImageFinite
    <2>9. NewTrends(v) \subseteq Trend
      BY <2>1, <2>6
    <2>10. ASSUME NEW t \in NewTrends(v)
           PROVE  /\ t.vendor = v
                  /\ \E q, r \in rows : /\ q.ok /\ q.vendor = v /\ q.pqc = t.new
                                        /\ r.ok /\ r.vendor = v /\ r.pqc = t.new
                                        /\ q.dev # r.dev
      <3>1. PICK c \in X : t = T(c)
        BY <2>1
      <3>2. t.vendor = v /\ t.new = vals[1] /\ Confirmed(vals)
        BY <3>1, <2>2, <2>3, <2>4
      <3>3. PICK k \in 2 .. n : vals[k] = vals[1]
        BY <1>7, <1>10, <3>2, SecondVote
      <3>4. 1 \in 1 .. n /\ k \in 1 .. n /\ k # 1
        BY <1>7, <1>10, <3>3
      <3>5. w[1] \in S /\ w[k] \in S /\ w[1].pqc = t.new /\ w[k].pqc = t.new
        BY <1>6, <1>7, <3>2, <3>3, <3>4
      <3>6. w[1].dev # w[k].dev
        <4>1. SUFFICES ASSUME w[1].dev = w[k].dev
                       PROVE  FALSE
          OBVIOUS
        <4>2. w[1].seen <= w[k].seen /\ w[k].seen <= w[1].seen
          BY <1>3, <3>5, <4>1
        <4>3. w[1].seen \in Int /\ w[k].seen \in Int
          BY <1>6, <3>4 DEF DeviceRow
        <4>4. w[1] = w[k]
          BY <1>5, <3>5, <4>2, <4>3 DEF Stamped
        <4>5. QED
          BY <1>6, <3>4, <4>4
      <3>7. QED
        BY <1>2, <3>2, <3>5, <3>6
    <2>11. QED
      BY <2>8, <2>9, <2>10
  <1>11. QED
    BY <1>9, <1>10

(* What a process adds to the trends. *)
LEMMA AddedTrends ==
    ASSUME HwTypeOK, StampInv, NEW p \in Procs
    PROVE  LET U == UNION {NewTrends(v) : v \in job[p].vendors} IN
           /\ IsFiniteSet(U) /\ U \subseteq Trend
           /\ \A t \in U : \E v \in Vendors : t \in NewTrends(v)
  <1> DEFINE f == [v \in job[p].vendors |-> NewTrends(v)]
             F == {f[v] : v \in job[p].vendors}
  <1>1. job[p].vendors \in SUBSET Vendors
    BY JobFields
  <1>2. IsFiniteSet(Vendors)
    <2>1. \A S, x : IsFiniteSet(S) => IsFiniteSet(S \cup {x})
      BY FS_AddElement
    <2>2. IsFiniteSet({})
      BY FS_EmptySet
    <2>3. Vendors = {} \cup {"F5"} \cup {"Fortinet"} \cup {"Cisco"} \cup {"IPMI"} \cup {"Linux"}
                      \cup {"Schneider"} \cup {"JohnsonControls"} \cup {"Unknown"}
      BY DEF Vendors
    <2>4. IsFiniteSet({} \cup {"F5"} \cup {"Fortinet"} \cup {"Cisco"} \cup {"IPMI"})
      BY <2>1, <2>2
    <2>5. QED
      BY <2>1, <2>3, <2>4
  <1>3. IsFiniteSet(job[p].vendors)
    BY <1>1, <1>2, FS_Subset
  <1>4. IsFiniteSet(F)
    BY <1>3, ImageFinite
  <1>5. F = {NewTrends(v) : v \in job[p].vendors}
    OBVIOUS
  <1>6. \A S \in F : IsFiniteSet(S)
    <2>1. \A v \in job[p].vendors : IsFiniteSet(NewTrends(v))
      BY <1>1, TrendFacts
    <2>2. QED
      BY <1>5, <2>1
  <1> HIDE DEF F
  <1>7. IsFiniteSet(UNION F)
    BY <1>4, <1>6, FS_UNION
  <1>8. QED
    BY <1>1, <1>5, <1>7, TrendFacts

-----------------------------------------------------------------------------
(* One action after the other *)

LEMMA AppendTrends ==
    ASSUME NEW S, NEW T, IsFiniteSet(T), T \subseteq S, NEW s \in Seq(S)
    PROVE  s \o SetToSeq(T) \in Seq(S)
  <1>1. SetToSeq(T) \in Seq(T)
    BY SetToSeqFacts
  <1>2. SetToSeq(T) \in Seq(S)
    BY <1>1
  <1>3. QED
    BY <1>2

LEMMA CommitFailsStep ==
    ASSUME HwInv, NEW p \in Procs, CommitFails(p)
    PROVE  HwInv'
  <1>1. HwTypeOK /\ StepInv
    BY DEF HwInv
  <1>2. /\ job' = [job EXCEPT ![p] = Leave(p)] /\ job[p].at = "probed"
        /\ rows' = rows /\ events' = events /\ live' = live /\ spool' = spool /\ clock' = clock /\ day' = day
        /\ trends' = trends /\ jobs' = jobs /\ faults' = faults + 1 /\ disturbed' = disturbed
    BY DEF CommitFails, Fault
  <1>3. /\ trends' \in Seq(Trend) /\ jobs' \in Nat /\ faults' \in Nat /\ disturbed' \subseteq Devices
    BY <1>1, <1>2 DEF HwTypeOK
  <1> DEFINE j == Leave(p)
  <1>4. /\ j \in Job /\ j.at \in {"idle", "snmp"} /\ j.batch = <<>> /\ j.left = {}
        /\ j.who = "none" /\ j.cand = {} /\ j.found = {}
    BY LeaveIs
  <1>5. \A d \in Calm' : ~ Compares(p, d)
    BY <1>1, <1>2, HardwareAssumption DEF StepInv, Compares, Calm
  <1> HIDE DEF j
  <1>6. QED
    BY <1>2, <1>3, <1>4, <1>5, Drops DEF j

LEMMA NotifyStep ==
    ASSUME HwInv, NEW p \in Procs, _notify_hardware_lifecycle(p)
    PROVE  HwInv'
  <1>1. HwTypeOK /\ StepInv
    BY DEF HwInv
  <1>2. /\ job' = [job EXCEPT ![p] = Leave(p)] /\ job[p].at = "notify"
        /\ rows' = rows /\ events' = events /\ live' = live /\ spool' = spool /\ clock' = clock /\ day' = day
        /\ trends' = trends /\ jobs' = jobs /\ faults' \in {faults, faults + 1} /\ disturbed' = disturbed
    BY DEF _notify_hardware_lifecycle, Fault
  <1>3. /\ trends' \in Seq(Trend) /\ jobs' \in Nat /\ faults' \in Nat /\ disturbed' \subseteq Devices
    BY <1>1, <1>2 DEF HwTypeOK
  <1> DEFINE j == Leave(p)
  <1>4. /\ j \in Job /\ j.at \in {"idle", "snmp"} /\ j.batch = <<>> /\ j.left = {}
        /\ j.who = "none" /\ j.cand = {} /\ j.found = {}
    BY LeaveIs
  <1>5. \A d \in Calm' : ~ Compares(p, d)
    BY <1>1, <1>2, HardwareAssumption DEF StepInv, Compares, Calm
  <1> HIDE DEF j
  <1>6. QED
    BY <1>2, <1>3, <1>4, <1>5, Drops DEF j

LEMMA KillStep ==
    ASSUME HwInv, NEW p \in Procs, Kill(p)
    PROVE  HwInv'
  <1>1. HwTypeOK /\ StepInv
    BY DEF HwInv
  <1>2. /\ job' = [job EXCEPT ![p] = Idle]
        /\ rows' = rows /\ events' = events /\ live' = live /\ spool' = spool /\ clock' = clock /\ day' = day
        /\ trends' = trends /\ jobs' = jobs /\ faults' = faults + 1
        /\ disturbed' = disturbed \cup ((job[p].left \cup {job[p].who}) \ {"none"})
    BY DEF Kill, Fault
  <1>3. /\ trends' \in Seq(Trend) /\ jobs' \in Nat /\ faults' \in Nat /\ disturbed' \subseteq Devices
    BY <1>1, <1>2, JobFields DEF HwTypeOK
  <1>4. /\ Idle \in Job /\ Idle.at = "idle" /\ Idle.batch = <<>> /\ Idle.left = {}
        /\ Idle.who = "none" /\ Idle.cand = {} /\ Idle.found = {}
    BY IdleType DEF Idle
  <1>5. \A d \in Calm' : ~ Compares(p, d)
    BY <1>2, HardwareAssumption DEF Compares, Calm
  <1>6. QED
    BY <1>2, <1>3, <1>4, <1>5, Drops

LEMMA TrendStep ==
    ASSUME HwInv, NEW p \in Procs, reconcile_vendor_pqc_trend(p)
    PROVE  HwInv'
  <1>1. HwTypeOK /\ StepInv /\ StampInv /\ OrderInv
    BY DEF HwInv
  <1> DEFINE U == UNION {NewTrends(v) : v \in job[p].vendors}
             j == IF Qualifying(job[p].found) = {} THEN Leave(p)
                  ELSE [job[p] EXCEPT !.at = "notify", !.left = {}, !.vendors = {}]
  <1>2. /\ job' = [job EXCEPT ![p] = j] /\ job[p].at = "device" /\ trends' = trends \o SetToSeq(U)
        /\ \A d \in job[p].left : NewEvents(d) = {}
        /\ rows' = rows /\ events' = events /\ live' = live /\ spool' = spool /\ clock' = clock /\ day' = day
        /\ jobs' = jobs /\ faults' = faults /\ disturbed' = disturbed
    <2>1. job \in [Procs -> Job]
      BY <1>1 DEF HwTypeOK
    <2>2. QED
      BY <2>1 DEF reconcile_vendor_pqc_trend
  <1>3. trends' \in Seq(Trend)
    <2>1. IsFiniteSet(U) /\ U \subseteq Trend
      BY <1>1, AddedTrends
    <2> HIDE DEF U
    <2>2. QED
      BY <1>1, <1>2, <2>1, AppendTrends DEF HwTypeOK
  <1>4. jobs' \in Nat /\ faults' \in Nat /\ disturbed' \subseteq Devices
    BY <1>1, <1>2 DEF HwTypeOK
  <1>5. /\ j \in Job /\ j.at \in {"idle", "snmp", "notify"} /\ j.batch = <<>> /\ j.left = {}
        /\ j.who = "none" /\ j.cand = {} /\ j.found \subseteq job[p].found /\ (j.at # "notify" => j.found = {})
    <2>1. CASE Qualifying(job[p].found) = {}
      BY <2>1, LeaveIs
    <2>2. CASE Qualifying(job[p].found) # {}
      <3>1. j = [job[p] EXCEPT !.at = "notify", !.left = {}, !.vendors = {}]
        BY <2>2
      <3>2. job[p] \in Job
        BY <1>1 DEF HwTypeOK
      <3>3. job[p].batch = <<>> /\ job[p].who = "none" /\ job[p].cand = {}
        BY <1>1, <1>2 DEF StepInv
      <3>4. QED
        BY <3>1, <3>2, <3>3 DEF Job
    <2>3. QED
      BY <2>1, <2>2
  <1>6. \A d \in Calm' : Compares(p, d) => Recorded(d)
    <2>1. SUFFICES ASSUME NEW d \in Calm', Compares(p, d)
                   PROVE  Recorded(d)
      OBVIOUS
    <2>2. d \in Calm /\ d \in Devices
      BY <1>2 DEF Calm
    <2>3. d \in job[p].left
      BY <1>1, <1>2, <2>1, <2>2, HardwareAssumption DEF StepInv, Compares
    <2>4. NewEvents(d) = {}
      BY <1>2, <2>3
    <2>5. \A type \in Static : \A x \in Changed(d, type) : Known(events, EventsOf(d, type), x.new)
      BY <1>1, <2>2, <2>4, NewEventsFacts
    <2>6. \A type \in Static : \A x \in Changed(d, type) : Known(events, HistoryOf(d, type), x.new)
      BY <1>1, <2>2, <2>5, KnownForever
    <2>7. QED
      BY <2>6 DEF Recorded
  <1> HIDE DEF j
  <1>7. QED
    BY <1>2, <1>3, <1>4, <1>5, <1>6, Drops

LEMMA IngestStep ==
    ASSUME HwInv, _ingest_envelope
    PROVE  HwInv'
  <1> DEFINE j == [Idle EXCEPT !.at = "probed", !.kind = "push", !.batch = spool]
             p == "console"
  <1>1. HwTypeOK /\ StepInv /\ StampInv /\ OrderInv /\ CandInv /\ RecordInv /\ p \in Procs
    BY DEF HwInv, Procs
  <1>2. /\ job[p].at = "idle" /\ job' = [job EXCEPT ![p] = j] /\ spool' = <<>>
        /\ rows' = rows /\ events' = events /\ live' = live /\ trends' = trends /\ clock' = clock /\ day' = day
        /\ jobs' = jobs /\ faults' = faults /\ disturbed' = disturbed
    BY DEF _ingest_envelope
  <1>3. /\ j \in Job /\ j.at = "probed" /\ j.batch = spool /\ j.left = {}
        /\ j.who = "none" /\ j.cand = {} /\ j.found = {}
    <2>1. Idle \in Job /\ Idle.left = {} /\ Idle.who = "none" /\ Idle.cand = {} /\ Idle.found = {}
      BY IdleType DEF Idle
    <2>2. spool \in Seq(DeviceRow)
      BY <1>1 DEF HwTypeOK
    <2>3. QED
      BY <2>1, <2>2 DEF Job
  <1> HIDE DEF j
  <1>4. /\ job' \in [Procs -> Job] /\ job'[p] = j /\ \A q \in Procs : q # p => job'[q] = job[q]
    BY <1>1, <1>2, <1>3, JobTo
  <1>5. job[p].batch = <<>> /\ job[p].left = {} /\ job[p].who = "none" /\ job[p].cand = {}
    BY <1>1, <1>2 DEF StepInv
  <1>6. ToSet(<<>>) = {}
    BY DEF ToSet
  <1>7. HwTypeOK'
    BY <1>1, <1>2, <1>4 DEF HwTypeOK
  <1>8. StepInv'
    <2>1. SUFFICES ASSUME NEW q \in Procs
                   PROVE
            /\ job'[q].at # "probed" => job'[q].batch = <<>>
            /\ job'[q].at \notin {"device", "write"} => job'[q].left = {}
            /\ job'[q].at # "write" => job'[q].who = "none" /\ job'[q].cand = {}
            /\ job'[q].at = "write" => job'[q].who # "none" /\ IsFiniteSet(job'[q].cand)
            /\ \A c \in job'[q].cand : c.dev = job'[q].who
            /\ job'[q].at \in {"idle", "probed", "snmp"} => job'[q].found = {}
            /\ job'[q].found \subseteq ToSet(events')
      BY DEF StepInv
    <2>2. CASE q = p
      BY <1>3, <1>4, <2>2
    <2>3. CASE q # p
      BY <1>1, <1>2, <1>4, <2>3 DEF StepInv
    <2>4. QED
      BY <2>2, <2>3
  <1>9. Waiting' = Waiting
    <2>1. Waiting' = ToSet(spool') \cup (UNION {ToSet(job'[q].batch) : q \in Procs})
      BY DEF Waiting
    <2>2. Procs = {"cli", "console"}
      BY DEF Procs
    <2>3. Waiting' = ToSet(job'["cli"].batch) \cup ToSet(spool)
      BY <1>2, <1>3, <1>4, <1>6, <2>1, <2>2
    <2>4. Waiting = ToSet(job["cli"].batch) \cup ToSet(spool)
      BY <1>5, <1>6, <2>2 DEF Waiting
    <2>5. job'["cli"] = job["cli"]
      BY <1>4, <2>2
    <2>6. QED
      BY <2>3, <2>4, <2>5
  <1>10. \A q \in Procs : job'[q].cand = job[q].cand
    BY <1>3, <1>4, <1>5
  <1>11. StampInv'
    <2>1. (UNION {job'[q].cand : q \in Procs}) = (UNION {job[q].cand : q \in Procs})
      BY <1>10
    <2>2. Marks' = Marks
      BY <1>2, <1>9, <2>1 DEF Marks
    <2>3. QED
      BY <1>1, <1>2, <1>6, <1>9, <2>2, StampShrinks
  <1>12. \A d \in Calm' : \A q \in Procs : Compares(q, d)' <=> Compares(q, d)
    BY <1>3, <1>4, <1>5 DEF Compares
  <1>13. Quiet
    <2>1. Calm' = Calm
      BY <1>2 DEF Calm
    <2>2. \A q \in Procs : job'[q].at = "write" /\ job'[q].who \in Calm' => CandFits(job'[q].who, job'[q].cand)
      BY <1>1, <1>3, <1>4, <2>1 DEF CandInv
    <2>3. \A d \in Calm' : (\A q \in Procs : ~ Compares(q, d)') => Recorded(d)
      BY <1>1, <1>12, <2>1 DEF RecordInv
    <2>4. QED
      BY <1>2, <1>9, <1>12, <2>2, <2>3 DEF Quiet
  <1>14. QED
    BY <1>7, <1>8, <1>11, <1>13, QuietStep

(* At the end of a day nobody is at work: what waits then are rows of the sensor's
   one batch. *)
LEMMA NextDayStep ==
    ASSUME HwInv, NextDay
    PROVE  HwInv'
  <1>1. HwTypeOK /\ StepInv /\ StampInv /\ OrderInv /\ CandInv /\ RecordInv
    BY DEF HwInv
  <1>2. /\ \A p \in Procs : job[p].at = "idle"
        /\ rows' = rows /\ events' = events /\ live' = live /\ trends' = trends /\ spool' = spool /\ job' = job
        /\ clock' = clock /\ jobs' = jobs /\ faults' = faults /\ disturbed' = disturbed
    BY DEF NextDay
  <1>3. day \in Nat /\ day' \in Nat /\ day <= day' /\ clock \in Nat
    BY <1>1, HardwareAssumption DEF NextDay, HwTypeOK
  <1>4. HwTypeOK' /\ StepInv'
    BY <1>1, <1>2, <1>3 DEF HwTypeOK, StepInv
  <1>5. Waiting' = Waiting /\ Marks' = Marks
    BY <1>2 DEF Waiting, Marks
  <1>6. Waiting = ToSet(spool)
    <2>1. ToSet(<<>>) = {}
      BY DEF ToSet
    <2>2. \A p \in Procs : ToSet(job[p].batch) = {}
      BY <1>1, <1>2, <2>1 DEF StepInv
    <2>3. QED
      BY <2>2 DEF Waiting
  <1>7. \A q, r \in ToSet(spool) : q.dev = r.dev => q = r
    BY <1>1 DEF StampInv
  <1>8. \A q, r \in (rows \cup Waiting)' :
            Fresh(q.seen, q.day) /\ Fresh(r.seen, r.day) /\ q.seen = r.seen => q = r
    BY <1>1, <1>2, <1>5 DEF StampInv
  <1>9. StampInv'
    BY <1>1, <1>2, <1>3, <1>5, <1>6, <1>7, <1>8, StampStep
  <1>10. Quiet
    <2>1. Calm' = Calm /\ \A d : \A p \in Procs : Compares(p, d)' <=> Compares(p, d)
      BY <1>2 DEF Calm, Compares
    <2>2. QED
      BY <1>1, <1>2, <1>5, <2>1 DEF Quiet, CandInv, RecordInv
  <1>11. QED
    BY <1>4, <1>9, <1>10, QuietStep

(* The rows of a new batch. *)
LEMMA NewRows ==
    ASSUME HwTypeOK, NEW b \in Seq(DeviceRow), clock' = clock + Len(b)
    PROVE  /\ clock' \in Nat /\ clock <= clock'
           /\ \A r \in ToSet(Stamp(b)) : Fresh(r.seen, r.day)
           /\ \A q, r \in ToSet(Stamp(b)) : q.seen = r.seen => q = r
           /\ (\A i, j \in 1 .. Len(b) : b[i].dev = b[j].dev => i = j)
                 => \A q, r \in ToSet(Stamp(b)) : q.dev = r.dev => q = r
  <1> DEFINE s == Stamp(b)
             n == Len(b)
  <1>1. n \in Nat /\ clock \in Nat /\ day \in Nat
    BY DEF HwTypeOK
  <1>2. /\ s \in Seq(DeviceRow) /\ Len(s) = n
        /\ \A i \in 1 .. n : s[i].seen = clock + i /\ s[i].day = day /\ s[i].dev = b[i].dev
    BY <1>1, StampFacts
  <1> HIDE DEF s
  <1>3. \A r \in ToSet(s) : \E i \in 1 .. n : r = s[i]
    BY <1>2, ToSetIs
  <1>4. \A r \in ToSet(s) : Fresh(r.seen, r.day)
    <2>1. SUFFICES ASSUME NEW r \in ToSet(s)
                   PROVE  Fresh(r.seen, r.day)
      OBVIOUS
    <2>2. PICK i \in 1 .. n : r = s[i]
      BY <1>3
    <2>3. r.seen = clock + i /\ r.day = day
      BY <1>2, <2>2
    <2>4. QED
      BY <1>1, <2>3 DEF Fresh
  <1>5. \A q, r \in ToSet(s) : q.seen = r.seen => q = r
    <2>1. SUFFICES ASSUME NEW q \in ToSet(s), NEW r \in ToSet(s), q.seen = r.seen
                   PROVE  q = r
      OBVIOUS
    <2>2. PICK i \in 1 .. n : q = s[i]
      BY <1>3
    <2>3. PICK j \in 1 .. n : r = s[j]
      BY <1>3
    <2>4. clock + i = clock + j
      BY <1>2, <2>1, <2>2, <2>3
    <2>5. i = j
      BY <1>1, <2>4
    <2>6. QED
      BY <2>2, <2>3, <2>5
  <1>6. (\A i, j \in 1 .. n : b[i].dev = b[j].dev => i = j) => \A q, r \in ToSet(s) : q.dev = r.dev => q = r
    BY <1>2, <1>3
  <1>7. clock' \in Nat /\ clock <= clock'
    BY <1>1
  <1>8. QED
    BY <1>4, <1>5, <1>6, <1>7 DEF s

(* The process p goes on with the batch b in the record j. *)
Takes(p, j, b) ==
    /\ job' = [job EXCEPT ![p] = j] /\ j.at \in {"idle", "probed"}
    /\ j.at # "probed" => j.batch = <<>>
    /\ j.batch = Stamp(b) /\ j.left = {} /\ j.who = "none" /\ j.cand = {} /\ j.found = {}

LEMMA Persisted ==
    ASSUME HwTypeOK, NEW p \in Procs, NEW kind \in {"scan", "check-in", "push", "snmp"},
           NEW b \in Seq(DeviceRow), ToPersist(p, kind, b)
    PROVE  /\ clock' = clock + Len(b)
           /\ \E j \in Job : Takes(p, j, b)
  <1> DEFINE at == IF b = <<>> THEN "idle" ELSE "probed"
             s == Stamp(b)
             j == [Idle EXCEPT !.at = at, !.kind = kind, !.batch = s]
  <1>1. job' = [job EXCEPT ![p] = j] /\ clock' = clock + Len(b)
    BY DEF ToPersist
  <1>2. s \in Seq(DeviceRow) /\ Len(s) = Len(b)
    BY StampFacts DEF HwTypeOK
  <1> HIDE DEF s
  <1>3. at \in {"idle", "probed"} /\ (at # "probed" => s = <<>>)
    BY <1>2
  <1> HIDE DEF at
  <1>4. Idle \in Job /\ Idle.left = {} /\ Idle.who = "none" /\ Idle.cand = {} /\ Idle.found = {}
    BY IdleType DEF Idle
  <1>5. /\ j \in Job /\ j.at = at /\ j.batch = s /\ j.left = {} /\ j.who = "none"
        /\ j.cand = {} /\ j.found = {}
    BY <1>2, <1>3, <1>4 DEF Job
  <1> HIDE DEF j
  <1>6. QED
    BY <1>1, <1>3, <1>5 DEF s, Takes

LEMMA ProbeStep ==
    ASSUME HwInv, NEW p \in Procs, job[p].at \in {"idle", "snmp"},
           NEW kind \in {"scan", "check-in", "push", "snmp"}, NEW b \in Seq(DeviceRow), ToPersist(p, kind, b),
           rows' = rows, events' = events, live' = live \/ live' = _purge_stale_drift_events,
           trends' = trends, spool' = spool, day' = day, jobs' \in Nat, faults' = faults,
           disturbed' = disturbed
    PROVE  HwInv'
  <1>1. HwTypeOK /\ StepInv /\ StampInv /\ OrderInv /\ CandInv /\ RecordInv
    BY DEF HwInv
  <1>2a. PICK j \in Job : Takes(p, j, b)
    BY <1>1, Persisted
  <1>2. /\ job' = [job EXCEPT ![p] = j] /\ j.at \in {"idle", "probed"}
        /\ j.at # "probed" => j.batch = <<>>
        /\ j.batch = Stamp(b) /\ j.left = {} /\ j.who = "none" /\ j.cand = {} /\ j.found = {}
    BY <1>2a DEF Takes
  <1>3. clock' = clock + Len(b)
    BY <1>1, Persisted
  <1>4. /\ clock' \in Nat /\ clock <= clock'
        /\ \A r \in ToSet(j.batch) : Fresh(r.seen, r.day)
        /\ \A q, r \in ToSet(j.batch) : q.seen = r.seen => q = r
    BY <1>1, <1>2, <1>3, NewRows
  <1>5. /\ job' \in [Procs -> Job] /\ job'[p] = j /\ \A q \in Procs : q # p => job'[q] = job[q]
    BY <1>1, <1>2, JobTo
  <1>6. job[p].batch = <<>> /\ job[p].left = {} /\ job[p].who = "none" /\ job[p].cand = {} /\ job[p].found = {}
    BY <1>1 DEF StepInv
  <1>7. HwTypeOK'
    BY <1>1, <1>4, <1>5 DEF HwTypeOK, _purge_stale_drift_events
  <1>8. StepInv'
    <2>1. SUFFICES ASSUME NEW q \in Procs
                   PROVE
            /\ job'[q].at # "probed" => job'[q].batch = <<>>
            /\ job'[q].at \notin {"device", "write"} => job'[q].left = {}
            /\ job'[q].at # "write" => job'[q].who = "none" /\ job'[q].cand = {}
            /\ job'[q].at = "write" => job'[q].who # "none" /\ IsFiniteSet(job'[q].cand)
            /\ \A c \in job'[q].cand : c.dev = job'[q].who
            /\ job'[q].at \in {"idle", "probed", "snmp"} => job'[q].found = {}
            /\ job'[q].found \subseteq ToSet(events')
      BY DEF StepInv
    <2>2. CASE q = p
      BY <1>2, <1>5, <2>2
    <2>3. CASE q # p
      BY <1>1, <1>5, <2>3 DEF StepInv
    <2>4. QED
      BY <2>2, <2>3
  <1>9. \A r \in Waiting' : r \in Waiting \/ r \in ToSet(j.batch)
    <2>1. \A q \in Procs : ToSet(job'[q].batch) \subseteq ToSet(job[q].batch) \cup ToSet(j.batch)
      BY <1>5
    <2>2. QED
      BY <2>1 DEF Waiting
  <1>10. \A q \in Procs : job'[q].cand = job[q].cand
    BY <1>2, <1>5, <1>6
  <1>11. StampInv'
    <2>1. \A r \in (rows \cup Waiting)' : r \in rows \cup Waiting \/ r \in ToSet(j.batch)
      BY <1>9
    <2>2. \A r \in (rows \cup Waiting)' : r \in rows \cup Waiting \/ Fresh(r.seen, r.day)
      BY <1>4, <2>1
    <2>3. \A r \in rows \cup Waiting : ~ Fresh(r.seen, r.day)
      <3>1. \A x \in Marks : x[1] <= clock
        BY <1>1 DEF StampInv
      <3>2. \A r \in rows \cup Waiting : r.seen \in Int /\ <<r.seen, r.day>> \in Marks
        BY <1>1, MarksAre
      <3>3. clock \in Nat
        BY <1>1 DEF HwTypeOK
      <3>4. \A r \in rows \cup Waiting : r.seen \in Int /\ r.seen <= clock
        BY <3>1, <3>2
      <3>5. QED
        BY <3>3, <3>4 DEF Fresh
    <2>4. \A q, r \in (rows \cup Waiting)' :
              Fresh(q.seen, q.day) /\ Fresh(r.seen, r.day) /\ q.seen = r.seen => q = r
      BY <1>4, <2>1, <2>3
    <2>5. (UNION {job'[q].cand : q \in Procs}) = (UNION {job[q].cand : q \in Procs})
      BY <1>10
    <2>6. \A x \in Marks' : x \in Marks \/ Fresh(x[1], x[2])
      <3>1. SUFFICES ASSUME NEW x \in Marks', x \notin Marks
                     PROVE  Fresh(x[1], x[2])
        OBVIOUS
      <3>2. PICK r \in (rows \cup Waiting)' : x = <<r.seen, r.day>>
        BY <2>5, <3>1 DEF Marks
      <3>3. r \notin rows \cup Waiting
        BY <3>1, <3>2 DEF Marks
      <3>4. QED
        BY <2>2, <3>2, <3>3
    <2>7. \A q, r \in ToSet(spool)' : q.dev = r.dev => q = r
      BY <1>1 DEF StampInv
    <2>8. \A q, r \in Waiting' : q.dev = r.dev /\ q.day < day' /\ r.day < day' => q = r
      <3>1. day \in Nat
        BY <1>1 DEF HwTypeOK
      <3>2. \A r \in Waiting' : r.day < day => r \in Waiting
        BY <1>4, <1>9, <3>1 DEF Fresh
      <3>3. QED
        BY <1>1, <3>2 DEF StampInv
    <2>9. day \in Nat /\ day' \in Nat /\ day <= day'
      BY <1>1 DEF HwTypeOK
    <2>10. QED
      BY <1>1, <1>4, <2>2, <2>4, <2>6, <2>7, <2>8, <2>9, StampStep
  <1>12. \A d \in Calm' : \A q \in Procs : Compares(q, d)' <=> Compares(q, d)
    BY <1>2, <1>5, <1>6 DEF Compares
  <1>13. Quiet
    <2>1. Calm' = Calm
      BY DEF Calm
    <2>2. \A q \in Procs : job'[q].at = "write" /\ job'[q].who \in Calm' => CandFits(job'[q].who, job'[q].cand)
      BY <1>1, <1>2, <1>5, <2>1 DEF CandInv
    <2>3. \A d \in Calm' : (\A q \in Procs : ~ Compares(q, d)') => Recorded(d)
      BY <1>1, <1>12, <2>1 DEF RecordInv
    <2>4. QED
      BY <1>4, <1>9, <1>12, <2>2, <2>3 DEF Quiet
  <1>14. QED
    BY <1>7, <1>8, <1>11, <1>13, QuietStep

LEMMA ScanStep ==
    ASSUME HwInv, run_scan
    PROVE  HwInv'
  <1>1. HwTypeOK /\ "cli" \in Procs
    BY DEF HwInv, Procs
  <1>2. PICK a \in Answers({d \in Devices : Route[d] # "snmp"}) : ToPersist("cli", "scan", ScanBatch(Devices, a))
    BY DEF run_scan
  <1>3. \A d \in Devices : Route[d] # "snmp" => a[d] \in Answer
    <2>1. {d \in Devices : Route[d] # "snmp"} \in SUBSET Devices
      OBVIOUS
    <2>2. \A d \in {x \in Devices : Route[x] # "snmp"} : a[d] \in Answer
      BY <1>2, <2>1, AnswersAre
    <2>3. QED
      BY <2>2
  <1>4. ScanBatch(Devices, a) \in Seq(DeviceRow)
    BY <1>3, ScanBatchFacts
  <1>5. /\ job["cli"].at = "idle" /\ jobs' = jobs + 1 /\ rows' = rows /\ events' = events /\ live' = live
        /\ trends' = trends /\ spool' = spool /\ day' = day /\ faults' = faults /\ disturbed' = disturbed
    BY DEF run_scan
  <1>6. jobs' \in Nat
    BY <1>1, <1>5 DEF HwTypeOK
  <1>7. QED
    BY <1>1, <1>2, <1>4, <1>5, <1>6, ProbeStep

LEMMA CheckInStep ==
    ASSUME HwInv, run_check_in
    PROVE  HwInv'
  <1> DEFINE known == {r \in latest_successful_hardware_devices : EnableOt \/ r.method \notin {"modbus", "bacnet"}}
             devs == SetToSeq(known)
             B(a) == [i \in DOMAIN devs |-> check_in_fingerprint_device(devs[i], a[devs[i].dev])]
  <1>1. HwTypeOK /\ "cli" \in Procs
    BY DEF HwInv, Procs
  <1>2. PICK a \in Answers({r.dev : r \in known}) : ToPersist("cli", "check-in", B(a))
    BY DEF run_check_in
  <1>3. /\ job["cli"].at = "idle" /\ jobs' = jobs + 1 /\ rows' = rows /\ events' = events /\ live' = live
        /\ trends' = trends /\ spool' = spool /\ day' = day /\ faults' = faults /\ disturbed' = disturbed
    BY DEF run_check_in
  <1>4. known \in SUBSET rows
    BY DEF latest_successful_hardware_devices
  <1> HIDE DEF known
  <1>5. known \in SUBSET DeviceRow /\ IsFiniteSet(known)
    BY <1>1, <1>4, FS_Subset DEF HwTypeOK
  <1>6. {r.dev : r \in known} \in SUBSET Devices
    BY <1>5 DEF DeviceRow
  <1>7. \A d \in {r.dev : r \in known} : a[d] \in Answer
    BY <1>2, <1>6, AnswersAre
  <1>8. B(a) \in Seq(DeviceRow)
    BY <1>5, <1>7, CheckInBatchType
  <1> HIDE DEF B
  <1>9. jobs' \in Nat
    BY <1>1, <1>3 DEF HwTypeOK
  <1>10. QED
    BY <1>1, <1>2, <1>3, <1>8, <1>9, ProbeStep

LEMMA SnmpStep ==
    ASSUME HwInv, SnmpPhase
    PROVE  HwInv'
  <1>1. HwTypeOK /\ "cli" \in Procs
    BY DEF HwInv, Procs
  <1>2. PICK a : ToPersist("cli", "snmp", SnmpBatch(a))
    BY DEF SnmpPhase
  <1>3. SnmpBatch(a) \in Seq(DeviceRow)
    BY SnmpBatchFacts
  <1>4. /\ job["cli"].at = "snmp" /\ live' = _purge_stale_drift_events /\ rows' = rows /\ events' = events
        /\ trends' = trends /\ spool' = spool /\ day' = day /\ jobs' = jobs /\ faults' = faults
        /\ disturbed' = disturbed
    BY DEF SnmpPhase
  <1>5. jobs' \in Nat
    BY <1>1, <1>4 DEF HwTypeOK
  <1>6. QED
    BY <1>1, <1>2, <1>3, <1>4, <1>5, ProbeStep

LEMMA SensorStep ==
    ASSUME HwInv, SensorScan
    PROVE  HwInv'
  <1>1. HwTypeOK /\ StepInv /\ StampInv /\ OrderInv /\ CandInv /\ RecordInv
    BY DEF HwInv
  <1>2. PICK a \in Answers({d \in Afar : Route[d] # "snmp"}) :
             /\ spool' = Stamp(ScanBatch(Afar, a)) /\ clock' = clock + Len(spool')
    BY DEF SensorScan
  <1>3. /\ spool = <<>> /\ jobs' = jobs + 1 /\ rows' = rows /\ events' = events /\ live' = live
        /\ trends' = trends /\ job' = job /\ day' = day /\ faults' = faults /\ disturbed' = disturbed
    BY DEF SensorScan
  <1> DEFINE b == ScanBatch(Afar, a)
  <1>4. Afar \in SUBSET Devices
    BY HardwareAssumption
  <1>5. \A d \in Afar : Route[d] # "snmp" => a[d] \in Answer
    <2>1. {d \in Afar : Route[d] # "snmp"} \in SUBSET Devices
      BY <1>4
    <2>2. \A d \in {x \in Afar : Route[x] # "snmp"} : a[d] \in Answer
      BY <1>2, <2>1, AnswersAre
    <2>3. QED
      BY <2>2
  <1>6. b \in Seq(DeviceRow) /\ \A i, j \in 1 .. Len(b) : b[i].dev = b[j].dev => i = j
    BY <1>4, <1>5, ScanBatchFacts
  <1> HIDE DEF b
  <1>7. spool' = Stamp(b) /\ Stamp(b) \in Seq(DeviceRow) /\ clock' = clock + Len(b)
    <2>1. Stamp(b) \in Seq(DeviceRow) /\ Len(Stamp(b)) = Len(b)
      BY <1>1, <1>6, StampFacts DEF HwTypeOK
    <2>2. QED
      BY <1>2, <2>1 DEF b
  <1>8. /\ clock' \in Nat /\ clock <= clock'
        /\ \A r \in ToSet(spool') : Fresh(r.seen, r.day)
        /\ \A q, r \in ToSet(spool') : q.seen = r.seen => q = r
        /\ \A q, r \in ToSet(spool') : q.dev = r.dev => q = r
    BY <1>1, <1>6, <1>7, NewRows
  <1>9. HwTypeOK' /\ StepInv'
    BY <1>1, <1>3, <1>7, <1>8 DEF HwTypeOK, StepInv
  <1>10. \A r \in Waiting' : r \in Waiting \/ r \in ToSet(spool')
    BY <1>3 DEF Waiting
  <1>11. StampInv'
    <2>1. \A r \in (rows \cup Waiting)' : r \in rows \cup Waiting \/ r \in ToSet(spool')
      BY <1>3, <1>10
    <2>2. \A r \in (rows \cup Waiting)' : r \in rows \cup Waiting \/ Fresh(r.seen, r.day)
      BY <1>8, <2>1
    <2>3. \A r \in rows \cup Waiting : ~ Fresh(r.seen, r.day)
      <3>1. \A x \in Marks : x[1] <= clock
        BY <1>1 DEF StampInv
      <3>2. \A r \in rows \cup Waiting : r.seen \in Int /\ <<r.seen, r.day>> \in Marks
        BY <1>1, MarksAre
      <3>3. clock \in Nat
        BY <1>1 DEF HwTypeOK
      <3>4. \A r \in rows \cup Waiting : r.seen \in Int /\ r.seen <= clock
        BY <3>1, <3>2
      <3>5. QED
        BY <3>3, <3>4 DEF Fresh
    <2>4. \A q, r \in (rows \cup Waiting)' :
              Fresh(q.seen, q.day) /\ Fresh(r.seen, r.day) /\ q.seen = r.seen => q = r
      BY <1>8, <2>1, <2>3
    <2>5. (UNION {job'[q].cand : q \in Procs}) = (UNION {job[q].cand : q \in Procs})
      BY <1>3
    <2>6. \A x \in Marks' : x \in Marks \/ Fresh(x[1], x[2])
      <3>1. SUFFICES ASSUME NEW x \in Marks', x \notin Marks
                     PROVE  Fresh(x[1], x[2])
        OBVIOUS
      <3>2. PICK r \in (rows \cup Waiting)' : x = <<r.seen, r.day>>
        BY <1>3, <2>5, <3>1 DEF Marks
      <3>3. r \notin rows \cup Waiting
        BY <3>1, <3>2 DEF Marks
      <3>4. QED
        BY <2>2, <3>2, <3>3
    <2>7. day \in Nat /\ day' \in Nat /\ day <= day'
      BY <1>1, <1>3 DEF HwTypeOK
    <2>8. \A q, r \in Waiting' : q.dev = r.dev /\ q.day < day' /\ r.day < day' => q = r
      <3>1. \A r \in Waiting' : r.day < day => r \in Waiting
        BY <1>8, <1>10, <2>7 DEF Fresh
      <3>2. QED
        BY <1>1, <1>3, <3>1 DEF StampInv
    <2>9. QED
      BY <1>1, <1>8, <2>2, <2>4, <2>6, <2>7, <2>8, StampStep
  <1>12. Quiet
    <2>1. Calm' = Calm /\ \A d : \A p \in Procs : Compares(p, d)' <=> Compares(p, d)
      BY <1>3 DEF Calm, Compares
    <2>2. QED
      BY <1>1, <1>3, <1>8, <1>10, <2>1 DEF Quiet, CandInv, RecordInv
  <1>13. QED
    BY <1>9, <1>11, <1>12, QuietStep

(* The window of a device whose rows have their own timestamps each. *)
LEMMA WindowFacts ==
    ASSUME HwTypeOK, StampInv, NEW d
    PROVE  /\ Window(d) \in Seq(DeviceRow)
           /\ \A i \in 1 .. Len(Window(d)) : Window(d)[i] \in Good(d)
           /\ \A i, j \in 1 .. Len(Window(d)) : Window(d)[i] = Window(d)[j] => i = j
           /\ Len(Window(d)) > 0 => \A r \in Good(d) : r.seen <= Window(d)[1].seen
  <1>1. Good(d) \in SUBSET rows
    BY DEF Good
  <1>2. IsFiniteSet(Good(d))
    BY <1>1, FS_Subset DEF HwTypeOK
  <1>3. Stamped(Good(d))
    BY <1>1, <1>2 DEF Stamped, HwTypeOK, StampInv
  <1>4. Window(d) = Newest(Good(d), DEFAULT_M)
    BY DEF Window, recent_successful_hardware_rows, Good
  <1>5. DEFAULT_M \in Nat
    BY DEF DEFAULT_M
  <1>6. QED
    BY <1>3, <1>4, <1>5, NewestFacts

(* What a comparison found is fit to be inserted. *)
LEMMA ReadFits ==
    ASSUME HwTypeOK, StampInv, OrderInv, NEW d \in Calm
    PROVE  CandFits(d, NewEvents(d))
  <1> DEFINE w == Window(d)
             N == NewEvents(d)
  <1>1. d \in Devices
    BY DEF Calm
  <1>2. /\ \A c \in N : /\ c.dev = d /\ ~ Known(events, EventsOf(d, c.type), c.new)
                        /\ Len(w) >= 2 /\ c.detected = w[1].seen
        /\ \A b, c \in N : b.type = c.type => b = c
        /\ \A type \in Static : \A x \in Changed(d, type) :
              \/ \E c \in N : c.type = type /\ c.new = x.new
              \/ /\ \A c \in N : c.type # type
                 /\ Known(events, EventsOf(d, type), x.new)
    BY <1>1, NewEventsFacts
  <1>3. /\ Len(w) \in Nat /\ \A i \in 1 .. Len(w) : w[i] \in Good(d) /\ w[i] \in DeviceRow
        /\ \A i, j \in 1 .. Len(w) : w[i] = w[j] => i = j
        /\ Len(w) > 0 => \A r \in Good(d) : r.seen <= w[1].seen
    BY WindowFacts
  <1> HIDE DEF w, N
  <1>4. \A c \in N : \E r \in Good(d) : r.seen = c.detected
    BY <1>2, <1>3
  <1>5. ASSUME NEW c \in N, NEW i \in History(d)
        PROVE  events[i].detected <= c.detected
    <2>1. 1 \in 1 .. Len(w) /\ 2 \in 1 .. Len(w)
      BY <1>2, <1>3
    <2>2. w[1] \in Good(d) /\ w[2] \in Good(d) /\ w[1] # w[2] /\ w[2].seen <= w[1].seen
      BY <1>3, <2>1
    <2>3. w[1].seen \in Int /\ w[2].seen \in Int
      BY <1>3, <2>1 DEF DeviceRow
    <2>4. events[i].detected \in Int
      BY EventIs DEF History
    <2>5. CASE \E r \in Good(d) : r.seen >= events[i].detected
      <3>1. PICK r \in Good(d) : r.seen >= events[i].detected
        BY <2>5
      <3>2. r.seen \in Int /\ r.seen <= w[1].seen
        <4>1. r \in DeviceRow
          BY <3>1 DEF Good, HwTypeOK
        <4>2. QED
          BY <1>3, <2>1, <3>1, <4>1 DEF DeviceRow
      <3>3. QED
        BY <1>2, <2>3, <2>4, <3>1, <3>2
    <2>6. CASE \A q, r \in Good(d) : q.seen <= events[i].detected /\ r.seen <= events[i].detected => q = r
      <3>1. ~ (w[1].seen <= events[i].detected /\ w[2].seen <= events[i].detected)
        BY <2>2, <2>6
      <3>2. QED
        BY <1>2, <2>2, <2>3, <2>4, <3>1
    <2>7. QED
      BY <2>5, <2>6 DEF OrderInv
  <1>6. \A b, c \in N : b.detected = c.detected
    BY <1>2
  <1>7. \A type \in Static : \A x \in Changed(d, type) :
              \/ \E c \in N : c.type = type /\ c.new = x.new
              \/ /\ \A c \in N : c.type # type
                 /\ Known(events, HistoryOf(d, type), x.new)
    BY <1>2, KnownForever
  <1>8. QED
    BY <1>2, <1>4, <1>5, <1>6, <1>7 DEF CandFits, N

LEMMA ReadStep ==
    ASSUME HwInv, NEW p \in Procs, ReadHistory(p)
    PROVE  HwInv'
  <1>1. HwTypeOK /\ StepInv /\ StampInv /\ OrderInv /\ CandInv /\ RecordInv
    BY DEF HwInv
  <1>2. PICK d \in job[p].left :
            job' = [job EXCEPT ![p].at = "write", ![p].who = d, ![p].left = @ \ {d}, ![p].cand = NewEvents(d)]
    BY DEF ReadHistory, Visit
  <1>3. /\ job[p].at = "device" /\ rows' = rows /\ events' = events /\ live' = live /\ trends' = trends
        /\ spool' = spool /\ clock' = clock /\ day' = day /\ jobs' = jobs /\ faults' = faults
        /\ disturbed' = disturbed
    BY DEF ReadHistory
  <1>4. d \in Devices /\ d # "none"
    BY <1>1, JobFields, HardwareAssumption
  <1>5. IsFiniteSet(NewEvents(d)) /\ NewEvents(d) \in SUBSET Event /\ \A c \in NewEvents(d) : c.dev = d
    BY <1>1, <1>4, NewEventsFacts
  <1> DEFINE N == NewEvents(d)
             j == [job[p] EXCEPT !.at = "write", !.who = d, !.left = @ \ {d}, !.cand = N]
  <1>6. job' = [job EXCEPT ![p] = j]
    BY <1>1, <1>2 DEF HwTypeOK
  <1>7. \A c \in N : \E r \in rows : c.detected = r.seen /\ c.day = r.day
    <2>1. \A c \in N : Len(Window(d)) >= 2 /\ c.detected = Window(d)[1].seen /\ c.day = Window(d)[1].day
      BY <1>1, <1>4, NewEventsFacts
    <2>2. Window(d) \in Seq(DeviceRow) /\ \A i \in 1 .. Len(Window(d)) : Window(d)[i] \in Good(d)
      BY <1>1, WindowFacts
    <2>3. \A c \in N : Window(d)[1] \in Good(d)
      BY <2>1, <2>2
    <2>4. QED
      BY <2>1, <2>3 DEF Good
  <1> HIDE DEF N
  <1>8. /\ j \in Job /\ j.at = "write" /\ j.who = d /\ j.left = job[p].left \ {d} /\ j.cand = N
        /\ j.batch = job[p].batch /\ j.found = job[p].found
    <2>1. job[p] \in Job
      BY <1>1 DEF HwTypeOK
    <2>2. QED
      BY <1>4, <1>5, <2>1 DEF Job, N
  <1> HIDE DEF j
  <1>9. /\ job' \in [Procs -> Job] /\ job'[p] = j /\ \A q \in Procs : q # p => job'[q] = job[q]
    BY <1>1, <1>6, <1>8, JobTo
  <1>10. job[p].batch = <<>> /\ job[p].who = "none" /\ job[p].cand = {} /\ job[p].found \subseteq ToSet(events)
    BY <1>1, <1>3 DEF StepInv
  <1>11. HwTypeOK'
    BY <1>1, <1>3, <1>9 DEF HwTypeOK
  <1>12. StepInv'
    <2>1. SUFFICES ASSUME NEW q \in Procs
                   PROVE
            /\ job'[q].at # "probed" => job'[q].batch = <<>>
            /\ job'[q].at \notin {"device", "write"} => job'[q].left = {}
            /\ job'[q].at # "write" => job'[q].who = "none" /\ job'[q].cand = {}
            /\ job'[q].at = "write" => job'[q].who # "none" /\ IsFiniteSet(job'[q].cand)
            /\ \A c \in job'[q].cand : c.dev = job'[q].who
            /\ job'[q].at \in {"idle", "probed", "snmp"} => job'[q].found = {}
            /\ job'[q].found \subseteq ToSet(events')
      BY DEF StepInv
    <2>2. CASE q = p
      BY <1>3, <1>4, <1>5, <1>8, <1>9, <1>10, <2>2 DEF N
    <2>3. CASE q # p
      BY <1>1, <1>3, <1>9, <2>3 DEF StepInv
    <2>4. QED
      BY <2>2, <2>3
  <1>13. \A q \in Procs : ToSet(job'[q].batch) = ToSet(job[q].batch)
    BY <1>8, <1>9
  <1>14. Waiting' = Waiting
    BY <1>3, <1>13 DEF Waiting
  <1>15. Marks' \subseteq Marks
    <2>1. SUFFICES ASSUME NEW x \in Marks'
                   PROVE  x \in Marks
      OBVIOUS
    <2>2. CASE \E r \in rows' \cup Waiting' : x = <<r.seen, r.day>>
      BY <1>3, <1>14, <2>2 DEF Marks
    <2>3. CASE \E e \in ToSet(events') : x = <<e.detected, e.day>>
      BY <1>3, <2>3 DEF Marks
    <2>4. CASE \E q \in Procs : \E e \in job'[q].cand : x = <<e.detected, e.day>>
      <3>1. PICK q \in Procs : \E e \in job'[q].cand : x = <<e.detected, e.day>>
        BY <2>4
      <3>2. CASE q = p
        <4>1. PICK e \in N : x = <<e.detected, e.day>>
          BY <1>8, <1>9, <3>1, <3>2
        <4>2. \E r \in rows : x = <<r.seen, r.day>>
          BY <1>7, <4>1
        <4>3. QED
          BY <4>2 DEF Marks
      <3>3. CASE q # p
        BY <1>9, <3>1, <3>3 DEF Marks
      <3>4. QED
        BY <3>2, <3>3
    <2>5. QED
      BY <2>1, <2>2, <2>3, <2>4 DEF Marks
  <1>16. StampInv'
    BY <1>1, <1>3, <1>14, <1>15, StampShrinks
  <1>17. \A x \in Calm' : x # "none" /\ \A q \in Procs : Compares(q, x)' <=> Compares(q, x)
    BY <1>8, <1>9, <1>10, HardwareAssumption DEF Compares, Calm
  <1>18. Quiet
    <2>1. Calm' = Calm
      BY <1>3 DEF Calm
    <2>2. \A q \in Procs : job'[q].at = "write" /\ job'[q].who \in Calm' => CandFits(job'[q].who, job'[q].cand)
      <3>1. SUFFICES ASSUME NEW q \in Procs, job'[q].at = "write", job'[q].who \in Calm'
                     PROVE  CandFits(job'[q].who, job'[q].cand)
        OBVIOUS
      <3>2. CASE q = p
        <4>1. job'[q].who = d /\ job'[q].cand = NewEvents(d) /\ d \in Calm
          BY <1>8, <1>9, <2>1, <3>1, <3>2 DEF N
        <4>2. CandFits(d, NewEvents(d))
          BY <1>1, <4>1, ReadFits
        <4>3. QED
          BY <4>1, <4>2
      <3>3. CASE q # p
        BY <1>1, <1>9, <2>1, <3>1, <3>3 DEF CandInv
      <3>4. QED
        BY <3>2, <3>3
    <2>3. \A x \in Calm' : (\A q \in Procs : ~ Compares(q, x)') => Recorded(x)
      BY <1>1, <1>17, <2>1 DEF RecordInv
    <2>4. QED
      BY <1>3, <1>14, <1>17, <2>2, <2>3 DEF Quiet
  <1>19. QED
    BY <1>11, <1>12, <1>16, <1>18, QuietStep

(* The process that compared a device goes on to the next. *)
LEMMA ComparedIs ==
    ASSUME HwTypeOK, NEW p \in Procs, NEW found \in SUBSET Event, job' = Compared(p, found)
    PROVE  /\ job' \in [Procs -> Job] /\ \A q \in Procs : q # p => job'[q] = job[q]
           /\ job'[p].at = "device" /\ job'[p].who = "none" /\ job'[p].cand = {}
           /\ job'[p].batch = job[p].batch /\ job'[p].left = job[p].left
           /\ job'[p].found = job[p].found \cup found
  <1> DEFINE j == [job[p] EXCEPT !.at = "device", !.who = "none", !.cand = {}, !.found = @ \cup found]
  <1>1. job' = [job EXCEPT ![p] = j]
    BY DEF HwTypeOK, Compared
  <1>2. job[p] \in Job
    BY DEF HwTypeOK
  <1>3. /\ j \in Job /\ j.at = "device" /\ j.who = "none" /\ j.cand = {}
        /\ j.batch = job[p].batch /\ j.left = job[p].left /\ j.found = job[p].found \cup found
    BY <1>2 DEF Job
  <1> HIDE DEF j
  <1>4. job' \in [Procs -> Job] /\ job'[p] = j /\ \A q \in Procs : q # p => job'[q] = job[q]
    BY <1>1, <1>3, JobTo
  <1>5. QED
    BY <1>3, <1>4

LEMMA WriteFailsStep ==
    ASSUME HwInv, NEW p \in Procs, WriteEventsFails(p)
    PROVE  HwInv'
  <1>1. HwTypeOK /\ StepInv /\ StampInv /\ OrderInv /\ CandInv /\ RecordInv
    BY DEF HwInv
  <1>2. /\ job[p].at = "write" /\ job' = Compared(p, {}) /\ disturbed' = disturbed \cup {job[p].who}
        /\ rows' = rows /\ events' = events /\ live' = live /\ trends' = trends
        /\ spool' = spool /\ clock' = clock /\ day' = day /\ jobs' = jobs /\ faults' = faults + 1
    BY DEF WriteEventsFails, FoundOnFailure, Fault
  <1>3. /\ job' \in [Procs -> Job] /\ \A q \in Procs : q # p => job'[q] = job[q]
        /\ job'[p].at = "device" /\ job'[p].who = "none" /\ job'[p].cand = {}
        /\ job'[p].batch = job[p].batch /\ job'[p].left = job[p].left
        /\ job'[p].found = job[p].found
    <2>1. {} \in SUBSET Event
      OBVIOUS
    <2>2. QED
      BY <1>1, <1>2, <2>1, ComparedIs
  <1>4. job[p].who \in Devices /\ job[p].batch = <<>> /\ job[p].found \subseteq ToSet(events)
    BY <1>1, <1>2, JobFields DEF StepInv
  <1>5. HwTypeOK'
    BY <1>1, <1>2, <1>3, <1>4 DEF HwTypeOK
  <1>6. StepInv'
    <2>1. SUFFICES ASSUME NEW q \in Procs
                   PROVE
            /\ job'[q].at # "probed" => job'[q].batch = <<>>
            /\ job'[q].at \notin {"device", "write"} => job'[q].left = {}
            /\ job'[q].at # "write" => job'[q].who = "none" /\ job'[q].cand = {}
            /\ job'[q].at = "write" => job'[q].who # "none" /\ IsFiniteSet(job'[q].cand)
            /\ \A c \in job'[q].cand : c.dev = job'[q].who
            /\ job'[q].at \in {"idle", "probed", "snmp"} => job'[q].found = {}
            /\ job'[q].found \subseteq ToSet(events')
      BY DEF StepInv
    <2>2. CASE q = p
      BY <1>2, <1>3, <1>4, <2>2
    <2>3. CASE q # p
      BY <1>1, <1>2, <1>3, <2>3 DEF StepInv
    <2>4. QED
      BY <2>2, <2>3
  <1>7. \A q \in Procs : ToSet(job'[q].batch) = ToSet(job[q].batch) /\ job'[q].cand \subseteq job[q].cand
    BY <1>3
  <1>8. Waiting' = Waiting
    BY <1>2, <1>7 DEF Waiting
  <1>9. Marks' \subseteq Marks
    <2>1. (UNION {job'[q].cand : q \in Procs}) \subseteq (UNION {job[q].cand : q \in Procs})
      BY <1>7
    <2>2. QED
      BY <1>2, <1>8, <2>1 DEF Marks
  <1>10. StampInv'
    BY <1>1, <1>2, <1>8, <1>9, StampShrinks
  <1>11. \A x \in Calm' : x # "none" /\ \A q \in Procs : Compares(q, x)' <=> Compares(q, x)
    BY <1>2, <1>3, HardwareAssumption DEF Compares, Calm
  <1>12. Quiet
    <2>1. Calm' \in SUBSET Calm /\ disturbed \subseteq disturbed'
      BY <1>2 DEF Calm
    <2>2. \A q \in Procs : job'[q].at = "write" /\ job'[q].who \in Calm' => CandFits(job'[q].who, job'[q].cand)
      BY <1>1, <1>3, <2>1 DEF CandInv
    <2>3. \A x \in Calm' : (\A q \in Procs : ~ Compares(q, x)') => Recorded(x)
      BY <1>1, <1>11, <2>1 DEF RecordInv
    <2>4. QED
      BY <1>2, <1>8, <1>11, <2>1, <2>2, <2>3 DEF Quiet
  <1>13. QED
    BY <1>5, <1>6, <1>10, <1>12, QuietStep

-----------------------------------------------------------------------------
(* The commit of what a comparison found *)

(* The new ids come after the ones there are, one for each event. *)
NewIds == Len(events) + 1 .. Len(events')

LEMMA Inserted ==
    ASSUME HwTypeOK, StepInv, NEW p \in Procs, WriteEvents(p)
    PROVE  /\ events' \in Seq(Event) /\ Len(events) \in Nat /\ Len(events') \in Nat
           /\ DOMAIN events = 1 .. Len(events)
           /\ DOMAIN events' = DOMAIN events \cup NewIds
           /\ \A i \in DOMAIN events : i \in Nat /\ i \notin NewIds /\ events'[i] = events[i]
           /\ \A k \in NewIds : k \in Nat /\ events'[k] \in job[p].cand /\ \A i \in DOMAIN events : i < k
           /\ \A c \in job[p].cand : \E k \in NewIds : events'[k] = c
           /\ \A k, l \in NewIds : events'[k] = events'[l] => k = l
           /\ live' = live \cup NewIds
           /\ ToSet(events') = ToSet(events) \cup job[p].cand
  <1> DEFINE n == Len(events)
             s == SetToSeq(job[p].cand)
             m == Len(s)
  <1>1. IsFiniteSet(job[p].cand) /\ job[p].cand \in SUBSET Event
    BY JobFields DEF StepInv, WriteEvents
  <1>2. /\ s \in Seq(job[p].cand)
        /\ \A x \in job[p].cand : \E i \in 1 .. m : s[i] = x
        /\ \A i, j \in 1 .. m : s[i] = s[j] => i = j
    BY <1>1, SetToSeqFacts
  <1>3. events' = events \o s /\ live' = live \cup NewIds
    BY DEF WriteEvents, NewIds
  <1>4. n \in Nat /\ m \in Nat /\ events \in Seq(Event) /\ DOMAIN events = 1 .. n
    BY <1>2, EventIs DEF HwTypeOK
  <1>5. s \in Seq(Event) /\ \A i \in 1 .. m : s[i] \in job[p].cand
    BY <1>1, <1>2
  <1> HIDE DEF s
  <1>6. /\ events' \in Seq(Event) /\ Len(events') = n + m
        /\ \A i \in 1 .. n + m : events'[i] = IF i <= n THEN events[i] ELSE s[i - n]
    BY <1>3, <1>4, <1>5, ConcatFacts
  <1>7. NewIds = n + 1 .. n + m
    BY <1>6 DEF NewIds
  <1>8. DOMAIN events' = 1 .. n + m
    BY <1>6
  <1>9. \A i \in 1 .. n : events'[i] = events[i] /\ i \notin NewIds
    BY <1>4, <1>6, <1>7
  <1>10. \A k \in NewIds : events'[k] = s[k - n] /\ k - n \in 1 .. m /\ k \in Nat /\ k > n
    BY <1>4, <1>6, <1>7
  <1>11. \A i \in 1 .. m : n + i \in NewIds /\ events'[n + i] = s[i]
    <2>1. SUFFICES ASSUME NEW i \in 1 .. m
                   PROVE  n + i \in NewIds /\ events'[n + i] = s[i]
      OBVIOUS
    <2>2. n + i \in NewIds /\ n + i \in 1 .. n + m /\ ~ (n + i <= n) /\ (n + i) - n = i
      BY <1>4, <1>7
    <2>3. QED
      BY <1>6, <2>2
  <1>12. \A c \in job[p].cand : \E k \in NewIds : events'[k] = c
    BY <1>2, <1>11
  <1>13. \A k, l \in NewIds : events'[k] = events'[l] => k = l
    <2>1. SUFFICES ASSUME NEW k \in NewIds, NEW l \in NewIds, events'[k] = events'[l]
                   PROVE  k = l
      OBVIOUS
    <2>2. k - n = l - n
      <3>1. k - n \in 1 .. m /\ l - n \in 1 .. m /\ s[k - n] = s[l - n]
        BY <1>10, <2>1
      <3>2. QED
        BY <1>2, <3>1
    <2>3. QED
      BY <1>4, <1>10, <2>2
  <1>14. DOMAIN events' = DOMAIN events \cup NewIds
    BY <1>4, <1>7, <1>8
  <1>15. ToSet(events') = ToSet(events) \cup job[p].cand
    <2>1. ToSet(events') = {events'[i] : i \in DOMAIN events'} /\ ToSet(events) = {events[i] : i \in DOMAIN events}
      BY DEF ToSet
    <2>2. \A k \in NewIds : events'[k] \in job[p].cand
      BY <1>5, <1>10
    <2>3. QED
      BY <1>4, <1>9, <1>12, <1>14, <2>1, <2>2
  <1>16. Len(events') \in Nat
    BY <1>4, <1>6
  <1>17. \A i \in DOMAIN events : i \in Nat /\ i \notin NewIds /\ events'[i] = events[i]
    BY <1>4, <1>9
  <1>18. \A k \in NewIds : k \in Nat /\ events'[k] \in job[p].cand /\ \A i \in DOMAIN events : i < k
    <2>1. SUFFICES ASSUME NEW k \in NewIds
                   PROVE  k \in Nat /\ events'[k] \in job[p].cand /\ \A i \in DOMAIN events : i < k
      OBVIOUS
    <2>2. k \in Nat /\ k > n /\ events'[k] \in job[p].cand
      BY <1>5, <1>10
    <2>3. \A i \in 1 .. n : i < k
      BY <1>4, <2>2
    <2>4. QED
      BY <1>4, <2>2, <2>3
  <1>19. QED
    BY <1>3, <1>4, <1>6, <1>12, <1>13, <1>14, <1>15, <1>16, <1>17, <1>18, Zenon

LEMMA WriteTypes ==
    ASSUME HwInv, NEW p \in Procs, WriteEvents(p)
    PROVE  HwTypeOK' /\ StepInv' /\ StampInv' /\ Waiting' = Waiting
  <1>1. HwTypeOK /\ StepInv /\ StampInv
    BY DEF HwInv
  <1>2. /\ job[p].at = "write" /\ job' = Compared(p, job[p].cand)
        /\ rows' = rows /\ trends' = trends /\ spool' = spool /\ clock' = clock /\ day' = day
        /\ jobs' = jobs /\ faults' = faults /\ disturbed' = disturbed
    BY DEF WriteEvents
  <1>3. /\ events' \in Seq(Event) /\ DOMAIN events' = DOMAIN events \cup NewIds /\ live' = live \cup NewIds
        /\ ToSet(events') = ToSet(events) \cup job[p].cand
    BY <1>1, Inserted
  <1>4. /\ job' \in [Procs -> Job] /\ \A q \in Procs : q # p => job'[q] = job[q]
        /\ job'[p].at = "device" /\ job'[p].who = "none" /\ job'[p].cand = {}
        /\ job'[p].batch = job[p].batch /\ job'[p].left = job[p].left
        /\ job'[p].found = job[p].found \cup job[p].cand
    <2>1. job[p].cand \in SUBSET Event
      BY <1>1, JobFields
    <2>2. QED
      BY <1>1, <1>2, <2>1, ComparedIs
  <1>5. job[p].batch = <<>> /\ job[p].found \subseteq ToSet(events)
    BY <1>1, <1>2 DEF StepInv
  <1>6. HwTypeOK'
    BY <1>1, <1>2, <1>3, <1>4 DEF HwTypeOK
  <1>7. StepInv'
    <2>1. SUFFICES ASSUME NEW q \in Procs
                   PROVE
            /\ job'[q].at # "probed" => job'[q].batch = <<>>
            /\ job'[q].at \notin {"device", "write"} => job'[q].left = {}
            /\ job'[q].at # "write" => job'[q].who = "none" /\ job'[q].cand = {}
            /\ job'[q].at = "write" => job'[q].who # "none" /\ IsFiniteSet(job'[q].cand)
            /\ \A c \in job'[q].cand : c.dev = job'[q].who
            /\ job'[q].at \in {"idle", "probed", "snmp"} => job'[q].found = {}
            /\ job'[q].found \subseteq ToSet(events')
      BY DEF StepInv
    <2>2. CASE q = p
      BY <1>3, <1>4, <1>5, <2>2
    <2>3. CASE q # p
      BY <1>1, <1>3, <1>4, <2>3 DEF StepInv
    <2>4. QED
      BY <2>2, <2>3
  <1>8. \A q \in Procs : ToSet(job'[q].batch) = ToSet(job[q].batch) /\ job'[q].cand \subseteq job[q].cand
    BY <1>4
  <1>9. Waiting' = Waiting
    BY <1>2, <1>8 DEF Waiting
  <1>10. ToSet(events') \cup (UNION {job'[q].cand : q \in Procs})
            \subseteq ToSet(events) \cup (UNION {job[q].cand : q \in Procs})
    BY <1>3, <1>8
  <1>11. Marks' \subseteq Marks
    <2>1. SUFFICES ASSUME NEW x \in Marks'
                   PROVE  x \in Marks
      OBVIOUS
    <2>2. CASE \E r \in rows' \cup Waiting' : x = <<r.seen, r.day>>
      BY <1>2, <1>9, <2>2 DEF Marks
    <2>3. CASE \E e \in ToSet(events') \cup (UNION {job'[q].cand : q \in Procs}) : x = <<e.detected, e.day>>
      BY <1>10, <2>3 DEF Marks
    <2>4. QED
      BY <2>1, <2>2, <2>3 DEF Marks
  <1>12. StampInv'
    BY <1>1, <1>2, <1>9, <1>11, StampShrinks
  <1>13. QED
    BY <1>6, <1>7, <1>9, <1>12

(* What an old set of ids knows does not depend on what is appended. *)
LEMMA KnownExtends ==
    ASSUME HwTypeOK, OrderInv, NEW d \in Calm, NEW type, NEW ids \in SUBSET HistoryOf(d, type),
           NEW table, \A i \in DOMAIN events : table[i] = events[i], NEW value
    PROVE  Known(table, ids, value) <=> Known(events, ids, value)
  <1>1. CASE ids = {}
    BY <1>1 DEF Known
  <1>2. CASE ids # {}
    <2>1. /\ ids \in SUBSET (1 .. Len(events)) /\ ids \in SUBSET Nat /\ ids \in SUBSET History(d)
          /\ Len(events) \in Nat /\ DOMAIN events = 1 .. Len(events)
      BY HistoryIds, EventIs
    <2>2. PICK m : LastOf(ids, m)
      BY <1>2, <2>1, LastExists
    <2>3. Known(events, ids, value) <=> events[m].new = value
      BY <2>2, RecentFacts
    <2>4. \A i \in ids : table[i] = events[i] /\ table[i].detected \in Int
      BY <2>1, EventIs
    <2>5. \A i, j \in ids : i < j => table[i].detected <= table[j].detected
      BY <2>1, <2>4 DEF OrderInv
    <2>6. Known(table, ids, value) <=> table[m].new = value
      BY <2>1, <2>2, <2>4, <2>5, LastIsMostRecent
    <2>7. table[m] = events[m]
      BY <2>2, <2>4 DEF LastOf
    <2>8. QED
      BY <2>3, <2>6, <2>7
  <1>3. QED
    BY <1>1, <1>2

LEMMA WriteHistory ==
    ASSUME HwTypeOK, StepInv, NEW p \in Procs, WriteEvents(p), NEW d
    PROVE  /\ d # job[p].who => /\ History(d)' = History(d)
                                /\ \A type : HistoryOf(d, type)' = HistoryOf(d, type)
                                /\ \A type : EventsOf(d, type)' = EventsOf(d, type)
           /\ d = job[p].who => /\ History(d)' = History(d) \cup NewIds
                                /\ \A type : HistoryOf(d, type)' =
                                     HistoryOf(d, type) \cup {k \in NewIds : events'[k].type = type}
           /\ \A i \in History(d) : i \in DOMAIN events /\ events'[i] = events[i]
  <1>1. /\ DOMAIN events' = DOMAIN events \cup NewIds /\ live' = live \cup NewIds /\ live \subseteq DOMAIN events
        /\ \A i \in DOMAIN events : i \notin NewIds /\ events'[i] = events[i]
        /\ \A k \in NewIds : events'[k] \in job[p].cand
    BY Inserted DEF HwTypeOK
  <1>2. \A k \in NewIds : events'[k].dev = job[p].who
    BY <1>1 DEF StepInv
  <1> HIDE DEF NewIds
  <1>3. History(d)' = {i \in DOMAIN events : events[i].dev = d} \cup {k \in NewIds : events'[k].dev = d}
    BY <1>1 DEF History
  <1>4. \A type : HistoryOf(d, type)' =
            HistoryOf(d, type) \cup {k \in NewIds : events'[k].dev = d /\ events'[k].type = type}
    BY <1>1, <1>3 DEF HistoryOf, History
  <1>5. \A type : EventsOf(d, type)' =
            EventsOf(d, type) \cup {k \in NewIds : events'[k].dev = d /\ events'[k].type = type}
    BY <1>1 DEF EventsOf
  <1>6. \A i \in History(d) : i \in DOMAIN events /\ events'[i] = events[i]
    BY <1>1 DEF History
  <1>7. CASE d # job[p].who
    <2>1. \A k \in NewIds : events'[k].dev # d
      BY <1>2, <1>7
    <2>2. History(d)' = History(d)
      BY <1>3, <2>1 DEF History
    <2>3. \A type : HistoryOf(d, type)' = HistoryOf(d, type)
      BY <1>4, <2>1
    <2>4. \A type : EventsOf(d, type)' = EventsOf(d, type)
      BY <1>5, <2>1
    <2>5. QED
      BY <1>6, <1>7, <2>2, <2>3, <2>4
  <1>8. CASE d = job[p].who
    BY <1>2, <1>3, <1>4, <1>5, <1>6, <1>8 DEF History
  <1>9. QED
    BY <1>7, <1>8

LEMMA WriteOrder ==
    ASSUME HwInv, NEW p \in Procs, WriteEvents(p)
    PROVE  OrderInv'
  <1>1. HwTypeOK /\ StepInv /\ OrderInv /\ CandInv
    BY DEF HwInv
  <1>2. Calm' = Calm /\ rows' = rows /\ job[p].at = "write" /\ Waiting' = Waiting
    BY WriteTypes DEF WriteEvents, Calm
  <1>3. /\ \A q \in Procs : q # p => job'[q] = job[q]
        /\ job'[p].who = "none" /\ job'[p].left = job[p].left
    <2>1. job[p].cand \in SUBSET Event /\ job' = Compared(p, job[p].cand)
      BY <1>1, JobFields DEF WriteEvents
    <2>2. QED
      BY <1>1, <2>1, ComparedIs
  <1>4. /\ DOMAIN events' = DOMAIN events \cup NewIds /\ live' = live \cup NewIds /\ live \subseteq DOMAIN events
        /\ \A i \in DOMAIN events : i \notin NewIds
        /\ \A k \in NewIds : events'[k] \in job[p].cand /\ \A i \in DOMAIN events : i < k
    BY <1>1, Inserted DEF HwTypeOK
  <1>5. SUFFICES ASSUME NEW d \in Calm
                 PROVE
        /\ \A q, r \in Procs : Compares(q, d)' /\ Compares(r, d)' => q = r
        /\ \A i \in History(d)' :
              \/ \E r \in Good(d) : r.seen >= events'[i].detected
              \/ \A q, r \in Good(d) \cup {x \in Waiting : x.dev = d} :
                    q.seen <= events'[i].detected /\ r.seen <= events'[i].detected => q = r
        /\ \A i, j \in History(d)' : i < j => events'[i].detected <= events'[j].detected
        /\ \A i, j \in History(d)' : i \notin live' /\ j \in live' => i < j
    BY <1>2 DEF OrderInv, Good
  <1>6. \A q, r \in Procs : Compares(q, d)' /\ Compares(r, d)' => q = r
    <2>1. d # "none"
      BY HardwareAssumption DEF Calm
    <2>2. \A q \in Procs : Compares(q, d)' => Compares(q, d)
      BY <1>3, <2>1 DEF Compares
    <2>3. QED
      BY <1>1, <2>2 DEF OrderInv
  <1>7. \A i \in History(d) : i \in DOMAIN events /\ events'[i] = events[i]
    BY <1>1, WriteHistory
  <1>8. /\ \A i \in History(d) :
              \/ \E r \in Good(d) : r.seen >= events'[i].detected
              \/ \A q, r \in Good(d) \cup {x \in Waiting : x.dev = d} :
                    q.seen <= events'[i].detected /\ r.seen <= events'[i].detected => q = r
        /\ \A i, j \in History(d) : i < j => events'[i].detected <= events'[j].detected
        /\ \A i, j \in History(d) : i \notin live' /\ j \in live' => i < j
    <2>1. \A i \in History(d) :
              \/ \E r \in Good(d) : r.seen >= events[i].detected
              \/ \A q, r \in Good(d) \cup {x \in Waiting : x.dev = d} :
                    q.seen <= events[i].detected /\ r.seen <= events[i].detected => q = r
      BY <1>1 DEF OrderInv
    <2>2. \A i, j \in History(d) : i < j => events[i].detected <= events[j].detected
      BY <1>1 DEF OrderInv
    <2>3. \A i, j \in History(d) : i \notin live /\ j \in live => i < j
      BY <1>1 DEF OrderInv
    <2>4. \A i \in History(d) : i \in live' <=> i \in live
      BY <1>4, <1>7
    <2>5. QED
      BY <1>7, <2>1, <2>2, <2>3, <2>4
  <1>9. CASE d # job[p].who
    <2>1. History(d)' = History(d)
      BY <1>1, <1>9, WriteHistory
    <2>2. QED
      BY <1>6, <1>8, <2>1
  <1>10. CASE d = job[p].who
    <2>1. History(d)' = History(d) \cup NewIds
      BY <1>1, <1>10, WriteHistory
    <2>2. CandFits(d, job[p].cand)
      BY <1>1, <1>2, <1>10 DEF CandInv
    <2>3. \A k \in NewIds : /\ \E r \in Good(d) : r.seen = events'[k].detected
                            /\ \A i \in History(d) : events[i].detected <= events'[k].detected
                            /\ events'[k].detected \in Int
      <3>1. \A c \in job[p].cand : c.detected \in Int
        BY <1>1, JobFields DEF Event
      <3>2. QED
        BY <1>4, <2>2, <3>1 DEF CandFits
    <2>4. \A k, l \in NewIds : events'[k].detected = events'[l].detected
      BY <1>4, <2>2 DEF CandFits
    <2>5. \A i \in History(d)' :
              \/ \E r \in Good(d) : r.seen >= events'[i].detected
              \/ \A q, r \in Good(d) \cup {x \in Waiting : x.dev = d} :
                    q.seen <= events'[i].detected /\ r.seen <= events'[i].detected => q = r
      <3>1. SUFFICES ASSUME NEW i \in NewIds
                     PROVE  \E r \in Good(d) : r.seen >= events'[i].detected
        BY <1>8, <2>1
      <3>2. PICK r \in Good(d) : r.seen = events'[i].detected
        BY <2>3
      <3>3. events'[i].detected \in Int
        BY <2>3
      <3>4. r.seen >= events'[i].detected
        BY <3>2, <3>3
      <3>5. QED
        BY <3>4
    <2>6. \A i, j \in History(d)' : i < j => events'[i].detected <= events'[j].detected
      <3>1. SUFFICES ASSUME NEW i \in History(d)', NEW j \in History(d)', i < j
                     PROVE  events'[i].detected <= events'[j].detected
        OBVIOUS
      <3>2. CASE i \in History(d) /\ j \in History(d)
        BY <1>8, <3>1, <3>2
      <3>3. CASE i \in History(d) /\ j \in NewIds
        BY <1>7, <2>3, <3>3
      <3>4. CASE i \in NewIds /\ j \in NewIds
        <4>1. events'[i].detected = events'[j].detected /\ events'[j].detected \in Int
          BY <2>3, <2>4, <3>4
        <4>2. QED
          BY <4>1
      <3>5. CASE i \in NewIds /\ j \in History(d)
        <4>1. j < i /\ i \in Nat /\ j \in Nat
          <5>1. j \in DOMAIN events
            BY <1>7, <3>5
          <5>2. i \in Nat /\ j \in Nat
            BY <1>1, <3>5, <5>1, Inserted
          <5>3. QED
            BY <1>4, <3>5, <5>1, <5>2
        <4>2. QED
          BY <3>1, <4>1
      <3>6. QED
        BY <2>1, <3>2, <3>3, <3>4, <3>5
    <2>7. \A i, j \in History(d)' : i \notin live' /\ j \in live' => i < j
      <3>1. SUFFICES ASSUME NEW i \in History(d)', NEW j \in History(d)', i \notin live', j \in live'
                     PROVE  i < j
        OBVIOUS
      <3>2. i \in History(d) /\ i \in DOMAIN events
        BY <1>4, <1>7, <2>1, <3>1
      <3>3. CASE j \in History(d)
        BY <1>8, <3>1, <3>2, <3>3
      <3>4. CASE j \in NewIds
        BY <1>4, <3>2, <3>4
      <3>5. QED
        BY <2>1, <3>3, <3>4
    <2>8. QED
      BY <1>6, <2>5, <2>6, <2>7
  <1>11. QED
    BY <1>9, <1>10

(* The last event of its type is the new one, where there is a new one. *)
LEMMA NewIsLast ==
    ASSUME HwInv, NEW p \in Procs, WriteEvents(p), NEW d \in Calm, d = job[p].who,
           NEW k \in NewIds, NEW type, events'[k].type = type, NEW value
    PROVE  /\ LastOf(HistoryOf(d, type)', k)
           /\ Known(events, HistoryOf(d, type), value)' <=> events'[k].new = value
  <1>1. HwTypeOK /\ StepInv /\ CandInv /\ job[p].at = "write" /\ OrderInv' /\ Calm' = Calm
    BY WriteOrder DEF HwInv, WriteEvents, Calm
  <1>2. HistoryOf(d, type)' = HistoryOf(d, type) \cup {l \in NewIds : events'[l].type = type}
    BY <1>1, WriteHistory
  <1>3. HistoryOf(d, type) \in SUBSET DOMAIN events
    BY <1>1, HistoryIds, EventIs
  <1>4. /\ \A l \in NewIds : l \in Nat /\ events'[l] \in job[p].cand /\ \A i \in DOMAIN events : i \in Nat /\ i < l
        /\ \A l \in NewIds : events'[l] = events'[k] => l = k
        /\ DOMAIN events' = DOMAIN events \cup NewIds /\ events' \in Seq(Event)
    BY <1>1, Inserted
  <1>5. \A b, c \in job[p].cand : b.type = c.type => b = c
    BY <1>1 DEF CandInv, CandFits
  <1>6. \A l \in NewIds : events'[l].type = type => l = k
    BY <1>4, <1>5
  <1>7. PICK ids : ids = HistoryOf(d, type)'
    OBVIOUS
  <1>8. LastOf(ids, k) /\ ids \in SUBSET Nat /\ ids \in SUBSET DOMAIN events'
    BY <1>2, <1>3, <1>4, <1>6, <1>7 DEF LastOf
  <1>9. \A i \in ids : events'[i].detected \in Int
    <2>1. events' \in Seq(Event)
      BY <1>4
    <2>2. \A i \in DOMAIN events' : events'[i] \in Event
      BY <2>1
    <2>3. \A e \in Event : e.detected \in Int
      BY DEF Event
    <2>4. QED
      BY <1>8, <2>2, <2>3
  <1>10. \A i, j \in ids : i < j => events'[i].detected <= events'[j].detected
    <2>1. ids \in SUBSET History(d)'
      BY <1>7 DEF HistoryOf
    <2>2. \A i, j \in History(d)' : i < j => events'[i].detected <= events'[j].detected
      BY <1>1 DEF OrderInv
    <2>3. QED
      BY <2>1, <2>2
  <1>11. Known(events', ids, value) <=> events'[k].new = value
    BY <1>8, <1>9, <1>10, LastIsMostRecent
  <1>12. QED
    BY <1>7, <1>8, <1>11 DEF Known, MostRecent

LEMMA WriteKnown ==
    ASSUME HwInv, NEW p \in Procs, WriteEvents(p), NEW d \in Calm, NEW type, NEW value,
           NEW old, NEW ids \in SUBSET HistoryOf(d, type), old = ids
    PROVE  Known(events', old, value) <=> Known(events, ids, value)
  <1>1. HwTypeOK /\ StepInv /\ OrderInv
    BY DEF HwInv
  <1>2. \A i \in DOMAIN events : events'[i] = events[i]
    BY <1>1, Inserted
  <1>3. QED
    BY <1>1, <1>2, KnownExtends

LEMMA WriteRecord ==
    ASSUME HwInv, NEW p \in Procs, WriteEvents(p)
    PROVE  RecordInv'
  <1>1. HwTypeOK /\ StepInv /\ OrderInv /\ CandInv /\ RecordInv
    BY DEF HwInv
  <1>2. Calm' = Calm /\ rows' = rows /\ job[p].at = "write"
    BY DEF WriteEvents, Calm
  <1>3. /\ \A q \in Procs : q # p => job'[q] = job[q]
        /\ job'[p].who = "none" /\ job'[p].left = job[p].left
    <2>1. job[p].cand \in SUBSET Event /\ job' = Compared(p, job[p].cand)
      BY <1>1, JobFields DEF WriteEvents
    <2>2. QED
      BY <1>1, <2>1, ComparedIs
  <1>4. SUFFICES ASSUME NEW d \in Calm, \A q \in Procs : ~ Compares(q, d)',
                        NEW type \in Static, NEW x \in Changed(d, type)'
                 PROVE  Known(events, HistoryOf(d, type), x.new)'
    BY <1>2 DEF RecordInv, Recorded
  <1>5. x \in Changed(d, type)
    <2>1. Good(d)' = Good(d)
      BY <1>2 DEF Good
    <2>2. QED
      BY <1>4, <2>1, SameReadings
  <1>6. PICK ids : ids = HistoryOf(d, type)'
    OBVIOUS
  <1>7. SUFFICES Known(events', ids, x.new)
    BY <1>6 DEF Known, MostRecent
  <1>8. CASE d # job[p].who
    <2>1. \A q \in Procs : ~ Compares(q, d)
      BY <1>3, <1>4, <1>8 DEF Compares
    <2>2. Known(events, HistoryOf(d, type), x.new)
      BY <1>1, <1>5, <2>1 DEF RecordInv, Recorded
    <2>3. ids = HistoryOf(d, type)
      BY <1>1, <1>6, <1>8, WriteHistory
    <2>4. QED
      BY <2>2, <2>3, WriteKnown
  <1>9. CASE d = job[p].who
    <2>1. CandFits(d, job[p].cand)
      BY <1>1, <1>2, <1>9 DEF CandInv
    <2>2. CASE \E c \in job[p].cand : c.type = type /\ c.new = x.new
      <3>1. PICK c \in job[p].cand : c.type = type /\ c.new = x.new
        BY <2>2
      <3>2. PICK k \in NewIds : events'[k] = c
        BY <1>1, <3>1, Inserted
      <3>3. Known(events, HistoryOf(d, type), x.new)'
        BY <1>9, <3>1, <3>2, NewIsLast
      <3>4. QED
        BY <1>6, <3>3 DEF Known, MostRecent
    <2>3. CASE (\A c \in job[p].cand : c.type # type) /\ Known(events, HistoryOf(d, type), x.new)
      <3>1. \A k \in NewIds : events'[k].type # type
        BY <1>1, <2>3, Inserted
      <3>2. ids = HistoryOf(d, type)
        <4>1. ids = HistoryOf(d, type) \cup {k \in NewIds : events'[k].type = type}
          BY <1>1, <1>6, <1>9, WriteHistory
        <4>2. {k \in NewIds : events'[k].type = type} = {}
          BY <3>1
        <4>3. QED
          BY <4>1, <4>2
      <3>3. QED
        BY <2>3, <3>2, WriteKnown
    <2>4. QED
      BY <1>5, <2>1, <2>2, <2>3 DEF CandFits
  <1>10. QED
    BY <1>8, <1>9

LEMMA WriteCand ==
    ASSUME HwInv, NEW p \in Procs, WriteEvents(p)
    PROVE  CandInv'
  <1>1. HwTypeOK /\ StepInv /\ OrderInv /\ CandInv
    BY DEF HwInv
  <1>2. Calm' = Calm /\ rows' = rows /\ job[p].at = "write"
    BY DEF WriteEvents, Calm
  <1>3. (\A q \in Procs : q # p => job'[q] = job[q]) /\ job'[p].at = "device"
    <2>1. job[p].cand \in SUBSET Event /\ job' = Compared(p, job[p].cand)
      BY <1>1, JobFields DEF WriteEvents
    <2>2. QED
      BY <1>1, <2>1, ComparedIs
  <1>4. SUFFICES ASSUME NEW q \in Procs, job'[q].at = "write", job'[q].who \in Calm,
                        NEW d, d = job'[q].who, NEW cand, cand = job'[q].cand
                 PROVE  CandFits(d, cand)'
    BY <1>2 DEF CandInv, CandFits
  <1>5. q # p /\ job'[q] = job[q]
    BY <1>3, <1>4
  <1>6. d = job[q].who /\ cand = job[q].cand
    BY <1>4, <1>5
  <1>7. d \in Calm
    BY <1>4
  <1>8. CandFits(d, cand)
    BY <1>1, <1>4, <1>5, <1>6, <1>7 DEF CandInv
  <1>9. d # job[p].who
    <2>1. d = job[p].who => Compares(p, d) /\ Compares(q, d)
      BY <1>6 DEF Compares
    <2>2. QED
      BY <1>1, <1>5, <1>7, <2>1 DEF OrderInv
  <1>10. /\ Good(d)' = Good(d) /\ History(d)' = History(d)
         /\ \A type : HistoryOf(d, type)' = HistoryOf(d, type) /\ EventsOf(d, type)' = EventsOf(d, type)
         /\ \A i \in History(d) : events'[i] = events[i]
    BY <1>1, <1>2, <1>9, WriteHistory DEF Good
  <1>11. \A type \in Static : Changed(d, type)' = Changed(d, type)
    BY <1>10, SameReadings
  <1>12. ASSUME NEW type, NEW value
         PROVE  /\ Known(events, EventsOf(d, type), value)' <=> Known(events, EventsOf(d, type), value)
                /\ Known(events, HistoryOf(d, type), value)' <=> Known(events, HistoryOf(d, type), value)
    <2>1. PICK ids : ids = EventsOf(d, type)
      OBVIOUS
    <2>2. PICK all : all = HistoryOf(d, type)
      OBVIOUS
    <2>3. ids \in SUBSET HistoryOf(d, type) /\ all \in SUBSET HistoryOf(d, type)
      BY <1>1, <2>1, <2>2, HistoryIds
    <2>4. /\ Known(events', ids, value) <=> Known(events, ids, value)
          /\ Known(events', all, value) <=> Known(events, all, value)
      BY <1>7, <2>3, WriteKnown
    <2>5. EventsOf(d, type)' = ids /\ HistoryOf(d, type)' = all
      BY <1>10, <2>1, <2>2
    <2>6. Known(events, EventsOf(d, type), value)' <=> Known(events', ids, value)
      BY <2>5 DEF Known, MostRecent
    <2>7. Known(events, HistoryOf(d, type), value)' <=> Known(events', all, value)
      BY <2>5 DEF Known, MostRecent
    <2>8. QED
      BY <2>1, <2>2, <2>4, <2>6, <2>7
  <1>13. CandFits(d, cand)'
    <2>1. \A c \in cand :
            /\ c.dev = d
            /\ \E r \in Good(d)' : r.seen = c.detected
            /\ \A i \in History(d)' : events'[i].detected <= c.detected
            /\ ~ Known(events, EventsOf(d, c.type), c.new)'
      BY <1>8, <1>10, <1>12 DEF CandFits
    <2>2. \A type \in Static : \A x \in Changed(d, type)' :
            \/ \E c \in cand : c.type = type /\ c.new = x.new
            \/ /\ \A c \in cand : c.type # type
               /\ Known(events, HistoryOf(d, type), x.new)'
      BY <1>8, <1>11, <1>12 DEF CandFits
    <2>3. QED
      BY <1>8, <2>1, <2>2 DEF CandFits
  <1>14. QED
    BY <1>13

LEMMA WriteRepeats ==
    ASSUME HwInv, NEW p \in Procs, WriteEvents(p)
    PROVE  NoRepeatedEvent'
  <1>1. HwTypeOK /\ StepInv /\ OrderInv /\ CandInv /\ NoRepeatedEvent
    BY DEF HwInv
  <1>2. disturbed' = disturbed /\ job[p].at = "write"
    BY DEF WriteEvents
  <1>3. SUFFICES ASSUME NEW j \in live', NEW d, NEW type, d = events'[j].dev, type = events'[j].type,
                        d \notin disturbed, NEW before,
                        before = {i \in EventsOf(d, type)' : i < j}, before # {}
                 PROVE  events'[Max(before)].new # events'[j].new
    BY <1>2 DEF NoRepeatedEvent
  <1>4. /\ DOMAIN events' = DOMAIN events \cup NewIds /\ live' = live \cup NewIds /\ live \subseteq DOMAIN events
        /\ \A i \in DOMAIN events : i \in Nat /\ i \notin NewIds /\ events'[i] = events[i]
        /\ \A k \in NewIds : k \in Nat /\ events'[k] \in job[p].cand /\ \A i \in DOMAIN events : i < k
        /\ \A k, l \in NewIds : events'[k] = events'[l] => k = l
    BY <1>1, Inserted DEF HwTypeOK
  <1>5. EventsOf(d, type)' =
            EventsOf(d, type) \cup {k \in NewIds : events'[k].dev = d /\ events'[k].type = type}
    BY <1>4 DEF EventsOf
  <1>6. EventsOf(d, type) \in SUBSET live /\ EventsOf(d, type) \in SUBSET DOMAIN events
    BY <1>4 DEF EventsOf
  <1>7. CASE j \in live
    <2>1. j \in Nat /\ \A k \in NewIds : ~ (k < j)
      BY <1>4, <1>7
    <2>2. before = {i \in EventsOf(d, type) : i < j}
      BY <1>3, <1>5, <2>1
    <2>3. events'[j] = events[j]
      BY <1>4, <1>7
    <2>4. before = {i \in EventsOf(events[j].dev, events[j].type) : i < j}
      BY <1>3, <2>2, <2>3
    <2>5. events[Max(before)].new # events[j].new
      BY <1>1, <1>3, <1>7, <2>3, <2>4 DEF NoRepeatedEvent
    <2>6. Max(before) \in DOMAIN events
      <3>1. before \in SUBSET (1 .. Len(events)) /\ before \in SUBSET Nat /\ Len(events) \in Nat
        BY <1>1, <1>6, <2>2, EventIs
      <3>2. PICK m : LastOf(before, m)
        BY <1>3, <3>1, LastExists
      <3>3. Max(before) = m
        BY <3>1, <3>2, MaxIs
      <3>4. QED
        BY <1>6, <2>2, <3>2, <3>3 DEF LastOf
    <2>7. QED
      BY <1>4, <2>3, <2>5, <2>6
  <1>8. CASE j \in NewIds
    <2>1. events'[j] \in job[p].cand
      BY <1>4, <1>8
    <2>2. d = job[p].who /\ d \in Calm
      <3>1. d = job[p].who
        BY <1>1, <1>3, <2>1 DEF StepInv
      <3>2. events'[j].dev \in Devices
        BY <1>1, <2>1, JobFields DEF Event
      <3>3. QED
        BY <1>3, <3>1, <3>2 DEF Calm
    <2>3. CandFits(d, job[p].cand)
      BY <1>1, <1>2, <2>2 DEF CandInv
    <2>4. ~ Known(events, EventsOf(d, type), events'[j].new)
      BY <1>3, <2>1, <2>3 DEF CandFits
    <2>5. \A k \in NewIds : events'[k].type = type => k = j
      BY <1>3, <1>4, <1>8, <2>3 DEF CandFits
    <2>6. before = EventsOf(d, type)
      <3>1. \A i \in EventsOf(d, type) : i < j
        BY <1>4, <1>6, <1>8
      <3>2. j \in Nat /\ ~ (j < j)
        BY <1>4, <1>8
      <3>3. \A k \in before : k \in EventsOf(d, type)
        BY <1>3, <1>5, <2>5, <3>2
      <3>4. QED
        BY <1>3, <1>5, <3>1, <3>3
    <2>7. /\ before \in SUBSET HistoryOf(d, type) /\ before \in SUBSET (1 .. Len(events))
          /\ before \in SUBSET Nat /\ Len(events) \in Nat
      BY <1>1, <2>6, HistoryIds, EventIs
    <2>8. PICK m : LastOf(before, m)
      BY <1>3, <2>7, LastExists
    <2>9. Max(before) = m /\ m \in DOMAIN events
      BY <1>6, <2>6, <2>7, <2>8, MaxIs DEF LastOf
    <2>10. events[m].new # events'[j].new
      BY <1>1, <2>2, <2>4, <2>6, <2>7, <2>8, RecentFacts
    <2>11. QED
      BY <1>4, <2>9, <2>10
  <1>9. QED
    BY <1>3, <1>4, <1>7, <1>8

LEMMA WriteStep ==
    ASSUME HwInv, NEW p \in Procs, WriteEvents(p)
    PROVE  HwInv'
  BY WriteTypes, WriteOrder, WriteCand, WriteRecord, WriteRepeats DEF HwInv

-----------------------------------------------------------------------------
(* The commit of a batch *)

LEMMA CommitEffect ==
    ASSUME HwTypeOK, NEW p \in Procs, Commit(p)
    PROVE  /\ job' \in [Procs -> Job] /\ \A q \in Procs : q # p => job'[q] = job[q]
           /\ job'[p].at = "device" /\ job'[p].left = DevsIn(job[p].batch) /\ job'[p].batch = <<>>
           /\ job'[p].who = job[p].who /\ job'[p].cand = job[p].cand /\ job'[p].found = job[p].found
           /\ DevsIn(job[p].batch) \in SUBSET Devices
           /\ \A r \in ToSet(job[p].batch) : r.dev \in DevsIn(job[p].batch)
           /\ IsFiniteSet(ToSet(job[p].batch)) /\ ToSet(job[p].batch) \in SUBSET DeviceRow
  <1> DEFINE b == job[p].batch
             left == DevsIn(b)
             vendors == {b[i].vendor : i \in DOMAIN b}
             j == [job[p] EXCEPT !.at = "device", !.left = left, !.vendors = vendors, !.batch = <<>>]
  <1>1. b \in Seq(DeviceRow) /\ job[p] \in Job
    BY JobFields DEF HwTypeOK
  <1>2. job' = [job EXCEPT ![p] = j]
    BY DEF HwTypeOK, Commit
  <1>3. \A i \in DOMAIN b : b[i] \in DeviceRow /\ b[i].dev \in Devices /\ b[i].vendor \in Vendors
    <2>1. \A i \in DOMAIN b : b[i] \in DeviceRow
      BY <1>1
    <2>2. QED
      BY <2>1 DEF DeviceRow
  <1>4. left \in SUBSET Devices /\ vendors \in SUBSET Vendors
    BY <1>3 DEF DevsIn
  <1>5. \A r \in ToSet(b) : r.dev \in left
    BY DEF ToSet, DevsIn
  <1>6. IsFiniteSet(ToSet(b)) /\ ToSet(b) \in SUBSET DeviceRow
    <2>1. IsFiniteSet(DOMAIN b)
      BY <1>1, FS_Interval
    <2>2. ToSet(b) = {b[i] : i \in DOMAIN b}
      BY DEF ToSet
    <2>3. QED
      BY <1>1, <2>1, <2>2, ImageFinite, ToSetIs
  <1> HIDE DEF left, vendors
  <1>7. /\ j \in Job /\ j.at = "device" /\ j.left = left /\ j.batch = <<>>
        /\ j.who = job[p].who /\ j.cand = job[p].cand /\ j.found = job[p].found
    <2>1. <<>> \in Seq(DeviceRow)
      OBVIOUS
    <2>2. QED
      BY <1>1, <1>4, <2>1 DEF Job
  <1> HIDE DEF j
  <1>8. job' \in [Procs -> Job] /\ job'[p] = j /\ \A q \in Procs : q # p => job'[q] = job[q]
    BY <1>2, <1>7, JobTo
  <1>9. QED
    BY <1>4, <1>5, <1>6, <1>7, <1>8 DEF left

LEMMA CommitTypes ==
    ASSUME HwInv, NEW p \in Procs, Commit(p)
    PROVE  /\ HwTypeOK' /\ StepInv' /\ StampInv' /\ Waiting' \subseteq Waiting
           /\ ToSet(job[p].batch) \subseteq Waiting
  <1>1. HwTypeOK /\ StepInv /\ StampInv
    BY DEF HwInv
  <1>2. /\ job' \in [Procs -> Job] /\ \A q \in Procs : q # p => job'[q] = job[q]
        /\ job'[p].at = "device" /\ job'[p].left = DevsIn(job[p].batch) /\ job'[p].batch = <<>>
        /\ job'[p].who = job[p].who /\ job'[p].cand = job[p].cand /\ job'[p].found = job[p].found
        /\ DevsIn(job[p].batch) \in SUBSET Devices
        /\ IsFiniteSet(ToSet(job[p].batch)) /\ ToSet(job[p].batch) \in SUBSET DeviceRow
    BY <1>1, CommitEffect
  <1>3. /\ job[p].at = "probed" /\ rows' = purge_stale_hardware_history(p) \cup ToSet(job[p].batch)
        /\ disturbed' = disturbed \cup (DevsIn(job[p].batch) \cap Pending(p))
        /\ events' = events /\ live' = live /\ trends' = trends
        /\ spool' = spool /\ clock' = clock /\ day' = day /\ jobs' = jobs /\ faults' = faults
    BY DEF Commit
  <1>4. job[p].who = "none" /\ job[p].cand = {} /\ job[p].found = {}
    BY <1>1, <1>3 DEF StepInv
  <1>5. purge_stale_hardware_history(p) \in SUBSET rows
    BY DEF purge_stale_hardware_history
  <1>6. HwTypeOK'
    <2>1. IsFiniteSet(rows')
      BY <1>1, <1>2, <1>3, <1>5, FS_Subset, FS_Union DEF HwTypeOK
    <2>2. rows' \subseteq DeviceRow
      BY <1>1, <1>2, <1>3, <1>5 DEF HwTypeOK
    <2>3. disturbed' \subseteq Devices
      BY <1>1, <1>2, <1>3 DEF HwTypeOK
    <2>4. QED
      BY <1>1, <1>2, <1>3, <2>1, <2>2, <2>3 DEF HwTypeOK
  <1>7. StepInv'
    <2>1. SUFFICES ASSUME NEW q \in Procs
                   PROVE
            /\ job'[q].at # "probed" => job'[q].batch = <<>>
            /\ job'[q].at \notin {"device", "write"} => job'[q].left = {}
            /\ job'[q].at # "write" => job'[q].who = "none" /\ job'[q].cand = {}
            /\ job'[q].at = "write" => job'[q].who # "none" /\ IsFiniteSet(job'[q].cand)
            /\ \A c \in job'[q].cand : c.dev = job'[q].who
            /\ job'[q].at \in {"idle", "probed", "snmp"} => job'[q].found = {}
            /\ job'[q].found \subseteq ToSet(events')
      BY DEF StepInv
    <2>2. CASE q = p
      BY <1>2, <1>4, <2>2
    <2>3. CASE q # p
      BY <1>1, <1>2, <1>3, <2>3 DEF StepInv
    <2>4. QED
      BY <2>2, <2>3
  <1>8. ToSet(job[p].batch) \subseteq Waiting
    BY DEF Waiting
  <1>9. \A q \in Procs : ToSet(job'[q].batch) \subseteq ToSet(job[q].batch) /\ job'[q].cand = job[q].cand
    <2>1. ToSet(<<>>) = {}
      BY DEF ToSet
    <2>2. QED
      BY <1>2, <2>1
  <1>10. Waiting' \subseteq Waiting
    BY <1>3, <1>9 DEF Waiting
  <1>11. (rows \cup Waiting)' \subseteq rows \cup Waiting
    BY <1>3, <1>5, <1>8, <1>10
  <1>12. (UNION {job'[q].cand : q \in Procs}) = (UNION {job[q].cand : q \in Procs})
    BY <1>9
  <1>13. Marks' \subseteq Marks
    <2>1. SUFFICES ASSUME NEW x \in Marks'
                   PROVE  x \in Marks
      OBVIOUS
    <2>2. CASE \E r \in (rows \cup Waiting)' : x = <<r.seen, r.day>>
      BY <1>11, <2>2 DEF Marks
    <2>3. CASE \E e \in ToSet(events') \cup (UNION {job'[q].cand : q \in Procs}) : x = <<e.detected, e.day>>
      BY <1>3, <1>12, <2>3 DEF Marks
    <2>4. QED
      BY <2>1, <2>2, <2>3 DEF Marks
  <1>14. StampInv'
    BY <1>1, <1>3, <1>10, <1>11, <1>13, StampShrinks
  <1>15. QED
    BY <1>6, <1>7, <1>8, <1>10, <1>14

(* A device that another process compares is disturbed when its rows change. *)
LEMMA CommitCompares ==
    ASSUME HwInv, NEW p \in Procs, Commit(p), NEW d \in Calm'
    PROVE  /\ d \in Calm
           /\ \A q \in Procs : Compares(q, d)' <=> (IF q = p THEN d \in DevsIn(job[p].batch) ELSE Compares(q, d))
           /\ \A q \in Procs : q # p /\ Compares(q, d) => d \notin DevsIn(job[p].batch)
           /\ ~ Compares(p, d)
           /\ d \notin DevsIn(job[p].batch) => Good(d)' = Good(d)
  <1>1. HwTypeOK /\ StepInv
    BY DEF HwInv
  <1>2. /\ \A q \in Procs : q # p => job'[q] = job[q]
        /\ job'[p].left = DevsIn(job[p].batch) /\ job'[p].who = job[p].who
        /\ \A r \in ToSet(job[p].batch) : r.dev \in DevsIn(job[p].batch)
    BY <1>1, CommitEffect
  <1>3. job[p].who = "none" /\ job[p].left = {}
    BY <1>1 DEF StepInv, Commit
  <1>4. d \in Calm /\ d # "none" /\ d \in Devices /\ d \notin disturbed'
    BY HardwareAssumption DEF Commit, Calm
  <1>5. \A q \in Procs : Compares(q, d)' <=> (IF q = p THEN d \in DevsIn(job[p].batch) ELSE Compares(q, d))
    BY <1>2, <1>3, <1>4 DEF Compares
  <1>6. \A q \in Procs : q # p /\ Compares(q, d) => d \in Pending(p)
    BY <1>4 DEF Pending, Compares
  <1>7. \A q \in Procs : q # p /\ Compares(q, d) => d \notin DevsIn(job[p].batch)
    BY <1>4, <1>6 DEF Commit
  <1>8. d \notin DevsIn(job[p].batch) => Good(d)' = Good(d)
    BY <1>2 DEF Good, Commit, purge_stale_hardware_history
  <1>9. QED
    BY <1>3, <1>4, <1>5, <1>7, <1>8 DEF Compares

(* Of the rows that are purged the newer ones survive, if there are any; none
   that waits is as old, but one. *)
LEMMA CommitOrder ==
    ASSUME HwInv, NEW p \in Procs, Commit(p)
    PROVE  OrderInv'
  <1>1. HwTypeOK /\ StepInv /\ StampInv /\ OrderInv
    BY DEF HwInv
  <1>2. /\ events' = events /\ live' = live /\ day' = day
        /\ rows' = purge_stale_hardware_history(p) \cup ToSet(job[p].batch)
    BY DEF Commit
  <1>3. Waiting' \subseteq Waiting /\ ToSet(job[p].batch) \subseteq Waiting
    BY CommitTypes
  <1>4. SUFFICES ASSUME NEW d \in Calm'
                 PROVE
        /\ \A q, r \in Procs : Compares(q, d)' /\ Compares(r, d)' => q = r
        /\ \A i \in History(d) :
              \/ \E r \in Good(d)' : r.seen >= events[i].detected
              \/ \A q, r \in Good(d)' \cup {x \in Waiting' : x.dev = d} :
                    q.seen <= events[i].detected /\ r.seen <= events[i].detected => q = r
        /\ \A i, j \in History(d) : i < j => events[i].detected <= events[j].detected
        /\ \A i, j \in History(d) : i \notin live /\ j \in live => i < j
    BY <1>2 DEF OrderInv, History
  <1>5. d \in Calm
    BY CommitCompares
  <1>6. \A q, r \in Procs : Compares(q, d)' /\ Compares(r, d)' => q = r
    BY <1>1, <1>5, CommitCompares DEF OrderInv
  <1>7. /\ \A i, j \in History(d) : i < j => events[i].detected <= events[j].detected
        /\ \A i, j \in History(d) : i \notin live /\ j \in live => i < j
    BY <1>1, <1>5 DEF OrderInv
  <1>8. \A r \in Good(d)' \cup {x \in Waiting' : x.dev = d} :
            \/ r \in Good(d) \cup {x \in Waiting : x.dev = d}
    BY <1>2, <1>3 DEF Good, purge_stale_hardware_history
  <1>9. SUFFICES ASSUME NEW i \in History(d), ~ \E r \in Good(d)' : r.seen >= events[i].detected,
                        NEW q \in Good(d)' \cup {x \in Waiting' : x.dev = d},
                        NEW r \in Good(d)' \cup {x \in Waiting' : x.dev = d},
                        q.seen <= events[i].detected, r.seen <= events[i].detected
                 PROVE  q = r
    BY <1>6, <1>7, Zenon
  <1>10. CASE \A x, y \in Good(d) \cup {z \in Waiting : z.dev = d} :
                 x.seen <= events[i].detected /\ y.seen <= events[i].detected => x = y
    BY <1>8, <1>9, <1>10
  <1>11. CASE \E x \in Good(d) : x.seen >= events[i].detected
    <2>1. PICK x \in Good(d) : x.seen >= events[i].detected
      BY <1>11
    <2>2. x \notin rows' /\ x \in rows /\ x.dev = d
      BY <1>9, <2>1 DEF Good
    <2>3. d \in DevsIn(job[p].batch) /\ Expired(x, KeptFor(p))
      BY <1>2, <2>2 DEF purge_stale_hardware_history
    <2>4. ASSUME NEW y \in Good(d)' \cup {z \in Waiting' : z.dev = d}, y.seen <= events[i].detected
          PROVE  y \in Waiting /\ y.dev = d /\ y.day < day
      <3>1. y \in rows \cup Waiting /\ y.dev = d
        BY <1>8 DEF Good
      <3>2. /\ y.seen \in Int /\ y.day \in Nat /\ x.seen \in Int /\ x.day \in Nat
            /\ <<y.seen, y.day>> \in Marks /\ <<x.seen, x.day>> \in Marks
            /\ events[i].detected \in Int
        BY <1>1, <2>2, <3>1, MarksAre, EventIs DEF History
      <3>3. y.seen <= x.seen
        BY <2>1, <2>4, <3>2
      <3>4. y.day <= x.day
        <4>1. \A a, b \in Marks : a[1] <= b[1] => a[2] <= b[2]
          BY <1>1 DEF StampInv
        <4>2. QED
          BY <3>2, <3>3, <4>1
      <3>5. KeptFor(p) \in Nat /\ day \in Nat
        BY <1>1, HardwareAssumption DEF KeptFor, HwTypeOK
      <3>6. Expired(y, KeptFor(p)) /\ y.day < day
        BY <2>3, <3>2, <3>4, <3>5 DEF Expired
      <3>7. y \notin purge_stale_hardware_history(p)
        BY <2>3, <3>1, <3>6 DEF purge_stale_hardware_history
      <3>8. y \in Waiting
        BY <1>2, <1>3, <3>7 DEF Good
      <3>9. QED
        BY <3>1, <3>6, <3>8
    <2>5. /\ q \in Waiting /\ q.dev = d /\ q.day < day
          /\ r \in Waiting /\ r.dev = d /\ r.day < day
      BY <1>9, <2>4
    <2>6. QED
      BY <1>1, <2>5 DEF StampInv
  <1>12. QED
    BY <1>1, <1>5, <1>10, <1>11 DEF OrderInv

LEMMA CommitRest ==
    ASSUME HwInv, NEW p \in Procs, Commit(p)
    PROVE  CandInv' /\ RecordInv' /\ NoRepeatedEvent'
  <1>1. HwTypeOK /\ StepInv /\ CandInv /\ RecordInv /\ NoRepeatedEvent
    BY DEF HwInv
  <1>2. events' = events /\ live' = live /\ disturbed \subseteq disturbed'
    BY DEF Commit
  <1>3. /\ \A q \in Procs : q # p => job'[q] = job[q]
        /\ job'[p].at = "device"
    BY <1>1, CommitEffect
  <1>4. NoRepeatedEvent'
    <2>1. \A d, type : EventsOf(d, type)' = EventsOf(d, type)
      BY <1>2 DEF EventsOf
    <2>2. QED
      BY <1>1, <1>2, <2>1 DEF NoRepeatedEvent
  <1>5. \A d : /\ History(d)' = History(d)
               /\ \A type : HistoryOf(d, type)' = HistoryOf(d, type) /\ EventsOf(d, type)' = EventsOf(d, type)
    BY <1>2 DEF History, HistoryOf, EventsOf
  <1>6. ASSUME NEW d, NEW type, NEW value
        PROVE  /\ Known(events, HistoryOf(d, type), value)' <=> Known(events, HistoryOf(d, type), value)
               /\ Known(events, EventsOf(d, type), value)' <=> Known(events, EventsOf(d, type), value)
    <2>1. HistoryOf(d, type)' = HistoryOf(d, type) /\ EventsOf(d, type)' = EventsOf(d, type)
      BY <1>5
    <2>2. Known(events, HistoryOf(d, type), value)' <=> Known(events, HistoryOf(d, type), value)
      BY <1>2, <2>1 DEF Known, MostRecent
    <2>3. Known(events, EventsOf(d, type), value)' <=> Known(events, EventsOf(d, type), value)
      BY <1>2, <2>1 DEF Known, MostRecent
    <2>4. QED
      BY <2>2, <2>3
  <1>7. RecordInv'
    <2>1. SUFFICES ASSUME NEW d \in Calm', \A q \in Procs : ~ Compares(q, d)',
                          NEW type \in Static, NEW x \in Changed(d, type)'
                   PROVE  Known(events, HistoryOf(d, type), x.new)'
      BY DEF RecordInv, Recorded
    <2>2. /\ d \in Calm /\ \A q \in Procs : ~ Compares(q, d)
          /\ Good(d)' = Good(d)
      BY <2>1, CommitCompares
    <2>3. x \in Changed(d, type)
      BY <2>1, <2>2, SameReadings
    <2>4. QED
      BY <1>1, <1>6, <2>2, <2>3 DEF RecordInv, Recorded
  <1>8. CandInv'
    <2>1. SUFFICES ASSUME NEW q \in Procs, job'[q].at = "write", NEW d, d = job'[q].who, d \in Calm',
                          NEW cand, cand = job'[q].cand
                   PROVE  CandFits(d, cand)'
      BY DEF CandInv, CandFits
    <2>2. q # p /\ job'[q] = job[q]
      BY <1>3, <2>1
    <2>3. d \in Calm /\ Good(d)' = Good(d)
      <3>1. Compares(q, d)
        BY <2>1, <2>2 DEF Compares
      <3>2. QED
        BY <2>1, <2>2, <3>1, CommitCompares
    <2>4. CandFits(d, cand)
      BY <1>1, <2>1, <2>2, <2>3 DEF CandInv
    <2>5. \A type \in Static : Changed(d, type)' = Changed(d, type)
      BY <2>3, SameReadings
    <2>6. \A c \in cand :
            /\ c.dev = d
            /\ \E r \in Good(d)' : r.seen = c.detected
            /\ \A i \in History(d)' : events'[i].detected <= c.detected
            /\ ~ Known(events, EventsOf(d, c.type), c.new)'
      BY <1>2, <1>5, <1>6, <2>3, <2>4 DEF CandFits
    <2>7. \A type \in Static : \A x \in Changed(d, type)' :
            \/ \E c \in cand : c.type = type /\ c.new = x.new
            \/ /\ \A c \in cand : c.type # type
               /\ Known(events, HistoryOf(d, type), x.new)'
      BY <1>6, <2>4, <2>5 DEF CandFits
    <2>8. QED
      BY <2>4, <2>6, <2>7 DEF CandFits
  <1>9. QED
    BY <1>4, <1>7, <1>8

LEMMA CommitStep ==
    ASSUME HwInv, NEW p \in Procs, Commit(p)
    PROVE  HwInv'
  BY CommitTypes, CommitOrder, CommitRest DEF HwInv

-----------------------------------------------------------------------------
(* The beginning *)

(* The first scan leaves one row of each device, from before the first timestamp. *)
LEMMA FirstRows ==
    ASSUME HwInit
    PROVE  /\ rows \subseteq DeviceRow /\ IsFiniteSet(rows)
           /\ \A q, r \in rows : q.seen = r.seen \/ q.dev = r.dev => q = r
           /\ \A r \in rows : r.seen <= 0 /\ r.day = 1 /\ Heard(r)
  <1> DEFINE x == ScanBatch(Devices, First)
             y == SnmpBatch(First)
             b == x \o y
             n == Len(b)
             R(i) == [b[i] EXCEPT !.seen = i - n, !.day = day]
             f == [i \in 1 .. n |-> R(i)]
  <1>1. day = 1 /\ rows = {[b[i] EXCEPT !.seen = i - Len(b), !.day = day] : i \in DOMAIN b}
    BY DEF HwInit
  <1>2. /\ x \in Seq(DeviceRow)
        /\ \A i \in 1 .. Len(x) : Route[x[i].dev] # "snmp" /\ Heard(x[i])
        /\ \A i, j \in 1 .. Len(x) : x[i].dev = x[j].dev => i = j
    <2>1. \A d \in Devices : First[d] \in Answer
      BY HardwareAssumption
    <2>2. QED
      BY <2>1, ScanBatchFacts
  <1>3. /\ y \in Seq(DeviceRow)
        /\ \A i \in 1 .. Len(y) : Route[y[i].dev] = "snmp" /\ Heard(y[i])
        /\ \A i, j \in 1 .. Len(y) : y[i].dev = y[j].dev => i = j
    BY SnmpBatchFacts
  <1> HIDE DEF x, y
  <1>4. Len(x) \in Nat /\ Len(y) \in Nat
    BY <1>2, <1>3
  <1>5. /\ b \in Seq(DeviceRow) /\ n = Len(x) + Len(y)
        /\ \A i \in 1 .. n : b[i] = IF i <= Len(x) THEN x[i] ELSE y[i - Len(x)]
    <2>1. /\ x \o y \in Seq(DeviceRow) /\ Len(x \o y) = Len(x) + Len(y)
          /\ \A i \in 1 .. Len(x) + Len(y) : (x \o y)[i] = IF i <= Len(x) THEN x[i] ELSE y[i - Len(x)]
      BY <1>2, <1>3, ConcatFacts
    <2>2. QED
      BY <2>1
  <1> HIDE DEF b
  <1>6. n \in Nat /\ DOMAIN b = 1 .. n /\ \A i \in 1 .. n : b[i] \in DeviceRow
    BY <1>5
  <1>7. \A i \in 1 .. n : \/ i \in 1 .. Len(x) /\ b[i] = x[i] /\ Route[b[i].dev] # "snmp"
                          \/ i - Len(x) \in 1 .. Len(y) /\ b[i] = y[i - Len(x)] /\ Route[b[i].dev] = "snmp"
    <2>1. SUFFICES ASSUME NEW i \in 1 .. n
                   PROVE  \/ i \in 1 .. Len(x) /\ b[i] = x[i] /\ Route[b[i].dev] # "snmp"
                          \/ i - Len(x) \in 1 .. Len(y) /\ b[i] = y[i - Len(x)] /\ Route[b[i].dev] = "snmp"
      OBVIOUS
    <2>2. CASE i <= Len(x)
      <3>1. b[i] = x[i] /\ i \in 1 .. Len(x)
        BY <1>4, <1>5, <2>2
      <3>2. QED
        BY <1>2, <3>1
    <2>3. CASE ~ (i <= Len(x))
      <3>1. b[i] = y[i - Len(x)] /\ i - Len(x) \in 1 .. Len(y)
        BY <1>4, <1>5, <2>3
      <3>2. QED
        BY <1>3, <3>1
    <2>4. QED
      BY <2>2, <2>3
  <1>7a. \A i \in 1 .. n : Heard(b[i])
    BY <1>2, <1>3, <1>7
  <1>8. ASSUME NEW i \in 1 .. n, NEW j \in 1 .. n, b[i].dev = b[j].dev
        PROVE  i = j
    <2>1. CASE i \in 1 .. Len(x) /\ b[i] = x[i] /\ j \in 1 .. Len(x) /\ b[j] = x[j]
      BY <1>2, <1>8, <2>1
    <2>2. CASE i - Len(x) \in 1 .. Len(y) /\ b[i] = y[i - Len(x)] /\ j - Len(x) \in 1 .. Len(y) /\ b[j] = y[j - Len(x)]
      <3>1. i - Len(x) = j - Len(x)
        BY <1>3, <1>8, <2>2
      <3>2. QED
        BY <1>4, <3>1
    <2>3. QED
      BY <1>7, <1>8, <2>1, <2>2
  <1>9. ASSUME NEW i \in 1 .. n
        PROVE  /\ f[i] \in DeviceRow /\ f[i].seen = i - n /\ f[i].seen <= 0 /\ f[i].day = 1
               /\ f[i].dev = b[i].dev /\ Heard(f[i])
    <2> DEFINE r == b[i]
               t == i - n
    <2>1. r \in DeviceRow /\ t \in Int /\ t <= 0 /\ day = 1
      <3>1. n \in Nat /\ r \in DeviceRow /\ day = 1
        BY <1>1, <1>6
      <3> HIDE DEF n
      <3>2. i - n \in Int /\ i - n <= 0
        BY <3>1
      <3>3. QED
        BY <3>1, <3>2
    <2>2. f[i] = [r EXCEPT !.seen = t, !.day = day]
      OBVIOUS
    <2>2a. Heard(r)
      BY <1>7a
    <2> HIDE DEF r, t, f
    <2>3. /\ [r EXCEPT !.seen = t, !.day = day] \in DeviceRow
          /\ [r EXCEPT !.seen = t, !.day = day].seen = t
          /\ [r EXCEPT !.seen = t, !.day = day].day = 1
          /\ [r EXCEPT !.seen = t, !.day = day].dev = r.dev
          /\ Heard([r EXCEPT !.seen = t, !.day = day])
      BY <2>1, <2>2a DEF DeviceRow, Heard
    <2>4. QED
      BY <2>1, <2>2, <2>3 DEF r, t
  <1>10. rows = {f[i] : i \in 1 .. n} /\ DOMAIN f = 1 .. n
    <2>1. \A i \in 1 .. n : f[i] = R(i)
      OBVIOUS
    <2>2. rows = {R(i) : i \in 1 .. n}
      BY <1>1, <1>6
    <2>3. DOMAIN f = 1 .. n
      OBVIOUS
    <2> HIDE DEF f, R
    <2>4. QED
      BY <2>1, <2>2, <2>3
  <1> HIDE DEF f
  <1>11. IsFiniteSet(rows)
    <2>1. IsFiniteSet(1 .. n)
      BY <1>6, FS_Interval
    <2>2. QED
      BY <1>10, <2>1, ImageFinite
  <1>12. \A q, r \in rows : q.seen = r.seen \/ q.dev = r.dev => q = r
    <2>1. SUFFICES ASSUME NEW i \in 1 .. n, NEW j \in 1 .. n, f[i].seen = f[j].seen \/ f[i].dev = f[j].dev
                   PROVE  i = j
      BY <1>10
    <2>2. f[i].seen = i - n /\ f[j].seen = j - n /\ f[i].dev = b[i].dev /\ f[j].dev = b[j].dev
      BY <1>9
    <2>3. CASE f[i].seen = f[j].seen
      <3>1. i - n = j - n
        BY <2>2, <2>3
      <3>2. QED
        BY <1>6, <3>1
    <2>4. CASE f[i].dev = f[j].dev
      BY <1>8, <2>2, <2>4
    <2>5. QED
      BY <2>1, <2>3, <2>4
  <1>13. QED
    BY <1>9, <1>10, <1>11, <1>12

LEMMA HwInitInv ==
    ASSUME HwInit
    PROVE  HwInv
  <1>1. /\ clock = 0 /\ day = 1 /\ jobs = 0 /\ faults = 0 /\ disturbed = {}
        /\ events = <<>> /\ live = {} /\ trends = <<>> /\ job = [p \in Procs |-> Idle] /\ spool = <<>>
    BY DEF HwInit
  <1>2. /\ rows \subseteq DeviceRow /\ IsFiniteSet(rows)
        /\ \A q, r \in rows : q.seen = r.seen \/ q.dev = r.dev => q = r
        /\ \A r \in rows : r.seen <= 0 /\ r.day = 1
    BY FirstRows
  <1>3. \A p \in Procs : job[p] = Idle
    BY <1>1
  <1>4. /\ Idle.at = "idle" /\ Idle.batch = <<>> /\ Idle.left = {} /\ Idle.who = "none"
        /\ Idle.cand = {} /\ Idle.found = {}
    BY DEF Idle
  <1>5. HwTypeOK
    BY <1>1, <1>2, IdleType DEF HwTypeOK
  <1>6. StepInv
    BY <1>3, <1>4 DEF StepInv
  <1>7. ToSet(<<>>) = {} /\ DOMAIN events = {}
    BY <1>1 DEF ToSet
  <1>8. Waiting = {} /\ ToSet(spool) = {}
    <2>1. \A p \in Procs : ToSet(job[p].batch) = {}
      BY <1>3, <1>4, <1>7
    <2>2. QED
      BY <1>1, <1>7, <2>1 DEF Waiting
  <1>9. Marks = {<<r.seen, r.day>> : r \in rows}
    <2>1. \A p \in Procs : job[p].cand = {}
      BY <1>3, <1>4
    <2>2. (UNION {job[p].cand : p \in Procs}) = {}
      BY <2>1
    <2>3. QED
      BY <1>1, <1>7, <1>8, <2>2 DEF Marks
  <1>10. StampInv
    <2>1. \A x \in Marks : x[1] <= clock /\ x[2] = 1
      BY <1>1, <1>2, <1>9
    <2>2. QED
      BY <1>1, <1>2, <1>8, <2>1 DEF StampInv
  <1>11. \A d : History(d) = {}
    BY <1>7 DEF History
  <1>12. OrderInv
    <2>1. \A d \in Calm : \A p \in Procs : ~ Compares(p, d)
      BY <1>3, <1>4, HardwareAssumption DEF Calm, Compares
    <2>2. QED
      BY <1>11, <2>1 DEF OrderInv
  <1>13. CandInv
    BY <1>3, <1>4 DEF CandInv
  <1>14. \A d, type : Changed(d, type) = {}
    <2>1. SUFFICES ASSUME NEW d, NEW type
                   PROVE  Changed(d, type) = {}
      OBVIOUS
    <2>2. /\ Len(Window(d)) \in Nat
          /\ \A i \in 1 .. Len(Window(d)) : Window(d)[i] \in Good(d)
          /\ \A i, j \in 1 .. Len(Window(d)) : Window(d)[i] = Window(d)[j] => i = j
      BY <1>5, <1>10, WindowFacts
    <2>3. \A q, r \in Good(d) : q = r
      BY <1>2 DEF Good
    <2>4. Len(Window(d)) < 2
      <3>1. SUFFICES ASSUME ~ (Len(Window(d)) < 2)
                     PROVE  FALSE
        OBVIOUS
      <3>2. 1 \in 1 .. Len(Window(d)) /\ 2 \in 1 .. Len(Window(d))
        BY <2>2, <3>1
      <3>3. Window(d)[1] = Window(d)[2]
        BY <2>2, <2>3, <3>2
      <3>4. QED
        BY <2>2, <3>2, <3>3
    <2>5. QED
      BY <2>4 DEF Changed
  <1>15. RecordInv
    BY <1>14 DEF RecordInv, Recorded
  <1>16. NoRepeatedEvent
    BY <1>1 DEF NoRepeatedEvent
  <1>17. QED
    BY <1>5, <1>6, <1>10, <1>12, <1>13, <1>15, <1>16 DEF HwInv

LEMMA StutterStep ==
    ASSUME HwInv, UNCHANGED hwVars
    PROVE  HwInv'
  <1>1. HwTypeOK /\ StepInv /\ StampInv /\ OrderInv /\ CandInv /\ RecordInv
    BY DEF HwInv
  <1>2. /\ rows' = rows /\ events' = events /\ live' = live /\ trends' = trends /\ job' = job /\ spool' = spool
        /\ clock' = clock /\ day' = day /\ jobs' = jobs /\ faults' = faults /\ disturbed' = disturbed
    BY DEF hwVars
  <1>3. HwTypeOK' /\ StepInv'
    BY <1>1, <1>2 DEF HwTypeOK, StepInv
  <1>4. Waiting' = Waiting /\ Marks' = Marks
    BY <1>2 DEF Waiting, Marks
  <1>5. StampInv'
    BY <1>1, <1>2, <1>4, StampShrinks
  <1>6. Quiet
    <2>1. Calm' = Calm /\ \A d : \A p \in Procs : Compares(p, d)' <=> Compares(p, d)
      BY <1>2 DEF Calm, Compares
    <2>2. QED
      BY <1>1, <1>2, <1>4, <2>1 DEF Quiet, CandInv, RecordInv
  <1>7. QED
    BY <1>3, <1>5, <1>6, QuietStep

LEMMA HwStep ==
    ASSUME HwInv, [HwNext]_hwVars
    PROVE  HwInv'
  <1>1. CASE run_scan
    BY <1>1, ScanStep
  <1>2. CASE run_check_in
    BY <1>2, CheckInStep
  <1>3. CASE SensorScan
    BY <1>3, SensorStep
  <1>4. CASE _ingest_envelope
    BY <1>4, IngestStep
  <1>5. CASE SnmpPhase
    BY <1>5, SnmpStep
  <1>6. CASE NextDay
    BY <1>6, NextDayStep
  <1>7. ASSUME NEW p \in Procs,
               \/ Commit(p) \/ CommitFails(p) \/ ReadHistory(p) \/ WriteEvents(p) \/ WriteEventsFails(p)
               \/ reconcile_vendor_pqc_trend(p) \/ _notify_hardware_lifecycle(p) \/ Kill(p)
        PROVE  HwInv'
    BY <1>7, CommitStep, CommitFailsStep, ReadStep, WriteStep, WriteFailsStep, TrendStep, NotifyStep, KillStep
  <1>8. CASE UNCHANGED hwVars
    BY <1>8, StutterStep
  <1>9. QED
    BY <1>1, <1>2, <1>3, <1>4, <1>5, <1>6, <1>7, <1>8 DEF HwNext

-----------------------------------------------------------------------------
(* Theorems *)

(* Whatever the scans, check-ins and late pushes find, and whichever commits fail
   or processes die, the invariant holds. *)
THEOREM HardwareInvariant == HwSpec => []HwInv
  <1>1. HwInit => HwInv
    BY HwInitInv
  <1>2. HwInv /\ [HwNext]_hwVars => HwInv'
    BY HwStep
  <1>3. QED
    BY <1>1, <1>2, PTL DEF HwSpec

(* The rows, events, processes and clocks always are what their columns say. *)
THEOREM HardwareTypes == HwSpec => []HwTypeOK
  <1>1. HwInv => HwTypeOK
    BY DEF HwInv
  <1>2. QED
    BY <1>1, HardwareInvariant, PTL

-----------------------------------------------------------------------------
(* The history of a device *)

LEMMA ShorterWindow ==
    ASSUME NEW S, Stamped(S), Len(Newest(S, 4)) = 4
    PROVE  Len(Newest(S, 3)) = 3 /\ \A i \in 1 .. 3 : Newest(S, 3)[i] = Newest(S, 4)[i]
  <1> DEFINE At(i) == CHOOSE r \in S : Rank(r, S) = i
             n == Cardinality(S)
  <1>1. n \in Nat /\ Len(Newest(S, 4)) = IF n < 4 THEN n ELSE 4
    BY NewestFacts
  <1>2. ~ (n < 4) /\ ~ (n < 3)
    <2>1. SUFFICES ASSUME n < 4
                   PROVE  FALSE
      BY <1>1
    <2>2. Len(Newest(S, 4)) = n
      BY <1>1, <2>1
    <2>3. n = 4
      BY <2>2
    <2>4. QED
      BY <2>1, <2>3
  <1>3. /\ Newest(S, 3) = [i \in 1 .. IF n < 3 THEN n ELSE 3 |-> At(i)]
        /\ Newest(S, 4) = [i \in 1 .. IF n < 4 THEN n ELSE 4 |-> At(i)]
    BY DEF Newest
  <1> HIDE DEF n, At
  <1>4. Newest(S, 3) = [i \in 1 .. 3 |-> At(i)] /\ Newest(S, 4) = [i \in 1 .. 4 |-> At(i)]
    BY <1>2, <1>3
  <1>5. QED
    BY <1>4

(* Two equal readings after another one are a change of the window. *)
LEMMA TwoOfThree ==
    ASSUME NEW type, NEW vals, DOMAIN vals = 1 .. 3, vals[1] # "none", vals[1] = vals[2], vals[3] # vals[2]
    PROVE  \E x \in Changes(type, vals) : x.new = vals[1]
  <1> DEFINE same == {i \in DOMAIN vals : vals[i] = vals[1]}
             other == {i \in DOMAIN vals : vals[i] # vals[1]}
  <1>1. same = {1, 2} /\ 3 \in other
    OBVIOUS
  <1>2. Cardinality(same) = 2
    <2>1. IsFiniteSet({1}) /\ Cardinality({1}) = 1
      BY FS_Singleton
    <2>2. 2 \notin {1} /\ {1, 2} = {1} \cup {2}
      OBVIOUS
    <2>3. Cardinality({1} \cup {2}) = Cardinality({1}) + 1
      BY <2>1, <2>2, FS_AddElement
    <2>4. QED
      BY <1>1, <2>1, <2>2, <2>3
  <1>3. Confirmed(vals)
    BY <1>2 DEF Confirmed, DEFAULT_N
  <1>4. Changes(type, vals) = {[type |-> type, old |-> vals[Min(other)], new |-> vals[1]]}
    BY <1>1, <1>3 DEF Changes
  <1> HIDE DEF other
  <1>5. QED
    BY <1>4

LEMMA SettledIsRecorded ==
    ASSUME HwInv
    PROVE  SettledChangeIsRecorded
  <1>1. HwTypeOK /\ StampInv /\ RecordInv
    BY DEF HwInv
  <1>2. SUFFICES ASSUME NEW d \in Devices, Settled(d), Len(recent_successful_hardware_rows(d, 4)) = 4,
                        NEW type \in Static
                 PROVE  LET w == recent_successful_hardware_rows(d, 4)
                            v == [i \in 1 .. 4 |-> Reading(type, w[i])] IN
                        v[1] = v[2] /\ v[3] = v[4] /\ v[2] # v[3]
                          => Known(events, {i \in DOMAIN events : events[i].dev = d /\ events[i].type = type}, v[1])
    BY DEF SettledChangeIsRecorded, Static
  <1> DEFINE w == recent_successful_hardware_rows(d, 4)
             v == [i \in 1 .. 4 |-> Reading(type, w[i])]
             vals == [i \in DOMAIN Window(d) |-> Reading(type, Window(d)[i])]
             ids == {i \in DOMAIN events : events[i].dev = d /\ events[i].type = type}
  <1>3. SUFFICES ASSUME v[1] = v[2], v[3] = v[4], v[2] # v[3]
                 PROVE  Known(events, ids, v[1])
    OBVIOUS
  <1>4. d \in Calm /\ \A p \in Procs : ~ Compares(p, d)
    BY <1>2 DEF Settled, Calm, Compares
  <1>5. Recorded(d)
    BY <1>1, <1>4 DEF RecordInv
  <1>6. w = Newest(Good(d), 4) /\ Window(d) = Newest(Good(d), 3)
    BY DEF Window, recent_successful_hardware_rows, Good, DEFAULT_M
  <1>7. Stamped(Good(d))
    <2>1. Good(d) \in SUBSET rows
      BY DEF Good
    <2>2. IsFiniteSet(Good(d))
      BY <1>1, <2>1, FS_Subset DEF HwTypeOK
    <2>3. QED
      BY <1>1, <2>1, <2>2 DEF Stamped, HwTypeOK, StampInv
  <1>8. Len(Window(d)) = 3 /\ \A i \in 1 .. 3 : Window(d)[i] = w[i]
    BY <1>2, <1>6, <1>7, ShorterWindow
  <1>9. Window(d) \in Seq(DeviceRow) /\ DOMAIN Window(d) = 1 .. 3
    BY <1>1, <1>8, WindowFacts
  <1>10. DOMAIN vals = 1 .. 3 /\ \A i \in 1 .. 3 : vals[i] = v[i]
    BY <1>8, <1>9
  <1>11. vals[1] # "none"
    <2>1. Window(d)[1] \in DeviceRow
      BY <1>9
    <2>2. type \in EVENT_TYPES \ {"cve_delta"}
      BY DEF Static, EVENT_TYPES
    <2>3. Reading(type, Window(d)[1]) # "none"
      BY <2>1, <2>2, ReadingType
    <2>4. QED
      BY <1>9, <2>3
  <1>12. Changed(d, type) = Changes(type, vals)
    BY <1>8 DEF Changed
  <1>13. vals[1] = v[1] /\ vals[1] = vals[2] /\ vals[3] # vals[2]
    BY <1>3, <1>10
  <1> HIDE DEF vals, v
  <1>14. PICK x \in Changes(type, vals) : x.new = vals[1]
    BY <1>10, <1>11, <1>13, TwoOfThree
  <1>15. Known(events, HistoryOf(d, type), v[1])
    BY <1>5, <1>12, <1>13, <1>14 DEF Recorded
  <1>16. HistoryOf(d, type) = ids
    BY DEF HistoryOf, History
  <1>17. QED
    BY <1>15, <1>16

(* Every settled change of a device is on record, and no event of the table
   repeats the one before it. *)
THEOREM EventsAlwaysFollowHistory == HwSpec => []EventsFollowHistory
  <1>1. HwInv => EventsFollowHistory
    BY SettledIsRecorded DEF EventsFollowHistory, HwInv
  <1>2. QED
    BY <1>1, HardwareInvariant, PTL

-----------------------------------------------------------------------------
(* The fleet, its trends and its alerts *)

LEMMA RowsChange ==
    ASSUME [HwNext]_hwVars, rows' # rows
    PROVE  \E p \in Procs : Commit(p)
  BY DEF HwNext, hwVars, run_scan, run_check_in, SensorScan, _ingest_envelope, SnmpPhase, NextDay, CommitFails,
         ReadHistory, WriteEvents, WriteEventsFails, reconcile_vendor_pqc_trend, _notify_hardware_lifecycle, Kill

(* A successful row has an answer behind it, or is of the SNMP phase: in the table,
   in a process and in the sensor's spool. *)
HeardInv == \A r \in rows \cup Waiting : Heard(r)

LEMMA ProbedHeard ==
    ASSUME HwInv, HeardInv, NEW p \in Procs, NEW kind \in {"scan", "check-in", "push", "snmp"},
           NEW b \in Seq(DeviceRow), \A i \in 1 .. Len(b) : Heard(b[i]),
           ToPersist(p, kind, b), rows' = rows, spool' = spool
    PROVE  HeardInv'
  <1>1. HwTypeOK
    BY DEF HwInv
  <1>2. PICK j \in Job : Takes(p, j, b)
    BY <1>1, Persisted
  <1>3. job' = [job EXCEPT ![p] = j] /\ j.batch = Stamp(b)
    BY <1>2 DEF Takes
  <1>4. job'[p] = j /\ \A q \in Procs : q # p => job'[q] = job[q]
    BY <1>1, <1>3, JobTo
  <1>5. Stamp(b) \in Seq(DeviceRow) /\ \A i \in 1 .. Len(Stamp(b)) : Heard(Stamp(b)[i])
    BY <1>1, StampFacts DEF HwTypeOK
  <1>6. \A r \in ToSet(Stamp(b)) : Heard(r)
    BY <1>5, ToSetIs
  <1>7. \A q \in Procs : ToSet(job'[q].batch) \subseteq ToSet(job[q].batch) \cup ToSet(Stamp(b))
    BY <1>3, <1>4
  <1>8. \A r \in Waiting' : r \in Waiting \/ r \in ToSet(Stamp(b))
    BY <1>7 DEF Waiting
  <1>9. QED
    BY <1>6, <1>8 DEF HeardInv

(* What waits comes from probes, and what is in the table has waited. *)
LEMMA HeardStep ==
    ASSUME HwInv, HeardInv, [HwNext]_hwVars
    PROVE  HeardInv'
  <1>1. HwTypeOK /\ "cli" \in Procs /\ "console" \in Procs
    BY DEF HwInv, Procs
  <1>2. ASSUME rows' = rows, spool' = spool, \A q \in Procs : ToSet(job'[q].batch) \subseteq ToSet(job[q].batch)
        PROVE  HeardInv'
    BY <1>2 DEF HeardInv, Waiting
  <1>3. CASE run_scan
    <2>1. PICK a \in Answers({d \in Devices : Route[d] # "snmp"}) : ToPersist("cli", "scan", ScanBatch(Devices, a))
      BY <1>3 DEF run_scan
    <2>2. \A d \in Devices : Route[d] # "snmp" => a[d] \in Answer
      BY <2>1, AnswersAre
    <2>3. /\ ScanBatch(Devices, a) \in Seq(DeviceRow)
          /\ \A i \in 1 .. Len(ScanBatch(Devices, a)) : Heard(ScanBatch(Devices, a)[i])
      BY <2>2, ScanBatchFacts
    <2>4. rows' = rows /\ spool' = spool
      BY <1>3 DEF run_scan
    <2>5. QED
      BY <1>1, <2>1, <2>3, <2>4, ProbedHeard
  <1>4. CASE run_check_in
    <2> DEFINE known == {r \in latest_successful_hardware_devices :
                           EnableOt \/ r.method \notin {"modbus", "bacnet"}}
               devs == SetToSeq(known)
               B(a) == [i \in DOMAIN devs |-> check_in_fingerprint_device(devs[i], a[devs[i].dev])]
    <2>1. PICK a \in Answers({r.dev : r \in known}) : ToPersist("cli", "check-in", B(a))
      BY <1>4 DEF run_check_in
    <2>2. rows' = rows /\ spool' = spool
      BY <1>4 DEF run_check_in
    <2>3. known \in SUBSET rows
      BY DEF latest_successful_hardware_devices
    <2> HIDE DEF known
    <2>4. known \in SUBSET DeviceRow /\ IsFiniteSet(known)
      BY <1>1, <2>3, FS_Subset DEF HwTypeOK
    <2>5. {r.dev : r \in known} \in SUBSET Devices
      BY <2>4 DEF DeviceRow
    <2>6. \A d \in {r.dev : r \in known} : a[d] \in Answer
      BY <2>1, <2>5, AnswersAre
    <2>7. B(a) \in Seq(DeviceRow) /\ \A i \in 1 .. Len(B(a)) : Heard(B(a)[i])
      BY <2>4, <2>6, CheckInBatchType
    <2> HIDE DEF B
    <2>8. QED
      BY <1>1, <2>1, <2>2, <2>7, ProbedHeard
  <1>5. CASE SnmpPhase
    <2>1. PICK a : ToPersist("cli", "snmp", SnmpBatch(a))
      BY <1>5 DEF SnmpPhase
    <2>2. SnmpBatch(a) \in Seq(DeviceRow) /\ \A i \in 1 .. Len(SnmpBatch(a)) : Heard(SnmpBatch(a)[i])
      BY SnmpBatchFacts
    <2>3. rows' = rows /\ spool' = spool
      BY <1>5 DEF SnmpPhase
    <2>4. QED
      BY <1>1, <2>1, <2>2, <2>3, ProbedHeard
  <1>6. CASE SensorScan
    <2>1. PICK a \in Answers({d \in Afar : Route[d] # "snmp"}) : spool' = Stamp(ScanBatch(Afar, a))
      BY <1>6 DEF SensorScan
    <2>2. Afar \in SUBSET Devices
      BY HardwareAssumption
    <2>3. \A d \in Afar : Route[d] # "snmp" => a[d] \in Answer
      BY <2>1, <2>2, AnswersAre
    <2> DEFINE b == ScanBatch(Afar, a)
    <2>4. b \in Seq(DeviceRow) /\ \A i \in 1 .. Len(b) : Heard(b[i])
      BY <2>2, <2>3, ScanBatchFacts
    <2> HIDE DEF b
    <2>5. Stamp(b) \in Seq(DeviceRow) /\ \A i \in 1 .. Len(Stamp(b)) : Heard(Stamp(b)[i])
      BY <1>1, <2>4, StampFacts DEF HwTypeOK
    <2>6. \A r \in ToSet(spool') : Heard(r)
      BY <2>1, <2>5, ToSetIs DEF b
    <2>7. rows' = rows /\ job' = job
      BY <1>6 DEF SensorScan
    <2>8. QED
      BY <2>6, <2>7 DEF HeardInv, Waiting
  <1>7. CASE _ingest_envelope
    <2> DEFINE j == [Idle EXCEPT !.at = "probed", !.kind = "push", !.batch = spool]
    <2>1. job' = [job EXCEPT !["console"] = j] /\ spool' = <<>> /\ rows' = rows
      BY <1>7 DEF _ingest_envelope
    <2>2. j.batch = spool
      BY DEF Idle
    <2> HIDE DEF j
    <2>3. job'["console"] = j /\ \A q \in Procs : q # "console" => job'[q] = job[q]
      BY <1>1, <2>1 DEF HwTypeOK
    <2>4. \A q \in Procs : ToSet(job'[q].batch) \subseteq ToSet(job[q].batch) \cup ToSet(spool)
      BY <2>2, <2>3
    <2>5. ToSet(spool') = {}
      BY <2>1 DEF ToSet
    <2>6. \A r \in Waiting' : r \in Waiting
      BY <2>4, <2>5 DEF Waiting
    <2>7. QED
      BY <2>1, <2>6 DEF HeardInv
  <1>8. CASE NextDay
    <2>1. rows' = rows /\ spool' = spool /\ job' = job
      BY <1>8 DEF NextDay
    <2>2. QED
      BY <1>2, <2>1
  <1>9. ASSUME NEW p \in Procs, Commit(p)
        PROVE  HeardInv'
    <2>1. /\ rows' = purge_stale_hardware_history(p) \cup ToSet(job[p].batch)
          /\ spool' = spool
          /\ job' = [job EXCEPT ![p] = [job[p] EXCEPT
                         !.at = "device", !.left = DevsIn(job[p].batch),
                         !.vendors = {job[p].batch[i].vendor : i \in DOMAIN job[p].batch}, !.batch = <<>>]]
      BY <1>9 DEF Commit
    <2>2. job[p] \in Job
      BY <1>1 DEF HwTypeOK
    <2>3. job'[p].batch = <<>> /\ \A q \in Procs : q # p => job'[q] = job[q]
      BY <1>1, <2>1, <2>2 DEF HwTypeOK, Job
    <2>4. \A q \in Procs : ToSet(job'[q].batch) \subseteq ToSet(job[q].batch)
      BY <2>3 DEF ToSet
    <2>5. \A r \in rows' : r \in rows \/ r \in Waiting
      BY <2>1 DEF purge_stale_hardware_history, Waiting
    <2>6. QED
      BY <2>1, <2>4, <2>5 DEF HeardInv, Waiting
  <1>10. ASSUME NEW p \in Procs, rows' = rows, spool' = spool, NEW j, job' = [job EXCEPT ![p] = j],
                j.batch \in {<<>>, job[p].batch}
         PROVE  HeardInv'
    <2>1. job'[p] = j /\ \A q \in Procs : q # p => job'[q] = job[q]
      BY <1>1, <1>10 DEF HwTypeOK
    <2>2. ToSet(<<>>) = {}
      BY DEF ToSet
    <2>3. \A q \in Procs : ToSet(job'[q].batch) \subseteq ToSet(job[q].batch)
      BY <1>10, <2>1, <2>2
    <2>4. QED
      BY <1>2, <1>10, <2>3
  <1>11. ASSUME NEW p \in Procs
         PROVE  Leave(p).batch = <<>> /\ Idle.batch = <<>>
    BY DEF Leave, Idle
  <1>12. ASSUME NEW p \in Procs
         PROVE  job[p] \in Job
    BY <1>1 DEF HwTypeOK
  <1>13. ASSUME NEW p \in Procs, CommitFails(p) \/ _notify_hardware_lifecycle(p) \/ Kill(p)
         PROVE  HeardInv'
    <2>1. rows' = rows /\ spool' = spool /\ job' \in {[job EXCEPT ![p] = Leave(p)], [job EXCEPT ![p] = Idle]}
      BY <1>13 DEF CommitFails, _notify_hardware_lifecycle, Kill
    <2>2. QED
      BY <1>10, <1>11, <2>1
  <1>14. ASSUME NEW p \in Procs, ReadHistory(p)
         PROVE  HeardInv'
    <2>1. PICK d, new : job' = [job EXCEPT ![p].at = "write", ![p].who = d, ![p].left = @ \ {d}, ![p].cand = new]
      BY <1>14, Zenon DEF ReadHistory
    <2>2. PICK j : j = [job[p] EXCEPT !.at = "write", !.who = d, !.left = job[p].left \ {d}, !.cand = new]
      OBVIOUS
    <2>3. j.batch = job[p].batch
      BY <1>12, <2>2 DEF Job
    <2>4. rows' = rows /\ spool' = spool
      BY <1>14 DEF ReadHistory
    <2>5. job' = [job EXCEPT ![p] = j]
      BY <2>1, <2>2
    <2>6. QED
      BY <1>10, <2>3, <2>4, <2>5
  <1>15. ASSUME NEW p \in Procs, WriteEvents(p) \/ WriteEventsFails(p)
         PROVE  HeardInv'
    <2>1. rows' = rows /\ spool' = spool /\ \E found : job' = Compared(p, found)
      BY <1>15 DEF WriteEvents, WriteEventsFails
    <2>2. PICK found : job' = Compared(p, found)
      BY <2>1
    <2>3. PICK j : j = [job[p] EXCEPT !.at = "device", !.who = "none", !.cand = {}, !.found = job[p].found \cup found]
      OBVIOUS
    <2>4. job' = [job EXCEPT ![p] = j]
      BY <2>2, <2>3 DEF Compared
    <2>5. j.batch = job[p].batch
      BY <1>12, <2>3 DEF Job
    <2>6. QED
      BY <1>10, <2>1, <2>4, <2>5
  <1>16. ASSUME NEW p \in Procs, reconcile_vendor_pqc_trend(p)
         PROVE  HeardInv'
    <2>1. PICK j : j = IF Qualifying(job[p].found) = {} THEN Leave(p)
                       ELSE [job[p] EXCEPT !.at = "notify", !.left = {}, !.vendors = {}]
      OBVIOUS
    <2>2. job' = [job EXCEPT ![p] = j] /\ rows' = rows /\ spool' = spool
      BY <1>16, <2>1 DEF reconcile_vendor_pqc_trend
    <2>3. PICK k : k = [job[p] EXCEPT !.at = "notify", !.left = {}, !.vendors = {}]
      OBVIOUS
    <2>4. k.batch = job[p].batch
      BY <1>12, <2>3 DEF Job
    <2>5. j.batch \in {<<>>, job[p].batch}
      BY <1>11, <2>1, <2>3, <2>4
    <2>6. QED
      BY <1>10, <2>2, <2>5
  <1>17. CASE UNCHANGED hwVars
    BY <1>17, <1>2 DEF hwVars
  <1>18. QED
    BY <1>3, <1>4, <1>5, <1>6, <1>7, <1>8, <1>9, <1>13, <1>14, <1>15, <1>16, <1>17 DEF HwNext

(* The column of a success never stands without an answer, except in the rows of
   the SNMP phase. *)
THEOREM SuccessIsHeard == HwSpec => []HeardInv
  <1>1. HwInit => HeardInv
    <2>1. SUFFICES ASSUME HwInit
                   PROVE  HeardInv
      OBVIOUS
    <2>2. \A p \in Procs : job[p].batch = <<>>
      BY <2>1 DEF HwInit, Idle
    <2>3. ToSet(<<>>) = {}
      BY DEF ToSet
    <2>4. Waiting = {}
      BY <2>1, <2>2, <2>3 DEF HwInit, Waiting
    <2>5. QED
      BY <2>1, <2>4, FirstRows DEF HeardInv
  <1>2. HwInv /\ HeardInv /\ [HwNext]_hwVars => HeardInv'
    BY HeardStep
  <1>3. QED
    BY <1>1, <1>2, HardwareInvariant, PTL DEF HwSpec

(* A row of the fleet is overtaken by a newer one, or its retention is over. *)
LEMMA FleetStep ==
    ASSUME HwTypeOK', StampInv', HeardInv', NEW p \in Procs, Commit(p), NEW r \in latest_successful_hardware_devices
    PROVE  \/ r \in latest_successful_hardware_devices'
           \/ Forgets(r)
           \/ \E q \in Newer(r) : q.heard \/ q.method = "snmp"
  <1>1. r \in rows /\ r.ok
    BY DEF latest_successful_hardware_devices, Successful
  <1>2. CASE r \notin rows'
    <2>1. Expired(r, KeptFor(p)) /\ job[p].at = "probed"
      BY <1>1, <1>2 DEF Commit, purge_stale_hardware_history
    <2>2. QED
      BY <1>2, <2>1 DEF Forgets
  <1>3. CASE r \in rows'
    <2> DEFINE S == {q \in rows' : q.dev = r.dev /\ q.ok}
    <2>1. S \in SUBSET rows' /\ r \in S
      BY <1>1, <1>3
    <2>2. rows' \in SUBSET DeviceRow /\ IsFiniteSet(rows') /\ \A x, y \in rows' : x.seen = y.seen => x = y
      BY DEF HwTypeOK, StampInv
    <2>3. IsFiniteSet(S)
      BY <2>1, <2>2, FS_Subset
    <2>4. \A x \in S : x.dev = r.dev /\ x.ok
      OBVIOUS
    <2>5. \A x \in rows' : x.dev = r.dev /\ x.ok => x \in S
      OBVIOUS
    <2> HIDE DEF S
    <2>6. Stamped(S)
      BY <2>1, <2>2, <2>3 DEF Stamped
    <2>7. Rank(r, S) \in 1 .. Cardinality(S) /\ Cardinality(S) \in Nat
      BY <2>1, <2>6, Ranks
    <2>8. 1 \in 1 .. Cardinality(S)
      BY <2>7
    <2>9. PICK q \in S : Rank(q, S) = 1
      BY <2>6, <2>8, Ranks
    <2>10. \A x \in S : x.seen <= q.seen
      <3>1. SUFFICES ASSUME NEW x \in S, ~ (x.seen <= q.seen)
                     PROVE  FALSE
        OBVIOUS
      <3>2. x.seen \in Int /\ q.seen \in Int
        BY <2>1, <2>2 DEF DeviceRow
      <3>3. Rank(x, S) < Rank(q, S) /\ Rank(x, S) \in 1 .. Cardinality(S)
        BY <2>6, <3>1, <3>2, Ranks
      <3>4. QED
        BY <2>7, <2>9, <3>3
    <2>11. q \in latest_successful_hardware_devices'
      BY <2>1, <2>4, <2>5, <2>10 DEF latest_successful_hardware_devices, Successful
    <2>12. CASE q = r
      BY <2>11, <2>12
    <2>13. CASE q # r
      <3>1. q.seen # r.seen /\ q.seen \in Int /\ r.seen \in Int
        BY <2>1, <2>2, <2>13 DEF DeviceRow
      <3>2. q.seen > r.seen
        BY <2>1, <2>10, <3>1
      <3>3. q \in Newer(r)
        BY <2>4, <2>11, <3>2 DEF Newer
      <3>4. q.heard \/ q.method = "snmp"
        BY <2>1, <2>4 DEF HeardInv, Heard
      <3>5. QED
        BY <3>3, <3>4
    <2>14. QED
      BY <2>12, <2>13
  <1>4. QED
    BY <1>2, <1>3

(* A device keeps in the fleet what it answered until it answers again, its retention
   is over, or the SNMP phase has a row of it, silent or not: no failed probe and no
   late push replaces it. *)
THEOREM FleetAlwaysKeepsGoodState == HwSpec => FleetKeepsGoodState
  <1>1. HwInv /\ HwInv' /\ HeardInv' /\ [HwNext]_hwVars
          => [rows' # rows => \A r \in latest_successful_hardware_devices :
                \/ r \in latest_successful_hardware_devices' \/ Forgets(r)
                \/ \E q \in Newer(r) : q.heard \/ q.method = "snmp"]_hwVars
    <2>1. SUFFICES ASSUME HwInv, HwInv', HeardInv', [HwNext]_hwVars, rows' # rows,
                          NEW r \in latest_successful_hardware_devices
                   PROVE  \/ r \in latest_successful_hardware_devices' \/ Forgets(r)
                          \/ \E q \in Newer(r) : q.heard \/ q.method = "snmp"
      OBVIOUS
    <2>2. PICK p \in Procs : Commit(p)
      BY <2>1, RowsChange
    <2>3. HwTypeOK' /\ StampInv'
      BY <2>1 DEF HwInv
    <2>4. QED
      BY <2>1, <2>2, <2>3, FleetStep
  <1>2. QED
    BY <1>1, HardwareInvariant, SuccessIsHeard, PTL DEF HwSpec, FleetKeepsGoodState

LEMMA TwoMembers ==
    ASSUME NEW S, IsFiniteSet(S), NEW a \in S, NEW b \in S, a # b
    PROVE  Cardinality(S) >= 2
  <1>1. IsFiniteSet({a}) /\ Cardinality({a}) = 1
    BY FS_Singleton
  <1>2. b \notin {a} /\ {a} \cup {b} \in SUBSET S
    OBVIOUS
  <1>3. Cardinality({a} \cup {b}) = 2
    BY <1>1, <1>2, FS_AddElement
  <1>4. Cardinality({a} \cup {b}) <= Cardinality(S) /\ Cardinality(S) \in Nat
    BY <1>2, FS_Subset, FS_CardinalityType
  <1>5. QED
    BY <1>3, <1>4

LEMMA NewTrendHasTwo ==
    ASSUME HwTypeOK, StampInv, NEW v \in Vendors, NEW t \in NewTrends(v)
    PROVE  Cardinality(VotesFor(t)) >= 2
  <1> DEFINE S == {x \in rows : x.ok /\ x.vendor = t.vendor /\ x.pqc = t.new}
             f == [r \in S |-> r.dev]
             D == {r.dev : r \in S}
  <1>1. PICK q, r \in rows : /\ t.vendor = v
                             /\ q.ok /\ q.vendor = v /\ q.pqc = t.new
                             /\ r.ok /\ r.vendor = v /\ r.pqc = t.new
                             /\ q.dev # r.dev
    BY TrendFacts
  <1>2. q \in S /\ r \in S /\ q.dev \in D /\ r.dev \in D
    BY <1>1
  <1>3. IsFiniteSet(S)
    <2>1. S \in SUBSET rows
      OBVIOUS
    <2>2. QED
      BY <2>1, FS_Subset DEF HwTypeOK
  <1> HIDE DEF S
  <1>4. IsFiniteSet({f[x] : x \in S})
    BY <1>3, ImageFinite
  <1>5. IsFiniteSet(D)
    BY <1>4
  <1> HIDE DEF D
  <1>6. Cardinality(D) >= 2
    BY <1>1, <1>2, <1>5, TwoMembers
  <1>7. QED
    BY <1>6 DEF VotesFor, D, S

LEMMA TrendsGrow ==
    ASSUME HwInv, [HwNext]_hwVars, NEW i \in DOMAIN trends' \ DOMAIN trends
    PROVE  \E v \in Vendors : trends'[i] \in NewTrends(v)
  <1>1. trends' # trends
    OBVIOUS
  <1>2. PICK p \in Procs : reconcile_vendor_pqc_trend(p)
    BY <1>1 DEF HwNext, hwVars, run_scan, run_check_in, SensorScan, _ingest_envelope, SnmpPhase, NextDay, Commit,
         CommitFails, ReadHistory, WriteEvents, WriteEventsFails, _notify_hardware_lifecycle, Kill
  <1>3. HwTypeOK /\ StampInv
    BY DEF HwInv
  <1> DEFINE U == UNION {NewTrends(v) : v \in job[p].vendors}
             s == SetToSeq(U)
  <1>4. trends' = trends \o s
    BY <1>2 DEF reconcile_vendor_pqc_trend
  <1>5. IsFiniteSet(U) /\ \A t \in U : \E v \in Vendors : t \in NewTrends(v)
    BY <1>3, AddedTrends
  <1> HIDE DEF U
  <1>6. s \in Seq(U)
    BY <1>5, SetToSeqFacts
  <1> HIDE DEF s
  <1>7. trends \in Seq(Trend)
    BY <1>3 DEF HwTypeOK
  <1>8. i \in Len(trends) + 1 .. Len(trends) + Len(s) /\ trends'[i] = s[i - Len(trends)]
    BY <1>4, <1>6, <1>7
  <1>9. i - Len(trends) \in 1 .. Len(s)
    BY <1>6, <1>7, <1>8
  <1>10. s[i - Len(trends)] \in U
    BY <1>6, <1>9
  <1>11. QED
    BY <1>5, <1>8, <1>10

LEMMA AlertIsOnRecord ==
    ASSUME HwInv, [HwNext]_hwVars, NEW al \in alerts' \ alerts
    PROVE  al.about \subseteq ToSet(events)
  <1>1. alerts' # alerts
    OBVIOUS
  <1>2. PICK p \in Procs : _notify_hardware_lifecycle(p)
    BY <1>1 DEF HwNext, hwVars, run_scan, run_check_in, SensorScan, _ingest_envelope, SnmpPhase, NextDay, Commit,
         CommitFails, ReadHistory, WriteEvents, WriteEventsFails, reconcile_vendor_pqc_trend, Kill
  <1>3. \E failed : al \in Sent(p, failed)
    BY <1>2 DEF _notify_hardware_lifecycle
  <1>4. al.about = Qualifying(job[p].found)
    BY <1>3 DEF Sent
  <1>5. Qualifying(job[p].found) \subseteq job[p].found
    BY DEF Qualifying
  <1>6. job[p].found \subseteq ToSet(events)
    BY DEF HwInv, StepInv
  <1>7. QED
    BY <1>4, <1>5, <1>6

(* A trend has two devices behind it, and an alert the events it is about. *)
THEOREM OnlyConfirmedIsEverTold == HwSpec => OnlyConfirmedIsTold
  <1>1. HwInv /\ [HwNext]_hwVars
          => [\A i \in DOMAIN trends' \ DOMAIN trends :
                Cardinality(VotesFor(trends'[i])) >= 2]_hwVars
    <2>1. SUFFICES ASSUME HwInv, [HwNext]_hwVars, NEW i \in DOMAIN trends' \ DOMAIN trends
                   PROVE  Cardinality(VotesFor(trends'[i])) >= 2
      OBVIOUS
    <2>2. PICK v \in Vendors : trends'[i] \in NewTrends(v)
      BY <2>1, TrendsGrow
    <2>3. HwTypeOK /\ StampInv
      BY <2>1 DEF HwInv
    <2>4. QED
      BY <2>2, <2>3, NewTrendHasTwo
  <1>2. HwInv /\ [HwNext]_hwVars => [\A al \in alerts' \ alerts : al.about \subseteq ToSet(events)]_hwVars
    BY AlertIsOnRecord
  <1>3. HwSpec => TrendNeedsTwoDevices
    BY <1>1, HardwareInvariant, PTL DEF HwSpec, TrendNeedsTwoDevices
  <1>4. HwSpec => AlertHasEvent
    BY <1>2, HardwareInvariant, PTL DEF HwSpec, AlertHasEvent
  <1>5. QED
    BY <1>3, <1>4 DEF OnlyConfirmedIsTold
=============================================================================
