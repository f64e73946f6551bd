----------------------------- MODULE MCHardware -----------------------------
(* Two hosts with SSH in one subnet: the first was a baseboard controller, next
   to which the second counts as a gateway, and is replaced by a router or by
   an appliance past its end of life.  A host known by SNMP that has
   fallen silent.  A controller whose firmware is rolled back. *)
EXTENDS HardwareHistory

Silent == [ssh |-> "none", http |-> "none", snmp |-> "none", v3 |-> "none", public |-> FALSE,
           modbus |-> "no_response", bacnet |-> "no_response", arp |-> FALSE, raises |-> FALSE]
CiscoSsh == [Silent EXCEPT !.ssh = "Cisco", !.arp = TRUE]
IpmiSsh == [Silent EXCEPT !.ssh = "Ipmi"]
BigIpSsh == [Silent EXCEPT !.ssh = "BigIp"]
CiscoSnmp == [Silent EXCEPT !.snmp = "Cisco", !.public = TRUE]
Firmware(fw) == [Silent EXCEPT !.modbus = fw]

Routes == [h1 |-> "ssh", h2 |-> "ssh", h3 |-> "snmp", h4 |-> "ot"]
Behaviours == [h1 |-> {CiscoSsh, BigIpSsh}, h2 |-> {CiscoSsh}, h3 |-> {Silent}, h4 |-> {Firmware("1.6.1")}]
FirstAnswers == [h1 |-> IpmiSsh, h2 |-> CiscoSsh, h3 |-> CiscoSnmp, h4 |-> Firmware("1.7")]
=============================================================================
