--------------------------- MODULE InterfaceChecks ---------------------------
(***************************************************************************)
(* The interface engine of the Security Center: the second parser          *)
(* (parser/interface_config.py), the rules of checks/interfaces.py and     *)
(* run_interface_checks, over the ports of DeviceChecks' configurations,   *)
(* all of them physical.  What a rule reads is [mode, set]: the mode of    *)
(* the interface and the statements the parser took for its features.      *)
(***************************************************************************)
EXTENDS DeviceChecks

Globals(c) ==
  [dhcpSnooping  |-> Has(c, {"dhcp_snooping", "dhcp_snooping_vlan"}),
   arpInspection |-> "arp_inspection_vlan" \in c.lines]

Descriptions == {"description_uplink", "description"}
\* parse_interface_line and finalize_interface: a physical port without a mode line is a routed
\* port when it has an address, an access port when it has none.
Features(port) ==
  [mode |-> IF "switchport_mode_trunk" \in port THEN "trunk"
            ELSE IF "switchport_mode_access" \in port THEN "access"
            ELSE IF "ip_address" \in port THEN "routed" ELSE "access",
   set  |-> port]
\* The record that holds the features: its own keys are the name, the description, the raw lines
\* and the kind.
Outer(port) == [mode |-> "none", set |-> port \cap Descriptions]

-----------------------------------------------------------------------------
(* The rules: <<identifier, severity, the statements that satisfy it, otherwise>> *)

AccessRules ==
  {<<"access_vlan_not_default", "high", {"access_vlan"}, "fail">>,
   <<"portfast", "medium", {"portfast"}, "fail">>,
   <<"bpduguard", "critical", {"bpduguard"}, "fail">>,
   <<"port_security", "critical", {"port-security"}, "fail">>,
   <<"ip_source_guard", "high", {"verify_source"}, "fail">>}
TrunkRules ==
  {<<"trunk_native_vlan", "critical", {"native_vlan"}, "fail">>,
   <<"trunk_allowed_vlans", "critical", {"allowed_vlan"}, "fail">>,
   <<"dtp_disabled", "high", {"nonegotiate"}, "fail">>,
   <<"rootguard", "high", {"guard_root"}, "fail">>,
   <<"loopguard", "medium", {"guard_loop"}, "warn">>,
   <<"udld", "medium", {"udld_aggressive"}, "warn">>}
SwitchedRules ==
  {<<"storm_control", "high", {"storm-control"}, "fail">>,
   <<"dot1x", "high", {"port-control"}, "warn">>,
   <<"ipv6_ra_guard", "medium", {"raguard"}, "warn">>}
PortSecurityRules ==
  {<<"port_security_max", "high", {"maximum", "maximum_high"}, "fail">>,
   <<"port_security_violation", "high", {"violation_restrict"}, "warn">>,
   <<"port_security_sticky", "medium", {"sticky"}, "warn">>}
AuthenticationRules ==
  {<<"mab", "medium", {"mab"}, "warn">>, <<"auth_order", "medium", {"authentication_order"}, "warn">>,
   <<"guest_vlan", "low", {"guest_vlan"}, "warn">>, <<"critical_vlan", "low", {"critical_vlan"}, "warn">>,
   <<"reauthentication", "medium", {"authentication_periodic"}, "warn">>}
GeneralRules ==
  {<<"interface_description", "low", Descriptions, "warn">>,
   <<"cdp_control", "low", {"no_cdp_enable"}, "warn">>, <<"lldp_control", "low", {"no_lldp"}, "warn">>,
   <<"qos_policy", "low", {"service-policy"}, "warn">>, <<"acl_presence", "medium", {"access-group"}, "warn">>,
   <<"protected_port", "low", {"protected-port"}, "warn">>}

Verdicts(f, rules) ==
  {[check |-> r[1], severity |-> r[2],
    status |-> IF f.set \cap r[3] # {} THEN "pass" ELSE r[4]] : r \in rules}

\* Trust on the uplinks, none on the access ports; nothing holds while the global feature is off.
TrustVerdict(check, on, satisfied, otherwise) ==
  [check |-> check, severity |-> "critical",
   status |-> IF ~on THEN "fail" ELSE IF satisfied THEN "pass" ELSE otherwise]
TrustVerdicts(f, g) ==
  Only(f.mode = "access",
       {TrustVerdict("dhcp_snooping_access", g.dhcpSnooping, "dhcp_trust" \notin f.set, "warn"),
        TrustVerdict("dai_access", g.arpInspection, "dai_trust" \notin f.set, "warn")})
  \cup Only(f.mode = "trunk",
       {TrustVerdict("dhcp_snooping_trunk", g.dhcpSnooping, "dhcp_trust" \in f.set, "fail"),
        TrustVerdict("dai_trunk", g.arpInspection, "dai_trust" \in f.set, "fail")})

\* assess_features: every rule that applies, in its own words.
AssessFeatures(f, g) ==
  {[check |-> "explicit_mode", severity |-> "medium",
    status |-> Verdict(f.mode \in {"access", "trunk", "routed"})]}
  \cup Verdicts(f, GeneralRules)
  \cup Only(f.mode = "access", Verdicts(f, AccessRules))
  \cup Only(f.mode = "trunk", Verdicts(f, TrunkRules))
  \cup Only(f.mode \in {"access", "trunk"}, Verdicts(f, SwitchedRules))
  \cup Only("port-security" \in f.set, Verdicts(f, PortSecurityRules))
  \cup Only("port-control" \in f.set, Verdicts(f, AuthenticationRules))
  \cup TrustVerdicts(f, g)

\* to_unified_findings
Unified(p, assessed) ==
  {[check |-> r.check, at |-> p, status |-> r.status, severity |-> r.severity] : r \in assessed}

\* run_interface_checks hands the rules the record of the interface, not its features.
RunInterfaceChecks(c) ==
  UNION {Unified(p, AssessFeatures(Outer(c.ports[p]), Globals(c))) : p \in DOMAIN c.ports}

-----------------------------------------------------------------------------
\* "auditing a device means auditing its interfaces too" (orchestrator.py): an interface is
\* judged by the features its own stanza configures.
JudgedByItsFeatures(c) ==
  \A p \in DOMAIN c.ports :
    {f \in RunInterfaceChecks(c) : f.at = p} = Unified(p, AssessFeatures(Features(c.ports[p]), Globals(c)))
=============================================================================
