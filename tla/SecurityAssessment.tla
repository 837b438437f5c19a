-------------------------- MODULE SecurityAssessment --------------------------
(***************************************************************************)
(* run_device_audit over a device whose configuration an operator repairs  *)
(* by the commands the findings recommend, one at a time.                  *)
(***************************************************************************)
EXTENDS InterfaceChecks

CONSTANTS
  Configurations,   \* the configurations the devices start with
  FixLimit          \* bound: the fixes an operator applies

\* A configuration is a text: it names finitely many interfaces.
ASSUME ConfigurationAssumption == \A c \in Configurations : IsFiniteSet(DOMAIN c.ports)

VARIABLES config, fixed

\* run_correlation_engine; CORR-04 waits for a fact no check records.
Correlations(c) ==
  LET Fired(check, severity, condition) == Only(condition, {Judge(check, "fail", severity)})
  IN  Fired("CORR-01", "high", "dhcp_snooping" \in c.lines /\ "arp_inspection_vlan" \notin c.lines)
      \cup Fired("CORR-02", "medium", /\ "arp_inspection_vlan" \in c.lines
                                      /\ ~Somewhere(c, "device-tracking"))
      \cup Fired("CORR-03", "high", SshEnabled(c) /\ ~VtyAclPresent(c))
      \cup Fired("CORR-05", "medium", /\ TrunkPorts(c) \cap On(c, "native_vlan") # {}
                                      /\ TrunkPorts(c) \ On(c, "allowed_vlan") # {})
      \cup Fired("CORR-06", "low", NotSticky(c) # {})
      \cup Fired("CORR-07", "high", "copp" \in c.lines /\ CoppCoverage(c) <= 1)
      \cup Fired("CORR-08", "high", Has(c, Vpn) /\ NoRevocation(c))
      \cup Fired("CORR-09", "medium", "no_password-recovery" \in c.lines /\ BreakEnabled(c.register))
      \cup Fired("CORR-10", "low", {"guestshell", "iox"} \subseteq c.lines)

AllFindings(c) == AllDeviceChecks(c) \cup RunInterfaceChecks(c) \cup Correlations(c)

-----------------------------------------------------------------------------
\* Pasting the fix_command of a finding into the device.
Repaired(statements, fix) == (statements \ fix.drop) \cup fix.add
WithFix(c, fix) ==
  [lines    |-> IF "device" \in fix.on THEN Repaired(c.lines, fix) ELSE c.lines,
   ports    |-> [p \in DOMAIN c.ports |->
                   IF p \in fix.on THEN Repaired(c.ports[p], fix) ELSE c.ports[p]],
   register |-> IF "config-register_0x2102" \in fix.add THEN 8450 ELSE c.register]

Failing(c) == {f \in AllDeviceChecks(c) : f.status = "fail"}

InitFixes == config \in Configurations /\ fixed = <<>>
ApplyFix ==
  /\ Len(fixed) < FixLimit
  /\ \E f \in Failing(config) :
       /\ f.fix.on # {}
       /\ config' = WithFix(config, f.fix)
       /\ fixed' = Append(fixed, f.check)
fixVars == <<config, fixed>>
SpecFixes == InitFixes /\ [][ApplyFix]_fixVars

-----------------------------------------------------------------------------
\* Three recommendations do not do what their check looks for: 0x2102 still has bit 8 set, the
\* example for the layer-2 control class polices DHCP, and the IS-IS one goes to the router stanza
\* where the check reads the interfaces.  Three more do half of it: DHCPSNOOP-05 takes trust from
\* ports that are no uplinks, while the check counts the uplinks too; AAA-09 leaves a global server
\* key, and PWD-02 a type 7 password of a line or of enable, where it is.
Unhelpful(c) ==
  {"BOOT-04", "COPP-CLASS-L2CTRL", "RTAUTH-ISIS-01"}
    \cup Only(Cardinality(On(c, "dhcp_trust") \cap Uplinks(c)) > TrustLimit(c), {"DHCPSNOOP-05"})
    \cup Only("legacy_server_key" \in c.lines, {"AAA-09"})
    \cup Only("line_password_7" \in c.lines, {"PWD-02"})

\* After the fix of a finding is applied, the check no longer fails: a recommendation and the
\* check it belongs to are written apart, one as text, one as patterns.
FixesClearTheirFinding ==
  fixed # <<>> => \/ fixed[Len(fixed)] \in Unhelpful(config)
                  \/ \A f \in Failing(config) : f.check # fixed[Len(fixed)]

\* "auditing a device means auditing its interfaces too" (orchestrator.py).
InterfacesAreJudgedByTheirFeatures == JudgedByItsFeatures(config)
=============================================================================
