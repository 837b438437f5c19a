----------------------------- MODULE DeviceChecks -----------------------------
(***************************************************************************)
(* The device-level checks of the Security Center (security_center/checks) *)
(* over a parsed running configuration.  A configuration is                *)
(*   lines : the global statements and stanzas it contains, each named     *)
(*           for the pattern a check looks for,                            *)
(*   ports : for every physical interface the statements under it,         *)
(*   register : the value of config-register, 0 when the line is absent.   *)
(* "weak", "open", "unset" ... statements stand for a stanza in which the  *)
(* check finds a bad value or misses a required line.                      *)
(***************************************************************************)
EXTENDS Integers, Sequences, FiniteSets

\* F(): a finding of one check.  `severity` is the declared (true) severity; what is stored with
\* a pass or a na is info, which no check here reads.
\* `fix` is what its fix_command changes: statements dropped and added, on the device or on ports.
NoFix == [on |-> {}, drop |-> {}, add |-> {}]
LineFix(drop, add) == [on |-> {"device"}, drop |-> drop, add |-> add]
PortFix(ports, drop, add) == [on |-> ports, drop |-> drop, add |-> add]
Fixable(check, status, severity, fix) ==
  [check |-> check, at |-> "device", status |-> status, severity |-> severity, fix |-> fix]
Judge(check, status, severity) == Fixable(check, status, severity, NoFix)

Verdict(ok) == IF ok THEN "pass" ELSE "fail"
\* A defect fails, otherwise the check passes if it applies at all.
Unless(defect, applies) == IF defect THEN "fail" ELSE IF applies THEN "pass" ELSE "na"

\* Checks that look for one statement, and checks that look for its absence.
Required(c, rows)  == {Fixable(r[1], Verdict(r[3] \in c.lines), r[2], LineFix({}, {r[3]})) : r \in rows}
Forbidden(c, rows) == {Fixable(r[1], Verdict(r[3] \notin c.lines), r[2], LineFix({r[3]}, {})) : r \in rows}
\* Checks of a stanza or of ports that pass only where there is something to check.
Stanza(c, check, severity, applies, defect, add) ==
  {Fixable(check, Unless(defect \in c.lines, applies), severity, LineFix({defect}, add))}
EachPort(check, severity, ports, defective, drop, add) ==
  {Fixable(check, Unless(defective # {}, ports # {}), severity, PortFix(defective, drop, add))}
Only(condition, findings) == IF condition THEN findings ELSE {}

Has(c, statements) == c.lines \cap statements # {}
On(c, statement) == {p \in DOMAIN c.ports : statement \in c.ports[p]}
Somewhere(c, statement) == statement \in c.lines \/ On(c, statement) # {}

PortSecurity == {"port-security", "sticky", "maximum", "maximum_high", "violation_restrict", "violation_protect"}
Switchport ==
  PortSecurity \cup {"switchport_mode_access", "access_vlan", "native_vlan", "allowed_vlan", "nonegotiate"}
TrunkPorts(c)  == On(c, "switchport_mode_trunk")
AccessPorts(c) ==
  {p \in DOMAIN c.ports \ TrunkPorts(c) : /\ "no_switchport" \notin c.ports[p]
                                          /\ c.ports[p] \cap Switchport # {}}
RoutedPorts(c) == On(c, "ip_address")

-----------------------------------------------------------------------------
(* management.py *)
SecretNine == LineFix({"enable_secret_5"}, {"enable_secret_9"})
\* The command of AAA-09 enters a new key under the server; that the global keys are to be migrated
\* is a comment in it.
AaaChecks(c) ==
  Required(c, {<<"AAA-01", "critical", "aaa_new-model">>,
               <<"AAA-02", "high",     "login_group">>,
               <<"AAA-04", "low",      "authorization_commands">>,
               <<"AAA-05", "low",      "authorization_config-commands">>,
               <<"AAA-06", "low",      "accounting_commands">>,
               <<"AAA-07", "low",      "accounting_exec">>,
               <<"AAA-08", "medium",   "max-fail">>})
  \cup Only("login_group" \in c.lines, Required(c, {<<"AAA-03", "medium", "login_local">>}))
  \cup {Fixable("AAA-09", Verdict(~Has(c, {"weak_server_key", "legacy_server_key"})), "high",
                LineFix({"weak_server_key"}, {}))}
  \cup {Fixable("AAA-10", Verdict("enable_password" \notin c.lines), "critical",
                LineFix({"enable_password"}, {"enable_secret_9"}))}
  \cup Only(Has(c, {"enable_secret_5", "enable_secret_9"}),
            {Fixable("AAA-11", Verdict("enable_secret_5" \notin c.lines), "high", SecretNine)})

UserChecks(c) ==
  LET users == Has(c, {"user_type_7", "generic_user", "named_user"})
  IN  Stanza(c, "USR-01", "high", users, "user_type_7", {"named_user"})
      \cup Stanza(c, "USR-02", "high", users, "generic_user", {"named_user"})
      \cup {Judge("USR-03", "pass", "info")}

SshEnabled(c) == Has(c, {"ssh_version_2", "ssh_time-out", "ssh_retries", "ssh_algorithms"})
VtyAclPresent(c) == "vty" \in c.lines /\ "vty_open" \notin c.lines
SshChecks(c) ==
  Required(c, {<<"SSH-01", "high", "ssh_version_2">>, <<"SSH-05", "low", "ssh_time-out">>,
               <<"SSH-06", "low", "ssh_retries">>,    <<"SSH-08", "low", "ssh_algorithms">>})
  \cup Forbidden(c, {<<"SSH-02", "critical", "vty_telnet">>})
  \cup Stanza(c, "SSH-03", "high", "vty" \in c.lines, "vty_open", {"acl"})
  \cup Stanza(c, "SSH-04", "medium", "vty" \in c.lines, "vty_endless", {})
  \cup {Judge("SSH-07", "manual_review", "medium")}

HttpChecks(c) ==
  {Fixable("HTTP-01", Verdict("http_server" \notin c.lines \/ "no_http_server" \in c.lines), "high",
           LineFix({"http_server"}, {"no_http_server"}))}
  \cup Only("https_server" \in c.lines, Required(c, {<<"HTTP-02", "medium", "http_access-class">>}))

SnmpChecks(c) ==
  LET communities == Has(c, {"default_community", "community"})
      v3 == "v3_group" \in c.lines
  IN  Forbidden(c, {<<"SNMP-01", "critical", "default_community">>})
      \cup {Fixable("SNMP-02", Unless(communities, v3), "high",
                    LineFix({"default_community", "community"}, {"v3_group"})),
             Judge("SNMP-04", "manual_review", "medium")}
      \cup Stanza(c, "SNMP-03", "high", v3, "v3_noauth_user", {})

NtpChecks(c) ==
  Required(c, {<<"NTP-01", "medium", "ntp_authenticate">>, <<"NTP-02", "medium", "ntp_key">>,
               <<"NTP-03", "low", "ntp_server">>})
  \cup {Fixable("NTP-04", Verdict("ntp_access-group" \in c.lines), "low",
                LineFix({}, {"ntp_access-group", "orphan_acl"}))}
LoggingChecks(c) ==
  Required(c, {<<"LOG-01", "high", "logging_host">>,        <<"LOG-02", "low", "timestamps">>,
               <<"LOG-03", "medium", "login_on-failure">>,  <<"LOG-04", "low", "login_on-success">>})
BannerChecks(c) == Required(c, {<<"BAN-01", "low", "banner">>})

\* Mutant: naming a resolver is not enough.
DnsChecksUnresolved(c) ==
  IF "domain_lookup" \notin c.lines \/ "no_domain_lookup" \in c.lines
    THEN {Judge("DNS-01", "pass", "info")}
    ELSE {Fixable("DNS-01", "fail", "medium", LineFix({}, {"name-server"}))}
DnsChecks(c) ==
  IF "domain_lookup" \notin c.lines \/ "no_domain_lookup" \in c.lines \/ "name-server" \in c.lines
    THEN {Judge("DNS-01", "pass", "info")}
    ELSE {Fixable("DNS-01", "fail", "medium", LineFix({}, {"name-server"}))}
MppChecks(c) == {Judge("MPP-01", IF "mpp" \in c.lines THEN "pass" ELSE "na", "low")}

\* A service that is off passes as info, one that is on fails as declared.
ExposureChecks(c) ==
  LET services == {<<"EXP-RESTCONF", "medium", "restconf">>, <<"EXP-NETCONF", "medium", "netconf">>,
                   <<"EXP-GNMI", "medium", "gnmi">>,         <<"EXP-IOX", "low", "iox">>,
                   <<"EXP-TFTP", "high", "tftp-server">>,    <<"EXP-FTP", "high", "ftp-server">>,
                   <<"EXP-SCP", "low", "scp_server">>}
  IN  {IF s[3] \in c.lines THEN Fixable(s[1], "fail", s[2], LineFix({s[3]}, {}))
                              ELSE Judge(s[1], "pass", "info") : s \in services}
      \cup {Judge("EXP-GUESTSHELL", IF "guestshell" \in c.lines THEN "manual_review" ELSE "pass", "low")}

\* PWD-02 finds "password 7" anywhere; its commands are for accounts and for the keys of protocols,
\* and leave the passwords of lines and of enable as they are.
PasswordChecks(c) ==
  Required(c, {<<"PWD-01", "medium", "password-encryption">>, <<"PWD-04", "low", "min-length">>})
  \cup {Fixable("PWD-02", Verdict(~Has(c, {"user_type_7", "type_7_key", "line_password_7"})), "high",
                LineFix({"user_type_7", "type_7_key"}, {"named_user"}))}
  \cup {Fixable("PWD-03", Verdict("enable_secret_5" \notin c.lines), "medium", SecretNine)}

-----------------------------------------------------------------------------
(* layer2.py *)
Uplinks(c) == TrunkPorts(c) \cup On(c, "description_uplink")
\* Access ports that are not described as an uplink.
EdgePorts(c) == AccessPorts(c) \ On(c, "description_uplink")
Secured(c)   == {p \in EdgePorts(c) : c.ports[p] \cap PortSecurity # {}}
NotSticky(c) == Secured(c) \ On(c, "sticky")
PortSecurityChecks(c) ==
  LET secured == Secured(c)
  IN  EachPort("L2PS-01", "high", EdgePorts(c), EdgePorts(c) \ secured, {},
               {"port-security", "maximum", "violation_restrict", "sticky"})
      \cup EachPort("L2PS-02", "medium", secured, secured \cap On(c, "maximum_high"),
                    {"maximum_high"}, {"maximum"})
      \cup EachPort("L2PS-03", "low", secured, NotSticky(c), {}, {"sticky"})
      \cup EachPort("L2PS-04", "low", secured, secured \cap On(c, "violation_protect"),
                    {"violation_protect"}, {"violation_restrict"})

StpChecks(c) ==
  {Fixable("STP-01", Verdict(\/ "bpduguard_default" \in c.lines
                             \/ AccessPorts(c) \subseteq On(c, "bpduguard")), "high",
           LineFix({}, {"bpduguard_default"})),
   Fixable("STP-02", Verdict(On(c, "guard_root") # {}), "medium",
           PortFix(Uplinks(c), {}, {"guard_root"})),
   Fixable("STP-03", Verdict("loopguard_default" \in c.lines \/ On(c, "guard_loop") # {}), "medium",
           LineFix({}, {"loopguard_default"})),
   Judge("STP-04", "pass", "info")}
UdldChecks(c) ==
  {Fixable("UDLD-01", Verdict(Somewhere(c, "udld_aggressive")), "low", LineFix({}, {"udld_aggressive"}))}
StormChecks(c) ==
  EachPort("STORM-01", "medium", AccessPorts(c), AccessPorts(c) \ On(c, "storm-control"),
           {}, {"storm-control"})

Rated(c) == On(c, "dhcp_rate_ok") \cup On(c, "dhcp_rate_high")
\* Two ports may be trusted, or a quarter of them.
TrustLimit(c) == LET quarter == Cardinality(DOMAIN c.ports) \div 4
                 IN  IF quarter > 2 THEN quarter ELSE 2
DhcpChecks(c) ==
  LET enabled   == "dhcp_snooping" \in c.lines
      trusted   == On(c, "dhcp_trust")
      access    == IF enabled THEN AccessPorts(c) ELSE {}
  IN  Required(c, {<<"DHCPSNOOP-01", "critical", "dhcp_snooping">>,
                   <<"DHCPSNOOP-02", "medium", "dhcp_snooping_vlan">>})
      \cup EachPort("DHCPSNOOP-03", "medium", access, access \ (trusted \cup Rated(c)),
                    {}, {"dhcp_rate_ok"})
      \cup {Fixable("DHCPSNOOP-04", Unless((AccessPorts(c) \ trusted) \cap On(c, "dhcp_rate_high") # {},
                                           access # {}), "low",
                    PortFix(AccessPorts(c), {"dhcp_rate_high"}, {"dhcp_rate_ok"})),
             Fixable("DHCPSNOOP-05", Verdict(Cardinality(trusted) <= TrustLimit(c)), "low",
                    PortFix(trusted \ Uplinks(c), {"dhcp_trust"}, {}))}

\* A rate above the hard maximum is collected and never reported.
DaiChecks(c) ==
  LET enabled == "arp_inspection_vlan" \in c.lines
      trusts  == On(c, "dhcp_trust")
      disagreeing == (On(c, "dai_trust") \cup trusts) \ (On(c, "dai_trust") \cap trusts)
      unrated == AccessPorts(c) \ (trusts \cup On(c, "arp_rate"))
  IN  Required(c, {<<"DAI-01", "high", "arp_inspection_vlan">>, <<"DAI-03", "low", "arp_validate">>})
      \cup {Fixable("DAI-02", Unless(disagreeing # {}, enabled), "medium",
                    PortFix(disagreeing, {}, {"dhcp_trust", "dai_trust"})),
             Fixable("DAI-04", Unless(enabled /\ unrated # {}, enabled), "low",
                    PortFix(unrated, {}, {"arp_rate"})),
             Fixable("DAI-05", Verdict(Somewhere(c, "device-tracking")), "low",
                    LineFix({}, {"device-tracking"}))}
SourceGuardChecks(c) ==
  LET open == AccessPorts(c) \ On(c, "verify_source")
  IN  {Fixable("IPSG-01", Unless(open # {} /\ "dhcp_snooping" \in c.lines, AccessPorts(c) # {}), "medium",
               PortFix(open, {}, {"verify_source"}))}

TrunkChecks(c) ==
  {Fixable(r[1], Unless(TrunkPorts(c) \ On(c, r[3]) # {}, TrunkPorts(c) # {}), r[2],
           PortFix(TrunkPorts(c), {}, {r[3]})) :
     r \in {<<"TRUNK-01", "medium", "native_vlan">>, <<"TRUNK-02", "medium", "allowed_vlan">>,
            <<"TRUNK-03", "low", "nonegotiate">>}}
  \cup Required(c, {<<"VTP-01", "medium", "vtp_transparent">>})
EtherChannelChecks(c) ==
  LET static == On(c, "channel-group_on")
  IN  {Fixable("ECHAN-01", Verdict(static = {}), "low", PortFix(static, {"channel-group_on"}, {}))}

-----------------------------------------------------------------------------
(* layer3.py *)
UrpfChecks(c) ==
  LET loose == On(c, "urpf_loose")
  IN  {Fixable("URPF-01", Verdict(loose \cup On(c, "urpf_strict") # {}), "medium",
               PortFix(RoutedPorts(c), {}, {"urpf_strict"}))}
      \cup Only(loose # {}, {Judge("URPF-02", "manual_review", "low")})

RoutingChecks(c) ==
  Only("router_ospf" \in c.lines, Required(c, {<<"RTAUTH-OSPF-01", "high", "ospf_authentication">>,
                                               <<"RTAUTH-OSPF-02", "low", "passive-interface_default">>}))
  \* The pattern for EIGRP also matches the authentication lines of RIP and IS-IS.
  \cup Only("router_eigrp" \in c.lines,
            {Fixable("RTAUTH-EIGRP-01", Verdict(\/ Has(c, {"eigrp_authentication", "rip_authentication"})
                                                \/ On(c, "isis_authentication_mode") # {}), "high",
                     LineFix({}, {"eigrp_authentication"}))})
  \cup Only("router_rip" \in c.lines, Required(c, {<<"RTAUTH-RIP-01", "medium", "rip_authentication">>}))
  \cup Only("router_bgp" \in c.lines,
            {Judge("RTAUTH-BGP-04", "manual_review", "low")}
            \cup Stanza(c, "RTAUTH-BGP-01", "high", "bgp_peer" \in c.lines, "bgp_peer_open", {})
            \cup Required(c, {<<"RTAUTH-BGP-02", "medium", "bgp_ttl-security">>,
                              <<"RTAUTH-BGP-03", "medium", "bgp_maximum-prefix">>}))
  \cup Only("router_isis" \in c.lines,
            {Fixable("RTAUTH-ISIS-01", Verdict(On(c, "isis_authentication_mode") # {}), "high",
                     LineFix({}, {"router_isis_authentication"}))})
  \cup Only(~Has(c, {"router_ospf", "router_eigrp", "router_rip", "router_bgp", "router_isis"}),
            {Judge("RTAUTH-00", "na", "info")})

FhrpChecks(c) ==
  LET hsrp == On(c, "hsrp")
      open == hsrp \ (On(c, "hsrp_text") \cup On(c, "hsrp_md5"))
      vrrp == On(c, "vrrp")
  IN  Only(hsrp # {},
           {Fixable("FHRP-HSRP-01", Verdict(open = {}), "high", PortFix(open, {}, {"hsrp_md5"})),
            Fixable("FHRP-HSRP-02", Unless(hsrp \cap On(c, "hsrp_text") # {}, open = {}), "medium",
                    PortFix(hsrp, {"hsrp_text"}, {"hsrp_md5"}))})
      \cup Only(vrrp # {},
           {Fixable("FHRP-VRRP-01", Verdict(vrrp \subseteq On(c, "vrrp_authentication")), "medium",
                    PortFix(vrrp, {}, {"vrrp_authentication"}))})
      \cup Only(hsrp \cup vrrp = {}, {Judge("FHRP-00", "na", "info")})

IcmpChecks(c) ==
  {Fixable(r[1], Unless(RoutedPorts(c) \ On(c, r[3]) # {}, RoutedPorts(c) # {}), r[2],
           PortFix(RoutedPorts(c), {}, {r[3]})) :
     r \in {<<"ICMP-01", "medium", "no_redirects">>, <<"ICMP-02", "medium", "no_proxy-arp">>,
            <<"ICMP-03", "low", "no_unreachables">>}}
  \cup {Judge("ICMP-05", "manual_review", "low")}
  \cup Required(c, {<<"ICMP-04", "medium", "no_source-route">>})

AclChecks(c) ==
  IF ~Has(c, {"acl", "orphan_acl"})
    THEN {Judge("ACL-00", "na", "info")}
    ELSE Forbidden(c, {<<"ACL-01", "low", "orphan_acl">>, <<"ACL-02", "high", "permit_ip_any_any">>,
                       <<"ACL-03", "low", "duplicate_entry">>})
         \cup {Judge("ACL-04", "manual_review", "low"), Judge("ACL-05", "manual_review", "info")}

TrackChecks(c) ==
  IF "track" \notin c.lines
    THEN {Judge("TRACK-00", "na", "info")}
    ELSE Forbidden(c, {<<"TRACK-01", "high", "broken_track">>, <<"TRACK-02", "info", "unused_track">>})

-----------------------------------------------------------------------------
(* copp.py, vpn.py, zbfw.py, pki.py *)
CoppClasses ==
  {<<"COPP-CLASS-ICMP", "medium", "copp_icmp">>, <<"COPP-CLASS-ROUTING", "medium", "copp_routing">>,
   <<"COPP-CLASS-ARP", "medium", "copp_arp">>,   <<"COPP-CLASS-L2CTRL", "low", "copp_l2ctrl">>,
   <<"COPP-CLASS-MGMT", "medium", "copp_mgmt">>, <<"COPP-CLASS-DHCP", "low", "copp_dhcp">>,
   <<"COPP-CLASS-FHRP", "low", "copp_fhrp">>,    <<"COPP-CLASS-MCAST", "low", "copp_mcast">>}
CoppCoverage(c) == Cardinality({r \in CoppClasses : r[3] \in c.lines})
\* The example given for the layer-2 control protocols polices DHCP.
CoppFinding(c, r) ==
  Fixable(r[1], Verdict(r[3] \in c.lines), r[2],
          LineFix({}, {IF r[3] = "copp_l2ctrl" THEN "copp_dhcp" ELSE r[3]}
                    \cup (IF r[3] = "copp_arp" THEN {} ELSE {"acl"})))
CoppChecks(c) ==
  Required(c, {<<"COPP-01", "critical", "copp">>})
  \cup (IF "copp" \in c.lines THEN {CoppFinding(c, r) : r \in CoppClasses}
                             ELSE {Judge("COPP-02", "na", "info")})
CpuRiskChecks(c) ==
  {Judge("CPURISK-01", Verdict("copp" \in c.lines), "critical")}
  \cup Forbidden(c, {<<"CPURISK-02", "medium", "many_applets">>,
                     <<"CPURISK-03", "high", "destructive_applet">>, <<"CPURISK-04", "low", "ip_accounting">>,
                     <<"CPURISK-05", "low", "large_acl">>, <<"CPURISK-06", "medium", "debug">>})

Vpn == {"ikev2_proposal", "ikev2_profile", "keyring", "crypto_map"}
VpnChecks(c) ==
  LET Reviewed(check, defect, some) ==
        Fixable(check, IF defect \in c.lines THEN "fail" ELSE IF some \in c.lines THEN "pass"
                       ELSE "manual_review", "high", LineFix({defect}, {}))
  IN  IF ~Has(c, Vpn)
        THEN {Judge("VPN-00", "na", "info")}
        ELSE {Reviewed("VPN-01", "weak_proposal", "ikev2_proposal"),
              Reviewed("VPN-03", "weak_transform", "transform-set"),
              Judge("VPN-06", IF "crypto_map" \in c.lines THEN "manual_review" ELSE "pass", "low"),
              Judge("VPN-07", "manual_review", "info")}
             \cup Stanza(c, "VPN-02", "medium", "ikev2_profile" \in c.lines, "no_dpd", {})
             \cup Stanza(c, "VPN-04", "medium", "ipsec_profile" \in c.lines, "no_pfs", {})
             \cup Stanza(c, "VPN-05", "high", "keyring" \in c.lines, "reused_psk", {})

ZoneChecks(c) ==
  IF "zone" \notin c.lines
    THEN {Judge("ZBFW-00", "na", "info")}
    ELSE Required(c, {<<"ZBFW-01", "high", "zone-pair">>, <<"ZBFW-02", "high", "inspect_policy">>})
         \cup {Fixable("ZBFW-03", Verdict("inspect_applied" \in c.lines), "high",
                       LineFix({}, {"zone-pair", "inspect_applied"})),
               Fixable("ZBFW-04", Verdict("self_zone-pair" \in c.lines), "medium",
                       LineFix({}, {"zone-pair", "inspect_applied", "self_zone-pair"}))}

NoRevocation(c) == Has(c, {"revocation_none", "revocation_unset"})
PkiChecks(c) ==
  IF "trustpoint" \notin c.lines
    THEN {Judge("PKI-00", "na", "info")}
    ELSE Forbidden(c, {<<"PKI-01", "high", "revocation_none">>, <<"PKI-02", "medium", "revocation_unset">>,
                       <<"PKI-04", "low", "no_enrollment">>,    <<"PKI-05", "medium", "weak_hash">>,
                       <<"PKI-06", "high", "weak_key">>})
         \cup {Judge("PKI-03", IF "self-signed" \in c.lines THEN "manual_review" ELSE "pass", "medium")}
         \cup {Judge(k, "manual_review", "info") : k \in {"PKI-07", "PKI-08", "PKI-09", "PKI-10", "PKI-11"}}

-----------------------------------------------------------------------------
(* physical.py, misc.py *)
PhysicalChecks(c) ==
  Required(c, {<<"PHYS-01", "medium", "no_password-recovery">>})
  \cup Only("console" \in c.lines,
            {Fixable("PHYS-02", Verdict(~Has(c, {"console_endless", "console_unbounded"})),
                     IF "console_endless" \in c.lines THEN "high" ELSE "medium",
                     LineFix({"console_endless", "console_unbounded"}, {}))})
  \cup Only("aux" \in c.lines,
            {Judge("PHYS-03", IF "aux_closed" \in c.lines THEN "pass" ELSE "manual_review", "medium")})
  \cup {Judge("PHYS-04", "manual_review", "info"), Judge("PHYS-05", "manual_review", "info")}

\* config_register_break_enabled: bit 8, or boot field 0.
BreakEnabled(register) == register # 0 /\ ((register \div 256) % 2 = 1 \/ register % 16 = 0)
BootChecks(c) ==
  {Fixable("BOOT-01", Verdict(Has(c, {"boot_system", "boot_usb"})), "medium",
           LineFix({}, {"boot_system"}))}
  \cup Only({"boot_system", "boot_usb"} \subseteq c.lines, {Judge("BOOT-02", "manual_review", "low")})
  \cup {Fixable("BOOT-03", Verdict("boot_usb" \notin c.lines), "medium",
                LineFix({"boot_usb"}, {"boot_system"}))}
  \cup {IF c.register = 0 THEN Judge("BOOT-04", "manual_review", "info")
                          ELSE Fixable("BOOT-04", Verdict(~BreakEnabled(c.register)), "medium",
                                  LineFix({}, {"config-register_0x2102"})),
        Judge("BOOT-08", "manual_review", "medium")}
  \cup {Judge(k, "manual_review", "info") : k \in {"BOOT-05", "BOOT-06", "BOOT-07", "BOOT-09"}}

ServiceChecks(c) ==
  LET Off(statement) == IF statement \in c.lines THEN "pass" ELSE "manual_review"
  IN  Forbidden(c, {<<"SVC-01", "medium", "tcp-small-servers">>, <<"SVC-02", "medium", "udp-small-servers">>,
                    <<"SVC-03", "low", "bootp_server">>,         <<"SVC-04", "low", "finger">>,
                    <<"SVC-05", "low", "identd">>,               <<"SVC-06", "medium", "service_config">>,
                    <<"SVC-07", "low", "pad">>})
      \cup {Fixable("SVC-08", IF "vstack" \in c.lines /\ "no_vstack" \notin c.lines THEN "fail"
                              ELSE Off("no_vstack"), "critical", LineFix({}, {"no_vstack"})),
            Judge("SVC-09", Off("no_cdp_run"), "low"), Judge("SVC-10", Off("no_lldp_run"), "low")}

MiscChecks(c) ==
  Required(c, {<<"MISC-01", "low", "errdisable_recovery">>, <<"MISC-05", "low", "management_vrf">>})
  \cup {IF "multicast-routing" \in c.lines THEN Judge("MISC-02", "manual_review", "low")
                                           ELSE Judge("MISC-02", "pass", "info"),
        Judge("MISC-03", IF "no_scripting_tcl" \in c.lines THEN "pass" ELSE "manual_review", "low"),
        Judge("MISC-04", IF On(c, "helper-address") # {} THEN "manual_review" ELSE "na", "low"),
        Judge("MISC-06", "manual_review", "info"), Judge("MISC-07", "na", "info")}
VersionChecks(c) ==
  {Judge("VER-01", IF "version" \in c.lines THEN "pass" ELSE "manual_review", "info"),
   Judge("VER-02", "pass", "info")}

\* run_all_device_checks: every domain of the registry.
AllDeviceChecks(c) ==
  UNION {AaaChecks(c), UserChecks(c), SshChecks(c), HttpChecks(c), SnmpChecks(c), NtpChecks(c),
         LoggingChecks(c), BannerChecks(c), DnsChecks(c), MppChecks(c), ExposureChecks(c),
         PasswordChecks(c), PortSecurityChecks(c), StpChecks(c), UdldChecks(c), StormChecks(c),
         DhcpChecks(c), DaiChecks(c), SourceGuardChecks(c), TrunkChecks(c), EtherChannelChecks(c),
         UrpfChecks(c), RoutingChecks(c), FhrpChecks(c), IcmpChecks(c), AclChecks(c), TrackChecks(c),
         CoppChecks(c), CpuRiskChecks(c), VpnChecks(c), ZoneChecks(c), PkiChecks(c),
         PhysicalChecks(c), BootChecks(c), ServiceChecks(c), MiscChecks(c), VersionChecks(c)}
=============================================================================
