--------------------------- MODULE MCAdministration ---------------------------
(***************************************************************************)
(* The parts of the platform that share no table: applying a               *)
(* configuration, editing policies, repairing a device by its findings,    *)
(* reading the audit reports, and comparing archived configurations.  They *)
(* never meet, so one behaviour moves one of them, its topic, and the      *)
(* state space is their sum and not their product.  The other parts keep   *)
(* their initial value, or None.                                           *)
(***************************************************************************)
EXTENDS ConfigApply, PolicyBook, SecurityAssessment, AuditReports, ConfigCompare, TLC

CONSTANTS
  p1, p2, p3, r1, r2, c1, c2, g1, g2, g3, dg1, d1, d2, d3, u1, u2, u3, w1, a1, a2,
  k1, k2, k3

VARIABLE topic

-----------------------------------------------------------------------------
(* The policy book *)

MCLocalUser ==
  (u1 :> [group |-> g1, enabled |-> TRUE, auth |-> "local"])
  @@ (u2 :> [group |-> None, enabled |-> TRUE, auth |-> "local"])
  @@ (u3 :> [group |-> g1, enabled |-> FALSE, auth |-> "local"])
MCReported == w1 :> <<g3, g1>>
MCGroupCn == (g1 :> None) @@ (g2 :> None) @@ (g3 :> None)
MCDevice ==
  (d1 :> [group |-> dg1, enabled |-> TRUE, keys |-> {"tacacs", "radius"}])
  @@ (d2 :> [group |-> None, enabled |-> TRUE, keys |-> {"tacacs"}])
  @@ (d3 :> [group |-> dg1, enabled |-> FALSE, keys |-> {"tacacs"}])
MCHits == [show |-> {"show run"}, run |-> {"show run"}, conf |-> {"conf t"}, slash |-> {}]

Rule(action, pattern) == [action |-> action, pattern |-> pattern]
SetOf(enabled, rules) == [enabled |-> enabled, rules |-> rules]
Cond(type, op, ref) == [type |-> type, op |-> op, ref |-> ref]
Node(op, parent, leaves) == [op |-> op, parent |-> parent, leaves |-> leaves]

OffGroup == <<Node("AND", 0, {Cond("user_group", "equal", g1), Cond("device_group", "not_equal", dg1)})>>
Nested   == <<Node("OR", 0, {Cond("device", "equal", d1)}),
              Node("AND", 1, {Cond("source_ip", "is_in_cidr", {a1}), Cond("user_group", "not_equal", g1)})>>
Bound    == <<Node("AND", 0, {Cond("user_group", "equal", g2)})>>
Negated  == <<Node("NOT", 0, {Cond("device", "equal", d1)})>>
OneUser  == <<Node("OR", 0, {Cond("user", "equal", u1)})>>

Body(enabled, group, device, dgroup, tree, action, cs) ==
  [enabled |-> enabled, group |-> group, device |-> device, dgroup |-> dgroup, tree |-> tree,
   priv |-> IF action = "deny" THEN 1 ELSE 15, action |-> action, sets |-> cs, approval |-> None]
Manual(body, set) == [body EXCEPT !.approval = [set |-> set]]
Anyone == Body(TRUE, None, None, None, None, "deny", <<c1>>)
Staff  == Manual(Body(TRUE, g1, None, dg1, None, "permit", <<c1, c2>>), c2)
Away   == Manual(Body(TRUE, None, None, None, OffGroup, "permit", <<c2>>), None)
Mixed  == Body(TRUE, None, None, None, Nested, "deny", <<c1>>)
Guests == Body(TRUE, g3, None, None, None, "permit", <<>>)
MCBodies == {Anyone, Staff, Away, Body(TRUE, None, None, None, Bound, "permit", <<>>),
             Body(FALSE, None, d2, None, None, "permit", <<>>)}
MCTrees == {Nested, Negated, OneUser}

Radius(group, dgroup, service, action) ==
  [enabled |-> TRUE, group |-> group, device |-> None, dgroup |-> dgroup, service |-> service, action |-> action]
MCRadiusBodies == {Radius(g1, dg1, None, "permit"), Radius(None, None, "Login-User", "permit")}
MCGrantForms == {[group |-> g1, device |-> None, dgroup |-> dg1], [group |-> g2, device |-> d2, dgroup |-> None]}
Shows == SetOf(TRUE, <<Rule("permit", "show"), Rule("deny", "conf")>>)
Runs  == SetOf(TRUE, <<Rule("deny", "run")>>)
MCSetBodies == {SetOf(FALSE, <<Rule("permit", "show")>>), SetOf(TRUE, <<Rule("permit", "slash")>>)}

At(body, priority) ==
  [enabled |-> body.enabled, priority |-> priority, group |-> body.group, device |-> body.device,
   dgroup |-> body.dgroup, tree |-> body.tree, priv |-> body.priv, action |-> body.action,
   sets |-> body.sets, approval |-> body.approval]
Born(body, priority) ==
  [enabled |-> TRUE, group |-> body.group, device |-> None, dgroup |-> body.dgroup,
   service |-> body.service, action |-> body.action, priority |-> priority, born |-> 0]
\* Every policy was created at the top of the list.
Created(row) ==
  IF row = None THEN <<>>
  ELSE <<[enabled |-> row.enabled, priority |-> 0, group |-> row.group, device |-> row.device,
          dgroup |-> row.dgroup, priv |-> row.priv, action |-> row.action, sets |-> row.sets,
          blocked |-> row.tree # None]>>
BookOf(x, y, z, gs) ==
  [policies |-> (p1 :> x) @@ (p2 :> y) @@ (p3 :> z), radius |-> (r1 :> None) @@ (r2 :> None),
   versions |-> (p1 :> Created(x)) @@ (p2 :> Created(y)) @@ (p3 :> Created(z)),
   grants |-> gs, sets |-> (c1 :> Shows) @@ (c2 :> Runs)]

MCInitialBooks ==
  {BookOf(At(Staff, 0), At(Anyone, 2), None, <<>>),
   BookOf(At(Mixed, 1), At(Away, 0), At(Guests, 2), <<>>)}

-----------------------------------------------------------------------------
(* Two devices with much to repair, an access switch and a router, and a switch whose uplinks *)
(* alone are more than may be trusted.                                                        *)

Neglected ==
  [lines |-> {"vty", "vty_telnet", "vty_open", "vty_endless", "http_server", "https_server",
              "default_community", "user_type_7", "generic_user", "enable_password",
              "weak_server_key", "legacy_server_key", "domain_lookup", "iox", "tftp-server", "type_7_key", "debug",
              "console", "console_endless", "finger", "vstack", "ssh_version_2"},
   ports |-> ("gi1" :> {"switchport_mode_access", "maximum_high", "violation_protect", "dhcp_trust"})
             @@ ("gi2" :> {"switchport_mode_trunk", "channel-group_on", "description_uplink"})
             @@ ("gi3" :> {"no_switchport", "ip_address", "hsrp"}),
   register |-> 256]
Edge ==
  [lines |-> {"aaa_new-model", "login_group", "weak_server_key", "type_7_key", "enable_secret_5", "v3_group", "v3_noauth_user",
              "router_ospf", "router_eigrp", "router_rip", "router_bgp", "bgp_peer", "bgp_peer_open",
              "router_isis", "acl", "permit_ip_any_any", "duplicate_entry", "track", "broken_track",
              "unused_track", "copp", "copp_icmp", "ikev2_proposal", "weak_proposal", "ikev2_profile",
              "no_dpd", "transform-set", "weak_transform", "ipsec_profile", "no_pfs", "keyring",
              "reused_psk", "zone", "trustpoint", "revocation_none", "no_enrollment", "weak_hash",
              "weak_key", "boot_usb", "dhcp_snooping", "arp_inspection_vlan"},
   ports |-> ("gi1" :> {"no_switchport", "ip_address", "hsrp", "hsrp_text"})
             @@ ("gi2" :> {"no_switchport", "ip_address", "vrrp"})
             @@ ("gi3" :> {"switchport_mode_access", "port-security", "dhcp_rate_high", "dai_trust"})
             @@ ("gi4" :> {"access_vlan"}),
   register |-> 0]
Uplinked ==
  [lines |-> {"dhcp_snooping", "arp_inspection_vlan", "aaa_new-model", "line_password_7"},
   ports |-> [p \in {"gi1", "gi2", "gi3"} |-> {"switchport_mode_trunk", "dhcp_trust"}]
             @@ ("gi4" :> {"switchport_mode_access", "dhcp_trust"}),
   register |-> 0]
MCConfigurations == {Neglected, Edge, Uplinked}

-----------------------------------------------------------------------------
(* The audit reports: two controls, one check of the ports that no framework maps. *)

MCSeverity == (k1 :> "high") @@ (k2 :> "critical") @@ (k3 :> "medium")
MCControls == (k1 :> {"AC-2"}) @@ (k2 :> {"AC-2", "AC-3"}) @@ (k3 :> {})
Seen(x, y, z) == (k1 :> x) @@ (k2 :> y) @@ (k3 :> z)
Result(seen, complete) ==
  [seen |-> seen, scope |-> {port \in {"gi1"} : seen[k3] # <<>>}, complete |-> complete]
Good == Result(Seen(<<"pass">>, <<"pass">>, <<"fail">>), TRUE)
Poor == Result(Seen(<<"fail">>, <<"pass">>, <<"warn">>), TRUE)
MCObservations ==
  {Good, Poor,
   Result(Seen(<<"fail">>, <<"pass">>, <<"fail">>), TRUE),
   Result(Seen(<<"manual_review">>, <<"fail">>, <<"fail">>), TRUE),
   Result(Seen(<<"fail">>, <<"na">>, <<>>), TRUE),
   Result(Seen(<<"pass">>, <<"pass">>, <<"pass", "fail">>), FALSE)}
\* A run of an earlier release, without an assessment row, and runs of this one.
Earlier(device) ==
  [device |-> device, recorded |-> None, status |-> "completed", engine |-> 0, manifest |-> None,
   result |-> Result(Seen(<<"fail">>, <<"pass">>, <<>>), FALSE), score |-> 632]
Assessed(device, result, score) ==
  [device |-> device, recorded |-> device, status |-> "completed", engine |-> 1, manifest |-> 1,
   result |-> result, score |-> score]
MCInitialRuns ==
  {<<Earlier(d1), Assessed(d2, Poor, 614), Assessed(d1, Good, 864)>>,
   <<Assessed(d1, Good, 864), Assessed(d2, Poor, 614)>>}

-----------------------------------------------------------------------------
(* The comparison: configurations of two areas, for four devices or the odd one out of three. *)

In(aaa, ntp) == [aaa |-> aaa, ntp |-> ntp]
MCLines ==
  [gold |-> In("x", "y"), moved |-> In("x", "z"), loose |-> In("w", "z"), bare |-> In(None, None),
   blank |-> In(None, None)]
Latest4(x, y, z, w) == <<x, y, z, w>>
MCFleets ==
  {Latest4("gold", "gold", "gold", "moved"), Latest4("gold", "moved", "loose", "gold"),
   Latest4("gold", "gold", "loose", "loose"), Latest4("gold", "loose", "bare", "moved"),
   Latest4("gold", None, "blank", "gold"), Latest4("bare", "bare", "gold", "bare")}

-----------------------------------------------------------------------------
Idle ==
  /\ file = Factory /\ running = Factory /\ version = <<>> /\ backup = <<>> /\ baseline = NoRow
  /\ gate = None /\ pc = [r \in Requests |-> "idle"] /\ request = [r \in Requests |-> NoLocals]
  /\ alone = [r \in Requests |-> TRUE] /\ calm = TRUE /\ causes = {}
\* Nothing but a grant that does not compile: there are no rules to walk.
NoBook    == /\ policies = <<>> /\ radius = <<>> /\ sets = <<>> /\ versions = <<>>
             /\ grants = <<[group |-> g2, device |-> d2, dgroup |-> None]>>
             /\ answer = [op |-> "none", on |-> None, result |-> "ok"] /\ edits = 0
NoConfig  == config = None /\ fixed = <<>>
NoReports == devices = {} /\ runs = <<>> /\ revision = 0
NoFleet   == fleet = None /\ selection = <<>>

InitTopic ==
  \/ topic = "apply" /\ Init /\ file # None /\ NoBook /\ NoConfig /\ NoReports /\ NoFleet
  \/ topic = "first apply" /\ Init /\ file = None /\ NoBook /\ NoConfig /\ NoReports /\ NoFleet
  \/ topic = "policies" /\ Idle /\ InitBook /\ NoConfig /\ NoReports /\ NoFleet
  \/ topic = "fixes" /\ Idle /\ NoBook /\ InitFixes /\ NoReports /\ NoFleet
  \/ topic = "reports" /\ Idle /\ NoBook /\ NoConfig /\ InitReports /\ NoFleet
  \/ topic = "compare" /\ Idle /\ NoBook /\ NoConfig /\ NoReports /\ InitCompare

\* Where no file was installed one request is made.
Applying == {"apply", "first apply"}
Alone == topic = "first apply" => \E r \in Requests : pc'[r] = "idle"
\* Editing, repairing, auditing and selecting go on until their bounds.
Rest == topic \notin Applying /\ UNCHANGED <<vars, bookVars, fixVars, reportVars, compareVars>>
NextTopic ==
  /\ UNCHANGED topic
  /\ \/ topic \in Applying /\ Next /\ Alone /\ UNCHANGED <<bookVars, fixVars, reportVars, compareVars>>
     \/ topic = "policies" /\ EditBook /\ UNCHANGED <<vars, fixVars, reportVars, compareVars>>
     \/ topic = "fixes" /\ ApplyFix /\ UNCHANGED <<vars, bookVars, reportVars, compareVars>>
     \/ topic = "reports" /\ NextReports /\ UNCHANGED <<vars, bookVars, fixVars, compareVars>>
     \/ topic = "compare" /\ SelectDevice /\ UNCHANGED <<vars, bookVars, fixVars, reportVars>>
     \/ Rest
SpecTopics ==
  InitTopic /\ [][NextTopic]_<<vars, topic, bookVars, fixVars, reportVars, compareVars>>

\* The policies alone.
SpecPolicies ==
  /\ topic = "policies" /\ Idle /\ InitBook /\ NoConfig /\ NoReports /\ NoFleet
  /\ [][NextTopic]_<<vars, topic, bookVars, fixVars, reportVars, compareVars>>

Symmetry == Permutations(Requests)
=============================================================================
