----------------------------- MODULE MCInterfaces -----------------------------
(***************************************************************************)
(* The interface checks of one audit, on a switch with an access port      *)
(* that is configured as the rules ask and a trunk that is not.            *)
(***************************************************************************)
EXTENDS SecurityAssessment, TLC

MCConfigurations ==
  {[lines    |-> {"dhcp_snooping", "http_server"},
    ports    |-> ("gi1" :> {"switchport_mode_access", "storm-control", "port-security"})
                 @@ ("gi2" :> {"switchport_mode_trunk"}),
    register |-> 8450]}
=============================================================================
