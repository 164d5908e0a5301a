---------------------------- MODULE MCMonitoring ----------------------------
(* Values for model checking Monitoring: two cores. *)
EXTENDS Monitoring

MCPools == {0, 1}
MCItemTypes == {"RESOURCE_POOL", "PAIR"}
=============================================================================
