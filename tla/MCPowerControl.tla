---------------------------- MODULE MCPowerControl ----------------------------
(***************************************************************************)
(* Small instances of PowerControl: a request for a shutdown, and bmcctld's *)
(* two records of one.                                                     *)
(***************************************************************************)
EXTENDS PowerControl

MCSetterWrites == {<<"RequestedHostTransition", "Host.Off">>}
MCHostRecords == {<<"POWERING_OFF", "ONLINE">>, <<"POWERED_OFF", "OFFLINE">>}
=============================================================================
