---------------------------- MODULE MCStateManager ----------------------------
(***************************************************************************)
(* A small instance of StateManager: a host transition and an unknown      *)
(* value, and host records that map to a transitional state, to Off, and   *)
(* to nothing.                                                             *)
(***************************************************************************)
EXTENDS StateManager

MCSetterWrites ==
  {<<"RequestedHostTransition", "Host.On">>,
   <<"RequestedHostTransition", "Host.Quiesce">>}

MCHostRecords ==
  {<<"POWERING_OFF", "ONLINE">>, <<"POWERED_ON", "OFFLINE">>, <<"", "N/A">>}
=============================================================================
