---------------------------- MODULE MCHostEvents ------------------------------
(***************************************************************************)
(* A small instance of HostEvents: bmcctld's two records of a shutdown, a  *)
(* hash that has no device_power_state yet, and one that maps to nothing.  *)
(***************************************************************************)
EXTENDS HostEvents

MCHostRecords == {<<"POWERING_OFF", "ONLINE">>, <<"POWERED_OFF", "OFFLINE">>,
                  <<"", "ONLINE">>, <<"BOOTING", "UNKNOWN">>}
=============================================================================
