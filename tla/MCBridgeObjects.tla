--------------------------- MODULE MCBridgeObjects ---------------------------
(***************************************************************************)
(* A small instance of BridgeObjects and LeakRoutes: one firmware version, *)
(* one leak sensor, and roots that are objects, ancestors, parts of names, *)
(* with slashes at the end.                                                *)
(***************************************************************************)
EXTENDS LeakRoutes

MCRoot ==
  {<<>>, <<"/">>, Chassis, <<"/", "system">>, <<"/", "system", "/">>,
   <<"/", "system", "/", "system">>, <<"/", "state">>, HostState,
   <<"/", "state", "/", "chassis">>, UserObject, <<"/", "leak", "/", "/">>,
   ChassisState, <<"/", "unknown">>}
=============================================================================
