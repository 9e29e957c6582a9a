---------------------------- MODULE MCLeakSensors ----------------------------
(***************************************************************************)
(* A small instance of LeakSensors.  thermalctld reports a minor leak,    *)
(* none, a sensor that cannot be read, a broken sensor, and a leak by the  *)
(* legacy field only, which the code takes for a critical one.             *)
(***************************************************************************)
EXTENDS LeakSensors

Minor == [leaking |-> "Yes", leak_severity |-> "MINOR"]
Dry == [leaking |-> "No"]
Unreadable == [leaking |-> "N/A"]
Fault == [leak_sensor_status |-> "Fault"]
Legacy == [leak_status |-> "Yes"]

MCUpdate == {Minor, Dry, Unreadable, Fault, Legacy}
=============================================================================
