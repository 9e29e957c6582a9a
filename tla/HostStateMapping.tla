-------------------------- MODULE HostStateMapping --------------------------
(***************************************************************************)
(* The vocabulary shared by bmcctld (STATE_DB) and bmcweb (D-Bus), and the *)
(* translation tables between the two.  D-Bus enumeration values are named *)
(* by their last component: "Host.On" stands for                           *)
(* xyz.openbmc_project.State.Host.Transition.On.                           *)
(***************************************************************************)

(* xyz.openbmc_project.State.Host.HostState, as far as the bridge uses it. *)
HostState == {"Off", "Running", "TransitioningToRunning", "TransitioningToOff"}

(* xyz.openbmc_project.State.Chassis.PowerState. *)
ChassisPowerState == {"On", "Off", "TransitioningToOn", "TransitioningToOff"}

(* The optional<> of the code is empty. *)
NoMapping == "nullopt"

-----------------------------------------------------------------------------
(* HOST_STATE|switch-host                                                  *)

(* The device_power_state values the table has a rule for. *)
TransitionalPowerState ==
  {"POWERING_ON", "POWERING_OFF", "GRACEFUL_SHUTTING_DOWN", "POWER_CYCLING"}
StablePowerState ==
  {"POWERED_ON", "POWERED_OFF", "GRACEFUL_SHUTDOWN", "POWER_CYCLE"}

(* The HostState column of DEVICE_POWER_STATE_RULES. *)
RuleHostState(devicePowerState) ==
  CASE devicePowerState \in {"POWERING_ON", "POWER_CYCLING"} -> "TransitioningToRunning"
    [] devicePowerState \in {"POWERING_OFF", "GRACEFUL_SHUTTING_DOWN"} -> "TransitioningToOff"
    [] devicePowerState \in {"POWERED_ON", "POWER_CYCLE"} -> "Running"
    [] OTHER -> "Off"

hostStateFromDeviceStatus(deviceStatus) ==
  CASE deviceStatus = "ONLINE" -> "Running"
    [] deviceStatus = "OFFLINE" -> "Off"
    [] OTHER -> NoMapping

(***************************************************************************)
(* A transitional power state decides by itself; otherwise device_status   *)
(* decides if it is ONLINE or OFFLINE, and a stable power state is only    *)
(* the fallback.                                                           *)
(***************************************************************************)
mapHostState(devicePowerState, deviceStatus) ==
  LET fromStatus == hostStateFromDeviceStatus(deviceStatus)
  IN CASE devicePowerState \in TransitionalPowerState -> RuleHostState(devicePowerState)
       [] devicePowerState \in StablePowerState /\ fromStatus = NoMapping ->
            RuleHostState(devicePowerState)
       [] OTHER -> fromStatus

hostStateToChassisPowerState(hostState) ==
  CASE hostState = "Running" -> "On"
    [] hostState = "TransitioningToRunning" -> "TransitioningToOn"
    [] hostState = "TransitioningToOff" -> "TransitioningToOff"
    [] OTHER -> "Off"

-----------------------------------------------------------------------------
(* RACK_MANAGER_COMMAND|<id>                                               *)

Command == {"POWER_ON", "POWER_OFF", "GRACEFUL_SHUT", "POWER_CYCLE"}
CommandStatus == {"PENDING", "IN_PROGRESS", "DONE", "FAILED"}

(* TRANSITION_RULES: the transitions a D-Bus client may request. *)
SupportedTransition ==
  {"Host.On", "Host.Off", "Host.Reboot", "Host.ForceWarmReboot",
   "Host.PowerCycle", "Chassis.On", "Chassis.Off"}

transitionToCommand(transition) ==
  CASE transition \in {"Host.On", "Chassis.On"} -> "POWER_ON"
    [] transition = "Chassis.Off" -> "POWER_OFF"
    [] transition = "Host.Off" -> "GRACEFUL_SHUT"
    [] transition \in {"Host.Reboot", "Host.ForceWarmReboot", "Host.PowerCycle"} -> "POWER_CYCLE"
    [] OTHER -> NoMapping

isTerminalCommandStatus(status) == status \in {"DONE", "FAILED"}
=============================================================================
