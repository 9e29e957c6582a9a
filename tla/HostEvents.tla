------------------------------ MODULE HostEvents ------------------------------
(***************************************************************************)
(* The far end of the host state: bmcweb's monitor                         *)
(* (rmc-events/src/host_state_monitor.cpp) hears the PropertiesChanged     *)
(* signals of CurrentHostState and sends power events to the Redfish       *)
(* subscribers.  PowerControl is the near end.                             *)
(*                                                                         *)
(* D-Bus keeps the signals of one sender in order, and keeps those already *)
(* sent when the bridge ends; bmcweb may be down, and hears nothing then.  *)
(*                                                                         *)
(* A definition whose name ends in _ is a faulty variant of the one after  *)
(* it: the property that notices the fault is named with it.               *)
(***************************************************************************)
EXTENDS PowerControl

VARIABLES
  signals,     (* the values of CurrentHostState on their way to bmcweb      *)
  bmcwebUp,    (* bmcweb runs, and its match is installed                    *)
  lastEvent,   (* the last event the subscribers got                         *)
  unheard      (* history: CurrentHostState became what it is without bmcweb *)
               (* hearing of it                                              *)

eventVars == <<signals, bmcwebUp, lastEvent, unheard>>
hostEventVars == <<allVars, eventVars>>

(* MessageId in the ResourceEvent registry, or NoEvent. *)
NoEvent == "noEvent"

mapSettledToEvent_(state) ==   (* SubscribersKnow *)
  CASE state = "Running" -> "ResourcePoweredOn"
    [] state = "Off" -> "ResourcePoweredOff"
    [] OTHER -> NoEvent

mapHostStateToEvent(state) ==
  CASE state = "Running" -> "ResourcePoweredOn"
    [] state = "Off" -> "ResourcePoweredOff"
    [] state = "TransitioningToRunning" -> "ResourcePoweringOn"
    [] state = "TransitioningToOff" -> "ResourcePoweringOff"
    [] OTHER -> NoEvent

EventsInit ==
  /\ SysInit
  /\ signals = <<>>
  /\ bmcwebUp = TRUE
  /\ lastEvent = NoEvent
  /\ unheard = TRUE

-----------------------------------------------------------------------------
(***************************************************************************)
(* The signal of updateHostState(), in the step that calls it.  A bridge   *)
(* that starts creates its objects with the value it read: an object that  *)
(* appears emits no PropertiesChanged.                                     *)
(***************************************************************************)
Signals ==
  LET changed == currentHostState' # currentHostState
      heard == changed /\ boot' = boot /\ bmcwebUp
  IN /\ signals' = IF heard THEN Append(signals, currentHostState') ELSE signals
     /\ unheard' = IF changed THEN ~heard ELSE unheard
     /\ UNCHANGED <<bmcwebUp, lastEvent>>

onHostStatePropertiesChanged ==
  /\ signals # <<>>
  /\ signals' = Tail(signals)
  /\ LET event == mapHostStateToEvent(Head(signals))
     IN lastEvent' = IF event = NoEvent THEN lastEvent ELSE event
  /\ UNCHANGED <<allVars, bmcwebUp, unheard>>

BmcwebStops ==
  /\ bmcwebUp
  /\ bmcwebUp' = FALSE
  /\ signals' = <<>>
  /\ unheard' = (unheard \/ signals # <<>>)
  /\ UNCHANGED <<allVars, lastEvent>>

(* DbusHostStateMonitor(): it installs the match and reads nothing. *)
BmcwebStarts ==
  /\ ~bmcwebUp
  /\ bmcwebUp' = TRUE
  /\ UNCHANGED <<allVars, signals, lastEvent, unheard>>

EventsNext ==
  \/ SysNext /\ Signals
  \/ onHostStatePropertiesChanged
  \/ BmcwebStops
  \/ BmcwebStarts

(* bmcweb's event loop runs; nobody owes it a restart. *)
EventsSpec == EventsInit /\ [][EventsNext]_hostEventVars
EventsFairSpec ==
  /\ EventsSpec
  /\ WF_hostEventVars((Subscribe \/ Run) /\ Signals)
  /\ WF_hostEventVars(Deliver /\ Signals)
  /\ WF_hostEventVars(IoStep /\ RunPosted /\ Signals)
  /\ WF_hostEventVars(onHostStatePropertiesChanged)

-----------------------------------------------------------------------------
(***************************************************************************)
(* Properties                                                              *)
(***************************************************************************)

EventsTypeOK ==
  /\ SysTypeOK
  /\ signals \in Seq(HostState)
  /\ bmcwebUp \in BOOLEAN /\ unheard \in BOOLEAN
  /\ lastEvent \in {NoEvent} \cup {mapHostStateToEvent(s) : s \in HostState}

(***************************************************************************)
(* End to end: with nothing under way, CurrentHostState and the last power *)
(* event tell what bmcctld last wrote to HOST_STATE, whatever was written, *)
(* read late or skipped in between.  What they can miss is a write nobody  *)
(* announced to the bridge or one without device_power_state, which the    *)
(* bridge passes over, and the event also a change while the bridge or     *)
(* bmcweb was restarting.  A bridge that started without STATE_DB, or has  *)
(* lost a connection to it, owes nothing until it is started again.        *)
(***************************************************************************)
Told ==
  LET mapped == mapHostState(hostRecord[1], hostRecord[2])
  IN mapped # NoMapping => lastEvent = mapHostStateToEvent(mapped)

SubscribersKnow ==
  listening /\ rereading /\ ~missed /\ ~HostUnderWay /\ hostRecord[1] # NoField =>
    Mirrors /\ (~unheard /\ signals = <<>> => Told)

(* And it gets there: an announced change reaches CurrentHostState, and from
   there the subscribers, unless a connection of the bridge to STATE_DB is lost. *)
AnnouncedIsTold ==
  InStream(stream, HostChanged) ~>
    \/ Mirrors /\ (Told \/ unheard \/ ~bmcwebUp)
    \/ ~listening \/ ~rereading
    \/ missed
    \/ hostRecord[1] = NoField
=============================================================================
