----------------------------- MODULE LeakSensors -----------------------------
(***************************************************************************)
(* A leak sensor's way from STATE_DB to a Redfish event.  thermalctld      *)
(* writes LIQUID_COOLING_INFO|<name>; sonic-dbus-bridge reads the records  *)
(* once at startup (RedisAdapter::getLeakSensors), exports an object for   *)
(* each (DBusExporter), subscribes to each, and re-reads a record when it  *)
(* is notified (UpdateEngine::onRedisFieldChange, on the subscriber        *)
(* thread); rmc-events in bmcweb turns PropertiesChanged of DetectorState  *)
(* into events (leak_detector_monitor.cpp).                                *)
(*                                                                         *)
(* A record is a function from the fields that are set to their values; a  *)
(* record without fields does not exist.                                   *)
(*                                                                         *)
(* A definition whose name ends in _ is a faulty variant of the one after  *)
(* it: the property that notices the fault is named with it.               *)
(***************************************************************************)
EXTENDS Naturals, Sequences, FiniteSets

CONSTANTS
  Sensor,         (* names of leak sensors                                   *)
  Unexportable,   (* those that cannot be part of a D-Bus object path        *)
  Update,         (* what thermalctld may HSET: functions on some fields     *)
  MaxWrites       (* bound: writes by thermalctld                            *)

Field == {"leaking", "leak_status", "leak_sensor_status", "leak_severity"}
NoRecord == [f \in {} |-> "unset"]

ASSUME LeakAssumption ==
  /\ Unexportable \subseteq Sensor
  /\ \A u \in Update : DOMAIN u \subseteq Field /\ DOMAIN u # {}
  /\ MaxWrites \in Nat

VARIABLES
  liquid,       (* LIQUID_COOLING_INFO: sensor -> record                     *)
  phase,        (* BridgeApp::initialize(): "build", "subscribe", "running"  *)
  discovered,   (* currentModel_.leakSensors                                 *)
  exported,     (* the D-Bus properties of the objects that exist            *)
  subscribed,   (* the sensors whose channel is subscribed                   *)
  channel,      (* notifications on their way to the subscriber              *)
  fanout,       (* the subscriber's loop over the fields of a record         *)
  subscriber,   (* "up", or "ended" after an error on either connection      *)
  adapter,      (* stateDbContext_ of RedisAdapter: "up" or "broken"         *)
  cachedLeakStates,   (* UpdateEngine::cachedLeakStates_                     *)
  signals,      (* PropertiesChanged on their way to bmcweb                  *)
  lastEvent,    (* the last event sent for each sensor                       *)
  initially,    (* history: DetectorState when the object was created        *)
  lost,         (* history: sensors whose last write is not announced        *)
  writes        (* bound: writes by thermalctld so far                       *)

redisVars == <<liquid, lost, writes>>
startVars == <<phase, discovered, subscribed, initially>>
linkVars == <<subscriber, adapter>>
eventVars == <<lastEvent>>
vars == <<redisVars, startVars, linkVars, eventVars, exported, channel, fanout,
          cachedLeakStates, signals>>

DetectorState == {"OK", "Warning", "Critical", "Unavailable"}
Exported == [state : DetectorState, functional : BOOLEAN]
Idle == [sensor |-> "none", left |-> 0]
NoEvent == "none"

(* parseLeakSensorFields() with the defaults of LeakSensorInfo, and the values
   derived from it. *)
Leaking(record) ==
  IF "leaking" \in DOMAIN record THEN record["leaking"]
  ELSE IF "leak_status" \in DOMAIN record THEN record["leak_status"]
  ELSE "N/A"

FieldOr(record, field, default) ==
  IF field \in DOMAIN record THEN record[field] ELSE default

detectorState(record) ==
  CASE Leaking(record) = "No" -> "OK"
    [] Leaking(record) = "Yes" ->
         IF FieldOr(record, "leak_severity", "None") = "MINOR"
           THEN "Warning" ELSE "Critical"
    [] OTHER -> "Unavailable"

functional(record) == FieldOr(record, "leak_sensor_status", "Good") # "Fault"

Derived(record) == [state |-> detectorState(record), functional |-> functional(record)]

-----------------------------------------------------------------------------
Init ==
  /\ liquid \in [Sensor -> {NoRecord} \cup Update]
  /\ phase = "build"
  /\ discovered = {} /\ subscribed = {}
  /\ exported = NoRecord /\ initially = NoRecord /\ cachedLeakStates = NoRecord
  /\ channel = <<>> /\ signals = <<>>
  /\ fanout = Idle
  /\ subscriber = "up" /\ adapter = "up"
  /\ lastEvent = [s \in Sensor |-> NoEvent]
  /\ lost = {}
  /\ writes = 0

(* buildInitialModel() and createDbusObjects().  An object whose creation
   throws is left out; its sensor stays in the model. *)
BuildModel ==
  /\ phase = "build"
  /\ phase' = "subscribe"
  /\ discovered' = {s \in Sensor : liquid[s] # NoRecord}
  /\ exported' = [s \in discovered' \ Unexportable |-> Derived(liquid[s])]
  /\ initially' = [s \in discovered' \ Unexportable |-> detectorState(liquid[s])]
  /\ lost' = {}
  /\ UNCHANGED <<liquid, writes, subscribed, linkVars, eventVars, channel, fanout,
                 cachedLeakStates, signals>>

(* SUBSCRIBE for one sensor.  Whatever reply comes first is taken for its
   acknowledgement. *)
Subscribe(s) ==
  /\ phase = "subscribe"
  /\ s \in discovered \ subscribed
  /\ subscribed' = subscribed \cup {s}
  /\ IF channel = <<>>
       THEN UNCHANGED <<channel, lost>>
       ELSE /\ channel' = Tail(channel)
            /\ lost' = IF \E i \in 2 .. Len(channel) : channel[i] = Head(channel)
                         THEN lost ELSE lost \cup {Head(channel)}
  /\ UNCHANGED <<liquid, writes, phase, discovered, initially, linkVars, eventVars,
                 exported, fanout, cachedLeakStates, signals>>

Run ==
  /\ phase = "subscribe" /\ subscribed = discovered
  /\ phase' = "running"
  /\ UNCHANGED <<redisVars, discovered, subscribed, initially, linkVars, eventVars,
                 exported, channel, fanout, cachedLeakStates, signals>>

-----------------------------------------------------------------------------
(* thermalctld and Redis.  DEL is announced as "del", which is ignored. *)

Announce(s) ==
  IF s \in subscribed /\ subscriber = "up"
    THEN channel' = Append(channel, s) /\ lost' = lost \ {s}
    ELSE UNCHANGED channel /\ lost' = lost \cup {s}

(* HSET: the fields of the update are set, the others stay. *)
HSet(record, update) ==
  [f \in DOMAIN record \cup DOMAIN update |->
     IF f \in DOMAIN update THEN update[f] ELSE record[f]]

Write(s, update) ==
  /\ writes < MaxWrites
  /\ writes' = writes + 1
  /\ liquid' = [liquid EXCEPT ![s] = HSet(@, update)]
  /\ Announce(s)
  /\ UNCHANGED <<startVars, linkVars, eventVars, exported, fanout,
                 cachedLeakStates, signals>>

Delete(s) ==
  /\ writes < MaxWrites /\ liquid[s] # NoRecord
  /\ writes' = writes + 1
  /\ liquid' = [liquid EXCEPT ![s] = NoRecord]
  /\ UNCHANGED <<startVars, linkVars, eventVars, exported, channel, fanout,
                 cachedLeakStates, signals, lost>>

(* subscriberLoop() ends on an error and is not started again.  The loss of the
   subscriber's second connection, the one it reads records over, is taken for the
   same: the loop goes on, finds no fields and calls nobody back. *)
SubscriberEnds ==
  /\ phase = "running" /\ subscriber = "up" /\ fanout = Idle
  /\ subscriber' = "ended"
  /\ channel' = <<>>
  /\ lost' = lost \cup {channel[i] : i \in DOMAIN channel}
  /\ UNCHANGED <<liquid, writes, startVars, adapter, eventVars, exported, fanout,
                 cachedLeakStates, signals>>

(* RedisAdapter does not reconnect to STATE_DB: every later read is empty. *)
AdapterBreaks ==
  /\ adapter = "up"
  /\ adapter' = "broken"
  /\ UNCHANGED <<redisVars, startVars, subscriber, eventVars, exported, channel,
                 fanout, cachedLeakStates, signals>>

-----------------------------------------------------------------------------
(* The subscriber thread.  handleKeyspaceNotification() reads the record over
   its own connection and calls back once per field; each call reads the record
   again over the adapter's connection. *)

TakeNotification ==
  /\ phase = "running" /\ subscriber = "up" /\ fanout = Idle /\ channel # <<>>
  /\ fanout' = LET n == Cardinality(DOMAIN liquid[Head(channel)])
               IN IF n = 0 THEN Idle ELSE [sensor |-> Head(channel), left |-> n]
  /\ channel' = Tail(channel)
  /\ UNCHANGED <<redisVars, startVars, linkVars, eventVars, exported,
                 cachedLeakStates, signals>>

(* The property is set, and signalled if its value is new. *)
updateLeakSensorState(s, new) ==
  IF s \in DOMAIN exported
    THEN /\ exported' = [exported EXCEPT ![s] = new]
         /\ signals' = IF exported[s].state # new.state
                         THEN Append(signals, [sensor |-> s, state |-> new.state])
                         ELSE signals
    ELSE UNCHANGED <<exported, signals>>

IsNewForSeverityOnly_(s, new) ==   (* MirrorsWhenAnnounced *)
  s \notin DOMAIN cachedLeakStates \/ cachedLeakStates[s].state # new.state

IsNewOnce_(s, new) == s \notin DOMAIN cachedLeakStates   (* LeakIsReported *)

IsNew(s, new) == s \notin DOMAIN cachedLeakStates \/ cachedLeakStates[s] # new

Remember(s, new) ==
  cachedLeakStates' = [t \in DOMAIN cachedLeakStates \cup {s} |->
                         IF t = s THEN new ELSE cachedLeakStates[t]]

onLeakFieldChange(s) ==
  IF adapter = "up" /\ liquid[s] # NoRecord /\ IsNew(s, Derived(liquid[s]))
    THEN /\ Remember(s, Derived(liquid[s]))
         /\ updateLeakSensorState(s, Derived(liquid[s]))
    ELSE UNCHANGED <<cachedLeakStates, exported, signals>>

Callback ==
  /\ fanout # Idle
  /\ onLeakFieldChange(fanout.sensor)
  /\ fanout' = IF fanout.left = 1 THEN Idle ELSE [fanout EXCEPT !.left = @ - 1]
  /\ UNCHANGED <<redisVars, startVars, linkVars, eventVars, channel>>

-----------------------------------------------------------------------------
(* rmc-events: onLeakDetectorPropertiesChanged(). *)

HasEventAlways_(state) == TRUE   (* LeakTypeOK *)
HasEventForLeaks_(state) == state \in {"Critical", "Warning"}   (* EventsFollowState *)
HasEvent(state) == state \in {"Critical", "Warning", "OK"}

HandleSignal ==
  /\ signals # <<>>
  /\ signals' = Tail(signals)
  /\ LET signal == Head(signals)
     IN lastEvent' = IF HasEvent(signal.state)
                       THEN [lastEvent EXCEPT ![signal.sensor] = signal.state]
                       ELSE lastEvent
  /\ UNCHANGED <<redisVars, startVars, linkVars, exported, channel, fanout,
                 cachedLeakStates>>

-----------------------------------------------------------------------------
Startup == BuildModel \/ (\E s \in Sensor : Subscribe(s)) \/ Run

Thermalctld == \E s \in Sensor : Delete(s) \/ \E update \in Update : Write(s, update)

SubscriberThread == TakeNotification \/ Callback

Next ==
  \/ Startup
  \/ Thermalctld
  \/ SubscriberThread
  \/ HandleSignal
  \/ SubscriberEnds
  \/ AdapterBreaks

(* The main thread starts up, the subscriber thread and bmcweb run. *)
Fairness ==
  /\ WF_vars(Startup)
  /\ WF_vars(SubscriberThread)
  /\ WF_vars(HandleSignal)

Spec == Init /\ [][Next]_vars
FairSpec == Spec /\ Fairness

-----------------------------------------------------------------------------
(***************************************************************************)
(* Properties                                                              *)
(***************************************************************************)

LeakTypeOK ==
  /\ \A s \in Sensor : DOMAIN liquid[s] \subseteq Field
  /\ phase \in {"build", "subscribe", "running"}
  /\ subscribed \subseteq discovered /\ discovered \subseteq Sensor
  /\ exported \in [discovered \ Unexportable -> Exported]
  /\ DOMAIN cachedLeakStates \subseteq subscribed
  /\ \A s \in DOMAIN cachedLeakStates : cachedLeakStates[s] \in Exported
  /\ channel \in Seq(subscribed)
  /\ fanout = Idle \/ (fanout.sensor \in subscribed /\ fanout.left \in 1 .. Cardinality(Field))
  /\ lastEvent \in [Sensor -> (DetectorState \ {"Unavailable"}) \cup {NoEvent}]
  /\ lost \subseteq Sensor

UnderWay(s) ==
  (fanout # Idle /\ fanout.sensor = s) \/ \E i \in DOMAIN channel : channel[i] = s

(***************************************************************************)
(* DetectorState and Functional show the record as it is, once everything  *)
(* announced has been handled: re-reading, the cache that suppresses       *)
(* repeats, and records written field by field never leave them stale.     *)
(* The last write must have been announced (see the hazards of startup).   *)
(***************************************************************************)
MirrorsWhenAnnounced ==
  \A s \in DOMAIN exported :
    phase = "running" /\ subscriber = "up" /\ adapter = "up"
    /\ ~UnderWay(s) /\ s \notin lost /\ liquid[s] # NoRecord
      => exported[s] = Derived(liquid[s])

(***************************************************************************)
(* A client that only listens to events knows the state of every detector  *)
(* that is readable: the last event of a sensor names the state its object *)
(* shows, unless the object has never changed.                             *)
(***************************************************************************)
EventsFollowState ==
  \A s \in DOMAIN exported :
    ~(\E i \in DOMAIN signals : signals[i].sensor = s) =>
      \/ exported[s].state = "Unavailable"
      \/ lastEvent[s] = exported[s].state
      \/ lastEvent[s] = NoEvent /\ exported[s].state = initially[s]

(***************************************************************************)
(* A critical leak that stays and was announced is reported, however the   *)
(* notifications of other sensors and of earlier states interleave, unless *)
(* a connection of the bridge is lost first.                               *)
(***************************************************************************)
CriticalNow(s) ==
  /\ s \in DOMAIN exported /\ s \notin lost
  /\ liquid[s] # NoRecord /\ detectorState(liquid[s]) = "Critical"

LeakIsReported ==
  \A s \in Sensor :
    CriticalNow(s) ~>
      \/ ~CriticalNow(s)
      \/ lastEvent[s] = "Critical"
      \/ initially[s] = "Critical" /\ exported[s].state = "Critical"
      \/ subscriber = "ended" \/ adapter = "broken"
=============================================================================
