----------------------------- MODULE Inventory -----------------------------
(***************************************************************************)
(* The inventory on D-Bus: InventoryModelBuilder merges the FRU EEPROM,    *)
(* platform.json and Redis once at startup; DBusExporter answers property  *)
(* reads from the merged model; UpdateEngine::onRedisFieldChange builds it *)
(* again when DEVICE_METADATA or CHASSIS_STATE is notified.                *)
(*                                                                         *)
(* A source is a function from the fields it provides to their values      *)
(* (mac and chassisName only if not empty), or the empty function; the     *)
(* file platform.json gives the members of its chassis, if it is JSON.  A  *)
(* record (DEVICE_METADATA|localhost in CONFIG_DB, CHASSIS_STATE|chassis0  *)
(* in STATE_DB) and the key that is subscribed (DEVICE_METADATA,           *)
(* CHASSIS_STATE, both in STATE_DB) are two different keys.                *)
(*                                                                         *)
(* A definition whose name ends in _ is a faulty variant of the one after  *)
(* it: the property that notices the fault is named with it.               *)
(***************************************************************************)
EXTENDS FruTlv, Functions

CONSTANTS
  Metadata,     (* values of DEVICE_METADATA|localhost                       *)
  Files,        (* what may be installed: [eeproms : what is at the EEPROM   *)
                (* paths of the configuration, in their order, platform :    *)
                (* [found : "absent", "broken" or "JSON", chassis : a        *)
                (* function from the members of chassis]]                    *)
  MaxWrites     (* bound: writes to Redis                                    *)

ASSUME InventoryAssumption ==
  /\ MaxWrites \in Nat
  /\ \A f \in Files : /\ f.eeproms \in Seq(Range(f.eeproms))
                       /\ \A eeprom \in Range(f.eeproms) : IsEeprom(eeprom)

VARIABLES
  record,       (* the two hashes the adapter reads                          *)
  files,        (* the EEPROMs and platform.json, which do not change        *)
  phase,        (* "build", "subscribe", "running"                           *)
  model,        (* DBusExporter::currentModel_                               *)
  cachedMetadata, cachedState,   (* of UpdateEngine; <<>> until first read   *)
  channel,      (* notifications on their way to the subscriber thread       *)
  link,         (* the adapter's connections: "config" and "state"           *)
  touched,      (* history: the subscribed keys written after their records  *)
  writes        (* bound: writes so far                                      *)

vars == <<record, files, phase, model, cachedMetadata, cachedState, channel,
          link, touched, writes>>

Key == {"DEVICE_METADATA", "CHASSIS_STATE"}
RecordOf == [DEVICE_METADATA |-> "metadata", CHASSIS_STATE |-> "chassis"]
LinkOf == [DEVICE_METADATA |-> "config", CHASSIS_STATE |-> "state"]
None == [f \in {} |-> "none"]

-----------------------------------------------------------------------------
(* PlatformJsonAdapter::load(): a part number or a version may be the empty
   text, and hides what comes after it; an empty name is no name. *)
MemberOf == [chassisName |-> "name", chassisPartNumber |-> "part_number",
             chassisHardwareVersion |-> "hardware_version"]

loadPlatform(file) ==
  LET Given == {f \in DOMAIN MemberOf :
                  /\ file.found = "JSON" /\ MemberOf[f] \in DOMAIN file.chassis
                  /\ f = "chassisName" => file.chassis[MemberOf[f]] # "empty"}
  IN [f \in Given |-> file.chassis[MemberOf[f]]]

-----------------------------------------------------------------------------
(* The order in which a field looks for its value: <<source, field of it>>. *)
ChassisPrecedence == [
  serialNumber |-> <<<<"redis", "serial_number">>, <<"fru", "serialNumber">>>>,
  partNumber |->
    <<<<"redis", "part_number">>, <<"fru", "partNumber">>,
      <<"platform", "chassisPartNumber">>, <<"redis", "hwsku">>>>,
  manufacturer |-> <<<<"redis", "manufacturer">>, <<"fru", "manufacturer">>>>,
  model |-> <<<<"redis", "model">>, <<"redis", "platform">>, <<"fru", "model">>>>,
  hardwareVersion |->
    <<<<"fru", "hardwareVersion">>, <<"platform", "chassisHardwareVersion">>>>,
  chassisType |-> <<<<"redis", "type">>>>,
  baseMacAddress |-> <<<<"redis", "mac">>>>,
  prettyName |-> <<<<"platform", "chassisName">>, <<"fru", "productName">>>>]

SystemPrecedence == [
  serialNumber |-> <<<<"fru", "serialNumber">>, <<"redis", "serial_number">>>>,
  manufacturer |-> <<<<"fru", "manufacturer">>, <<"redis", "manufacturer">>>>,
  model |-> <<<<"fru", "model">>, <<"redis", "platform">>>>,
  hostname |-> <<<<"redis", "hostname">>>>]

(* A field's value and source: the first candidate there is, or the default of
   types.hpp. *)
Pick(candidates, sources) ==
  LET Present == {i \in DOMAIN candidates :
                    candidates[i][2] \in DOMAIN sources[candidates[i][1]]}
  IN IF Present = {} THEN [value |-> "default", source |-> "default"]
     ELSE LET best == CHOOSE i \in Present : \A j \in Present : i <= j
              source == candidates[best][1]
          IN [value |-> sources[source][candidates[best][2]], source |-> source]

(* InventoryModelBuilder::build().  The power state is kept as it is exported:
   createChassisStateObject() shows Off for all but "on", which is also the
   default. *)
PowerState(chassis) ==
  IF "power_state" \in DOMAIN chassis /\ chassis["power_state"] # "on"
    THEN "Off" ELSE "On"

build(fru, metadata, platform, chassis) ==
  LET sources == [redis |-> metadata, fru |-> fru, platform |-> platform]
  IN [chassis |-> [f \in DOMAIN ChassisPrecedence |->
                     Pick(ChassisPrecedence[f], sources)],
      system |-> [f \in DOMAIN SystemPrecedence |->
                    Pick(SystemPrecedence[f], sources)],
      power |-> PowerState(chassis)]

(* getDeviceMetadata() and getChassisState(): without a connection, or when it
   breaks, nothing is found. *)
Read(key) == IF link[LinkOf[key]] = "up" THEN record[RecordOf[key]] ELSE None

Cached(cache) == IF cache = <<>> THEN None ELSE cache[1]

-----------------------------------------------------------------------------
Init ==
  /\ record \in [metadata : Metadata, chassis : {None}]
  /\ files \in Files
  /\ phase = "build"
  /\ model = build(None, None, None, None)
  /\ cachedMetadata = <<>> /\ cachedState = <<>>
  /\ channel = <<>>
  /\ link \in [config : {"up", "down"}, state : {"up"}]
  /\ touched = {}
  /\ writes = 0

(* initializeDataSources(), buildInitialModel() and createObjects(). *)
Build ==
  /\ phase = "build"
  /\ phase' = "subscribe"
  /\ model' = build(scanAndLoad(files.eeproms), Read("DEVICE_METADATA"),
                    loadPlatform(files.platform), Read("CHASSIS_STATE"))
  /\ UNCHANGED <<record, files, cachedMetadata, cachedState, channel, link,
                 touched, writes>>

(* startUpdateEngine(): no polling, four kinds of keys are subscribed. *)
Subscribe ==
  /\ phase = "subscribe"
  /\ phase' = "running"
  /\ UNCHANGED <<record, files, model, cachedMetadata, cachedState, channel,
                 link, touched, writes>>

(* doUpdate() and onRedisFieldChange() compare three of the fields.  Faulty:
   the host name is left out (FreshWhenTouched). *)
ComparedWithoutHostname_ == {"serial_number", "platform"}
Compared == {"serial_number", "platform", "hostname"}

ValueIn(fields, f) == IF f \in DOMAIN fields THEN <<fields[f]>> ELSE <<>>

MetadataChanged(metadata) ==
  \/ cachedMetadata = <<>>
  \/ \E f \in Compared : ValueIn(metadata, f) # ValueIn(cachedMetadata[1], f)

ChassisChanged(chassis) ==
  \/ cachedState = <<>>
  \/ ValueIn(chassis, "power_state") # ValueIn(cachedState[1], "power_state")

(* updateObjects(): the whole model is replaced by one built from the caches
   alone. *)
Rebuild == model' = build(None, Cached(cachedMetadata'), None, Cached(cachedState'))

(* onRedisFieldChange(key, ...), once per field of the notified key; a key with
   several fields is as good as several notifications. *)
onRedisFieldChange ==
  /\ phase = "running" /\ channel # <<>>
  /\ LET key == Head(channel)
         fields == Read(key)
     IN /\ IF key = "DEVICE_METADATA" /\ MetadataChanged(fields)
             THEN cachedMetadata' = <<fields>> ELSE UNCHANGED cachedMetadata
        /\ IF key = "CHASSIS_STATE" /\ ChassisChanged(fields)
             THEN cachedState' = <<fields>> ELSE UNCHANGED cachedState
        /\ IF <<cachedMetadata, cachedState>>' # <<cachedMetadata, cachedState>>
             THEN Rebuild ELSE UNCHANGED model
        /\ touched' = IF link[LinkOf[key]] = "up" THEN touched
                      ELSE touched \ {key}
  /\ channel' = Tail(channel)
  /\ UNCHANGED <<record, files, phase, link, writes>>

-----------------------------------------------------------------------------
(* Outside: the records are written (their notifications are not subscribed),
   or the subscribed keys are; connections break, and only the one to CONFIG_DB
   is opened again, by getRedfishClientCnames(). *)
WriteMetadata ==
  /\ writes < MaxWrites /\ writes' = writes + 1
  /\ \E m \in Metadata \ {record.metadata} : record' = [record EXCEPT !.metadata = m]
  /\ touched' = touched \ {"DEVICE_METADATA"}
  /\ UNCHANGED <<files, phase, model, cachedMetadata, cachedState, channel, link>>

WriteChassis ==
  /\ writes < MaxWrites /\ writes' = writes + 1
  /\ \E p \in {"on", "off"} : record' = [record EXCEPT !.chassis = [power_state |-> p]]
  /\ touched' = touched \ {"CHASSIS_STATE"}
  /\ UNCHANGED <<files, phase, model, cachedMetadata, cachedState, channel, link>>

TouchKey ==
  /\ writes < MaxWrites /\ writes' = writes + 1
  /\ phase = "running"
  /\ \E k \in Key : channel' = Append(channel, k) /\ touched' = touched \cup {k}
  /\ UNCHANGED <<record, files, phase, model, cachedMetadata, cachedState, link>>

ConnectionBreaks ==
  /\ \E l \in DOMAIN link : link[l] = "up" /\ link' = [link EXCEPT ![l] = "down"]
  /\ UNCHANGED <<record, files, phase, model, cachedMetadata, cachedState,
                 channel, touched, writes>>

Reconnect ==
  /\ phase = "running" /\ link.config = "down"
  /\ link' = [link EXCEPT !.config = "up"]
  /\ UNCHANGED <<record, files, phase, model, cachedMetadata, cachedState,
                 channel, touched, writes>>

Next ==
  \/ Build \/ Subscribe \/ onRedisFieldChange
  \/ WriteMetadata \/ WriteChassis \/ TouchKey
  \/ ConnectionBreaks \/ Reconnect

Spec == Init /\ [][Next]_vars

-----------------------------------------------------------------------------
(* Until the first rebuild, D-Bus shows what the first readable EEPROM was
   programmed with, wherever the file ends, wherever its length says it ends,
   and whichever TLV of a type is the last one. *)
FruAsProgrammed ==
  phase # "build" /\ cachedMetadata = <<>> /\ cachedState = <<>> =>
    LET readable == {i \in DOMAIN files.eeproms : Readable(files.eeproms[i])}
        first == CHOOSE i \in readable : \A j \in readable : i <= j
        fields == IF readable = {} THEN None ELSE Programmed(files.eeproms[first])
    IN \A f \in {"serialNumber", "manufacturer", "model"} :
         IF f \in DOMAIN fields
           THEN model.system[f] = [value |-> fields[f], source |-> "fru"]
           ELSE model.system[f].source # "fru"

(* When the subscribed key was written after the record and its notification
   was handled over a working connection, D-Bus shows the record: the power
   state, the serial number if there is one in Redis, and the host name. *)
Handled(key) == /\ key \in touched /\ key \notin Range(channel)
                /\ phase = "running"

FreshWhenTouched ==
  /\ Handled("CHASSIS_STATE") => model.power = PowerState(record.chassis)
  /\ Handled("DEVICE_METADATA") =>
       LET now == build(None, record.metadata, None, None)
       IN /\ model.system.hostname = now.system.hostname
          /\ "serial_number" \in DOMAIN record.metadata =>
               model.chassis.serialNumber = now.chassis.serialNumber

(* bridge_app.cpp subscribes to "event-driven updates" of the "Serial number,
   platform, hostname" and the "Power state": while the connections work and no
   notification is on its way, D-Bus shows the records.  It does not: the keys
   that are subscribed are not the keys of the records. *)
FollowsRecords ==
  phase = "running" /\ channel = <<>> /\ link.state = "up"
    => model.power = PowerState(record.chassis)
=============================================================================
