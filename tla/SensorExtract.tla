---------------------------- MODULE SensorExtract ----------------------------
(***************************************************************************)
(* What a document of the rack manager becomes in STATE_DB:                *)
(* extractSensors() walks the JSON of SubmitAlert and SubmitTelemetry and  *)
(* lists what is to be written to RACK_MANAGER_ALERT|<sensor> and          *)
(* RACK_MANAGER_DATA|<sensor>, and the worker writes it in this order      *)
(* (RackManagerReceiver).                                                  *)
(*                                                                         *)
(* A definition whose name ends in _ is a faulty variant of the one after  *)
(* it: the property that notices the fault is named with it.               *)
(***************************************************************************)
EXTENDS OemRequests

CONSTANTS
  SensorOf,     (* name -> the sensor of the first measurement rule it fits  *)
  LeakNames,    (* the names that fit the leak rule                          *)
  UpperCase     (* severity -> the same in upper case                        *)

Leak == "Rack_level_leak"
Measurement == {"Inlet_liquid_temperature", "Inlet_liquid_flow_rate",
                "Inlet_liquid_pressure"}
valueField(sensor) ==
  IF sensor = "Inlet_liquid_temperature" THEN "InletTemperature" ELSE "value"
unit(sensor) == CASE sensor = "Inlet_liquid_temperature" -> "C"
                  [] sensor = "Inlet_liquid_flow_rate" -> "gallons_per_min"
                  [] sensor = "Inlet_liquid_pressure" -> "psi"

ASSUME ExtractAssumption ==
  \A name \in DOMAIN SensorOf : SensorOf[name] \in Measurement

IsLeak(name) == name \in LeakNames
IsMeasurement(name) == name \in DOMAIN SensorOf

(* normalizeSeverity() and effectiveSeverity(): upper case, NORMAL when there
   is none. *)
normalizeSeverity(severity) ==
  IF severity = "none" THEN "NORMAL" ELSE UpperCase[severity]

(* An object's severity, inherited when it has none.  Faulty: the outermost one
   goes down to all entries (NearestSeverityOfTheLast). *)
SeverityFromOutside_(node, inherited) ==
  IF inherited = "none" THEN node.severity ELSE inherited

SeverityAt(node, inherited) ==
  IF node.severity = "none" THEN inherited ELSE node.severity

(* A report: what is written for one leak record or one measurement. *)
Report(sensor, severity, value) ==
  [sensor |-> sensor, severity |-> normalizeSeverity(severity), value |-> value]

LeakReport(name, severity) ==
  IF IsLeak(name) THEN <<Report(Leak, severity, 0)>> ELSE <<>>
MeasurementReport(member, severity) ==
  IF IsMeasurement(member.name)
    THEN <<Report(SensorOf[member.name], severity, member.value)>> ELSE <<>>

(* extractSensors(): its arguments, and what it finds in the i-th member and in
   the node, with the calls for the members in found.  The elements of an array
   have the array's name; an object may be a leak record itself. *)
Calls(document) ==
  [name : {document[place].name : place \in DOMAIN document},
   place : DOMAIN document,
   inherited : {"none"} \cup {document[place].severity : place \in DOMAIN document}]

MemberCall(document, call, i) ==
  LET node == document[call.place]
      place == Append(call.place, i)
  IN [name |-> IF node.kind = "array" THEN call.name ELSE document[place].name,
      place |-> place,
      inherited |-> SeverityAt(node, call.inherited)]

FromMember(document, call, i, found) ==
  LET next == MemberCall(document, call, i)
      member == document[next.place]
  IN IF document[call.place].kind = "object" /\ member.kind = "number"
       THEN MeasurementReport(member, next.inherited)
       ELSE found[next]

FromNode(document, call, found) ==
  LET node == document[call.place]
  IN (IF node.kind = "object"
        THEN LeakReport(call.name, SeverityAt(node, call.inherited)) ELSE <<>>)
     \o FlattenSeq([i \in 1 .. node.size |-> FromMember(document, call, i, found)])

extractSensors(document) ==
  LET found[call \in Calls(document)] == FromNode(document, call, found)
  IN found

(* buildAlertJob() and buildTelemetryJob(), for a document that has an envelope:
   each is walked by itself, and what they report is merged. *)
FromEnvelope(mode, document, i) ==
  IF i \in EnvelopesIn(mode, document)
    THEN extractSensors(document)[[name |-> document[<<i>>].name, place |-> <<i>>,
                                   inherited |-> "none"]]
    ELSE <<>>

jobReports(mode, document) ==
  FlattenSeq([i \in 1 .. document[<<>>].size |-> FromEnvelope(mode, document, i)])

(* The fields of a report's HSETs; an alert has no value and no unit. *)
Key(mode, sensor) == <<mode, sensor>>
Fields(mode, report, timestamp) ==
  IF report.sensor = Leak THEN [leak |-> report.severity, timestamp |-> timestamp]
  ELSE [field \in {"severity", "timestamp"}
                    \cup (IF mode = "telemetry" THEN {valueField(report.sensor), "unit"}
                                                ELSE {}) |->
          CASE field = "severity" -> report.severity
            [] field = "timestamp" -> timestamp
            [] field = "unit" -> unit(report.sensor)
            [] OTHER -> report.value]

(* drainOne(): the HSETs in their order. *)
FieldsOf(records, key) ==
  IF key \in DOMAIN records THEN records[key] ELSE [f \in {} |-> 0]

Updated(function, changes) ==
  [x \in DOMAIN function \cup DOMAIN changes |->
     IF x \in DOMAIN changes THEN changes[x] ELSE function[x]]

HSet(records, key, fields) ==
  Updated(records, [k \in {key} |-> Updated(FieldsOf(records, key), fields)])

drainOne(records, mode, reports, timestamp) ==
  LET after[n \in 0 .. Len(reports)] ==
        IF n = 0 THEN records
        ELSE HSet(after[n - 1], Key(mode, reports[n].sensor), Fields(mode, reports[n], timestamp))
  IN after[Len(reports)]

-----------------------------------------------------------------------------
(* A reference by places: a place's enclosing objects are on the way to it. *)

NameAt(document, place) ==
  LET Named == {n \in 1 .. Len(place) : document[SubSeq(place, 1, n - 1)].kind = "object"}
  IN document[SubSeq(place, 1, Max(Named))].name

(* The places that report on a sensor, in an envelope: objects named for a leak,
   numbers in an object named for a measurement. *)
ReportsOn(document, sensor, place) ==
  LET name == NameAt(document, place)
  IN IF sensor = Leak
       THEN name \in LeakNames /\ document[place].kind = "object"
       ELSE /\ name \in DOMAIN SensorOf /\ SensorOf[name] = sensor
            /\ document[place].kind = "number"
            /\ Len(place) > 1
            /\ document[Front(place)].kind = "object"

Reporting(mode, document, sensor) ==
  {place \in DOMAIN document \ {<<>>} :
     place[1] \in EnvelopesIn(mode, document) /\ ReportsOn(document, sensor, place)}

(* Document order: an object before what it contains, members in order. *)
Before(p, q) ==
  \/ IsStrictPrefix(p, q)
  \/ \E n \in DOMAIN p \cap DOMAIN q :
       SubSeq(p, 1, n - 1) = SubSeq(q, 1, n - 1) /\ p[n] < q[n]

NearestSeverity(document, place) ==
  LET Enclosing == {n \in 1 .. Len(place) : document[SubSeq(place, 1, n)].severity # "none"}
  IN IF Enclosing = {} THEN "none" ELSE document[SubSeq(place, 1, Max(Enclosing))].severity
=============================================================================
