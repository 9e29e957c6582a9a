------------------------------ MODULE OemActions ------------------------------
(***************************************************************************)
(* The OEM actions from the HTTP request to STATE_DB: OemRequests, and the *)
(* worker that stores what SensorExtract finds in a document.              *)
(***************************************************************************)
EXTENDS SensorExtract

VARIABLES
  stored,       (* the STATE_DB records: key -> field -> value               *)
  last          (* history: the last job that was stored                     *)

oemVars == <<requestVars, stored, last>>

OemInit ==
  /\ RequestsInit
  /\ stored = [k \in {} |-> 0]
  /\ last = <<>>

(* The number of the job stands for its timestamp. *)
Store ==
  IF drained' = drained THEN UNCHANGED <<stored, last>>
  ELSE /\ last' = posted[Head(queue)]
       /\ stored' = drainOne(stored, last'.mode, jobReports(last'.mode, last'.body), drained')

OemNext == RequestsNext /\ Store

OemSpec == OemInit /\ [][OemNext]_oemVars

-----------------------------------------------------------------------------
(***************************************************************************)
(* Properties                                                              *)
(***************************************************************************)

(* A job's record of a sensor it reports on says what the last of its reports
   says: the severity of the nearest enclosing object that has one, the value
   beside it, and the job's time; never the severity of one report with the
   value of another. *)
SaysTheLastReport(record, mode, document, sensor, time) ==
  LET places == Reporting(mode, document, sensor)
      place == CHOOSE p \in places : \A q \in places \ {p} : Before(q, p)
      severity == normalizeSeverity(NearestSeverity(document, place))
  IN /\ record["timestamp"] = time
     /\ record[IF sensor = Leak THEN "leak" ELSE "severity"] = severity
     /\ mode = "telemetry" /\ sensor # Leak =>
          record[valueField(sensor)] = document[place].value

(* And it touches no other record: alerts leave telemetry alone, and a document
   without a sensor leaves its record as an earlier job left it. *)
StoresTheLastReports(before, after, mode, document, time) ==
  LET reported == {sensor \in Measurement \cup {Leak} :
                     Reporting(mode, document, sensor) # {}}
      keys == {Key(mode, sensor) : sensor \in reported}
  IN /\ DOMAIN after = DOMAIN before \cup keys
     /\ \A sensor \in reported :
          SaysTheLastReport(after[Key(mode, sensor)], mode, document, sensor, time)
     /\ \A key \in DOMAIN before \ keys : after[key] = before[key]

(* Every job that the worker stores (extractSensors(), drainOne()) leaves STATE_DB
   so: the record of each sensor says the last report on it in document order, with
   the nearest severity, and every other record is as it was. *)
NearestSeverityOfTheLast ==
  [][drained' # drained =>
       StoresTheLastReports(stored, stored', last'.mode, last'.body, drained')]_oemVars
=============================================================================
