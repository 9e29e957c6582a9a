------------------------------ MODULE LeakRoutes ------------------------------
(***************************************************************************)
(* bmcweb's resources for leak detectors (rmc-events/lib/                  *)
(* leak_detection.hpp) over the bridge's objects and mapper: the           *)
(* collection, a detector, and the links between them, those in events     *)
(* included (leak_detector_monitor.cpp).                                   *)
(*                                                                         *)
(* A GET makes two D-Bus calls, one after the other, and the bridge may    *)
(* restart at any point.  Calls that reach the bridge while it starts are  *)
(* answered when it runs.                                                  *)
(*                                                                         *)
(* A definition whose name ends in _ is a faulty variant of the one after  *)
(* it: the property that notices the fault is named with it.               *)
(***************************************************************************)
EXTENDS BridgeObjects

VARIABLES
  get,       (* the request in progress: <<>>, or <<uri, its next call>>     *)
  answer,    (* the last response: [uri, status, members], and as history    *)
             (* whether a call failed and which detectors there were         *)
  links      (* history: the URIs handed out                                 *)

routeVars == <<get, answer, links>>
leakVars == <<vars, routeVars>>

(* /redfish/v1/Chassis/{chassis}/[ThermalSubsystem/LeakDetection/]
   LeakDetectors[/{detector}], Collection for no detector; and LeakDetection,
   which exists in the deprecated place only. *)
Form == {"Canonical", "Deprecated"}
Collection == "none"
LeakDetection == "LeakDetection"
ASSUME LeakRoutesAssumption == LeakSensor \cap {Collection, LeakDetection} = {}

Uri(form, chassisId, detectorId) ==
  [form |-> form, chassis |-> chassisId, detector |-> detectorId]

NoAnswer == [status |-> "none"]

(* OriginOfCondition of a detector's events. *)
originUri(name) == Uri("Deprecated", "chassis", name)

IsExported(name) == <<Inventory, LeakObject(name), "LeakDetector">> \in exported

RoutesInit ==
  /\ Init
  /\ get = <<>> /\ answer = NoAnswer /\ links = {}

-----------------------------------------------------------------------------
Answer(status, members, failed) ==
  /\ get' = <<>>
  /\ answer' = [uri |-> get[1], status |-> status, members |-> members,
                failed |-> failed, there |-> {name \in LeakSensor : IsExported(name)}]

(* A client follows a link, or asks for what it likes.  Bound: a life of the
   bridge answers mapper queries or serves these resources, not both; neither
   reads what the other leaves. *)
Get ==
  /\ get = <<>> /\ query = <<>>
  /\ \E uri \in links
                 \cup {Uri(form, c, d) : form \in Form, c \in {"chassis", "chassis0"},
                                         d \in {Collection, "unknown"}}
                 \cup {Uri("Deprecated", c, LeakDetection) : c \in {"chassis", "chassis0"}} :
       get' = <<uri, "chassis">>
  /\ answer' = NoAnswer
  /\ UNCHANGED <<vars, links>>

Asks(call) == stage = "running" /\ get # <<>> /\ get[2] = call

(* An event of a detector. *)
SendEvent ==
  /\ stage = "running"
  /\ \E name \in LeakSensor : IsExported(name) /\ links' = links \cup {originUri(name)}
  /\ UNCHANGED <<vars, get, answer>>

(* getValidChassisPath(): an inventory path that ends in the id. *)
IsChassis(id) == \E p \in getSubTreePaths(<<>>, {"Item.Chassis"}) : Last(p) = id

NoChassis ==
  /\ Asks("chassis") /\ ~IsChassis(get[1].chassis)
  /\ Answer("resourceNotFound", {}, FALSE)
  /\ UNCHANGED <<vars, links>>

ValidChassis ==
  /\ Asks("chassis") /\ IsChassis(get[1].chassis)
  /\ get[1].detector # LeakDetection
  /\ get' = <<get[1], "detectors">>
  /\ UNCHANGED <<vars, answer, links>>

(* handleLeakDetectionGet(): it has the chassis, and asks for nothing more. *)
LeakDetectionGet ==
  /\ Asks("chassis") /\ IsChassis(get[1].chassis)
  /\ get[1].detector = LeakDetection
  /\ LET members == {Uri("Deprecated", get[1].chassis, Collection)}
     IN Answer("ok", members, FALSE) /\ links' = links \cup members
  /\ UNCHANGED vars

(* A member link has the form and the chassis of the request. *)
CanonicalMember_(uri, name) == Uri("Canonical", uri.chassis, name)   (* LinksResolve *)
memberUri(uri, name) == Uri(uri.form, uri.chassis, name)

(* handleLeakDetectorCollectionGet() *)
CollectionGet ==
  /\ Asks("detectors") /\ get[1].detector = Collection
  /\ LET paths == getSubTreePaths(<<"/", "leak">>, {"LeakDetector"})
         members == {memberUri(get[1], Last(p)) : p \in paths}
     IN Answer("ok", members, FALSE) /\ links' = links \cup members
  /\ UNCHANGED vars

(* handleLeakDetectorGet(): GetAll on the Inventory.Manager connection. *)
DetectorGet ==
  /\ Asks("detectors") /\ get[1].detector # Collection
  /\ Answer(IF IsExported(get[1].detector) THEN "ok" ELSE "resourceNotFound", {},
            FALSE)
  /\ UNCHANGED <<vars, links>>

(* The bridge is away or starting, and a call fails: an internal error, but for
   a detector it looks as if there were none. *)
CallFails ==
  /\ stage # "running" /\ get # <<>>
  /\ Answer(IF get[2] = "detectors" /\ get[1].detector # Collection
              THEN "resourceNotFound" ELSE "internalError", {}, TRUE)
  /\ UNCHANGED <<vars, links>>

RestartBridge ==
  /\ stage = "running"
  /\ stage' = "inventory"
  /\ exported' = {} /\ objects' = [p \in {} |-> {}]
  /\ query' = <<>> /\ reply' = [paths |-> {}, tree |-> <<>>, object |-> <<>>]
  /\ UNCHANGED routeVars

Serves == get # <<>> \/ answer # NoAnswer

RoutesNext ==
  \/ ~(stage = "running" /\ Serves) /\ Next /\ UNCHANGED routeVars
  \/ Get \/ SendEvent
  \/ NoChassis \/ ValidChassis
  \/ LeakDetectionGet \/ CollectionGet \/ DetectorGet \/ CallFails
  \/ RestartBridge

RoutesSpec == RoutesInit /\ [][RoutesNext]_leakVars

-----------------------------------------------------------------------------
(***************************************************************************)
(* Properties                                                              *)
(***************************************************************************)

(* What a client is told leads to the detectors.  A link that was handed out
   leads to a collection or, in either form, from a collection or an event, to
   its detector, unless that is not on the bus (its creation failed, now or
   after a restart) or the bridge did not answer.  And a collection that is
   answered at all has every detector on the bus, whichever of its other
   interfaces could be created, by a link of the form that the client asked
   with. *)
LinksResolve ==
  answer # NoAnswer /\ ~answer.failed =>
    LET uri == answer.uri
    IN /\ uri \in links =>
            answer.status = (IF uri.detector \in answer.there \cup {Collection}
                               THEN "ok" ELSE "resourceNotFound")
       /\ uri.detector = Collection /\ answer.status = "ok" =>
            {Uri(uri.form, uri.chassis, name) : name \in answer.there} \subseteq answer.members
=============================================================================
