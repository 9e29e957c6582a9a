---------------------------- MODULE BridgeObjects ----------------------------
(***************************************************************************)
(* The D-Bus objects of the bridge and its own object mapper.              *)
(* BridgeApp::initialize() creates objects on five connections, each with  *)
(* a bus name of its own, and registers paths with ObjectMapperService;    *)
(* then bmcweb asks the mapper which service to talk to.                   *)
(*                                                                         *)
(* A path is the sequence of its slashes and of the pieces of its names,   *)
(* so that chassis0 starts with chassis.  Each object has one interface    *)
(* per name in InterfacesOf; the mapper's own object is left out.          *)
(*                                                                         *)
(* A definition whose name ends in _ is a faulty variant of the one after  *)
(* it: the property that notices the fault is named with it.               *)
(***************************************************************************)
EXTENDS Naturals, Sequences, SequencesExt

CONSTANTS
  Firmware,     (* ids of the firmware versions found at startup             *)
  LeakSensor,   (* names of the leak sensors found at startup                *)
  Root          (* paths that bmcweb asks about                              *)

Inventory == "Inventory.Manager"
StateHost == "State.Host"
RackManager == "com.sonic.RackManager"
UserManager == "User.Manager"

Chassis == <<"/", "system", "/", "chassis">>
System == <<"/", "system", "/", "system", "0">>
ChassisState == <<"/", "state", "/", "chassis", "0">>
HostState == <<"/", "state", "/", "host", "0">>
RackManagerObject == <<"/", "RackManager">>
UserObject == <<"/", "user">>
BmcwebUser == <<"/", "user", "/", "bmcweb">>
FirmwareObject(id) == <<"/", "software", "/", id>>
LeakObject(name) == <<"/", "leak", "/", name>>

(* The interfaces of an object, in the order of their creation. *)
FixedInterfaces(path) ==
  CASE path = Chassis -> <<"Item.Chassis", "Asset", "NetworkInterface">>
    [] path = System -> <<"Item.System", "Asset">>
    [] path = ChassisState -> <<"State.Chassis">>
    [] path = HostState -> <<"State.Host">>
    [] path = RackManagerObject -> <<"RackManager">>
    [] path = UserObject -> <<"User.Manager">>
    [] path = BmcwebUser -> <<"User.Attributes">>

FirmwareInterfaces == <<"Software.Version", "Software.Activation">>
LeakInterfaces == <<"LeakDetector", "OperationalStatus", "Item">>

(* The root of a subtree query without the slashes at its end; a path otherwise
   begins with a slash, and a piece follows every slash. *)
normalized(root) ==
  LET Kept == {i \in DOMAIN root : root[i] # "/"}
  IN IF Kept = {} THEN <<>> ELSE SubSeq(root, 1, Max(Kept))

IsPath(path) ==
  path # <<>> =>
    /\ path[1] = "/"
    /\ \A i \in DOMAIN path :
         path[i] = "/" => i < Len(path) /\ path[i + 1] # "/"

(* bmcweb asks about paths, and no id is a slash. *)
ASSUME BridgeAssumption ==
  /\ "/" \notin Firmware \cup LeakSensor
  /\ \A root \in Root : root \in Seq(ToSet(root)) /\ IsPath(normalized(root))

Found == {FirmwareObject(id) : id \in Firmware}
           \cup {LeakObject(name) : name \in LeakSensor}
InterfacesOf(path) ==
  CASE path \in {FirmwareObject(id) : id \in Firmware} -> FirmwareInterfaces
    [] path \in {LeakObject(name) : name \in LeakSensor} -> LeakInterfaces
    [] OTHER -> FixedInterfaces(path)

VARIABLES
  stage,        (* the next part of initialize(), or "running"               *)
  exported,     (* <<service, path, interface>> that exist on the bus        *)
  objects,      (* ObjectMapperService::objects_                             *)
  query,        (* the last call of the mapper: <<root, interfaces>>         *)
  reply         (* its answers: [paths, tree]                                *)

vars == <<stage, exported, objects, query, reply>>

On(service, path, n) ==
  {<<service, path, InterfacesOf(path)[i]>> : i \in 1..n}
All(path) == Len(InterfacesOf(path))

-----------------------------------------------------------------------------
(* ObjectMapperService::registerObject(), for several paths or for one: a later
   entry replaces an earlier one; Inventory.Manager is the default service. *)
registerAll(registry, paths, serviceName) ==
  [p \in DOMAIN registry \cup paths |->
     IF p \in paths THEN [interfaces |-> ToSet(InterfacesOf(p)),
                          serviceName |-> serviceName]
     ELSE registry[p]]

registerObject(registry, path, serviceName) ==
  registerAll(registry, {path}, serviceName)

(* pathIsUnder().  Faulty: a plain comparison of prefixes (SubTreeIsByName). *)
pathStartsWith_(root, path) == IsPrefix(root, path)

pathIsUnder(root, path) ==
  \/ normalized(root) = <<>>
  \/ /\ IsPrefix(normalized(root), path)
     /\ \/ Len(path) = Len(normalized(root))
        \/ path[Len(normalized(root)) + 1] = "/"

(* The interfaces of an entry that the caller asked for; no filter asks for
   all.  Faulty: an unknown filter matches everything (AnswersAgree). *)
Matched_(entry, interfaces) ==
  IF entry.interfaces \cap interfaces = {} THEN entry.interfaces
  ELSE entry.interfaces \cap interfaces

Matched(entry, interfaces) ==
  IF interfaces = {} THEN entry.interfaces ELSE entry.interfaces \cap interfaces

(* GetSubTree: path -> service -> interfaces; GetObject: service -> interfaces,
   empty for an unknown path; GetSubTreePaths, with a test of its own. *)
getObject(path, interfaces) ==
  IF path \in DOMAIN objects /\ Matched(objects[path], interfaces) # {}
    THEN [s \in {objects[path].serviceName} |-> Matched(objects[path], interfaces)]
    ELSE <<>>

getSubTree(subtree, interfaces) ==
  [p \in {p \in DOMAIN objects : /\ pathIsUnder(subtree, p)
                                 /\ Matched(objects[p], interfaces) # {}} |->
     [s \in {objects[p].serviceName} |-> Matched(objects[p], interfaces)]]

getSubTreePaths(subtree, interfaces) ==
  {p \in DOMAIN objects :
     /\ pathIsUnder(subtree, p)
     /\ interfaces = {} \/ \E i \in objects[p].interfaces : i \in interfaces}

-----------------------------------------------------------------------------
Init ==
  /\ stage = "inventory"
  /\ exported = {}
  /\ objects = [p \in {} |-> {}]
  /\ query = <<>>
  /\ reply = [paths |-> {}, tree |-> <<>>, object |-> <<>>]

(* createDbusObjects(): the fixed objects, and for each firmware version and
   leak sensor the interfaces up to the one whose creation throws.  Whatever
   came of it, every path is registered, host0 among them.  Faulty: the leak
   sensors are forgotten (ExportedIsListed). *)
RegisteredPathsWithoutLeaks_ ==
  {Chassis, System, ChassisState, HostState}
    \cup {FirmwareObject(id) : id \in Firmware}

RegisteredPaths == {Chassis, System, ChassisState, HostState} \cup Found

createDbusObjects ==
  /\ stage = "inventory"
  /\ \E created \in {f \in [Found -> 0..3] : \A p \in Found : f[p] <= All(p)} :
       exported' = (UNION {On(Inventory, p, All(p)) :
                             p \in {Chassis, System, ChassisState}})
                     \cup (UNION {On(Inventory, p, created[p]) : p \in Found})
  /\ objects' = registerAll(objects, RegisteredPaths, Inventory)
  /\ stage' = "state"
  /\ UNCHANGED <<query, reply>>

(* StateManager::createStateObjects(): host0, then chassis0; host0 is
   registered again only if both exist. *)
createStateObjects ==
  /\ stage = "state"
  /\ \E created \in {{}, {HostState}, {HostState, ChassisState}} :
       /\ exported' = exported \cup (UNION {On(StateHost, p, 1) : p \in created})
       /\ objects' = IF ChassisState \in created
                       THEN registerObject(objects, HostState, Inventory)
                       ELSE objects
  /\ stage' = "rack_manager"
  /\ UNCHANGED <<query, reply>>

(* RackManagerReceiver::initialize(), registered without a service name. *)
initializeRackManager ==
  /\ stage = "rack_manager"
  /\ \/ /\ exported' = exported \cup On(RackManager, RackManagerObject, 1)
        /\ objects' = registerObject(objects, RackManagerObject, Inventory)
     \/ UNCHANGED <<exported, objects>>
  /\ stage' = "user"
  /\ UNCHANGED <<query, reply>>

(* initializeUserManager(): both objects, or none after an exception. *)
initializeUserManager ==
  /\ stage = "user"
  /\ \/ /\ exported' = exported \cup On(UserManager, UserObject, 1)
                         \cup On(UserManager, BmcwebUser, 1)
        /\ objects' = registerAll(objects, {UserObject, BmcwebUser}, UserManager)
     \/ UNCHANGED <<exported, objects>>
  /\ stage' = "running"
  /\ UNCHANGED <<query, reply>>

(* run(): the mapper answers, for a subtree and for the path itself. *)
Query ==
  /\ stage = "running"
  /\ \E root \in Root, interfaces \in {{}, {"Asset"}, {"State.Chassis", "Item"}} :
       /\ query' = <<root, interfaces>>
       /\ reply' = [paths |-> getSubTreePaths(root, interfaces),
                    tree |-> getSubTree(root, interfaces),
                    object |-> getObject(root, interfaces)]
  /\ UNCHANGED <<stage, exported, objects>>

Next ==
  \/ createDbusObjects \/ createStateObjects
  \/ initializeRackManager \/ initializeUserManager
  \/ Query

Spec == Init /\ [][Next]_vars

-----------------------------------------------------------------------------
(* Whatever part of the startup fails, bmcweb can find each interface that is
   on the bus: its path is in the mapper with it. *)
ExportedIsListed ==
  stage = "running" =>
    \A e \in exported : /\ e[2] \in DOMAIN objects
                        /\ e[3] \in objects[e[2]].interfaces

(* The names of a path, each the sequence of its pieces: a piece after a slash
   begins a name, any other piece continues the last one. *)
WithPiece(names, path, n) ==
  IF path[n] = "/" THEN names
  ELSE IF n = 1 \/ path[n - 1] = "/" THEN Append(names, <<path[n]>>)
  ELSE [names EXCEPT ![Len(names)] = Append(@, path[n])]

NamesOf(path) ==
  LET names[n \in 0 .. Len(path)] ==
        IF n = 0 THEN <<>> ELSE WithPiece(names[n - 1], path, n)
  IN names[Len(path)]

(* A subtree query gives the paths that begin with the names of its root:
   chassis is no ancestor of chassis0, and a slash at the end changes nothing. *)
SubTreeIsByName ==
  query # <<>> /\ query[2] = {} =>
    reply.paths = {p \in DOMAIN objects : IsPrefix(NamesOf(query[1]), NamesOf(p))}

(* The three queries agree, although each filters for itself: GetSubTreePaths
   lists the paths of GetSubTree, and GetObject gives the services that
   GetSubTree gives for the path. *)
AnswersAgree ==
  query # <<>> =>
    /\ reply.paths = DOMAIN reply.tree
    /\ query[1] \in reply.paths => reply.object = reply.tree[query[1]]
    /\ query[1] \in DOMAIN objects \ reply.paths => reply.object = <<>>
=============================================================================
