------------------------- MODULE BmcwebRoutes_proofs -------------------------
(***************************************************************************)
(* Proofs about the routes that are added to bmcweb, with what they ask of *)
(* the bridge.  BridgeObjects and LeakRoutes, for any firmware versions,   *)
(* leak sensors and roots of queries: what is on the bus is listed, a      *)
(* subtree is what is under its root name by name, the three queries       *)
(* agree, and the links of bmcweb's resources resolve.                     *)
(* OemActions, for any requests, documents, envelopes, names of sensors    *)
(* and size of the queue: what an answer says of the job is true, and the  *)
(* job leaves in STATE_DB what the last report on each sensor says.        *)
(***************************************************************************)
EXTENDS LeakRoutes, OemActions, SequenceTheorems, FiniteSetTheorems, WellFoundedInduction, TLAPS

-----------------------------------------------------------------------------
(***************************************************************************)
(* The paths and their interfaces                                          *)
(***************************************************************************)

FirmwareObjects == {FirmwareObject(id) : id \in Firmware}
LeakObjects == {LeakObject(name) : name \in LeakSensor}
FixedPaths == {Chassis, System, ChassisState, HostState, RackManagerObject,
               UserObject, BmcwebUser}
KnownPaths == FixedPaths \cup FirmwareObjects \cup LeakObjects

(* An object that was found has a path of its own. *)
LEMMA PathsDiffer ==
  /\ \A p \in FixedPaths : p \notin FirmwareObjects /\ p \notin LeakObjects
  /\ \A p \in FirmwareObjects : p \notin LeakObjects
<1>1. \A id, p : p = FirmwareObject(id) => Len(p) = 4 /\ p[2] = "software"
  BY DEF FirmwareObject
<1>2. \A name, p : p = LeakObject(name) => Len(p) = 4 /\ p[2] = "leak"
  BY DEF LeakObject
<1>3. \A p \in FixedPaths : ~(Len(p) = 4 /\ p[2] \in {"software", "leak"})
  BY DEF FixedPaths, Chassis, System, ChassisState, HostState, RackManagerObject,
         UserObject, BmcwebUser
<1>. QED
  BY <1>1, <1>2, <1>3 DEF FirmwareObjects, LeakObjects

(* The fixed paths differ. *)
LEMMA FixedDiffer ==
  /\ Chassis # System /\ Chassis # ChassisState /\ Chassis # HostState
  /\ Chassis # RackManagerObject /\ Chassis # UserObject /\ Chassis # BmcwebUser
  /\ System # ChassisState /\ System # HostState /\ System # RackManagerObject
  /\ System # UserObject /\ System # BmcwebUser
  /\ ChassisState # HostState /\ ChassisState # RackManagerObject
  /\ ChassisState # UserObject /\ ChassisState # BmcwebUser
  /\ HostState # RackManagerObject /\ HostState # UserObject /\ HostState # BmcwebUser
  /\ RackManagerObject # UserObject /\ RackManagerObject # BmcwebUser
  /\ UserObject # BmcwebUser
  BY DEF Chassis, System, ChassisState, HostState, RackManagerObject, UserObject,
         BmcwebUser

(* The interfaces of every path. *)
LEMMA InterfacesAre ==
  /\ InterfacesOf(Chassis) = <<"Item.Chassis", "Asset", "NetworkInterface">>
  /\ InterfacesOf(System) = <<"Item.System", "Asset">>
  /\ InterfacesOf(ChassisState) = <<"State.Chassis">>
  /\ InterfacesOf(HostState) = <<"State.Host">>
  /\ InterfacesOf(RackManagerObject) = <<"RackManager">>
  /\ InterfacesOf(UserObject) = <<"User.Manager">>
  /\ InterfacesOf(BmcwebUser) = <<"User.Attributes">>
  /\ \A p \in FirmwareObjects : InterfacesOf(p) = FirmwareInterfaces
  /\ \A p \in LeakObjects : InterfacesOf(p) = LeakInterfaces
<1>1. \A p \in FixedPaths : InterfacesOf(p) = FixedInterfaces(p)
  BY PathsDiffer DEF InterfacesOf, FirmwareObjects, LeakObjects
<1>2. /\ Chassis \in FixedPaths /\ System \in FixedPaths /\ ChassisState \in FixedPaths
      /\ HostState \in FixedPaths /\ RackManagerObject \in FixedPaths
      /\ UserObject \in FixedPaths /\ BmcwebUser \in FixedPaths
  BY DEF FixedPaths
<1>3. \A p \in FirmwareObjects : InterfacesOf(p) = FirmwareInterfaces
  BY PathsDiffer DEF InterfacesOf, FirmwareObjects, LeakObjects
<1>4. \A p \in LeakObjects : InterfacesOf(p) = LeakInterfaces
  BY PathsDiffer DEF InterfacesOf, FirmwareObjects, LeakObjects
<1>5. /\ FixedInterfaces(Chassis) = <<"Item.Chassis", "Asset", "NetworkInterface">>
      /\ FixedInterfaces(System) = <<"Item.System", "Asset">>
      /\ FixedInterfaces(ChassisState) = <<"State.Chassis">>
      /\ FixedInterfaces(HostState) = <<"State.Host">>
      /\ FixedInterfaces(RackManagerObject) = <<"RackManager">>
      /\ FixedInterfaces(UserObject) = <<"User.Manager">>
      /\ FixedInterfaces(BmcwebUser) = <<"User.Attributes">>
  BY FixedDiffer DEF FixedInterfaces
<1>. QED
  BY <1>1, <1>2, <1>3, <1>4, <1>5

(* Every known path has interfaces; only the chassis is a chassis, and only a
   leak sensor is a leak detector. *)
LEMMA KnownInterfaces ==
  ASSUME NEW p \in KnownPaths
  PROVE  /\ Len(InterfacesOf(p)) \in Nat /\ Len(InterfacesOf(p)) >= 1
         /\ DOMAIN InterfacesOf(p) = 1 .. Len(InterfacesOf(p))
         /\ ToSet(InterfacesOf(p)) # {}
         /\ "Item.Chassis" \in ToSet(InterfacesOf(p)) <=> p = Chassis
         /\ "LeakDetector" \in ToSet(InterfacesOf(p)) <=> p \in LeakObjects
<1>1. CASE p = Chassis
  <2>1. InterfacesOf(p) = <<"Item.Chassis", "Asset", "NetworkInterface">>
    BY <1>1, InterfacesAre
  <2>2. p \notin LeakObjects
    BY <1>1, PathsDiffer DEF FixedPaths
  <2>. QED
    BY <1>1, <2>1, <2>2 DEF ToSet
<1>2. CASE p \in FixedPaths \ {Chassis}
  <2>1. InterfacesOf(p) \in {<<"Item.System", "Asset">>, <<"State.Chassis">>,
                             <<"State.Host">>, <<"RackManager">>, <<"User.Manager">>,
                             <<"User.Attributes">>}
    BY <1>2, InterfacesAre DEF FixedPaths
  <2>2. p \notin LeakObjects /\ p # Chassis
    BY <1>2, PathsDiffer
  <2>. QED
    BY <2>1, <2>2 DEF ToSet
<1>3. CASE p \in FirmwareObjects
  <2>1. InterfacesOf(p) = <<"Software.Version", "Software.Activation">>
    BY <1>3, InterfacesAre DEF FirmwareInterfaces
  <2>2. p \notin LeakObjects /\ p # Chassis
    BY <1>3, PathsDiffer DEF FixedPaths
  <2>. QED
    BY <2>1, <2>2 DEF ToSet
<1>4. CASE p \in LeakObjects
  <2>1. InterfacesOf(p) = <<"LeakDetector", "OperationalStatus", "Item">>
    BY <1>4, InterfacesAre DEF LeakInterfaces
  <2>2. p # Chassis
    BY <1>4, PathsDiffer DEF FixedPaths
  <2>. QED
    BY <1>4, <2>1, <2>2 DEF ToSet
<1>. QED
  BY <1>1, <1>2, <1>3, <1>4 DEF KnownPaths

-----------------------------------------------------------------------------
(***************************************************************************)
(* The registry                                                            *)
(***************************************************************************)

(* What the mapper lists: from the end of createDbusObjects() on every path
   registered there, each path with all its interfaces; whatever is on the bus
   is listed; and the last reply is to the last query, of this registry. *)
RegistryInv ==
  /\ DOMAIN objects \subseteq KnownPaths
  /\ \A p \in DOMAIN objects : objects[p].interfaces = ToSet(InterfacesOf(p))
  /\ stage # "inventory" => RegisteredPaths \subseteq DOMAIN objects
  /\ \A e \in exported : e[2] \in DOMAIN objects /\ e[3] \in ToSet(InterfacesOf(e[2]))
  /\ query # <<>> =>
       /\ stage = "running" /\ query[1] \in Root
       /\ reply = [paths |-> getSubTreePaths(query[1], query[2]),
                   tree |-> getSubTree(query[1], query[2]),
                   object |-> getObject(query[1], query[2])]

(* The paths that initialize() registers are known. *)
LEMMA RegisteredAreKnown ==
  /\ RegisteredPaths \subseteq KnownPaths
  /\ Found = FirmwareObjects \cup LeakObjects
  /\ {Chassis, System, ChassisState, HostState} \subseteq RegisteredPaths
  /\ Found \subseteq RegisteredPaths
  BY DEF RegisteredPaths, KnownPaths, FixedPaths, Found, FirmwareObjects, LeakObjects

(* What is exported of an object has one of its interfaces. *)
LEMMA OnHasInterfaces ==
  ASSUME NEW service, NEW p \in KnownPaths, NEW n \in Nat, n <= All(p),
         NEW e \in On(service, p, n)
  PROVE  e[2] = p /\ e[3] \in ToSet(InterfacesOf(p))
<1>1. PICK i \in 1 .. n : e = <<service, p, InterfacesOf(p)[i]>>
  BY DEF On
<1>2. i \in DOMAIN InterfacesOf(p)
  BY <1>1, KnownInterfaces DEF All
<1>. QED
  BY <1>1, <1>2 DEF ToSet

(* Registering known paths keeps what is listed. *)
LEMMA RegisterEffect ==
  ASSUME RegistryInv, NEW paths \in SUBSET KnownPaths, NEW service,
         objects' = registerAll(objects, paths, service)
  PROVE  /\ DOMAIN objects' = DOMAIN objects \cup paths
         /\ \A p \in DOMAIN objects' : objects'[p].interfaces = ToSet(InterfacesOf(p))
<1>1. DOMAIN objects' = DOMAIN objects \cup paths
  BY DEF registerAll
<1>2. ASSUME NEW p \in DOMAIN objects'
      PROVE  objects'[p].interfaces = ToSet(InterfacesOf(p))
  <2>1. CASE p \in paths
    BY <1>1, <1>2, <2>1 DEF registerAll
  <2>2. CASE p \notin paths
    <3>1. p \in DOMAIN objects
      BY <1>1, <1>2, <2>2
    <3>2. objects'[p] = objects[p]
      BY <2>2, <3>1 DEF registerAll
    <3>. QED
      BY <3>1, <3>2 DEF RegistryInv
  <2>. QED
    BY <2>1, <2>2
<1>. QED
  BY <1>1, <1>2

(* A step of the startup keeps the registry, if it exports what it, or a step
   before, has registered. *)
LEMMA StartupKeeps ==
  ASSUME RegistryInv, stage \in {"inventory", "state", "rack_manager", "user"},
         NEW paths \in SUBSET KnownPaths, NEW service,
         objects' = registerAll(objects, paths, service) \/ (paths = {} /\ objects' = objects),
         NEW new, exported' \subseteq exported \cup new,
         \A e \in new : /\ e[2] \in DOMAIN objects \cup paths
                        /\ e[3] \in ToSet(InterfacesOf(e[2])),
         stage = "inventory" => RegisteredPaths \subseteq paths,
         UNCHANGED query
  PROVE  RegistryInv'
<1>1. /\ DOMAIN objects' = DOMAIN objects \cup paths
      /\ \A p \in DOMAIN objects' : objects'[p].interfaces = ToSet(InterfacesOf(p))
  <2>1. CASE objects' = registerAll(objects, paths, service)
    BY <2>1, RegisterEffect
  <2>2. CASE paths = {} /\ objects' = objects
    BY <2>2 DEF RegistryInv
  <2>. QED
    BY <2>1, <2>2
<1>2. DOMAIN objects' \subseteq KnownPaths
  BY <1>1 DEF RegistryInv
<1>3. RegisteredPaths \subseteq DOMAIN objects'
  BY <1>1 DEF RegistryInv
<1>4. \A e \in exported' : e[2] \in DOMAIN objects' /\ e[3] \in ToSet(InterfacesOf(e[2]))
  BY <1>1 DEF RegistryInv
<1>5. query' = <<>>
  BY DEF RegistryInv
<1>. QED
  BY <1>1, <1>2, <1>3, <1>4, <1>5 DEF RegistryInv

(* So does one that exports nothing, once createDbusObjects() is over. *)
LEMMA StartupIdles ==
  ASSUME RegistryInv, stage \in {"state", "rack_manager", "user"},
         UNCHANGED <<exported, objects, query>>
  PROVE  RegistryInv'
<1>1. query' = <<>>
  BY DEF RegistryInv
<1>. QED
  BY <1>1 DEF RegistryInv

(* Every part of the startup, and every query, keeps the registry. *)
LEMMA RegistryStep ==
  ASSUME RegistryInv, Next
  PROVE  RegistryInv'
<1>1. CASE createDbusObjects
  <2>1. PICK created \in {f \in [Found -> 0 .. 3] : \A p \in Found : f[p] <= All(p)} :
          exported' = (UNION {On(Inventory, p, All(p)) :
                                p \in {Chassis, System, ChassisState}})
                        \cup (UNION {On(Inventory, p, created[p]) : p \in Found})
    BY <1>1 DEF createDbusObjects
  <2> DEFINE new == (UNION {On(Inventory, p, All(p)) : p \in {Chassis, System, ChassisState}})
                      \cup (UNION {On(Inventory, p, created[p]) : p \in Found})
  <2>2. ASSUME NEW e \in new
        PROVE  e[2] \in RegisteredPaths /\ e[3] \in ToSet(InterfacesOf(e[2]))
    <3>1. CASE \E p \in {Chassis, System, ChassisState} : e \in On(Inventory, p, All(p))
      <4>1. PICK p \in {Chassis, System, ChassisState} : e \in On(Inventory, p, All(p))
        BY <3>1
      <4>2. p \in KnownPaths /\ p \in RegisteredPaths
        BY <4>1, RegisteredAreKnown
      <4>3. All(p) \in Nat /\ All(p) <= All(p)
        BY <4>2, KnownInterfaces DEF All
      <4>4. e[2] = p /\ e[3] \in ToSet(InterfacesOf(p))
        BY <4>1, <4>2, <4>3, OnHasInterfaces
      <4>. QED
        BY <4>2, <4>4
    <3>2. CASE \E p \in Found : e \in On(Inventory, p, created[p])
      <4>1. PICK p \in Found : e \in On(Inventory, p, created[p])
        BY <3>2
      <4>2. p \in KnownPaths /\ p \in RegisteredPaths
        BY <4>1, RegisteredAreKnown
      <4>3. created[p] \in Nat /\ created[p] <= All(p)
        BY <2>1, <4>1
      <4>4. e[2] = p /\ e[3] \in ToSet(InterfacesOf(p))
        BY <4>1, <4>2, <4>3, OnHasInterfaces
      <4>. QED
        BY <4>2, <4>4
    <3>. QED
      BY <2>2, <3>1, <3>2
  <2>3. exported' = new
    BY <2>1
  <2> HIDE DEF new
  <2>4. objects' = registerAll(objects, RegisteredPaths, Inventory) /\ stage = "inventory"
        /\ UNCHANGED query
    BY <1>1 DEF createDbusObjects
  <2>. QED
    BY <2>2, <2>3, <2>4, RegisteredAreKnown, StartupKeeps
<1>2. CASE createStateObjects
  <2>1. PICK created \in {{}, {HostState}, {HostState, ChassisState}} :
          /\ exported' = exported \cup (UNION {On(StateHost, p, 1) : p \in created})
          /\ objects' = IF ChassisState \in created
                          THEN registerObject(objects, HostState, Inventory)
                          ELSE objects
    BY <1>2 DEF createStateObjects
  <2> DEFINE new == UNION {On(StateHost, p, 1) : p \in created}
  <2>2. ASSUME NEW e \in new
        PROVE  e[2] \in RegisteredPaths /\ e[3] \in ToSet(InterfacesOf(e[2]))
    <3>1. PICK p \in created : e \in On(StateHost, p, 1)
      BY <2>2
    <3>2. p \in KnownPaths /\ p \in RegisteredPaths
      BY <2>1, <3>1, RegisteredAreKnown
    <3>3. 1 \in Nat /\ 1 <= All(p)
      BY <3>2, KnownInterfaces DEF All
    <3>4. e[2] = p /\ e[3] \in ToSet(InterfacesOf(p))
      BY <3>1, <3>2, <3>3, OnHasInterfaces
    <3>. QED
      BY <3>2, <3>4
  <2>3. exported' = exported \cup new
    BY <2>1
  <2> HIDE DEF new
  <2>4. stage = "state" /\ UNCHANGED query
    BY <1>2 DEF createStateObjects
  <2>5. \A e \in new : e[2] \in DOMAIN objects
    BY <2>2, <2>4 DEF RegistryInv
  <2>6. CASE ChassisState \in created
    <3>1. objects' = registerAll(objects, {HostState}, Inventory)
      BY <2>1, <2>6 DEF registerObject
    <3>2. {HostState} \in SUBSET KnownPaths
      BY RegisteredAreKnown
    <3>. QED
      BY <2>2, <2>3, <2>4, <2>5, <3>1, <3>2, StartupKeeps
  <2>7. CASE ChassisState \notin created
    <3>1. objects' = objects /\ {} \in SUBSET KnownPaths
      BY <2>1, <2>7
    <3>. QED
      BY <2>2, <2>3, <2>4, <2>5, <3>1, StartupKeeps
  <2>. QED
    BY <2>6, <2>7
<1>3. CASE initializeRackManager
  <2>1. stage = "rack_manager" /\ UNCHANGED query
    BY <1>3 DEF initializeRackManager
  <2>2. RackManagerObject \in KnownPaths /\ {RackManagerObject} \in SUBSET KnownPaths
    BY DEF KnownPaths, FixedPaths
  <2>3. CASE UNCHANGED <<exported, objects>>
    BY <2>1, <2>3, StartupIdles
  <2>4. CASE /\ exported' = exported \cup On(RackManager, RackManagerObject, 1)
             /\ objects' = registerObject(objects, RackManagerObject, Inventory)
    <3>1. 1 \in Nat /\ 1 <= All(RackManagerObject)
      BY <2>2, KnownInterfaces DEF All
    <3>2. \A e \in On(RackManager, RackManagerObject, 1) :
            e[2] = RackManagerObject /\ e[3] \in ToSet(InterfacesOf(e[2]))
      BY <2>2, <3>1, OnHasInterfaces
    <3>3. objects' = registerAll(objects, {RackManagerObject}, Inventory)
      BY <2>4 DEF registerObject
    <3>. QED
      BY <2>1, <2>2, <2>4, <3>2, <3>3, StartupKeeps
  <2>. QED
    BY <1>3, <2>3, <2>4 DEF initializeRackManager
<1>4. CASE initializeUserManager
  <2>1. stage = "user" /\ UNCHANGED query
    BY <1>4 DEF initializeUserManager
  <2>2. /\ UserObject \in KnownPaths /\ BmcwebUser \in KnownPaths
        /\ {UserObject, BmcwebUser} \in SUBSET KnownPaths
    BY DEF KnownPaths, FixedPaths
  <2>3. CASE UNCHANGED <<exported, objects>>
    BY <2>1, <2>3, StartupIdles
  <2>4. CASE /\ exported' = exported \cup On(UserManager, UserObject, 1)
                                       \cup On(UserManager, BmcwebUser, 1)
             /\ objects' = registerAll(objects, {UserObject, BmcwebUser}, UserManager)
    <3>1. 1 \in Nat /\ 1 <= All(UserObject) /\ 1 <= All(BmcwebUser)
      BY <2>2, KnownInterfaces DEF All
    <3>2. \A e \in On(UserManager, UserObject, 1) :
            e[2] = UserObject /\ e[3] \in ToSet(InterfacesOf(e[2]))
      BY <2>2, <3>1, OnHasInterfaces
    <3>3. \A e \in On(UserManager, BmcwebUser, 1) :
            e[2] = BmcwebUser /\ e[3] \in ToSet(InterfacesOf(e[2]))
      BY <2>2, <3>1, OnHasInterfaces
    <3> DEFINE new == On(UserManager, UserObject, 1) \cup On(UserManager, BmcwebUser, 1)
    <3>4. \A e \in new : /\ e[2] \in {UserObject, BmcwebUser}
                         /\ e[3] \in ToSet(InterfacesOf(e[2]))
      BY <3>2, <3>3
    <3>5. exported' \subseteq exported \cup new
      BY <2>4
    <3> HIDE DEF new
    <3>. QED
      BY <2>1, <2>2, <2>4, <3>4, <3>5, StartupKeeps
  <2>. QED
    BY <1>4, <2>3, <2>4 DEF initializeUserManager
<1>5. CASE Query
  <2>1. PICK root \in Root, interfaces \in {{}, {"Asset"}, {"State.Chassis", "Item"}} :
          /\ query' = <<root, interfaces>>
          /\ reply' = [paths |-> getSubTreePaths(root, interfaces),
                       tree |-> getSubTree(root, interfaces),
                       object |-> getObject(root, interfaces)]
    BY <1>5 DEF Query
  <2>2. stage = "running" /\ UNCHANGED <<stage, exported, objects>>
    BY <1>5 DEF Query
  <2>3. query'[1] = root /\ query'[2] = interfaces
    BY <2>1
  <2>4. reply' = [paths |-> getSubTreePaths(query[1], query[2]),
                  tree |-> getSubTree(query[1], query[2]),
                  object |-> getObject(query[1], query[2])]'
    BY <2>1, <2>2, <2>3 DEF getSubTreePaths, getSubTree, getObject
  <2>5. query'[1] \in Root /\ stage' = "running"
    BY <2>2, <2>3
  <2>. QED
    BY <2>2, <2>4, <2>5 DEF RegistryInv
<1>. QED
  BY <1>1, <1>2, <1>3, <1>4, <1>5 DEF Next

(* A set of places in a sequence has a last one. *)
LEMMA MaxExists ==
  ASSUME NEW n \in Nat, NEW T, T \subseteq 1 .. n, T # {}
  PROVE  Max(T) \in T /\ \A y \in T : Max(T) >= y
<1> DEFINE U == {n - x : x \in T}
<1>1. U \subseteq Nat /\ U # {}
  <2>1. \A x \in T : n - x \in Nat
    OBVIOUS
  <2>. QED
    BY <2>1
<1>2. PICK u \in U : \A v \in U : <<v, u>> \notin OpToRel(<, Nat)
  BY <1>1, NatLessThanWellFounded, WFMin
<1>3. \A v \in U : ~(v < u)
  BY <1>1, <1>2 DEF OpToRel
<1>4. PICK x \in T : u = n - x
  OBVIOUS
<1>5. \A y \in T : ~(n - y < n - x)
  BY <1>3, <1>4
<1>6. ASSUME NEW y \in T PROVE x >= y
  <2>1. x \in Nat /\ y \in Nat /\ ~(n - y < n - x)
    BY <1>5
  <2>. QED
    BY <2>1
<1>. QED
  BY <1>6 DEF Max

(* The first places of a sequence. *)
LEMMA PrefixIs ==
  ASSUME NEW S, NEW p, NEW m \in Nat, \A i \in 1 .. m : p[i] \in S
  PROVE  /\ SubSeq(p, 1, m) \in Seq(S)
         /\ Len(SubSeq(p, 1, m)) = m
         /\ \A i \in 1 .. m : SubSeq(p, 1, m)[i] = p[i]
<1>1. 1 \in Int /\ m \in Int
  OBVIOUS
<1>2. /\ SubSeq(p, 1, m) \in Seq(S)
      /\ Len(SubSeq(p, 1, m)) = IF 1 <= m THEN m - 1 + 1 ELSE 0
      /\ \A i \in 1 .. m - 1 + 1 : SubSeq(p, 1, m)[i] = p[1 + i - 1]
  BY <1>1, SubSeqProperties
<1>. QED
  BY <1>2

(* A path is under itself. *)
LEMMA UnderItself ==
  ASSUME NEW p, Len(p) \in Nat, DOMAIN p = 1 .. Len(p)
  PROVE  pathIsUnder(p, p)
<1> DEFINE Kept == {i \in DOMAIN p : p[i] # "/"}
           m == Max(Kept)
           S == {p[i] : i \in DOMAIN p}
<1>1. CASE Kept = {}
  BY <1>1 DEF pathIsUnder, normalized
<1>2. CASE Kept # {}
  <2>1. Kept \subseteq 1 .. Len(p)
    OBVIOUS
  <2>2. m \in Kept /\ \A y \in Kept : m >= y
    BY <1>2, <2>1, MaxExists
  <2>3. m \in 1 .. Len(p) /\ m + 1 > m
    BY <2>1, <2>2
  <2> DEFINE norm == SubSeq(p, 1, m)
  <2>4. \A i \in 1 .. m : p[i] \in S
    BY <2>3
  <2>5. norm \in Seq(S) /\ Len(norm) = m /\ \A i \in 1 .. m : norm[i] = p[i]
    <3>1. m \in Nat
      BY <2>3
    <3> HIDE DEF m, S
    <3>. QED
      BY <2>4, <3>1, PrefixIs
  <2>6. SubSeq(norm, 1, m) = norm
    <3>1. m \in Nat
      BY <2>3
    <3> HIDE DEF m, S, norm
    <3>2. \A i \in 1 .. m : norm[i] \in S
      BY <2>4, <2>5
    <3>3. /\ SubSeq(norm, 1, m) \in Seq(S)
          /\ Len(SubSeq(norm, 1, m)) = m
          /\ \A i \in 1 .. m : SubSeq(norm, 1, m)[i] = norm[i]
      BY <3>1, <3>2, PrefixIs
    <3>4. /\ Len(SubSeq(norm, 1, m)) = Len(norm)
          /\ \A i \in 1 .. Len(SubSeq(norm, 1, m)) : SubSeq(norm, 1, m)[i] = norm[i]
      BY <2>5, <3>3
    <3>. QED
      BY <2>5, <3>3, <3>4, SeqEqual
  <2>7. IsPrefix(norm, p)
    <3>1. SubSeq(norm, 1, m) = SubSeq(p, 1, m)
      BY <2>6
    <3>2. Len(norm) <= Len(p)
      BY <2>3, <2>5
    <3> HIDE DEF norm, m
    <3>. QED
      BY <2>5, <3>1, <3>2 DEF IsPrefix
  <2>8. ASSUME Len(p) # m
        PROVE  p[m + 1] = "/"
    <3>1. m + 1 \in DOMAIN p
      BY <2>3, <2>8
    <3>2. m + 1 \notin Kept
      BY <2>2, <2>3
    <3>. QED
      BY <3>1, <3>2
  <2>. QED
    BY <1>2, <2>5, <2>7, <2>8 DEF pathIsUnder, normalized
<1>. QED
  BY <1>1, <1>2

(* Every known path is a sequence. *)
LEMMA KnownPathsAreSequences ==
  ASSUME NEW p \in KnownPaths
  PROVE  Len(p) \in Nat /\ DOMAIN p = 1 .. Len(p)
<1>1. CASE p \in FixedPaths
  BY <1>1 DEF FixedPaths, Chassis, System, ChassisState, HostState, RackManagerObject,
              UserObject, BmcwebUser
<1>2. CASE p \in FirmwareObjects
  BY <1>2 DEF FirmwareObjects, FirmwareObject
<1>3. CASE p \in LeakObjects
  BY <1>3 DEF LeakObjects, LeakObject
<1>. QED
  BY <1>1, <1>2, <1>3 DEF KnownPaths

(* In a state with a correct registry what is on the bus is listed, and the
   three queries agree. *)
LEMMA RegistrySuffices ==
  ASSUME RegistryInv
  PROVE  ExportedIsListed /\ AnswersAgree
<1>1. ExportedIsListed
  BY DEF ExportedIsListed, RegistryInv
<1>2. ASSUME query # <<>>
      PROVE  /\ reply.paths = DOMAIN reply.tree
             /\ query[1] \in reply.paths => reply.object = reply.tree[query[1]]
             /\ query[1] \in DOMAIN objects \ reply.paths => reply.object = <<>>
  <2> DEFINE root == query[1]
             interfaces == query[2]
  <2>1. /\ reply.paths = getSubTreePaths(root, interfaces)
        /\ reply.tree = getSubTree(root, interfaces)
        /\ reply.object = getObject(root, interfaces)
    BY <1>2 DEF RegistryInv
  <2>2. ASSUME NEW p \in DOMAIN objects
        PROVE  Matched(objects[p], interfaces) # {}
                 <=> (interfaces = {} \/ \E i \in objects[p].interfaces : i \in interfaces)
    <3>1. objects[p].interfaces # {}
      BY KnownInterfaces DEF RegistryInv
    <3>. QED
      BY <3>1 DEF Matched
  <2>3. DOMAIN reply.tree =
          {p \in DOMAIN objects : /\ pathIsUnder(root, p)
                                  /\ Matched(objects[p], interfaces) # {}}
    BY <2>1 DEF getSubTree
  <2>4. reply.paths = DOMAIN reply.tree
    BY <2>1, <2>2, <2>3 DEF getSubTreePaths
  <2>5. ASSUME root \in reply.paths
        PROVE  reply.object = reply.tree[root]
    <3>1. root \in DOMAIN objects /\ Matched(objects[root], interfaces) # {}
      BY <2>3, <2>4, <2>5
    <3>2. reply.tree[root] =
            [s \in {objects[root].serviceName} |-> Matched(objects[root], interfaces)]
      BY <2>1, <2>3, <2>4, <2>5 DEF getSubTree
    <3>3. reply.object =
            [s \in {objects[root].serviceName} |-> Matched(objects[root], interfaces)]
      BY <2>1, <3>1 DEF getObject
    <3>. QED
      BY <3>2, <3>3
  <2>6. ASSUME root \in DOMAIN objects \ reply.paths
        PROVE  reply.object = <<>>
    <3>1. pathIsUnder(root, root)
      BY <2>6, UnderItself, KnownPathsAreSequences DEF RegistryInv
    <3>2. Matched(objects[root], interfaces) = {}
      BY <2>3, <2>4, <2>6, <3>1
    <3>. QED
      BY <2>1, <3>2 DEF getObject
  <2>. QED
    BY <2>4, <2>5, <2>6
<1>. QED
  BY <1>1, <1>2 DEF AnswersAgree

-----------------------------------------------------------------------------
(***************************************************************************)
(* The names of a path                                                     *)
(***************************************************************************)

(* What holds at 0 and passes to the next number holds up to n. *)
LEMMA UpTo ==
  ASSUME NEW n \in Nat, NEW T, 0 \in T,
         \A k \in 0 .. n : k \in T /\ k < n => k + 1 \in T
  PROVE  0 .. n \subseteq T
<1> DEFINE F == {k \in 0 .. n : k \notin T}
<1> SUFFICES ASSUME F # {} PROVE FALSE
  OBVIOUS
<1>1. F \subseteq Nat
  OBVIOUS
<1>2. PICK k \in F : \A y \in F : <<y, k>> \notin OpToRel(<, Nat)
  BY <1>1, NatLessThanWellFounded, WFMin
<1>3. /\ k - 1 \in 0 .. n /\ k - 1 < n /\ k - 1 < k
      /\ (k - 1) + 1 = k /\ k - 1 \in Nat /\ k \in Nat
  <2>1. k \in 0 .. n /\ k # 0
    BY <1>2
  <2>. QED
    BY <2>1
<1>4. k - 1 \in T
  <2>1. <<k - 1, k>> \in OpToRel(<, Nat)
    BY <1>3 DEF OpToRel
  <2>2. k - 1 \notin F
    BY <1>2, <2>1
  <2>. QED
    BY <1>3, <2>2
<1>5. (k - 1) + 1 \in T
  BY <1>3, <1>4
<1>. QED
  BY <1>2, <1>3, <1>5

(* What it is to be a prefix, place by place. *)
LEMMA PrefixMeans ==
  ASSUME NEW S, NEW s \in Seq(S), NEW t \in Seq(S)
  PROVE  IsPrefix(s, t) <=> /\ Len(s) <= Len(t)
                            /\ \A j \in 1 .. Len(s) : s[j] = t[j]
<1> DEFINE m == Len(s)
<1>1. m \in Nat /\ Len(t) \in Nat /\ \A j \in 1 .. m : s[j] \in S
  BY LenProperties, ElementOfSeq
<1>2. ASSUME m <= Len(t)
      PROVE  SubSeq(s, 1, m) = SubSeq(t, 1, m) <=> \A j \in 1 .. m : s[j] = t[j]
  <2>1. \A j \in 1 .. m : t[j] \in S
    <3>1. \A j \in 1 .. m : j \in 1 .. Len(t)
      BY <1>1, <1>2
    <3>. QED
      BY <3>1, ElementOfSeq
  <2> HIDE DEF m
  <2>2. /\ SubSeq(s, 1, m) \in Seq(S) /\ Len(SubSeq(s, 1, m)) = m
        /\ \A i \in 1 .. m : SubSeq(s, 1, m)[i] = s[i]
    BY <1>1, PrefixIs
  <2>3. /\ SubSeq(t, 1, m) \in Seq(S) /\ Len(SubSeq(t, 1, m)) = m
        /\ \A i \in 1 .. m : SubSeq(t, 1, m)[i] = t[i]
    BY <1>1, <2>1, PrefixIs
  <2>4. ASSUME \A j \in 1 .. m : s[j] = t[j]
        PROVE  SubSeq(s, 1, m) = SubSeq(t, 1, m)
    <3>1. \A i \in 1 .. Len(SubSeq(s, 1, m)) : SubSeq(s, 1, m)[i] = SubSeq(t, 1, m)[i]
      BY <2>2, <2>3, <2>4
    <3>. QED
      BY <2>2, <2>3, <3>1, SeqEqual
  <2>5. ASSUME SubSeq(s, 1, m) = SubSeq(t, 1, m), NEW j \in 1 .. m
        PROVE  s[j] = t[j]
    BY <2>2, <2>3, <2>5
  <2>. QED
    BY <2>4, <2>5
<1>. QED
  BY <1>1, <1>2 DEF IsPrefix

(* The names of all the beginnings of a path. *)
Names(names, path) ==
  names = [n \in 0 .. Len(path) |->
            IF n = 0 THEN <<>> ELSE WithPiece(names[n - 1], path, n)]

(* There are such names: the recursion goes down to the start of the path. *)
LEMMA NamesExist ==
  ASSUME NEW path, Len(path) \in Nat
  PROVE  \E names : Names(names, path)
<1> DEFINE Upto(k) == \E f : f = [n \in 0 .. k |-> IF n = 0 THEN <<>> ELSE WithPiece(f[n - 1], path, n)]
           T == {k \in Nat : Upto(k)}
<1>1. 0 \in T
  <2> DEFINE g == [n \in 0 .. 0 |-> <<>>]
  <2>1. g = [n \in 0 .. 0 |-> IF n = 0 THEN <<>> ELSE WithPiece(g[n - 1], path, n)]
    OBVIOUS
  <2> HIDE DEF g
  <2>2. Upto(0)
    BY <2>1
  <2>. QED
    BY <2>2
<1>2. ASSUME NEW k \in 0 .. Len(path), k \in T
      PROVE  k + 1 \in T
  <2>1. PICK f : f = [n \in 0 .. k |-> IF n = 0 THEN <<>> ELSE WithPiece(f[n - 1], path, n)]
    BY <1>2
  <2> DEFINE g == [n \in 0 .. k + 1 |-> IF n = k + 1 THEN WithPiece(f[k], path, n) ELSE f[n]]
  <2>2. ASSUME NEW n \in 0 .. k + 1
        PROVE  g[n] = IF n = 0 THEN <<>> ELSE WithPiece(g[n - 1], path, n)
    <3>1. CASE n = k + 1
      <4>1. n # 0 /\ n - 1 = k /\ g[k] = f[k]
        BY <3>1
      <4>. QED
        BY <3>1, <4>1
    <3>2. CASE n # k + 1
      <4>1. n \in 0 .. k /\ g[n] = f[n]
        BY <3>2
      <4>2. n # 0 => g[n - 1] = f[n - 1]
        BY <4>1
      <4>3. f[n] = IF n = 0 THEN <<>> ELSE WithPiece(f[n - 1], path, n)
        BY <2>1, <4>1
      <4>. QED
        BY <4>1, <4>2, <4>3
    <3>. QED
      BY <3>1, <3>2
  <2>3. DOMAIN g = 0 .. k + 1 /\ g = [n \in DOMAIN g |-> g[n]]
    OBVIOUS
  <2> HIDE DEF g
  <2>4. g = [n \in 0 .. k + 1 |-> IF n = 0 THEN <<>> ELSE WithPiece(g[n - 1], path, n)]
    BY <2>2, <2>3
  <2>5. Upto(k + 1)
    BY <2>4
  <2> HIDE DEF Upto
  <2>. QED
    BY <2>5
<1> HIDE DEF T
<1>3. Len(path) \in T
  <2>1. 0 .. Len(path) \subseteq T
    BY <1>1, <1>2, UpTo
  <2>. QED
    BY <2>1
<1>4. Upto(Len(path))
  <2> HIDE DEF Upto
  <2>. QED
    BY <1>3 DEF T
<1>. QED
  BY <1>4 DEF Names

(* The names of a path are the last of them. *)
LEMMA NamesIs ==
  ASSUME NEW path, Len(path) \in Nat
  PROVE  \E names : Names(names, path) /\ NamesOf(path) = names[Len(path)]
<1> DEFINE f == CHOOSE names : names = [n \in 0 .. Len(path) |->
                  IF n = 0 THEN <<>> ELSE WithPiece(names[n - 1], path, n)]
<1>1. Names(f, path)
  BY NamesExist DEF Names
<1>2. NamesOf(path) = f[Len(path)]
  BY DEF NamesOf
<1> HIDE DEF f
<1>. QED
  BY <1>1, <1>2

(* They are sequences of names, and after a piece there is one. *)
LEMMA NamesTyped ==
  ASSUME NEW S, NEW path \in Seq(S), NEW names, Names(names, path)
  PROVE  \A n \in 0 .. Len(path) :
           /\ names[n] \in Seq(Seq(S))
           /\ n # 0 /\ path[n] # "/" => Len(names[n]) # 0
<1> DEFINE T == {n \in Nat : n <= Len(path) =>
                   /\ names[n] \in Seq(Seq(S))
                   /\ n # 0 /\ path[n] # "/" => Len(names[n]) # 0}
<1>1. Len(path) \in Nat
  BY LenProperties
<1>2. 0 \in T
  BY <1>1 DEF Names
<1>3. ASSUME NEW k \in 0 .. Len(path), k \in T, k < Len(path)
      PROVE  k + 1 \in T
  <2> DEFINE a == names[k]
             n == k + 1
  <2>1. n \in 1 .. Len(path) /\ n - 1 = k /\ path[n] \in S
    BY <1>1, <1>3, ElementOfSeq
  <2>2. names[n] = WithPiece(a, path, n)
    BY <2>1 DEF Names
  <2>3. a \in Seq(Seq(S)) /\ (k # 0 /\ path[k] # "/" => Len(a) # 0)
    BY <1>1, <1>3
  <2>4. <<path[n]>> \in Seq(S)
    BY <2>1
  <2>5. Len(a) \in Nat
    BY <2>3, LenProperties
  <2> HIDE DEF a, n, T
  <2>6. names[n] \in Seq(Seq(S)) /\ (path[n] # "/" => Len(names[n]) # 0)
    <3>1. CASE path[n] = "/"
      BY <2>2, <2>3, <3>1 DEF WithPiece
    <3>2. CASE path[n] # "/" /\ (n = 1 \/ path[n - 1] = "/")
      <4>1. names[n] = Append(a, <<path[n]>>)
        BY <2>2, <3>2 DEF WithPiece
      <4>2. names[n] \in Seq(Seq(S)) /\ Len(names[n]) = Len(a) + 1
        BY <2>3, <2>4, <4>1, AppendProperties
      <4>. QED
        BY <2>5, <4>2
    <3>3. CASE path[n] # "/" /\ ~(n = 1 \/ path[n - 1] = "/")
      <4>1. names[n] = [a EXCEPT ![Len(a)] = Append(@, path[n])]
        BY <2>2, <3>3 DEF WithPiece
      <4>2. k # 0 /\ path[k] # "/"
        BY <2>1, <3>3
      <4>3. Len(a) \in 1 .. Len(a)
        BY <2>3, <2>5, <4>2
      <4>4. a[Len(a)] \in Seq(S)
        BY <2>3, <4>3, ElementOfSeq
      <4>5. Append(a[Len(a)], path[n]) \in Seq(S)
        BY <2>1, <4>4, AppendProperties
      <4>6. names[n] \in Seq(Seq(S)) /\ Len(names[n]) = Len(a)
        BY <2>3, <4>1, <4>3, <4>5, ExceptSeq
      <4>. QED
        BY <2>5, <4>3, <4>6
    <3>. QED
      BY <3>1, <3>2, <3>3
  <2>. QED
    BY <1>1, <2>1, <2>6 DEF T, n
<1> HIDE DEF T
<1>4. 0 .. Len(path) \subseteq T
  BY <1>1, <1>2, <1>3, UpTo
<1>. QED
  BY <1>1, <1>4 DEF T

(* One step: a slash, the first piece of a name, or one more piece. *)
LEMMA NamesStep ==
  ASSUME NEW S, NEW path \in Seq(S), NEW names, Names(names, path),
         NEW n \in 1 .. Len(path)
  PROVE  LET a == names[n - 1]
             b == names[n]
             k == Len(a)
         IN /\ n - 1 \in 0 .. Len(path) /\ n \in 0 .. Len(path)
            /\ a \in Seq(Seq(S)) /\ b \in Seq(Seq(S)) /\ k \in Nat
            /\ path[n] = "/" => b = a
            /\ path[n] # "/" /\ (n = 1 \/ path[n - 1] = "/") =>
                 /\ Len(b) = k + 1 /\ b[k + 1] = <<path[n]>>
                 /\ \A j \in 1 .. k : b[j] = a[j]
            /\ path[n] # "/" /\ n # 1 /\ path[n - 1] # "/" =>
                 /\ Len(b) = k /\ k \in 1 .. k
                 /\ Len(a[k]) \in Nat
                 /\ Len(b[k]) = Len(a[k]) + 1
                 /\ b[k][Len(a[k]) + 1] = path[n]
                 /\ \A i \in 1 .. Len(a[k]) : b[k][i] = a[k][i]
                 /\ \A j \in 1 .. k : j # k => b[j] = a[j]
<1> DEFINE a == names[n - 1]
           b == names[n]
           k == Len(a)
<1>1. Len(path) \in Nat /\ path[n] \in S
  BY LenProperties, ElementOfSeq
<1>2. n - 1 \in 0 .. Len(path) /\ n \in 0 .. Len(path) /\ n # 0
  BY <1>1
<1>3. /\ a \in Seq(Seq(S)) /\ b \in Seq(Seq(S))
      /\ n - 1 # 0 /\ path[n - 1] # "/" => k # 0
  BY <1>2, NamesTyped
<1>4. b = WithPiece(a, path, n)
  BY <1>2 DEF Names
<1>5. k \in Nat
  BY <1>3, LenProperties
<1>6. <<path[n]>> \in Seq(S)
  BY <1>1
<1> HIDE DEF a, b, k
<1>7. path[n] = "/" => b = a
  BY <1>4 DEF WithPiece
<1>8. ASSUME path[n] # "/", n = 1 \/ path[n - 1] = "/"
      PROVE  /\ Len(b) = k + 1 /\ b[k + 1] = <<path[n]>>
             /\ \A j \in 1 .. k : b[j] = a[j]
  <2>1. b = Append(a, <<path[n]>>)
    BY <1>4, <1>8 DEF WithPiece
  <2>. QED
    BY <1>3, <1>6, <2>1, AppendProperties DEF k
<1>9. ASSUME path[n] # "/", n # 1, path[n - 1] # "/"
      PROVE  /\ Len(b) = k /\ k \in 1 .. k
             /\ Len(a[k]) \in Nat
             /\ Len(b[k]) = Len(a[k]) + 1
             /\ b[k][Len(a[k]) + 1] = path[n]
             /\ \A i \in 1 .. Len(a[k]) : b[k][i] = a[k][i]
             /\ \A j \in 1 .. k : j # k => b[j] = a[j]
  <2>1. b = [a EXCEPT ![k] = Append(a[k], path[n])]
    BY <1>4, <1>9 DEF WithPiece, k
  <2>2. k \in 1 .. k /\ k \in 1 .. Len(a)
    BY <1>2, <1>3, <1>5, <1>9 DEF k
  <2>3. a[k] \in Seq(S)
    BY <1>3, <2>2, ElementOfSeq
  <2> DEFINE e == Append(a[k], path[n])
  <2>4. /\ e \in Seq(S) /\ Len(e) = Len(a[k]) + 1
        /\ \A i \in 1 .. Len(a[k]) : e[i] = a[k][i]
        /\ e[Len(a[k]) + 1] = path[n]
    BY <1>1, <2>3, AppendProperties
  <2>5. Len(a[k]) \in Nat
    BY <2>3, LenProperties
  <2> HIDE DEF e
  <2>6. b = [a EXCEPT ![k] = e]
    BY <2>1 DEF e
  <2>7. /\ Len(b) = Len(a)
        /\ \A j \in 1 .. Len(a) : b[j] = IF j = k THEN e ELSE a[j]
    BY <1>3, <2>2, <2>4, <2>6, ExceptSeq
  <2>8. Len(b) = k /\ b[k] = e /\ \A j \in 1 .. k : j # k => b[j] = a[j]
    BY <2>2, <2>7 DEF k
  <2>. QED
    BY <2>2, <2>4, <2>5, <2>8
<1>. QED
  BY <1>2, <1>3, <1>5, <1>7, <1>8, <1>9 DEF a, b, k

(* The names so far stay, but the last may go on. *)
GoesOn(a, b) ==
  /\ Len(a) <= Len(b)
  /\ \A j \in 1 .. Len(a) :
       /\ j # Len(a) => b[j] = a[j]
       /\ Len(a[j]) <= Len(b[j])
       /\ \A i \in 1 .. Len(a[j]) : b[j][i] = a[j][i]

(* That holds from a step to the next. *)
LEMMA GoesOnStep ==
  ASSUME NEW S, NEW path \in Seq(S), NEW names, Names(names, path),
         NEW n \in 1 .. Len(path), NEW a \in Seq(Seq(S)), GoesOn(a, names[n - 1])
  PROVE  GoesOn(a, names[n])
<1> DEFINE b == names[n - 1]
           c == names[n]
           k == Len(b)
<1>1. Len(a) \in Nat /\ \A j \in 1 .. Len(a) : Len(a[j]) \in Nat
  <2>1. \A j \in 1 .. Len(a) : a[j] \in Seq(S)
    BY ElementOfSeq
  <2>. QED
    BY <2>1, LenProperties
<1>2. /\ b \in Seq(Seq(S)) /\ c \in Seq(Seq(S)) /\ k \in Nat
      /\ path[n] = "/" => c = b
      /\ path[n] # "/" /\ (n = 1 \/ path[n - 1] = "/") =>
           /\ Len(c) = k + 1 /\ c[k + 1] = <<path[n]>>
           /\ \A j \in 1 .. k : c[j] = b[j]
      /\ path[n] # "/" /\ n # 1 /\ path[n - 1] # "/" =>
           /\ Len(c) = k /\ k \in 1 .. k
           /\ Len(b[k]) \in Nat
           /\ Len(c[k]) = Len(b[k]) + 1
           /\ c[k][Len(b[k]) + 1] = path[n]
           /\ \A i \in 1 .. Len(b[k]) : c[k][i] = b[k][i]
           /\ \A j \in 1 .. k : j # k => c[j] = b[j]
  BY NamesStep
<1>3. /\ Len(a) <= k
      /\ \A j \in 1 .. Len(a) :
           /\ j # Len(a) => b[j] = a[j]
           /\ Len(a[j]) <= Len(b[j])
           /\ \A i \in 1 .. Len(a[j]) : b[j][i] = a[j][i]
  BY DEF GoesOn
<1> HIDE DEF b, c, k
<1>4. CASE path[n] = "/"
  BY <1>2, <1>3, <1>4 DEF GoesOn, b, c, k
<1>5. CASE path[n] # "/" /\ (n = 1 \/ path[n - 1] = "/")
  <2>1. Len(a) <= Len(c) /\ \A j \in 1 .. Len(a) : c[j] = b[j]
    BY <1>1, <1>2, <1>3, <1>5
  <2>. QED
    BY <1>3, <2>1 DEF GoesOn, c
<1>6. CASE path[n] # "/" /\ n # 1 /\ path[n - 1] # "/"
  <2>1. Len(a) <= Len(c)
    BY <1>2, <1>3, <1>6
  <2>2. ASSUME NEW j \in 1 .. Len(a)
        PROVE  /\ j # Len(a) => c[j] = a[j]
               /\ Len(a[j]) <= Len(c[j])
               /\ \A i \in 1 .. Len(a[j]) : c[j][i] = a[j][i]
    <3>1. CASE j # k
      <4>1. j \in 1 .. k
        BY <1>1, <1>2, <1>3
      <4>2. c[j] = b[j]
        BY <1>2, <1>6, <3>1, <4>1
      <4>. QED
        BY <1>3, <4>2
    <3>2. CASE j = k
      <4>1. j = Len(a)
        BY <1>1, <1>2, <1>3, <3>2
      <4>2. /\ Len(b[j]) \in Nat /\ Len(c[j]) = Len(b[j]) + 1
            /\ \A i \in 1 .. Len(b[j]) : c[j][i] = b[j][i]
        BY <1>2, <1>6, <3>2
      <4>3. Len(a[j]) <= Len(b[j]) /\ \A i \in 1 .. Len(a[j]) : b[j][i] = a[j][i]
        BY <1>3
      <4>4. Len(a[j]) \in Nat
        BY <1>1
      <4>5. \A i \in 1 .. Len(a[j]) : i \in 1 .. Len(b[j])
        BY <4>2, <4>3, <4>4
      <4>. QED
        BY <4>1, <4>2, <4>3, <4>4, <4>5
    <3>. QED
      BY <3>1, <3>2
  <2>. QED
    BY <2>1, <2>2 DEF GoesOn, c
<1>. QED
  BY <1>4, <1>5, <1>6

(* And to every later one. *)
LEMMA NamesGoOn ==
  ASSUME NEW S, NEW path \in Seq(S), NEW names, Names(names, path),
         NEW m \in 0 .. Len(path)
  PROVE  \A n \in m .. Len(path) : GoesOn(names[m], names[n])
<1> DEFINE T == {d \in Nat : m + d <= Len(path) => GoesOn(names[m], names[m + d])}
<1>1. Len(path) \in Nat /\ Len(path) - m \in Nat /\ m \in Nat
  BY LenProperties
<1>2. names[m] \in Seq(Seq(S))
  BY NamesTyped
<1>3. 0 \in T
  <2>1. Len(names[m]) \in Nat /\ \A j \in 1 .. Len(names[m]) : Len(names[m][j]) \in Nat
    <3>1. \A j \in 1 .. Len(names[m]) : names[m][j] \in Seq(S)
      BY <1>2, ElementOfSeq
    <3>. QED
      BY <1>2, <3>1, LenProperties
  <2>2. GoesOn(names[m], names[m]) /\ m + 0 = m
    BY <1>1, <2>1 DEF GoesOn
  <2>. QED
    BY <2>2
<1>4. ASSUME NEW d \in 0 .. Len(path) - m, d \in T, d < Len(path) - m
      PROVE  d + 1 \in T
  <2>1. /\ m + (d + 1) \in 1 .. Len(path) /\ (m + (d + 1)) - 1 = m + d
        /\ m + d <= Len(path) /\ d + 1 \in Nat
    BY <1>1, <1>4
  <2>2. GoesOn(names[m], names[(m + (d + 1)) - 1])
    BY <1>4, <2>1
  <2>3. GoesOn(names[m], names[m + (d + 1)])
    BY <1>2, <2>1, <2>2, GoesOnStep
  <2>. QED
    BY <2>1, <2>3
<1> HIDE DEF T
<1>5. 0 .. Len(path) - m \subseteq T
  BY <1>1, <1>3, <1>4, UpTo
<1>6. ASSUME NEW n \in m .. Len(path)
      PROVE  GoesOn(names[m], names[n])
  <2>1. n - m \in 0 .. Len(path) - m /\ m + (n - m) = n /\ n <= Len(path)
    BY <1>1
  <2>2. n - m \in T
    BY <1>5, <2>1
  <2>. QED
    BY <2>1, <2>2 DEF T
<1>. QED
  BY <1>6

(* Where the piece after a place stands in the names of the whole path, from what
   the names are at the place. *)
Stands(path, names, n) ==
  LET a == names[n]
      all == names[Len(path)]
      k == Len(a)
  IN /\ path[n] # "/" /\ n < Len(path) /\ path[n + 1] # "/" =>
          /\ k <= Len(all) /\ Len(a[k]) < Len(all[k])
          /\ all[k][Len(a[k]) + 1] = path[n + 1]
     /\ path[n] # "/" /\ n < Len(path) /\ path[n + 1] = "/" =>
          k < Len(all) /\ all[k] = a[k]
     /\ path[n] = "/" =>
          /\ n < Len(path) /\ path[n + 1] # "/"
          /\ k < Len(all) /\ 1 <= Len(all[k + 1])
          /\ all[k + 1][1] = path[n + 1]

LEMMA WhereNext ==
  ASSUME NEW S, NEW path \in Seq(S), IsPath(path), NEW names, Names(names, path),
         NEW n \in 1 .. Len(path)
  PROVE  /\ names[n] \in Seq(Seq(S)) /\ names[Len(path)] \in Seq(Seq(S))
         /\ Len(names[n]) \in Nat
         /\ path[n] # "/" =>
              /\ Len(names[n]) \in 1 .. Len(names[n])
              /\ Len(names[n][Len(names[n])]) \in Nat
         /\ Stands(path, names, n)
<1> DEFINE a == names[n]
           all == names[Len(path)]
           k == Len(a)
<1>1. Len(path) \in Nat /\ DOMAIN path = 1 .. Len(path) /\ path # <<>>
  BY LenProperties, EmptySeq
<1>2. \A i \in 1 .. Len(path) : path[i] = "/" => i < Len(path) /\ path[i + 1] # "/"
  BY <1>1 DEF IsPath
<1>3. n \in 0 .. Len(path) /\ n # 0 /\ Len(path) \in 0 .. Len(path)
  BY <1>1
<1>4. /\ a \in Seq(Seq(S)) /\ all \in Seq(Seq(S))
      /\ path[n] # "/" => k # 0
  BY <1>3, NamesTyped
<1>5. k \in Nat /\ Len(all) \in Nat
  BY <1>4, LenProperties
<1>6. /\ \A j \in 1 .. k : Len(a[j]) \in Nat
      /\ \A j \in 1 .. Len(all) : Len(all[j]) \in Nat
  <2>1. \A j \in 1 .. Len(a) : a[j] \in Seq(S)
    BY <1>4, ElementOfSeq
  <2>2. \A j \in 1 .. Len(all) : all[j] \in Seq(S)
    BY <1>4, ElementOfSeq
  <2> HIDE DEF a, all
  <2>. QED
    BY <2>1, <2>2, LenProperties DEF k
<1>7. path[n] # "/" => k \in 1 .. k /\ Len(a[k]) \in Nat
  <2> HIDE DEF a, all, k
  <2>. QED
    BY <1>4, <1>5, <1>6
<1>8. \A m \in 1 .. Len(path) : GoesOn(names[m], all)
  <2>1. \A m \in 1 .. Len(path) : m \in 0 .. Len(path) /\ Len(path) \in m .. Len(path)
    BY <1>1
  <2>. QED
    BY <2>1, NamesGoOn
<1>9. ASSUME NEW i \in 1 .. Len(path), i < Len(path), path[i + 1] # "/"
      PROVE  LET x == names[i]
                 y == names[i + 1]
                 l == Len(x)
             IN /\ i + 1 \in 1 .. Len(path)
                /\ path[i] = "/" =>
                     /\ Len(y) = l + 1 /\ y[l + 1] = <<path[i + 1]>>
                     /\ \A j \in 1 .. l : y[j] = x[j]
                /\ path[i] # "/" =>
                     /\ Len(y) = l
                     /\ Len(y[l]) = Len(x[l]) + 1
                     /\ y[l][Len(x[l]) + 1] = path[i + 1]
  <2>1. i + 1 \in 1 .. Len(path) /\ (i + 1) - 1 = i /\ i + 1 # 1
    BY <1>1, <1>9
  <2>. QED
    BY <1>9, <2>1, NamesStep
<1> HIDE DEF a, all, k
<1>10. ASSUME path[n] # "/", n < Len(path), path[n + 1] # "/"
       PROVE  /\ k <= Len(all) /\ Len(a[k]) < Len(all[k])
              /\ all[k][Len(a[k]) + 1] = path[n + 1]
  <2> DEFINE y == names[n + 1]
  <2>1. /\ n + 1 \in 1 .. Len(path)
        /\ Len(y) = k /\ Len(y[k]) = Len(a[k]) + 1
        /\ y[k][Len(a[k]) + 1] = path[n + 1]
    BY <1>9, <1>10 DEF a, k
  <2>2. GoesOn(y, all)
    BY <1>8, <2>1
  <2> HIDE DEF y
  <2>3. k \in 1 .. Len(y) /\ Len(a[k]) \in Nat
    BY <1>7, <1>10, <2>1
  <2>4. /\ k <= Len(all) /\ Len(y[k]) <= Len(all[k])
        /\ \A i \in 1 .. Len(y[k]) : all[k][i] = y[k][i]
    BY <2>1, <2>2, <2>3 DEF GoesOn
  <2>5. Len(all[k]) \in Nat /\ Len(a[k]) + 1 \in 1 .. Len(y[k])
    BY <1>5, <1>6, <2>1, <2>3, <2>4
  <2>6. Len(a[k]) < Len(all[k])
    BY <2>1, <2>3, <2>4, <2>5
  <2>7. all[k][Len(a[k]) + 1] = path[n + 1]
    BY <2>1, <2>4, <2>5
  <2>. QED
    BY <2>4, <2>6, <2>7
<1>11. ASSUME path[n] # "/", n < Len(path), path[n + 1] = "/"
       PROVE  k < Len(all) /\ all[k] = a[k]
  <2> DEFINE x == names[n + 1]
             y == names[(n + 1) + 1]
  <2>1. n + 1 \in 1 .. Len(path) /\ n + 1 < Len(path) /\ path[(n + 1) + 1] # "/"
    <3>1. n + 1 \in 1 .. Len(path)
      BY <1>1, <1>11
    <3>. QED
      BY <1>2, <1>11, <3>1
  <2>2. x = a
    <3>1. (n + 1) - 1 = n
      BY <1>1
    <3>. QED
      BY <1>11, <2>1, <3>1, NamesStep DEF a
  <2>3. /\ (n + 1) + 1 \in 1 .. Len(path)
        /\ Len(y) = Len(x) + 1
        /\ \A j \in 1 .. Len(x) : y[j] = x[j]
    BY <1>9, <1>11, <2>1
  <2>4. GoesOn(y, all)
    BY <1>8, <2>3
  <2> HIDE DEF x, y
  <2>5. k \in 1 .. Len(x) /\ k \in 1 .. Len(y) /\ k # Len(y) /\ Len(y) = k + 1
    BY <1>5, <1>7, <1>11, <2>2, <2>3 DEF k
  <2>. QED
    BY <1>5, <2>2, <2>3, <2>4, <2>5 DEF GoesOn
<1>12. ASSUME path[n] = "/"
       PROVE  /\ n < Len(path) /\ path[n + 1] # "/"
              /\ k < Len(all) /\ 1 <= Len(all[k + 1])
              /\ all[k + 1][1] = path[n + 1]
  <2> DEFINE y == names[n + 1]
  <2>1. n < Len(path) /\ path[n + 1] # "/"
    BY <1>2, <1>12
  <2>2. n + 1 \in 1 .. Len(path) /\ Len(y) = k + 1 /\ y[k + 1] = <<path[n + 1]>>
    BY <1>9, <1>12, <2>1 DEF a, k
  <2>3. GoesOn(y, all)
    BY <1>8, <2>2
  <2> HIDE DEF y
  <2>4. k + 1 \in 1 .. Len(y) /\ Len(y[k + 1]) = 1 /\ y[k + 1][1] = path[n + 1]
    BY <1>5, <2>2
  <2>. QED
    BY <1>5, <2>1, <2>2, <2>3, <2>4 DEF GoesOn
<1>. QED
  BY <1>4, <1>5, <1>7, <1>10, <1>11, <1>12 DEF Stands, a, all, k

(* Two paths that begin alike, up to a place. *)
AlikeTo(r, p, i) ==
  i <= Len(r) /\ i <= Len(p) /\ \A j \in 1 .. i : r[j] = p[j]

(* They have the same names there. *)
LEMMA AlikeNames ==
  ASSUME NEW S, NEW r \in Seq(S), NEW p \in Seq(S), NEW i \in Nat, AlikeTo(r, p, i),
         NEW rNames, Names(rNames, r), NEW pNames, Names(pNames, p)
  PROVE  rNames[i] = pNames[i]
<1> DEFINE T == {n \in Nat : n <= i => rNames[n] = pNames[n]}
<1>1. Len(r) \in Nat /\ Len(p) \in Nat /\ i <= Len(r) /\ i <= Len(p)
  BY LenProperties DEF AlikeTo
<1>2. 0 \in T
  <2>1. rNames[0] = <<>> /\ pNames[0] = <<>>
    BY <1>1 DEF Names
  <2>. QED
    BY <2>1
<1>3. ASSUME NEW n \in 0 .. i, n \in T, n < i
      PROVE  n + 1 \in T
  <2> DEFINE m == n + 1
  <2>1. m \in 1 .. i /\ m \in 1 .. Len(r) /\ m \in 1 .. Len(p) /\ m - 1 = n /\ m # 0
    BY <1>1, <1>3
  <2>2. m # 1 => m - 1 \in 1 .. i
    BY <2>1
  <2>3. r[m] = p[m] /\ (m # 1 => r[m - 1] = p[m - 1])
    BY <2>1, <2>2 DEF AlikeTo
  <2>4. rNames[n] = pNames[n]
    BY <1>3
  <2>5. rNames[m] = WithPiece(rNames[m - 1], r, m) /\ pNames[m] = WithPiece(pNames[m - 1], p, m)
    BY <1>1, <2>1 DEF Names
  <2> HIDE DEF m
  <2>6. rNames[m] = pNames[m]
    <3>1. CASE m = 1
      BY <2>1, <2>3, <2>4, <2>5, <3>1 DEF WithPiece
    <3>2. CASE m # 1
      BY <2>1, <2>3, <2>4, <2>5, <3>2 DEF WithPiece
    <3>. QED
      BY <3>1, <3>2
  <2>. QED
    BY <2>6 DEF m
<1> HIDE DEF T
<1>4. 0 .. i \subseteq T
  BY <1>2, <1>3, UpTo
<1>. QED
  BY <1>4 DEF T

(* A path that begins with another one, and does not go on in the middle of its
   last name, begins with its names. *)
LEMMA UnderByName ==
  ASSUME NEW S, NEW r \in Seq(S), NEW p \in Seq(S), IsPath(p), r # <<>>, r[Len(r)] # "/",
         AlikeTo(r, p, Len(r)), Len(p) = Len(r) \/ p[Len(r) + 1] = "/"
  PROVE  IsPrefix(NamesOf(r), NamesOf(p))
<1> DEFINE n == Len(r)
<1>1. n \in 1 .. Len(p) /\ Len(p) \in Nat /\ n \in Nat /\ n \in 1 .. n /\ n \in 0 .. n
  BY EmptySeq, LenProperties DEF AlikeTo
<1>2. PICK rNames : Names(rNames, r) /\ NamesOf(r) = rNames[n]
  BY <1>1, NamesIs
<1>3. PICK pNames : Names(pNames, p) /\ NamesOf(p) = pNames[Len(p)]
  BY <1>1, NamesIs
<1> DEFINE a == pNames[n]
           all == pNames[Len(p)]
           k == Len(a)
<1>4. rNames[n] = a
  BY <1>1, <1>2, <1>3, AlikeNames
<1>5. p[n] # "/" /\ (n = Len(p) \/ (n < Len(p) /\ p[n + 1] = "/"))
  BY <1>1 DEF AlikeTo
<1>6. /\ a \in Seq(Seq(S)) /\ all \in Seq(Seq(S)) /\ k \in Nat
      /\ n < Len(p) => k < Len(all) /\ all[k] = a[k]
  <2>1. a \in Seq(Seq(S)) /\ all \in Seq(Seq(S)) /\ k \in Nat /\ Stands(p, pNames, n)
    BY <1>1, <1>3, WhereNext
  <2>. QED
    BY <1>5, <2>1 DEF Stands
<1>7. GoesOn(a, all)
  <2>1. n \in 0 .. Len(p) /\ Len(p) \in n .. Len(p)
    BY <1>1
  <2>. QED
    BY <1>3, <2>1, NamesGoOn
<1>8. Len(a) <= Len(all) /\ \A j \in 1 .. Len(a) : a[j] = all[j]
  <2>1. CASE n = Len(p)
    BY <1>6, <2>1
  <2>2. CASE n # Len(p)
    <3>1. n < Len(p)
      BY <1>1, <2>2
    <3> HIDE DEF a, all, n
    <3>. QED
      BY <1>6, <1>7, <3>1 DEF GoesOn, k
  <2>. QED
    BY <2>1, <2>2
<1> HIDE DEF a, all
<1>9. IsPrefix(a, all)
  <2>1. IsPrefix(a, all) <=> Len(a) <= Len(all) /\ \A j \in 1 .. Len(a) : a[j] = all[j]
    BY <1>6, PrefixMeans
  <2>. QED
    BY <1>8, <2>1
<1>. QED
  BY <1>2, <1>3, <1>4, <1>9 DEF a, all

(* The names of a path tell its pieces: if those of another one begin with
   them, it goes along with the path from place to place. *)
LEMMA AlikeByName ==
  ASSUME NEW S, NEW r \in Seq(S), NEW p \in Seq(S), IsPath(r), IsPath(p),
         p # <<>>, IsPrefix(NamesOf(r), NamesOf(p)),
         NEW i \in Nat, i < Len(r), AlikeTo(r, p, i)
  PROVE  AlikeTo(r, p, i + 1)
<1>1. /\ Len(r) \in Nat /\ Len(p) \in Nat /\ DOMAIN r = 1 .. Len(r) /\ DOMAIN p = 1 .. Len(p)
      /\ r # <<>> /\ Len(p) # 0
  BY EmptySeq, LenProperties
<1>2. i <= Len(p) /\ \A j \in 1 .. i : r[j] = p[j]
  BY DEF AlikeTo
<1>3. r[1] = "/" /\ p[1] = "/"
  BY <1>1 DEF IsPath
<1>4. SUFFICES i < Len(p) /\ r[i + 1] = p[i + 1]
  BY <1>1, <1>2 DEF AlikeTo
<1>5. CASE i = 0
  BY <1>1, <1>3, <1>5
<1>6. CASE i # 0
  <2>1. PICK rNames : Names(rNames, r) /\ NamesOf(r) = rNames[Len(r)]
    BY <1>1, NamesIs
  <2>2. PICK pNames : Names(pNames, p) /\ NamesOf(p) = pNames[Len(p)]
    BY <1>1, NamesIs
  <2> DEFINE a == rNames[i]
             rAll == rNames[Len(r)]
             pAll == pNames[Len(p)]
             k == Len(a)
  <2>3. a = pNames[i]
    BY <2>1, <2>2, AlikeNames
  <2>4. i \in 1 .. Len(r) /\ i \in 1 .. Len(p) /\ r[i] = p[i]
    BY <1>1, <1>2, <1>6
  <2>5. /\ a \in Seq(Seq(S)) /\ rAll \in Seq(Seq(S)) /\ k \in Nat
        /\ r[i] # "/" => k \in 1 .. k /\ Len(a[k]) \in Nat
        /\ r[i] # "/" /\ r[i + 1] # "/" =>
             /\ k <= Len(rAll) /\ Len(a[k]) < Len(rAll[k])
             /\ rAll[k][Len(a[k]) + 1] = r[i + 1]
        /\ r[i] # "/" /\ r[i + 1] = "/" => k < Len(rAll) /\ rAll[k] = a[k]
        /\ r[i] = "/" =>
             /\ r[i + 1] # "/"
             /\ k < Len(rAll) /\ 1 <= Len(rAll[k + 1])
             /\ rAll[k + 1][1] = r[i + 1]
    <3>1. /\ a \in Seq(Seq(S)) /\ rAll \in Seq(Seq(S)) /\ k \in Nat
          /\ r[i] # "/" => k \in 1 .. k /\ Len(a[k]) \in Nat
          /\ Stands(r, rNames, i)
      BY <2>1, <2>4, WhereNext
    <3>. QED
      BY <3>1 DEF Stands
  <2>6. pAll \in Seq(Seq(S)) /\ Stands(p, pNames, i)
    BY <2>2, <2>4, WhereNext
  <2>7. i = Len(p) => pAll = a
    BY <2>3
  <2> HIDE DEF a, rAll, pAll, k
  <2>8. /\ pAll \in Seq(Seq(S))
        /\ r[i] # "/" /\ i < Len(p) /\ p[i + 1] # "/" =>
             /\ Len(a[k]) < Len(pAll[k]) /\ pAll[k][Len(a[k]) + 1] = p[i + 1]
        /\ r[i] # "/" /\ i < Len(p) /\ p[i + 1] = "/" => pAll[k] = a[k]
        /\ r[i] = "/" => i < Len(p) /\ pAll[k + 1][1] = p[i + 1]
    BY <2>3, <2>4, <2>6 DEF Stands, k, pAll
  <2>9. Len(rAll) <= Len(pAll) /\ \A j \in 1 .. Len(rAll) : rAll[j] = pAll[j]
    <3>1. IsPrefix(rAll, pAll)
      BY <2>1, <2>2 DEF rAll, pAll
    <3>. QED
      BY <2>5, <2>8, <3>1, PrefixMeans
  <2>10. Len(rAll) \in Nat /\ \A j \in 1 .. Len(rAll) : Len(rAll[j]) \in Nat
    <3>1. \A j \in 1 .. Len(rAll) : rAll[j] \in Seq(S)
      BY <2>5, ElementOfSeq
    <3>. QED
      BY <2>5, <3>1, LenProperties
  <2>11. CASE r[i] = "/"
    <3>1. k + 1 \in 1 .. Len(rAll)
      BY <2>5, <2>10, <2>11
    <3>2. rAll[k + 1] = pAll[k + 1]
      BY <2>9, <3>1
    <3>. QED
      BY <2>5, <2>8, <2>11, <3>2
  <2>12. CASE r[i] # "/" /\ r[i + 1] = "/"
    <3>1. k \in 1 .. Len(rAll) /\ k < Len(rAll) /\ rAll[k] = a[k] /\ Len(a[k]) \in Nat
      BY <2>5, <2>10, <2>12
    <3>2. pAll[k] = a[k]
      BY <2>9, <3>1
    <3>3. i # Len(p)
      BY <2>7, <2>9, <2>10, <3>1 DEF k
    <3>4. i < Len(p)
      BY <2>4, <3>3
    <3>5. p[i + 1] = "/"
      <4>1. p[i + 1] # "/" => Len(a[k]) < Len(pAll[k])
        BY <2>8, <2>12, <3>4
      <4>2. Len(pAll[k]) = Len(a[k])
        BY <3>2
      <4>. QED
        BY <3>1, <4>1, <4>2
    <3>. QED
      BY <2>12, <3>4, <3>5
  <2>13. CASE r[i] # "/" /\ r[i + 1] # "/"
    <3>1. /\ k \in 1 .. Len(rAll) /\ Len(a[k]) \in Nat
          /\ Len(a[k]) < Len(rAll[k]) /\ rAll[k][Len(a[k]) + 1] = r[i + 1]
      BY <2>5, <2>10, <2>13
    <3>2. rAll[k] = pAll[k] /\ Len(rAll[k]) \in Nat
      BY <2>9, <2>10, <3>1
    <3>3. pAll[k] # a[k]
      BY <3>1, <3>2
    <3>4. i < Len(p) /\ p[i + 1] # "/"
      <4>1. i # Len(p)
        BY <2>7, <3>3
      <4>2. i < Len(p)
        BY <2>4, <4>1
      <4>3. p[i + 1] = "/" => pAll[k] = a[k]
        BY <2>8, <2>13, <4>2
      <4>. QED
        BY <3>3, <4>2, <4>3
    <3>5. pAll[k][Len(a[k]) + 1] = p[i + 1]
      BY <2>8, <2>13, <3>4
    <3>. QED
      BY <3>1, <3>2, <3>4, <3>5
  <2>. QED
    BY <2>11, <2>12, <2>13
<1>. QED
  BY <1>5, <1>6

(* And it does not go on in the middle of the last name. *)
LEMMA ByNameUnder ==
  ASSUME NEW S, NEW r \in Seq(S), NEW p \in Seq(S), IsPath(r), IsPath(p),
         p # <<>>, r # <<>>, IsPrefix(NamesOf(r), NamesOf(p))
  PROVE  AlikeTo(r, p, Len(r)) /\ (Len(p) = Len(r) \/ p[Len(r) + 1] = "/")
<1> DEFINE n == Len(r)
           T == {i \in Nat : i <= n => AlikeTo(r, p, i)}
<1>1. n \in Nat /\ Len(p) \in Nat /\ DOMAIN r = 1 .. n /\ n \in 1 .. n
  BY EmptySeq, LenProperties
<1>2. r[n] # "/"
  <2>1. \A i \in 1 .. n : r[i] = "/" => i < n
    BY <1>1 DEF IsPath
  <2>. QED
    BY <1>1, <2>1
<1>3. 0 \in T
  BY <1>1 DEF AlikeTo
<1>4. ASSUME NEW i \in 0 .. n, i \in T, i < n
      PROVE  i + 1 \in T
  <2>1. AlikeTo(r, p, i) /\ i \in Nat
    BY <1>1, <1>4
  <2>2. AlikeTo(r, p, i + 1)
    BY <1>4, <2>1, AlikeByName
  <2>. QED
    BY <2>1, <2>2
<1> HIDE DEF T
<1>5. 0 .. n \subseteq T
  BY <1>1, <1>3, <1>4, UpTo
<1>6. AlikeTo(r, p, n)
  BY <1>1, <1>5 DEF T
<1>7. ASSUME Len(p) # n, p[n + 1] # "/"
      PROVE  FALSE
  <2>1. PICK rNames : Names(rNames, r) /\ NamesOf(r) = rNames[n]
    BY <1>1, NamesIs
  <2>2. PICK pNames : Names(pNames, p) /\ NamesOf(p) = pNames[Len(p)]
    BY <1>1, NamesIs
  <2> DEFINE a == rNames[n]
             all == pNames[Len(p)]
             k == Len(a)
  <2>3. a = pNames[n]
    BY <1>1, <1>6, <2>1, <2>2, AlikeNames
  <2>4. n \in 1 .. Len(p) /\ n < Len(p) /\ p[n] # "/"
    BY <1>1, <1>2, <1>6, <1>7 DEF AlikeTo
  <2>5. /\ pNames[n] \in Seq(Seq(S)) /\ all \in Seq(Seq(S)) /\ Stands(p, pNames, n)
        /\ Len(pNames[n]) \in 1 .. Len(pNames[n])
        /\ Len(pNames[n][Len(pNames[n])]) \in Nat
    BY <2>2, <2>4, WhereNext
  <2> HIDE DEF a, all, k
  <2>6. /\ a \in Seq(Seq(S)) /\ all \in Seq(Seq(S)) /\ k \in 1 .. k
        /\ Len(a[k]) \in Nat /\ Len(a[k]) < Len(all[k])
    BY <1>7, <2>3, <2>4, <2>5 DEF Stands, k, all
  <2>7. IsPrefix(a, all)
    BY <2>1, <2>2 DEF a, all
  <2>8. all[k] = a[k]
    <3>1. \A j \in 1 .. Len(a) : a[j] = all[j]
      BY <2>6, <2>7, PrefixMeans
    <3>. QED
      BY <2>6, <3>1 DEF k
  <2>. QED
    BY <2>6, <2>8
<1>. QED
  BY <1>6, <1>7

(* What is cut from the end of a root: slashes only, which name nothing. *)
LEMMA NormalizedIs ==
  ASSUME NEW S, NEW root \in Seq(S)
  PROVE  /\ normalized(root) \in Seq(S)
         /\ normalized(root) # <<>> => normalized(root)[Len(normalized(root))] # "/"
         /\ NamesOf(normalized(root)) = NamesOf(root)
<1> DEFINE Kept == {i \in DOMAIN root : root[i] # "/"}
           m == IF Kept = {} THEN 0 ELSE Max(Kept)
           r == normalized(root)
<1>1. Len(root) \in Nat /\ DOMAIN root = 1 .. Len(root) /\ \A j \in 1 .. Len(root) : root[j] \in S
  BY LenProperties, ElementOfSeq
<1>2. /\ m \in 0 .. Len(root) /\ m \in Nat
      /\ \A j \in 1 .. Len(root) : m < j => root[j] = "/"
      /\ m # 0 => root[m] # "/"
  <2>1. CASE Kept = {}
    <3>1. m = 0
      BY <2>1
    <3> HIDE DEF m
    <3>. QED
      BY <1>1, <2>1, <3>1
  <2>2. CASE Kept # {}
    <3>1. Kept \subseteq 1 .. Len(root)
      BY <1>1
    <3>2. Max(Kept) \in Kept /\ \A y \in Kept : Max(Kept) >= y
      BY <1>1, <2>2, <3>1, MaxExists
    <3>3. m \in Kept /\ \A y \in Kept : m >= y
      BY <2>2, <3>2
    <3> HIDE DEF m
    <3>4. m \in 0 .. Len(root) /\ m \in Nat /\ root[m] # "/"
      BY <1>1, <3>3
    <3>5. ASSUME NEW j \in 1 .. Len(root), m < j
          PROVE  root[j] = "/"
      <4>1. j \notin Kept
        BY <3>3, <3>4, <3>5
      <4>. QED
        BY <1>1, <4>1
    <3>. QED
      BY <3>4, <3>5
  <2>. QED
    BY <2>1, <2>2
<1>3. /\ r \in Seq(S) /\ Len(r) = m
      /\ \A j \in 1 .. m : r[j] = root[j]
  <2>1. CASE Kept = {}
    BY <2>1 DEF normalized
  <2>2. CASE Kept # {}
    <3>1. r = SubSeq(root, 1, m)
      BY <2>2 DEF normalized
    <3> HIDE DEF r, m
    <3>2. \A j \in 1 .. m : root[j] \in S
      BY <1>1, <1>2
    <3>. QED
      BY <1>2, <3>1, <3>2, PrefixIs
  <2>. QED
    BY <2>1, <2>2
<1> HIDE DEF r, m
<1>4. r # <<>> => r[Len(r)] # "/"
  <2>1. r # <<>> => m \in 1 .. m
    BY <1>2, <1>3, EmptySeq
  <2>. QED
    BY <1>2, <1>3, <2>1
<1>5. PICK rNames : Names(rNames, r) /\ NamesOf(r) = rNames[m]
  BY <1>2, <1>3, NamesIs
<1>6. PICK names : Names(names, root) /\ NamesOf(root) = names[Len(root)]
  BY <1>1, NamesIs
<1>7. rNames[m] = names[m]
  <2>1. AlikeTo(r, root, m)
    BY <1>2, <1>3 DEF AlikeTo
  <2>. QED
    BY <1>2, <1>3, <1>5, <1>6, <2>1, AlikeNames
<1> DEFINE T == {d \in Nat : m + d <= Len(root) => names[m + d] = names[m]}
<1>8. 0 \in T
  BY <1>2
<1>9. ASSUME NEW d \in 0 .. Len(root) - m, d \in T, d < Len(root) - m
      PROVE  d + 1 \in T
  <2>1. /\ m + (d + 1) \in 1 .. Len(root) /\ (m + (d + 1)) - 1 = m + d
        /\ m < m + (d + 1) /\ m + d <= Len(root) /\ d + 1 \in Nat
    BY <1>1, <1>2, <1>9
  <2>2. root[m + (d + 1)] = "/"
    BY <1>2, <2>1
  <2>3. names[m + (d + 1)] = names[m + d]
    BY <1>6, <2>1, <2>2, NamesStep
  <2>4. names[m + d] = names[m]
    BY <1>9, <2>1
  <2>. QED
    BY <2>1, <2>3, <2>4
<1> HIDE DEF T
<1>10. names[Len(root)] = names[m]
  <2>1. Len(root) - m \in Nat /\ m + (Len(root) - m) = Len(root)
    BY <1>1, <1>2
  <2>2. 0 .. Len(root) - m \subseteq T
    BY <1>8, <1>9, <2>1, UpTo
  <2>3. Len(root) - m \in T
    BY <2>1, <2>2
  <2>. QED
    BY <2>1, <2>3 DEF T
<1>. QED
  BY <1>3, <1>4, <1>5, <1>6, <1>7, <1>10 DEF r

(* pathIsUnder() is the order of names. *)
LEMMA UnderIsByName ==
  ASSUME NEW S, NEW root \in Seq(S), NEW p \in Seq(S),
         IsPath(normalized(root)), IsPath(p), p # <<>>
  PROVE  pathIsUnder(root, p) <=> IsPrefix(NamesOf(root), NamesOf(p))
<1> DEFINE r == normalized(root)
<1>1. /\ r \in Seq(S) /\ NamesOf(r) = NamesOf(root)
      /\ r # <<>> => r[Len(r)] # "/"
  BY NormalizedIs
<1>2. pathIsUnder(root, p) <=>
        r = <<>> \/ (IsPrefix(r, p) /\ (Len(p) = Len(r) \/ p[Len(r) + 1] = "/"))
  BY DEF pathIsUnder
<1>3. IsPath(r)
  OBVIOUS
<1> HIDE DEF r
<1>4. IsPrefix(r, p) <=> AlikeTo(r, p, Len(r))
  <2>1. Len(r) \in Nat /\ Len(p) \in Nat
    BY <1>1, LenProperties
  <2>. QED
    BY <1>1, <2>1, PrefixMeans DEF AlikeTo
<1>5. CASE r = <<>>
  <2>1. Len(r) = 0
    BY <1>5
  <2>2. PICK rNames : Names(rNames, r) /\ NamesOf(r) = rNames[0]
    BY <2>1, NamesIs
  <2>3. NamesOf(root) = <<>>
    BY <1>1, <2>1, <2>2 DEF Names
  <2>4. Len(p) \in Nat
    BY LenProperties
  <2>5. PICK pNames : Names(pNames, p) /\ NamesOf(p) = pNames[Len(p)]
    BY <2>4, NamesIs
  <2>6. NamesOf(p) \in Seq(Seq(S))
    <3>1. Len(p) \in 0 .. Len(p)
      BY <2>4
    <3>. QED
      BY <2>5, <3>1, NamesTyped
  <2>7. NamesOf(root) \in Seq(Seq(S)) /\ Len(NamesOf(root)) = 0
    BY <2>3
  <2>8. Len(NamesOf(root)) <= Len(NamesOf(p)) /\ 1 .. Len(NamesOf(root)) = {}
    BY <2>6, <2>7, LenProperties
  <2>9. IsPrefix(NamesOf(root), NamesOf(p))
    BY <2>6, <2>7, <2>8, PrefixMeans
  <2>. QED
    BY <1>2, <1>5, <2>9
<1>6. CASE r # <<>>
  BY <1>1, <1>2, <1>3, <1>4, <1>6, UnderByName, ByNameUnder
<1>. QED
  BY <1>5, <1>6

(* Every known path is a path. *)
LEMMA KnownPathsArePaths ==
  ASSUME NEW p \in KnownPaths
  PROVE  IsPath(p) /\ p # <<>> /\ \E S : p \in Seq(S)
<1>1. CASE p \in FixedPaths
  <2> DEFINE Pieces == {"/", "system", "chassis", "state", "host", "0", "RackManager",
                        "user", "bmcweb"}
  <2>1. p \in Seq(Pieces) /\ IsPath(p) /\ p # <<>>
    <3>1. CASE p = Chassis
      BY <3>1 DEF Chassis, IsPath
    <3>2. CASE p = System
      BY <3>2 DEF System, IsPath
    <3>3. CASE p = ChassisState
      BY <3>3 DEF ChassisState, IsPath
    <3>4. CASE p = HostState
      BY <3>4 DEF HostState, IsPath
    <3>5. CASE p = RackManagerObject
      BY <3>5 DEF RackManagerObject, IsPath
    <3>6. CASE p = UserObject
      BY <3>6 DEF UserObject, IsPath
    <3>7. CASE p = BmcwebUser
      BY <3>7 DEF BmcwebUser, IsPath
    <3>. QED
      BY <1>1, <3>1, <3>2, <3>3, <3>4, <3>5, <3>6, <3>7 DEF FixedPaths
  <2>. QED
    BY <2>1
<1>2. CASE p \in FirmwareObjects \cup LeakObjects
  <2>1. PICK dir \in {"software", "leak"}, id \in Firmware \cup LeakSensor :
          p = <<"/", dir, "/", id>>
    BY <1>2 DEF FirmwareObjects, FirmwareObject, LeakObjects, LeakObject
  <2>2. id # "/" /\ dir # "/"
    BY BridgeAssumption
  <2>3. p \in Seq({"/", dir, id})
    BY <2>1
  <2>4. IsPath(p) /\ p # <<>>
    BY <2>1, <2>2 DEF IsPath
  <2>. QED
    BY <2>3, <2>4
<1>. QED
  BY <1>1, <1>2 DEF KnownPaths

(* In a state with a correct registry, what a subtree query answers is told by
   the names of the paths. *)
LEMMA SubTreeSuffices ==
  ASSUME RegistryInv
  PROVE  SubTreeIsByName
<1> SUFFICES ASSUME query # <<>>, query[2] = {}
             PROVE  reply.paths = {p \in DOMAIN objects : IsPrefix(NamesOf(query[1]), NamesOf(p))}
  BY DEF SubTreeIsByName
<1> DEFINE root == query[1]
<1>1. reply.paths = {p \in DOMAIN objects : pathIsUnder(root, p)}
  BY DEF RegistryInv, getSubTreePaths
<1>2. root \in Seq(ToSet(root)) /\ IsPath(normalized(root))
  BY BridgeAssumption DEF RegistryInv
<1> HIDE DEF root
<1>3. ASSUME NEW p \in DOMAIN objects
      PROVE  pathIsUnder(root, p) <=> IsPrefix(NamesOf(root), NamesOf(p))
  <2>1. p \in KnownPaths
    BY DEF RegistryInv
  <2>2. PICK S : p \in Seq(S)
    BY <2>1, KnownPathsArePaths
  <2>3. IsPath(p) /\ p # <<>>
    BY <2>1, KnownPathsArePaths
  <2> DEFINE Pieces == S \cup ToSet(root)
  <2>4. root \in Seq(Pieces) /\ p \in Seq(Pieces)
    BY <1>2, <2>2
  <2> HIDE DEF Pieces
  <2>. QED
    BY <1>2, <2>3, <2>4, UnderIsByName
<1>. QED
  BY <1>1, <1>3 DEF root

-----------------------------------------------------------------------------
(***************************************************************************)
(* The routes                                                              *)
(***************************************************************************)

(* Every link handed out is under the chassis there is and leads to the
   collection or to a leak sensor; a request that asks for detectors has passed
   the test of its chassis; and the last answer says of any resource under that
   chassis, whether linked or not, if it was there. *)
RoutesInv ==
  /\ \A uri \in links : uri.chassis = "chassis" /\ uri.detector \in LeakSensor \cup {Collection}
  /\ get # <<>> /\ get[2] = "detectors" =>
       get[1].chassis = "chassis" /\ get[1].detector # LeakDetection
  /\ answer # NoAnswer /\ ~answer.failed =>
       /\ answer.uri.chassis = "chassis" /\ answer.uri.detector # LeakDetection =>
            answer.status = IF answer.uri.detector \in answer.there \cup {Collection}
                              THEN "ok" ELSE "resourceNotFound"
       /\ answer.uri.detector = Collection /\ answer.status = "ok" =>
            {Uri(answer.uri.form, answer.uri.chassis, name) : name \in answer.there}
              \subseteq answer.members

(* Everything is under the empty root. *)
LEMMA UnderEmptyRoot ==
  ASSUME NEW p
  PROVE  pathIsUnder(<<>>, p)
<1>1. {i \in DOMAIN <<>> : <<>>[i] # "/"} = {}
  OBVIOUS
<1>. QED
  BY <1>1 DEF pathIsUnder, normalized

(* The objects of leak sensors are under their root. *)
LEMMA UnderLeakRoot ==
  ASSUME NEW name
  PROVE  pathIsUnder(<<"/", "leak">>, LeakObject(name))
<1> DEFINE root == <<"/", "leak">>
           path == LeakObject(name)
           Kept == {i \in DOMAIN root : root[i] # "/"}
<1>1. Kept = {2}
  OBVIOUS
<1>2. Max(Kept) = 2
  <2>1. {2} \subseteq 1 .. 2 /\ {2} # {} /\ 2 \in Nat
    OBVIOUS
  <2>2. Max({2}) \in {2}
    BY <2>1, MaxExists
  <2>. QED
    BY <1>1, <2>2
<1> DEFINE S == {"/", "leak"}
<1>3. /\ root \in Seq(S) /\ Len(root) = 2 /\ 2 \in Nat
      /\ \A i \in 1 .. 2 : root[i] \in S
  OBVIOUS
<1>4. /\ Len(path) = 4 /\ path[3] = "/"
      /\ \A i \in 1 .. 2 : path[i] = root[i]
  BY DEF LeakObject
<1> HIDE DEF root, path, S
<1>5. SubSeq(root, 1, 2) = root
  <2>1. /\ SubSeq(root, 1, 2) \in Seq(S)
        /\ Len(SubSeq(root, 1, 2)) = 2
        /\ \A i \in 1 .. 2 : SubSeq(root, 1, 2)[i] = root[i]
    BY <1>3, PrefixIs
  <2>. QED
    BY <1>3, <2>1, SeqEqual
<1>6. SubSeq(path, 1, 2) = root
  <2>1. \A i \in 1 .. 2 : path[i] \in S
    BY <1>3, <1>4
  <2>2. /\ SubSeq(path, 1, 2) \in Seq(S)
        /\ Len(SubSeq(path, 1, 2)) = 2
        /\ \A i \in 1 .. 2 : SubSeq(path, 1, 2)[i] = path[i]
    BY <1>3, <2>1, PrefixIs
  <2>3. \A i \in 1 .. 2 : SubSeq(path, 1, 2)[i] = root[i]
    BY <1>4, <2>2
  <2>. QED
    BY <1>3, <2>2, <2>3, SeqEqual
<1>7. IsPrefix(root, path)
  BY <1>3, <1>4, <1>5, <1>6 DEF IsPrefix
<1>8. path[Len(root) + 1] = "/"
  BY <1>3, <1>4
<1>9. Kept # {}
  BY <1>1
<1>. QED
  BY <1>2, <1>5, <1>7, <1>8, <1>9 DEF pathIsUnder, normalized, root, path

(* bmcweb finds the chassis of a bridge that runs, and no other. *)
LEMMA OneChassis ==
  ASSUME RegistryInv, stage = "running", NEW id
  PROVE  IsChassis(id) <=> id = "chassis"
<1>1. /\ Chassis \in DOMAIN objects /\ Chassis \in KnownPaths
      /\ Last(Chassis) = "chassis"
  BY RegisteredAreKnown DEF RegistryInv, Chassis, Last
<1>2. \A p \in DOMAIN objects : "Item.Chassis" \in objects[p].interfaces <=> p = Chassis
  BY KnownInterfaces DEF RegistryInv
<1>3. getSubTreePaths(<<>>, {"Item.Chassis"}) = {Chassis}
  BY <1>1, <1>2, UnderEmptyRoot DEF getSubTreePaths
<1>. QED
  BY <1>1, <1>3 DEF IsChassis

(* The collection finds leak sensors only, and all that are on the bus. *)
LEMMA CollectionIsComplete ==
  ASSUME RegistryInv
  PROVE  /\ getSubTreePaths(<<"/", "leak">>, {"LeakDetector"}) \subseteq LeakObjects
         /\ \A name \in LeakSensor : IsExported(name) =>
              LeakObject(name) \in getSubTreePaths(<<"/", "leak">>, {"LeakDetector"})
<1>1. \A p \in DOMAIN objects : "LeakDetector" \in objects[p].interfaces <=> p \in LeakObjects
  BY KnownInterfaces DEF RegistryInv
<1>2. ASSUME NEW name \in LeakSensor, IsExported(name)
      PROVE  LeakObject(name) \in DOMAIN objects /\ LeakObject(name) \in LeakObjects
  <2>1. LeakObject(name) \in DOMAIN objects
    <3> DEFINE e == <<Inventory, LeakObject(name), "LeakDetector">>
    <3>1. e \in exported /\ e[2] = LeakObject(name)
      BY <1>2 DEF IsExported
    <3> HIDE DEF e
    <3>. QED
      BY <3>1 DEF RegistryInv
  <2>. QED
    BY <2>1 DEF LeakObjects
<1>. QED
  BY <1>1, <1>2, UnderLeakRoot DEF getSubTreePaths

(* Only a leak sensor is exported as one. *)
LEMMA ExportedIsSensor ==
  ASSUME RegistryInv, NEW name, IsExported(name)
  PROVE  name \in LeakSensor
<1> DEFINE e == <<Inventory, LeakObject(name), "LeakDetector">>
<1>1. e \in exported /\ e[2] = LeakObject(name) /\ e[3] = "LeakDetector"
  BY DEF IsExported
<1> HIDE DEF e
<1>2. LeakObject(name) \in KnownPaths /\ "LeakDetector" \in ToSet(InterfacesOf(LeakObject(name)))
  BY <1>1 DEF RegistryInv
<1>3. LeakObject(name) \in LeakObjects
  BY <1>2, KnownInterfaces
<1>4. PICK n \in LeakSensor : LeakObject(name) = LeakObject(n)
  BY <1>3 DEF LeakObjects
<1>5. LeakObject(name)[4] = name /\ LeakObject(n)[4] = n
  BY DEF LeakObject
<1>. QED
  BY <1>4, <1>5

(* A step keeps the registry: the startup, a query, a restart, and the routes,
   which leave it alone. *)
LEMMA RegistryRoutesStep ==
  ASSUME RegistryInv, [RoutesNext]_leakVars
  PROVE  RegistryInv'
<1>1. CASE Next
  BY <1>1, RegistryStep
<1>2. CASE RestartBridge
  <2>1. stage' = "inventory" /\ exported' = {} /\ query' = <<>> /\ DOMAIN objects' = {}
    BY <1>2 DEF RestartBridge
  <2>. QED
    BY <2>1 DEF RegistryInv
<1>3. CASE UNCHANGED vars
  BY <1>3
     DEF vars, RegistryInv, getSubTreePaths, getSubTree, getObject
<1>4. CASE \/ Get \/ SendEvent \/ NoChassis \/ ValidChassis
           \/ LeakDetectionGet \/ CollectionGet \/ DetectorGet \/ CallFails
  <2>1. UNCHANGED vars
    <3>1. CASE NoChassis \/ ValidChassis
      BY <3>1 DEF NoChassis, ValidChassis, vars
    <3>5. CASE Get
      BY <3>5 DEF Get, vars
    <3>6. CASE SendEvent
      BY <3>6 DEF SendEvent, vars
    <3>2. CASE LeakDetectionGet
      BY <3>2 DEF LeakDetectionGet
    <3>3. CASE CollectionGet
      BY <3>3 DEF CollectionGet
    <3>4. CASE DetectorGet \/ CallFails
      BY <3>4 DEF DetectorGet, CallFails, vars
    <3>. QED
      BY <1>4, <3>1, <3>2, <3>3, <3>4, <3>5, <3>6
  <2>. QED
    BY <1>3, <2>1
<1>. QED
  BY <1>1, <1>2, <1>3, <1>4 DEF RoutesNext, leakVars

(* What an answer records. *)
LEMMA AnswerRecords ==
  ASSUME NEW status, NEW members, NEW failed, Answer(status, members, failed)
  PROVE  /\ get' = <<>>
         /\ answer'.uri = get[1] /\ answer'.status = status /\ answer'.members = members
         /\ answer'.failed = failed
         /\ answer'.there = {name \in LeakSensor : IsExported(name)}
  BY DEF Answer

(* A step keeps the links, the request and the answer. *)
LEMMA RoutesStep ==
  ASSUME RegistryInv, RoutesInv, [RoutesNext]_leakVars
  PROVE  RoutesInv'
<1>0. "detectors" # "chassis" /\ Collection # LeakDetection
  BY DEF Collection, LeakDetection
<1>1. CASE UNCHANGED routeVars
  BY <1>1 DEF routeVars, RoutesInv
<1>2. CASE Get
  <2>1. PICK uri : get' = <<uri, "chassis">>
    BY <1>2 DEF Get
  <2>2. get'[2] # "detectors"
    BY <1>0, <2>1
  <2>3. answer' = NoAnswer /\ links' = links
    BY <1>2 DEF Get
  <2>. QED
    BY <2>2, <2>3 DEF RoutesInv
<1>3. CASE SendEvent
  <2>1. PICK name \in LeakSensor : links' = links \cup {originUri(name)}
    BY <1>3 DEF SendEvent
  <2>2. originUri(name).chassis = "chassis" /\ originUri(name).detector = name
    BY DEF originUri, Uri
  <2>3. UNCHANGED <<get, answer>>
    BY <1>3 DEF SendEvent
  <2>4. \A uri \in links' :
          uri.chassis = "chassis" /\ uri.detector \in LeakSensor \cup {Collection}
    BY <2>1, <2>2 DEF RoutesInv
  <2>. QED
    BY <2>3, <2>4 DEF RoutesInv
<1>4. CASE NoChassis
  <2>1. Answer("resourceNotFound", {}, FALSE) /\ links' = links
    BY <1>4 DEF NoChassis
  <2>2. get[1].chassis # "chassis"
    BY <1>4, OneChassis DEF NoChassis, Asks
  <2>3. /\ get' = <<>> /\ answer'.uri = get[1]
        /\ answer'.status = "resourceNotFound"
    BY <2>1, AnswerRecords
  <2>. QED
    BY <2>1, <2>2, <2>3 DEF RoutesInv
<1>5. CASE ValidChassis
  <2>1. get[1].chassis = "chassis" /\ get[1].detector # LeakDetection
    BY <1>5, OneChassis DEF ValidChassis, Asks
  <2>2. get' = <<get[1], "detectors">> /\ UNCHANGED <<answer, links>>
    BY <1>5 DEF ValidChassis
  <2>3. get'[1] = get[1]
    BY <2>2
  <2>. QED
    BY <2>1, <2>2, <2>3 DEF RoutesInv
<1>6. CASE LeakDetectionGet
  <2> DEFINE members == {Uri("Deprecated", get[1].chassis, Collection)}
  <2>1. Answer("ok", members, FALSE) /\ links' = links \cup members
    BY <1>6 DEF LeakDetectionGet
  <2>2. get[1].chassis = "chassis" /\ get[1].detector = LeakDetection
    BY <1>6, OneChassis DEF LeakDetectionGet, Asks
  <2>3. get' = <<>> /\ answer'.uri = get[1]
    BY <2>1, AnswerRecords
  <2>4. \A uri \in members : uri.chassis = "chassis" /\ uri.detector = Collection
    BY <2>2 DEF Uri
  <2> HIDE DEF members
  <2>. QED
    BY <1>0, <2>1, <2>2, <2>3, <2>4 DEF RoutesInv
<1>7. CASE CollectionGet
  <2> DEFINE paths == getSubTreePaths(<<"/", "leak">>, {"LeakDetector"})
             members == {memberUri(get[1], Last(p)) : p \in paths}
             there == {name \in LeakSensor : IsExported(name)}
  <2>1. Answer("ok", members, FALSE) /\ links' = links \cup members
    BY <1>7 DEF CollectionGet
  <2>2. /\ get[1].detector = Collection /\ get[1].chassis = "chassis"
        /\ get # <<>> /\ get[2] = "detectors"
    BY <1>7 DEF CollectionGet, Asks, RoutesInv
  <2>3. /\ get' = <<>> /\ answer'.uri = get[1] /\ answer'.status = "ok"
        /\ answer'.members = members /\ answer'.there = there
    BY <2>1, AnswerRecords
  <2>4. \A name : Last(LeakObject(name)) = name
    BY DEF LeakObject, Last
  <2>5. \A uri \in members : uri.chassis = "chassis" /\ uri.detector \in LeakSensor
    <3>1. paths \subseteq LeakObjects
      BY CollectionIsComplete
    <3> HIDE DEF paths
    <3>2. \A p \in paths : Last(p) \in LeakSensor
      BY <2>4, <3>1 DEF LeakObjects
    <3>. QED
      BY <2>2, <3>2 DEF memberUri, Uri
  <2>6. {Uri(get[1].form, get[1].chassis, name) : name \in there} \subseteq members
    <3>1. \A name \in there : LeakObject(name) \in paths
      BY CollectionIsComplete
    <3> HIDE DEF paths, there
    <3>. QED
      BY <2>4, <3>1 DEF memberUri
  <2> HIDE DEF members, there
  <2>7. \A uri \in links' :
          uri.chassis = "chassis" /\ uri.detector \in LeakSensor \cup {Collection}
    BY <2>1, <2>5 DEF RoutesInv
  <2>. QED
    BY <2>2, <2>3, <2>6, <2>7 DEF RoutesInv
<1>8. CASE DetectorGet
  <2> DEFINE status == IF IsExported(get[1].detector) THEN "ok" ELSE "resourceNotFound"
             there == {name \in LeakSensor : IsExported(name)}
  <2>1. Answer(status, {}, FALSE) /\ links' = links
    BY <1>8 DEF DetectorGet
  <2>2. get[1].detector # Collection
    BY <1>8 DEF DetectorGet
  <2>3. /\ get' = <<>> /\ answer'.uri = get[1] /\ answer'.status = status
        /\ answer'.there = there
    BY <2>1, AnswerRecords
  <2>4. IsExported(get[1].detector) <=> get[1].detector \in there
    BY ExportedIsSensor
  <2>5. status = IF get[1].detector \in there \cup {Collection}
                   THEN "ok" ELSE "resourceNotFound"
    BY <2>2, <2>4
  <2> HIDE DEF status, there
  <2>. QED
    BY <2>1, <2>2, <2>3, <2>5 DEF RoutesInv
<1>9. CASE CallFails
  <2> DEFINE status == IF get[2] = "detectors" /\ get[1].detector # Collection
                         THEN "resourceNotFound" ELSE "internalError"
  <2>1. Answer(status, {}, TRUE) /\ links' = links
    BY <1>9 DEF CallFails
  <2>2. get' = <<>> /\ answer'.failed = TRUE
    BY <2>1, AnswerRecords
  <2>. QED
    BY <2>1, <2>2 DEF RoutesInv
<1>10. CASE RestartBridge
  BY <1>1, <1>10 DEF RestartBridge
<1>11. CASE UNCHANGED leakVars
  BY <1>1, <1>11 DEF leakVars
<1>. QED
  BY <1>1, <1>2, <1>3, <1>4, <1>5, <1>6, <1>7, <1>8, <1>9, <1>10, <1>11 DEF RoutesNext

(* What an answer says of any resource, it says of one that was linked. *)
LEMMA RoutesSuffice ==
  ASSUME RoutesInv
  PROVE  LinksResolve
<1>1. \A name \in LeakSensor \cup {Collection} : name # LeakDetection
  BY LeakRoutesAssumption DEF Collection, LeakDetection
<1>. QED
  BY <1>1 DEF LinksResolve, RoutesInv

-----------------------------------------------------------------------------
(***************************************************************************)
(* The theorems                                                            *)
(***************************************************************************)

(* Before the startup the mapper lists nothing. *)
LEMMA RegistryStarts ==
  ASSUME Init
  PROVE  RegistryInv
<1>1. DOMAIN objects = {} /\ stage = "inventory" /\ exported = {} /\ query = <<>>
  BY DEF Init
<1>. QED
  BY <1>1 DEF RegistryInv

(* The mapper lists what was registered, with every interface, through startups
   that fail in part and restarts. *)
THEOREM RegistryHolds == RoutesSpec => []RegistryInv
<1>1. RoutesInit => RegistryInv
  BY RegistryStarts DEF RoutesInit
<1>2. RegistryInv /\ [RoutesNext]_leakVars => RegistryInv'
  BY RegistryRoutesStep
<1>. QED
  BY <1>1, <1>2, PTL DEF RoutesSpec

(* Whatever part of the startup fails, each interface on the bus is listed. *)
THEOREM BusIsListed == RoutesSpec => []ExportedIsListed
<1>1. RegistryInv => ExportedIsListed
  BY RegistrySuffices
<1>. QED
  BY <1>1, RegistryHolds, PTL

(* A subtree query gives what is under its root name by name, and nothing else. *)
THEOREM SubTreesAreByName == RoutesSpec => []SubTreeIsByName
<1>1. RegistryInv => SubTreeIsByName
  BY SubTreeSuffices
<1>. QED
  BY <1>1, RegistryHolds, PTL

(* GetSubTreePaths, GetSubTree and GetObject agree on every query. *)
THEOREM QueriesAgree == RoutesSpec => []AnswersAgree
<1>1. RegistryInv => AnswersAgree
  BY RegistrySuffices
<1>. QED
  BY <1>1, RegistryHolds, PTL

(* Links lead to their detectors, and collections are complete. *)
THEOREM LinksLeadSomewhere == RoutesSpec => []LinksResolve
<1>1. RoutesInit => RoutesInv
  BY DEF RoutesInit, RoutesInv
<1>2. RegistryInv /\ RoutesInv /\ [RoutesNext]_leakVars => RoutesInv'
  BY RoutesStep
<1>3. RoutesInv => LinksResolve
  BY RoutesSuffice
<1>. QED
  BY <1>1, <1>2, <1>3, RegistryHolds, PTL DEF RoutesSpec

-----------------------------------------------------------------------------
(***************************************************************************)
(* The OEM actions                                                         *)
(***************************************************************************)

Message ==
  {Unanswered, "no_content", "operationFailed", "serviceTemporarilyUnavailable",
   "resourceNotFound", "payloadTooLarge", "malformedJSON", "propertyMissing"}

Posts == UNION {Requests[i] : i \in DOMAIN Requests}

Open == {Unanswered, "serviceTemporarilyUnavailable"}

(***************************************************************************)
(* A call that the bridge has not seen yet is a call like no other, for a  *)
(* payload with an envelope; it has no job, and its client was told        *)
(* nothing, or to come again later.                                        *)
(***************************************************************************)
RequestTypes ==
  /\ posted \in Seq(Posts) /\ answers \in Seq(Message)
  /\ Len(answers) = Len(posted)
  /\ calls \in Seq(1 .. Len(posted))
  /\ accepted \subseteq 1 .. Len(posted)

CallsDiffer == \A i, j \in DOMAIN calls : i # j => calls[i] # calls[j]

Forwarded(r) == HasEnvelope(posted[r].mode, posted[r].body)

CallsAreOpen ==
  \A k \in DOMAIN calls :
    Forwarded(calls[k]) /\ calls[k] \notin accepted /\ answers[calls[k]] \in Open

AnswersInv == RequestTypes /\ CallsDiffer /\ CallsAreOpen /\ AnswersTell

(* Lengths and places when one more is appended. *)
LEMMA OneMore ==
  ASSUME NEW S, NEW s \in Seq(S), NEW e \in S
  PROVE  /\ Append(s, e) \in Seq(S)
         /\ Len(Append(s, e)) = Len(s) + 1
         /\ DOMAIN s = 1 .. Len(s) /\ Len(s) \in Nat
         /\ DOMAIN Append(s, e) = 1 .. Len(s) + 1
         /\ \A i \in 1 .. Len(s) : Append(s, e)[i] = s[i] /\ s[i] \in S
         /\ Append(s, e)[Len(s) + 1] = e
BY AppendProperties, LenProperties, ElementOfSeq

(* The answer that a request gets at once: none, if it has an envelope. *)
LEMMA RefusalType ==
  ASSUME NEW request
  PROVE  /\ Refusal(request) \in Message \ {"no_content", "serviceTemporarilyUnavailable"}
         /\ Refusal(request) = Unanswered => HasEnvelope(request.mode, request.body)
BY DEF Refusal, EnvelopeAsked, Message, Unanswered

(* What AnswersInv says, place by place. *)
LEMMA CallPlaces ==
  ASSUME AnswersInv
  PROVE  /\ Len(posted) \in Nat /\ Len(calls) \in Nat
         /\ DOMAIN answers = 1 .. Len(posted)
         /\ DOMAIN calls = 1 .. Len(calls)
         /\ ToSet(calls) = {calls[k] : k \in 1 .. Len(calls)}
         /\ \A k \in 1 .. Len(calls) : calls[k] \in 1 .. Len(posted)
BY LenProperties, ElementOfSeq DEF AnswersInv, RequestTypes, ToSet

(* bmcweb's part of the step. *)
LEMMA PostKeeps ==
  ASSUME AnswersInv, NEW request \in Posts, Post(request)
  PROVE  AnswersInv'
<1> DEFINE n == Len(posted) + 1
<1>1. /\ posted \in Seq(Posts) /\ answers \in Seq(Message)
      /\ Len(answers) = Len(posted) /\ calls \in Seq(1 .. Len(posted))
      /\ accepted \subseteq 1 .. Len(posted)
  BY DEF AnswersInv, RequestTypes
<1>2. /\ Len(posted) \in Nat /\ DOMAIN answers = 1 .. Len(posted)
      /\ DOMAIN calls = 1 .. Len(calls) /\ Len(calls) \in Nat
      /\ ToSet(calls) = {calls[k] : k \in 1 .. Len(calls)}
      /\ \A k \in 1 .. Len(calls) : calls[k] \in 1 .. Len(posted)
  BY CallPlaces
<1>3. /\ posted' = Append(posted, request) /\ accepted' = accepted
      /\ posted' \in Seq(Posts) /\ Len(posted') = n /\ posted'[n] = request
      /\ \A r \in 1 .. Len(posted) : posted'[r] = posted[r]
  BY <1>1, OneMore DEF Post
<1>4. PICK message \in Message \ {"no_content"} :
        /\ answers' = Append(answers, message)
        /\ \/ /\ message = Unanswered /\ calls' = Append(calls, n)
              /\ HasEnvelope(request.mode, request.body)
           \/ message # Unanswered /\ calls' = calls
  BY <1>3, RefusalType DEF Post, Message, Unanswered
<1>5. /\ answers' \in Seq(Message) /\ Len(answers') = n /\ DOMAIN answers' = 1 .. n
      /\ answers'[n] = message
      /\ \A r \in 1 .. Len(posted) : answers'[r] = answers[r]
  BY <1>1, <1>4, OneMore
<1>6. CASE message = Unanswered
  <2>1. calls' = Append(calls, n) /\ HasEnvelope(request.mode, request.body)
    BY <1>4, <1>6
  <2>2. calls \in Seq(1 .. n) /\ n \in 1 .. n
    BY <1>1, <1>2, SeqMonotonic
  <2>3. /\ calls' \in Seq(1 .. n) /\ DOMAIN calls' = 1 .. Len(calls) + 1
        /\ \A k \in 1 .. Len(calls) : calls'[k] = calls[k]
        /\ calls'[Len(calls) + 1] = n
    BY <2>1, <2>2, OneMore
  <2>4. ToSet(calls') \subseteq ToSet(calls) \cup {n}
    <3> SUFFICES ASSUME NEW k \in 1 .. Len(calls) + 1
                 PROVE  calls'[k] \in ToSet(calls) \cup {n}
      BY <2>3 DEF ToSet
    <3>1. CASE k \in 1 .. Len(calls)
      BY <1>2, <2>3, <3>1
    <3>2. CASE k = Len(calls) + 1
      BY <2>3, <3>2
    <3>. QED
      BY <1>2, <3>1, <3>2
  <2>5. RequestTypes'
    BY <1>1, <1>2, <1>3, <1>5, <2>3 DEF RequestTypes
  <2>6. CallsDiffer'
    BY <1>2, <2>3 DEF AnswersInv, CallsDiffer
  <2>7. CallsAreOpen'
    <3> SUFFICES ASSUME NEW k \in 1 .. Len(calls) + 1
                 PROVE  /\ Forwarded(calls[k])'
                        /\ calls'[k] \notin accepted' /\ answers'[calls'[k]] \in Open
      BY <2>3 DEF CallsAreOpen
    <3>1. CASE k \in 1 .. Len(calls)
      <4>1. Forwarded(calls[k]) /\ calls[k] \notin accepted /\ answers[calls[k]] \in Open
        BY <1>2, <3>1 DEF AnswersInv, CallsAreOpen
      <4>2. /\ calls'[k] = calls[k] /\ calls[k] \in 1 .. Len(posted)
            /\ posted'[calls[k]] = posted[calls[k]]
            /\ answers'[calls[k]] = answers[calls[k]]
        BY <1>2, <1>3, <1>5, <2>3, <3>1
      <4>. QED
        BY <1>3, <4>1, <4>2 DEF Forwarded
    <3>2. CASE k = Len(calls) + 1
      BY <1>1, <1>2, <1>3, <1>5, <1>6, <2>1, <2>3, <3>2 DEF Forwarded, Open
    <3>. QED
      BY <1>2, <3>1, <3>2
  <2>8. AnswersTell'
    BY <1>2, <1>3, <1>5, <1>6, <2>4 DEF AnswersInv, AnswersTell, Unanswered
  <2>. QED
    BY <2>5, <2>6, <2>7, <2>8 DEF AnswersInv
<1>7. CASE message # Unanswered
  <2>1. calls' = calls
    BY <1>4, <1>7
  <2>2. calls \in Seq(1 .. n)
    BY <1>1, <1>2, SeqMonotonic
  <2>3. RequestTypes'
    BY <1>1, <1>2, <1>3, <1>5, <2>1, <2>2 DEF RequestTypes
  <2>4. CallsDiffer' /\ CallsAreOpen'
    <3>1. CallsDiffer'
      BY <2>1 DEF AnswersInv, CallsDiffer
    <3>2. \A k \in DOMAIN calls : /\ posted'[calls[k]] = posted[calls[k]]
                                 /\ answers'[calls[k]] = answers[calls[k]]
      BY <1>2, <1>3, <1>5
    <3>. QED
      BY <1>3, <2>1, <3>1, <3>2 DEF AnswersInv, CallsAreOpen, Forwarded
  <2>5. n \notin accepted \cup ToSet(calls)
    BY <1>1, <1>2
  <2>6. AnswersTell'
    <3> SUFFICES ASSUME NEW r \in 1 .. n
                 PROVE  /\ answers'[r] # "no_content" \/ r \in accepted
                        /\ answers'[r] \notin {Unanswered, "no_content",
                                               "serviceTemporarilyUnavailable"}
                             => r \notin accepted \cup ToSet(calls)
      BY <1>3, <1>5, <2>1 DEF AnswersTell
    <3>1. CASE r = n
      BY <1>5, <2>5, <3>1
    <3>2. CASE r \in 1 .. Len(posted)
      BY <1>2, <1>5, <3>2 DEF AnswersInv, AnswersTell
    <3>. QED
      BY <1>2, <3>1, <3>2
  <2>. QED
    BY <2>3, <2>4, <2>6 DEF AnswersInv
<1>. QED
  BY <1>6, <1>7

(* A call that takes too long leaves its payload with the bridge. *)
LEMMA TimesOutKeeps ==
  ASSUME AnswersInv, TimesOut
  PROVE  AnswersInv'
<1>1. PICK r \in ToSet(calls) :
        /\ answers[r] = Unanswered
        /\ answers' = [answers EXCEPT ![r] = "serviceTemporarilyUnavailable"]
  BY DEF TimesOut
<1>2. UNCHANGED <<posted, calls, accepted>>
  BY DEF TimesOut
<1>3. /\ DOMAIN answers = 1 .. Len(posted) /\ r \in 1 .. Len(posted)
  BY <1>1, CallPlaces
<1>4. answers' \in Seq(Message) /\ Len(answers') = Len(answers)
  BY <1>1, <1>3, ExceptSeq DEF AnswersInv, RequestTypes, Message
<1>5. /\ DOMAIN answers' = DOMAIN answers
      /\ answers'[r] = "serviceTemporarilyUnavailable"
      /\ \A s \in DOMAIN answers : s # r => answers'[s] = answers[s]
  BY <1>1, <1>3
<1>6. RequestTypes' /\ CallsDiffer'
  BY <1>2, <1>4 DEF AnswersInv, RequestTypes, CallsDiffer
<1>7. CallsAreOpen'
  BY <1>2, <1>3, <1>5, CallPlaces DEF AnswersInv, CallsAreOpen, Open, Forwarded
<1>8. AnswersTell'
  BY <1>2, <1>5 DEF AnswersInv, AnswersTell, Unanswered
<1>. QED
  BY <1>6, <1>7, <1>8 DEF AnswersInv

(* What the bridge does with the oldest call: a job for a payload, unless the
   queue is full; and the answer, if bmcweb still waits for it. *)
LEMMA SubmitMethodDoes ==
  ASSUME AnswersInv, SubmitMethod
  PROVE  LET r == Head(calls)
             status == IF Full THEN "operationFailed" ELSE "no_content"
         IN /\ r = calls[1] /\ Len(calls) \in Nat \ {0}
            /\ accepted' = IF Full THEN accepted ELSE accepted \cup {r}
            /\ answers' = IF answers[r] = Unanswered THEN [answers EXCEPT ![r] = status]
                                                     ELSE answers
<1>1. /\ calls \in Seq(1 .. Len(posted)) /\ calls # <<>>
  BY DEF AnswersInv, RequestTypes, SubmitMethod
<1>2. Head(calls) = calls[1] /\ Len(calls) \in Nat \ {0}
  BY <1>1, HeadTailProperties, LenProperties, EmptySeq
<1>3. Forwarded(Head(calls))
  BY <1>2, CallPlaces DEF AnswersInv, CallsAreOpen
<1>4. /\ Push(Head(calls))
      /\ Reply(Head(calls), IF Full THEN "operationFailed" ELSE "no_content")
  BY <1>3 DEF SubmitMethod, Forwarded
<1>. QED
  BY <1>2, <1>4 DEF Push, Reply

LEMMA SubmitMethodKeeps ==
  ASSUME AnswersInv, SubmitMethod
  PROVE  AnswersInv'
<1> DEFINE r == Head(calls)
           status == IF Full THEN "operationFailed" ELSE "no_content"
<1>1. /\ r = calls[1] /\ Len(calls) \in Nat \ {0}
      /\ accepted' = IF Full THEN accepted ELSE accepted \cup {r}
      /\ answers' = IF answers[r] = Unanswered THEN [answers EXCEPT ![r] = status]
                                               ELSE answers
  BY SubmitMethodDoes
<1>2. /\ calls \in Seq(1 .. Len(posted)) /\ calls # <<>>
      /\ posted' = posted /\ calls' = Tail(calls)
  BY DEF AnswersInv, RequestTypes, SubmitMethod
<1>3. /\ Len(posted) \in Nat /\ DOMAIN answers = 1 .. Len(posted)
      /\ DOMAIN calls = 1 .. Len(calls)
      /\ ToSet(calls) = {calls[k] : k \in 1 .. Len(calls)}
      /\ \A k \in 1 .. Len(calls) : calls[k] \in 1 .. Len(posted)
  BY CallPlaces
<1>4. /\ calls' \in Seq(1 .. Len(posted)) /\ DOMAIN calls' = 1 .. Len(calls) - 1
      /\ \A k \in 1 .. Len(calls) - 1 : calls'[k] = calls[k + 1]
  BY <1>2, <1>1, HeadTailProperties, LenProperties
<1>5. r \in 1 .. Len(posted) /\ answers[r] \in Open /\ r \notin accepted
  BY <1>1, <1>3 DEF AnswersInv, CallsAreOpen
<1> HIDE DEF r
<1>6. /\ \A k \in 1 .. Len(calls) - 1 : calls'[k] \in ToSet(calls) \ {r}
      /\ ToSet(calls') \subseteq ToSet(calls) \ {r}
  <2>1. \A k \in 1 .. Len(calls) - 1 : k + 1 \in 1 .. Len(calls) /\ k + 1 # 1
    BY <1>1
  <2>2. \A k \in 1 .. Len(calls) - 1 : calls'[k] \in ToSet(calls) \ {r}
    <3> SUFFICES ASSUME NEW k \in 1 .. Len(calls) - 1
                 PROVE  calls'[k] \in ToSet(calls) /\ calls'[k] # r
      OBVIOUS
    <3>1. 1 \in DOMAIN calls /\ k + 1 \in DOMAIN calls /\ k + 1 # 1
      BY <1>1, <1>3, <2>1
    <3>2. calls[k + 1] # calls[1]
      BY <3>1 DEF AnswersInv, CallsDiffer
    <3>. QED
      BY <1>1, <1>3, <1>4, <3>1, <3>2
  <2>. QED
    BY <1>4, <2>2 DEF ToSet
<1>7. /\ answers' \in Seq(Message) /\ Len(answers') = Len(answers)
      /\ DOMAIN answers' = DOMAIN answers
      /\ \A s \in DOMAIN answers : s # r => answers'[s] = answers[s]
      /\ answers'[r] = IF answers[r] = Unanswered THEN status ELSE answers[r]
  <2>1. CASE answers[r] = Unanswered
    <3>1. status \in Message
      BY DEF Message
    <3>2. answers \in Seq(Message)
      BY DEF AnswersInv, RequestTypes
    <3>. HIDE DEF status
    <3>. QED
      BY <1>1, <1>3, <1>5, <2>1, <3>1, <3>2, ExceptSeq
  <2>2. CASE answers[r] # Unanswered
    BY <1>1, <2>2 DEF AnswersInv, RequestTypes
  <2>. QED
    BY <2>1, <2>2
<1>8. RequestTypes'
  BY <1>1, <1>2, <1>4, <1>5, <1>7 DEF AnswersInv, RequestTypes
<1>9. CallsDiffer'
  <2>1. \A i, j \in 1 .. Len(calls) - 1 : i # j =>
          i + 1 \in 1 .. Len(calls) /\ j + 1 \in 1 .. Len(calls) /\ i + 1 # j + 1
    BY <1>1
  <2>2. \A i, j \in 1 .. Len(calls) : i # j => calls[i] # calls[j]
    BY <1>3 DEF AnswersInv, CallsDiffer
  <2>3. \A i, j \in 1 .. Len(calls) - 1 : i # j => calls[i + 1] # calls[j + 1]
    BY <2>1, <2>2
  <2>. QED
    BY <1>4, <2>3 DEF CallsDiffer
<1>10. CallsAreOpen'
  <2> SUFFICES ASSUME NEW k \in 1 .. Len(calls) - 1
               PROVE  /\ Forwarded(calls[k])'
                      /\ calls'[k] \notin accepted' /\ answers'[calls'[k]] \in Open
    BY <1>4 DEF CallsAreOpen
  <2>1. /\ k + 1 \in 1 .. Len(calls) /\ calls'[k] = calls[k + 1] /\ calls'[k] # r
    BY <1>1, <1>4, <1>6
  <2>2. /\ Forwarded(calls[k + 1]) /\ calls[k + 1] \notin accepted
        /\ answers[calls[k + 1]] \in Open /\ calls[k + 1] \in DOMAIN answers
    BY <1>3, <2>1 DEF AnswersInv, CallsAreOpen
  <2>. QED
    BY <1>1, <1>2, <1>7, <2>1, <2>2 DEF Forwarded
<1>11. AnswersTell'
  <2> SUFFICES ASSUME NEW s \in DOMAIN answers
               PROVE  /\ answers'[s] = "no_content" => s \in accepted'
                      /\ answers'[s] \notin {Unanswered, "no_content",
                                             "serviceTemporarilyUnavailable"}
                           => s \notin accepted' \cup ToSet(calls')
    BY <1>7 DEF AnswersTell
  <2>1. CASE s = r
    BY <1>1, <1>5, <1>6, <1>7, <2>1 DEF Open, Unanswered
  <2>2. CASE s # r
    <3>1. answers'[s] = answers[s]
      BY <1>7, <2>2
    <3>2. accepted \subseteq accepted' /\ accepted' \subseteq accepted \cup {r}
      BY <1>1
    <3>. QED
      BY <1>6, <2>2, <3>1, <3>2 DEF AnswersInv, AnswersTell
  <2>. QED
    BY <2>1, <2>2
<1>. QED
  BY <1>8, <1>9, <1>10, <1>11 DEF AnswersInv

LEMMA RequestStep ==
  ASSUME AnswersInv, [RequestsNext]_requestVars
  PROVE  AnswersInv'
<1>1. CASE Len(posted) < Len(Requests)
           /\ \E request \in Requests[Len(posted) + 1] : Post(request)
  <2>1. Len(posted) \in Nat
    BY CallPlaces
  <2>2. Len(posted) + 1 \in DOMAIN Requests
    BY <1>1, <2>1, OemAssumption
  <2>3. PICK request \in Requests[Len(posted) + 1] : Post(request)
    BY <1>1
  <2>4. request \in Posts
    BY <2>2 DEF Posts
  <2>. QED
    BY <2>3, <2>4, PostKeeps
<1>2. CASE TimesOut
  BY <1>2, TimesOutKeeps
<1>3. CASE SubmitMethod
  BY <1>3, SubmitMethodKeeps
<1>4. CASE Drain \/ UNCHANGED requestVars
  <2>1. UNCHANGED <<posted, answers, calls, accepted>>
    BY <1>4 DEF Drain, requestVars
  <2>. QED
    BY <2>1 DEF AnswersInv, RequestTypes, CallsDiffer, CallsAreOpen, Forwarded, AnswersTell
<1>. QED
  BY <1>1, <1>2, <1>3, <1>4 DEF RequestsNext

LEMMA AnswersInvariant == RequestsSpec => []AnswersInv
<1>1. RequestsInit => AnswersInv
  <2> SUFFICES ASSUME RequestsInit PROVE AnswersInv
    OBVIOUS
  <2>1. /\ posted = <<>> /\ answers = <<>> /\ calls = <<>> /\ accepted = {}
    BY DEF RequestsInit
  <2>2. DOMAIN answers = {} /\ DOMAIN calls = {}
    BY <2>1
  <2>3. RequestTypes
    BY <2>1 DEF RequestTypes
  <2>. QED
    BY <2>2, <2>3 DEF AnswersInv, CallsDiffer, CallsAreOpen, AnswersTell
<1>2. AnswersInv /\ [RequestsNext]_requestVars => AnswersInv'
  BY RequestStep
<1>. QED
  BY <1>1, <1>2, PTL DEF RequestsSpec

(* What an answer says of the job is true, whenever the bridge got to the call
   (sonic_submit_alert.hpp, rack_manager_receiver.cpp). *)
THEOREM AnswersAreTrue == RequestsSpec => []AnswersTell
<1>1. AnswersInv => AnswersTell
  BY DEF AnswersInv
<1>. QED
  BY <1>1, AnswersInvariant, PTL

(* The bridge refuses what bmcweb forwarded only if its queue is full: a payload
   that waits has been found to have an envelope. *)
THEOREM RefusedIsFull == RequestsSpec => OnlyAFullQueueRefuses
<1> DEFINE Refuses(r) == answers[r] = Unanswered /\ answers'[r] = "operationFailed"
<1>1. AnswersInv /\ [RequestsNext]_requestVars =>
        [\A r \in DOMAIN answers : Refuses(r) => Full]_requestVars
  <2> SUFFICES ASSUME AnswersInv, RequestsNext, NEW r \in DOMAIN answers, Refuses(r)
               PROVE  Full
    OBVIOUS
  <2>1. /\ answers[r] = Unanswered /\ answers'[r] = "operationFailed"
        /\ "operationFailed" # Unanswered
        /\ r \in 1 .. Len(posted) /\ Len(posted) \in Nat
        /\ answers \in Seq(Message) /\ Len(answers) = Len(posted)
    BY CallPlaces DEF Unanswered, AnswersInv, RequestTypes
  <2>2. CASE \E request \in Requests[Len(posted) + 1] : Post(request)
    <3>1. PICK message \in Message : answers' = Append(answers, message)
      BY <2>2, RefusalType DEF Post, Message
    <3>. QED
      BY <2>1, <3>1, OneMore
  <2>3. CASE TimesOut
    BY <2>1, <2>3 DEF TimesOut
  <2>4. CASE SubmitMethod
    <3>1. answers' = IF answers[Head(calls)] = Unanswered
                       THEN [answers EXCEPT ![Head(calls)] =
                               IF Full THEN "operationFailed" ELSE "no_content"]
                       ELSE answers
      BY <2>4, SubmitMethodDoes
    <3>. QED
      BY <2>1, <3>1
  <2>5. CASE Drain
    BY <2>1, <2>5 DEF Drain
  <2>. QED
    BY <2>2, <2>3, <2>4, <2>5 DEF RequestsNext
<1>. QED
  BY <1>1, AnswersInvariant, PTL DEF RequestsSpec, OnlyAFullQueueRefuses

-----------------------------------------------------------------------------
(***************************************************************************)
(* Lists of lists                                                          *)
(***************************************************************************)
(* The function that FlattenSeq builds. *)
Flattened(seqs, f) ==
  f = [i \in 1 .. Len(seqs) |-> IF i = 1 THEN seqs[i] ELSE f[i - 1] \o seqs[i]]

(* There is one: the recursion goes down to the first element. *)
LEMMA FlattenExists ==
  ASSUME NEW seqs, Len(seqs) \in Nat
  PROVE  \E f : Flattened(seqs, f)
<1> DEFINE Upto(k) == \E f : f = [i \in 1 .. k |-> IF i = 1 THEN seqs[i] ELSE f[i - 1] \o seqs[i]]
           T == {k \in Nat : Upto(k)}
<1>1. 0 \in T
  <2>1. [i \in 1 .. 0 |-> 0] = [i \in 1 .. 0 |-> IF i = 1 THEN seqs[i] ELSE [j \in 1 .. 0 |-> 0][i - 1] \o seqs[i]]
    OBVIOUS
  <2>. QED
    BY <2>1
<1>2. ASSUME NEW k \in 0 .. Len(seqs), k \in T
      PROVE  k + 1 \in T
  <2>1. PICK f : f = [i \in 1 .. k |-> IF i = 1 THEN seqs[i] ELSE f[i - 1] \o seqs[i]]
    BY <1>2
  <2> DEFINE g == [i \in 1 .. k + 1 |-> IF i = k + 1 THEN IF i = 1 THEN seqs[i] ELSE f[k] \o seqs[i]
                                         ELSE f[i]]
  <2>2. ASSUME NEW i \in 1 .. k + 1
        PROVE  g[i] = IF i = 1 THEN seqs[i] ELSE g[i - 1] \o seqs[i]
    <3>1. CASE i = k + 1
      <4>1. i # 1 => g[i - 1] = f[k]
        BY <3>1
      <4>. QED
        BY <3>1, <4>1
    <3>2. CASE i # k + 1
      <4>1. i \in 1 .. k /\ g[i] = f[i]
        BY <3>2
      <4>2. i # 1 => g[i - 1] = f[i - 1]
        BY <4>1
      <4>3. f[i] = IF i = 1 THEN seqs[i] ELSE f[i - 1] \o seqs[i]
        BY <2>1, <4>1
      <4>. QED
        BY <4>1, <4>2, <4>3
    <3>. QED
      BY <3>1, <3>2
  <2>3. DOMAIN g = 1 .. k + 1 /\ g = [i \in DOMAIN g |-> g[i]]
    OBVIOUS
  <2> HIDE DEF g
  <2>4. g = [i \in 1 .. k + 1 |-> IF i = 1 THEN seqs[i] ELSE g[i - 1] \o seqs[i]]
    BY <2>2, <2>3
  <2> DEFINE R(h) == h = [i \in 1 .. k + 1 |-> IF i = 1 THEN seqs[i] ELSE h[i - 1] \o seqs[i]]
  <2>5. R(g)
    BY <2>4
  <2> HIDE DEF R
  <2>6. \E h : R(h)
    BY <2>5
  <2>7. Upto(k + 1)
    BY <2>6 DEF R
  <2> HIDE DEF Upto
  <2>. QED
    BY <2>7
<1> HIDE DEF T
<1>3. 0 .. Len(seqs) \subseteq T
  BY <1>1, <1>2, UpTo
<1>4. Upto(Len(seqs))
  <2> HIDE DEF Upto
  <2>. QED
    BY <1>3 DEF T
<1>. QED
  BY <1>4 DEF Flattened

(* So FlattenSeq() gives its last value. *)
LEMMA FlattenIs ==
  ASSUME NEW seqs, Len(seqs) \in Nat \ {0}
  PROVE  \E f : Flattened(seqs, f) /\ FlattenSeq(seqs) = f[Len(seqs)]
<1> DEFINE f == CHOOSE g : Flattened(seqs, g)
<1>1. Flattened(seqs, f)
  BY FlattenExists
<1>2. FlattenSeq(seqs) = f[Len(seqs)]
  BY DEF FlattenSeq, Flattened
<1>. QED
  BY <1>1, <1>2

-----------------------------------------------------------------------------
(***************************************************************************)
(* What a list of reports tells of a sensor                                *)
(***************************************************************************)

(* Every report that may be found in a document. *)
ReportsOf(document) ==
  {Report(sensor, severity, value) :
     sensor \in Measurement \cup {Leak},
     severity \in {"none"} \cup {document[place].severity : place \in DOMAIN document},
     value \in {0} \cup {document[place].value : place \in DOMAIN document}}

(* The report is what the place says of the sensor. *)
IsReportAt(document, sensor, place, report) ==
  /\ report.sensor = sensor
  /\ report.severity = normalizeSeverity(NearestSeverity(document, place))
  /\ sensor # Leak => report.value = document[place].value

(* The last one of the places is the one that the last report on the sensor is
   of; without a place there is no report. *)
IsLastOf(place, places) == \A other \in places \ {place} : Before(other, place)

Tells(document, sensor, reports, places) ==
  /\ reports \in Seq(ReportsOf(document))
  /\ places = {} => \A i \in 1 .. Len(reports) : reports[i].sensor # sensor
  /\ places # {} =>
       \E place \in places : \E i \in 1 .. Len(reports) :
         /\ IsLastOf(place, places)
         /\ IsReportAt(document, sensor, place, reports[i])
         /\ \A j \in i + 1 .. Len(reports) : reports[j].sensor # sensor

(* No report tells of no place. *)
LEMMA NothingTells ==
  ASSUME NEW document, NEW sensor
  PROVE  Tells(document, sensor, <<>>, {})
BY EmptySeq DEF Tells

(* A report on another sensor does. *)
LEMMA OtherTells ==
  ASSUME NEW document, NEW sensor, NEW report \in ReportsOf(document), report.sensor # sensor
  PROVE  Tells(document, sensor, <<report>>, {})
<1>1. <<report>> \in Seq(ReportsOf(document)) /\ Len(<<report>>) = 1 /\ <<report>>[1] = report
  OBVIOUS
<1>. QED
  BY <1>1 DEF Tells

(* One report on the sensor tells of its place. *)
LEMMA OneTells ==
  ASSUME NEW document, NEW sensor, NEW place, NEW report \in ReportsOf(document),
         IsReportAt(document, sensor, place, report)
  PROVE  Tells(document, sensor, <<report>>, {place})
<1>1. <<report>> \in Seq(ReportsOf(document)) /\ Len(<<report>>) = 1 /\ <<report>>[1] = report
  OBVIOUS
<1>2. IsLastOf(place, {place})
  BY DEF IsLastOf
<1>. QED
  BY <1>1, <1>2 DEF Tells

(* What comes later is what the whole tells, if it tells anything. *)
LEMMA BothTell ==
  ASSUME NEW document, NEW sensor, NEW first, NEW places, NEW second, NEW later,
         Tells(document, sensor, first, places), Tells(document, sensor, second, later),
         \A p \in places : \A q \in later : Before(p, q)
  PROVE  Tells(document, sensor, first \o second, places \cup later)
<1> DEFINE R == ReportsOf(document)
           both == first \o second
           m == Len(first)
           n == Len(second)
<1>1. first \in Seq(R) /\ second \in Seq(R) /\ m \in Nat /\ n \in Nat
  BY LenProperties DEF Tells
<1>2. /\ both \in Seq(R) /\ Len(both) = m + n
      /\ \A i \in 1 .. m + n : both[i] = IF i <= m THEN first[i] ELSE second[i - m]
  BY <1>1, ConcatProperties
<1> HIDE DEF R, both
<1>3. ASSUME later = {}
      PROVE  Tells(document, sensor, both, places \cup later)
  <2>1. \A j \in 1 .. n : second[j].sensor # sensor
    BY <1>3 DEF Tells
  <2>2. \A j \in m + 1 .. m + n : both[j].sensor # sensor
    <3> SUFFICES ASSUME NEW j \in m + 1 .. m + n PROVE both[j].sensor # sensor
      OBVIOUS
    <3>1. j \in 1 .. m + n /\ ~(j <= m) /\ j - m \in 1 .. n
      BY <1>1
    <3>. QED
      BY <1>2, <2>1, <3>1
  <2>3. \A i \in 1 .. m : both[i] = first[i] /\ i \in 1 .. m + n
    BY <1>1, <1>2
  <2>4. CASE places = {}
    <3>1. \A i \in 1 .. m : first[i].sensor # sensor
      BY <2>4 DEF Tells
    <3>2. \A i \in 1 .. m + n : both[i].sensor # sensor
      BY <1>1, <2>2, <2>3, <3>1
    <3>. QED
      BY <1>2, <1>3, <2>4, <3>2 DEF Tells, R
  <2>5. CASE places # {}
    <3>1. PICK place \in places, i \in 1 .. m :
            /\ IsLastOf(place, places)
            /\ IsReportAt(document, sensor, place, first[i])
            /\ \A j \in i + 1 .. m : first[j].sensor # sensor
      BY <2>5 DEF Tells
    <3>2. i \in 1 .. m + n /\ both[i] = first[i]
      BY <2>3
    <3>3. \A j \in i + 1 .. m + n : both[j].sensor # sensor
      <4> SUFFICES ASSUME NEW j \in i + 1 .. m + n PROVE both[j].sensor # sensor
        OBVIOUS
      <4>1. CASE j <= m
        BY <1>1, <2>3, <3>1, <4>1
      <4>2. CASE ~(j <= m)
        BY <1>1, <2>2, <4>2
      <4>. QED
        BY <4>1, <4>2
    <3>. QED
      BY <1>2, <1>3, <3>1, <3>2, <3>3 DEF Tells, R
  <2>. QED
    BY <2>4, <2>5
<1>4. ASSUME later # {}
      PROVE  Tells(document, sensor, both, places \cup later)
  <2>1. PICK place \in later, i \in 1 .. n :
          /\ IsLastOf(place, later)
          /\ IsReportAt(document, sensor, place, second[i])
          /\ \A j \in i + 1 .. n : second[j].sensor # sensor
    BY <1>4 DEF Tells
  <2>2. IsLastOf(place, places \cup later)
    BY <2>1 DEF IsLastOf
  <2>3. m + i \in 1 .. m + n /\ both[m + i] = second[i]
    <3>1. m + i \in 1 .. m + n /\ ~(m + i <= m) /\ (m + i) - m = i
      BY <1>1
    <3>. QED
      BY <1>2, <3>1
  <2>4. ASSUME NEW j \in (m + i) + 1 .. m + n
        PROVE  both[j].sensor # sensor
    <3>1. j \in 1 .. m + n /\ ~(j <= m) /\ j - m \in i + 1 .. n
      BY <1>1
    <3>. QED
      BY <1>2, <2>1, <3>1
  <2>. QED
    BY <1>2, <2>1, <2>2, <2>3, <2>4 DEF Tells, R
<1>. QED
  BY <1>3, <1>4 DEF both

(* A beginning and several lists, one after the other. *)
OneAfterTheOther(places, n, later) ==
  /\ \A p \in places : \A i \in 1 .. n : \A q \in later[i] : Before(p, q)
  /\ \A i, j \in 1 .. n : i < j => \A p \in later[i] : \A q \in later[j] : Before(p, q)

EachTells(document, sensor, n, lists, later) ==
  /\ Len(lists) = n /\ lists = [i \in 1 .. n |-> lists[i]]
  /\ \A i \in 1 .. n : Tells(document, sensor, lists[i], later[i])

Together(places, n, later) == places \cup UNION {later[i] : i \in 1 .. n}

(* So tells the whole, if the places of the lists are in this order. *)
LEMMA AllTell ==
  ASSUME NEW document, NEW sensor, NEW first, NEW places,
         Tells(document, sensor, first, places),
         NEW n \in Nat, NEW lists, NEW later,
         EachTells(document, sensor, n, lists, later),
         OneAfterTheOther(places, n, later)
  PROVE  /\ Tells(document, sensor, first \o FlattenSeq(lists), Together(places, n, later))
         /\ FlattenSeq(lists) \in Seq(ReportsOf(document))
<1> USE DEF OneAfterTheOther, EachTells, Together
<1> DEFINE R == ReportsOf(document)
<1>1. first \in Seq(R) /\ first \o <<>> = first
  BY ConcatEmptySeq DEF Tells
<1>2. \A i \in 1 .. n : lists[i] \in Seq(R)
  BY DEF Tells
<1>3. CASE n = 0
  <2>1. FlattenSeq(lists) = <<>> /\ FlattenSeq(lists) \in Seq(R)
    BY <1>3 DEF FlattenSeq
  <2>2. places \cup UNION {later[i] : i \in 1 .. n} = places
    BY <1>3
  <2>. QED
    BY <1>1, <2>1, <2>2
<1>4. CASE n # 0
  <2>1. PICK f : Flattened(lists, f) /\ FlattenSeq(lists) = f[n]
    BY <1>4, FlattenIs
  <2> DEFINE Upto(k) == UNION {later[i] : i \in 1 .. k}
             T == {k \in Nat : \/ k = 0
                               \/ /\ f[k] \in Seq(R)
                                  /\ Tells(document, sensor, first \o f[k], places \cup Upto(k))}
  <2>2. 0 \in T
    OBVIOUS
  <2>3. ASSUME NEW k \in 0 .. n, k \in T, k < n
        PROVE  k + 1 \in T
    <3>1. k + 1 \in 1 .. n /\ k + 1 # 0 /\ (k + 1) - 1 = k /\ k \in Nat
      BY <2>3
    <3>2. /\ f[k + 1] = IF k + 1 = 1 THEN lists[k + 1] ELSE f[k] \o lists[k + 1]
          /\ lists[k + 1] \in Seq(R) /\ Tells(document, sensor, lists[k + 1], later[k + 1])
      BY <1>2, <2>1, <3>1 DEF Flattened
    <3>3. 1 .. k + 1 = (1 .. k) \cup {k + 1}
      BY <3>1
    <3>4. Upto(k + 1) = Upto(k) \cup later[k + 1]
      BY <3>3
    <3>5. \A p \in places \cup Upto(k) : \A q \in later[k + 1] : Before(p, q)
      <4>1. \A i \in 1 .. k : i \in 1 .. n /\ i < k + 1
        BY <3>1
      <4>. QED
        BY <3>1, <4>1
    <3> HIDE DEF Upto, R
    <3>6. CASE k = 0
      <4>1. Upto(k) = {}
        BY <3>6 DEF Upto
      <4>2. f[k + 1] = lists[k + 1]
        BY <3>2, <3>6
      <4>3. places \cup Upto(k + 1) = places \cup later[k + 1]
        BY <3>4, <4>1
      <4>4. Tells(document, sensor, first \o lists[k + 1], places \cup later[k + 1])
        BY <3>1, <3>2, BothTell
      <4>5. /\ f[k + 1] \in Seq(R)
            /\ Tells(document, sensor, first \o f[k + 1], places \cup Upto(k + 1))
        BY <3>2, <4>2, <4>3, <4>4
      <4>. QED
        BY <3>1, <4>5
    <3>7. CASE k # 0
      <4>1. f[k] \in Seq(R) /\ Tells(document, sensor, first \o f[k], places \cup Upto(k))
        BY <2>3, <3>7
      <4> DEFINE a == f[k]
                 b == lists[k + 1]
      <4>0. a \in Seq(R) /\ b \in Seq(R)
        BY <3>2, <4>1
      <4> HIDE DEF a, b
      <4>6. a \o b \in Seq(R) /\ first \o (a \o b) = (first \o a) \o b
        BY <1>1, <4>0, ConcatProperties, ConcatAssociative DEF R
      <4>7. k + 1 # 1
        BY <3>1, <3>7
      <4>2. f[k + 1] = f[k] \o lists[k + 1] /\ f[k + 1] \in Seq(R)
        BY <3>2, <4>6, <4>7 DEF a, b
      <4>3. first \o f[k + 1] = (first \o f[k]) \o lists[k + 1]
        BY <4>2, <4>6 DEF a, b
      <4>4. Tells(document, sensor, (first \o f[k]) \o lists[k + 1],
                  (places \cup Upto(k)) \cup later[k + 1])
        BY <3>2, <3>5, <4>1, BothTell
      <4>5. (places \cup Upto(k)) \cup later[k + 1] = places \cup Upto(k + 1)
        BY <3>4
      <4>8. /\ f[k + 1] \in Seq(R)
            /\ Tells(document, sensor, first \o f[k + 1], places \cup Upto(k + 1))
        BY <4>2, <4>3, <4>4, <4>5
      <4>. QED
        BY <3>1, <4>8
    <3>. QED
      BY <3>6, <3>7
  <2> HIDE DEF T
  <2>4. 0 .. n \subseteq T
    BY <2>2, <2>3, UpTo
  <2>5. n \in T
    BY <2>4
  <2>6. f[n] \in Seq(R) /\ Tells(document, sensor, first \o f[n], places \cup Upto(n))
    BY <1>4, <2>5 DEF T
  <2>. QED
    BY <2>1, <2>6
<1>. QED
  BY <1>3, <1>4

-----------------------------------------------------------------------------
(***************************************************************************)
(* The places of a document                                                *)
(***************************************************************************)

(* A place is a sequence of positions, and so are those on the way to it. *)
LEMMA PlaceIs ==
  ASSUME NEW document, IsDocument(document), NEW place \in DOMAIN document
  PROVE  /\ place \in Seq(Nat) /\ Len(place) \in Nat /\ DOMAIN place = 1 .. Len(place)
         /\ \A i \in 1 .. Len(place) : place[i] \in Nat
         /\ document[place].size \in Nat
<1>1. place \in Seq(Nat \ {0}) /\ document[place].size \in Nat
  BY DEF IsDocument
<1>2. Nat \ {0} \subseteq Nat
  OBVIOUS
<1>3. place \in Seq(Nat)
  BY <1>1, <1>2, SeqMonotonic
<1>. QED
  BY <1>1, <1>3, LenProperties, ElementOfSeq

(* The place of a member. *)
LEMMA MemberPlace ==
  ASSUME NEW document, IsDocument(document), NEW place \in DOMAIN document,
         NEW i \in 1 .. document[place].size
  PROVE  LET q == Append(place, i)
         IN /\ q \in DOMAIN document /\ Len(q) = Len(place) + 1
            /\ q[Len(place) + 1] = i
            /\ \A j \in 1 .. Len(place) : q[j] = place[j]
            /\ \A n \in 0 .. Len(place) : SubSeq(q, 1, n) = SubSeq(place, 1, n)
            /\ SubSeq(q, 1, Len(place) + 1) = q
            /\ Front(q) = place
<1> DEFINE q == Append(place, i)
           m == Len(place)
<1>1. /\ place \in Seq(Nat) /\ m \in Nat /\ i \in Nat
      /\ \A j \in 1 .. m : place[j] \in Nat
  BY PlaceIs
<1>2. q \in DOMAIN document
  BY DEF IsDocument
<1>3. /\ q \in Seq(Nat) /\ Len(q) = m + 1 /\ q[m + 1] = i
      /\ \A j \in 1 .. m : q[j] = place[j]
  BY <1>1, AppendProperties
<1>4. \A j \in 1 .. m + 1 : q[j] \in Nat
  BY <1>3, ElementOfSeq
<1> HIDE DEF q, m
<1>5. ASSUME NEW n \in 0 .. m
      PROVE  SubSeq(q, 1, n) = SubSeq(place, 1, n)
  <2>1. n \in Nat /\ \A j \in 1 .. n : j \in 1 .. m /\ j \in 1 .. m + 1
    BY <1>1
  <2>2. /\ SubSeq(q, 1, n) \in Seq(Nat) /\ Len(SubSeq(q, 1, n)) = n
        /\ \A j \in 1 .. n : SubSeq(q, 1, n)[j] = q[j]
    BY <1>4, <2>1, PrefixIs
  <2>3. /\ SubSeq(place, 1, n) \in Seq(Nat) /\ Len(SubSeq(place, 1, n)) = n
        /\ \A j \in 1 .. n : SubSeq(place, 1, n)[j] = place[j]
    BY <1>1, <2>1, PrefixIs
  <2>4. \A j \in 1 .. n : SubSeq(q, 1, n)[j] = SubSeq(place, 1, n)[j]
    BY <1>3, <2>1, <2>2, <2>3
  <2>. QED
    BY <2>2, <2>3, <2>4, SeqEqual
<1>6. SubSeq(q, 1, m + 1) = q
  <2>1. m + 1 \in Nat
    BY <1>1
  <2>2. /\ SubSeq(q, 1, m + 1) \in Seq(Nat) /\ Len(SubSeq(q, 1, m + 1)) = m + 1
        /\ \A j \in 1 .. m + 1 : SubSeq(q, 1, m + 1)[j] = q[j]
    BY <1>4, <2>1, PrefixIs
  <2>. QED
    BY <1>3, <2>2, SeqEqual
<1>7. SubSeq(place, 1, m) = place
  <2>1. /\ SubSeq(place, 1, m) \in Seq(Nat) /\ Len(SubSeq(place, 1, m)) = m
        /\ \A j \in 1 .. m : SubSeq(place, 1, m)[j] = place[j]
    BY <1>1, PrefixIs
  <2>. QED
    BY <1>1, <2>1, SeqEqual DEF m
<1>8. Front(q) = place
  <2>1. (m + 1) - 1 = m /\ m \in 0 .. m
    BY <1>1
  <2>2. Front(q) = SubSeq(q, 1, m)
    BY <1>3, <2>1 DEF Front
  <2>. QED
    BY <1>5, <1>7, <2>1, <2>2
<1>. QED
  BY <1>2, <1>3, <1>5, <1>6, <1>8 DEF q, m

(* A place other than the root is a member of the place before it. *)
LEMMA ParentPlace ==
  ASSUME NEW document, IsDocument(document), NEW place \in DOMAIN document, place # <<>>
  PROVE  /\ Front(place) \in DOMAIN document
         /\ Len(place) \in Nat \ {0} /\ Len(Front(place)) = Len(place) - 1
         /\ place[Len(place)] \in 1 .. document[Front(place)].size
         /\ place = Append(Front(place), place[Len(place)])
<1> DEFINE m == Len(place)
<1>1. place \in Seq(Nat) /\ m \in Nat \ {0} /\ \A i \in 1 .. m : place[i] \in Nat
  BY PlaceIs, EmptySeq
<1>2. m - 1 \in Nat /\ \A i \in 1 .. m - 1 : i \in 1 .. m
  BY <1>1
<1>3. /\ Front(place) \in Seq(Nat) /\ Len(Front(place)) = m - 1
      /\ \A i \in 1 .. m - 1 : Front(place)[i] = place[i]
  <2> DEFINE k == m - 1
  <2>1. k \in Nat /\ \A i \in 1 .. k : place[i] \in Nat
    BY <1>1, <1>2
  <2> HIDE DEF k
  <2>2. /\ SubSeq(place, 1, k) \in Seq(Nat) /\ Len(SubSeq(place, 1, k)) = k
        /\ \A i \in 1 .. k : SubSeq(place, 1, k)[i] = place[i]
    BY <2>1, PrefixIs
  <2>. QED
    BY <2>2 DEF Front, k
<1>4. Front(place) \in DOMAIN document /\ place[m] \in 1 .. document[Front(place)].size
  BY DEF IsDocument, Last
<1>5. Append(Front(place), place[m]) = place
  <2> DEFINE q == Append(Front(place), place[m])
  <2>1. m \in 1 .. m /\ (m - 1) + 1 = m
    BY <1>1
  <2>2. /\ q \in Seq(Nat) /\ Len(q) = m /\ q[m] = place[m]
        /\ \A j \in 1 .. m - 1 : q[j] = Front(place)[j]
    BY <1>1, <1>3, <2>1, AppendProperties
  <2>3. \A j \in 1 .. m : j = m \/ j \in 1 .. m - 1
    BY <1>1
  <2> HIDE DEF q, m
  <2>4. \A j \in 1 .. Len(q) : q[j] = place[j]
    BY <1>3, <2>2, <2>3
  <2>. QED
    BY <1>1, <2>2, <2>4, SeqEqual DEF q, m
<1>. QED
  BY <1>1, <1>3, <1>4, <1>5

(* All the beginnings of a place are places. *)
LEMMA BeginningIsPlace ==
  ASSUME NEW document, IsDocument(document), NEW place \in DOMAIN document,
         NEW n \in 0 .. Len(place)
  PROVE  SubSeq(place, 1, n) \in DOMAIN document
<1> DEFINE m == Len(place)
           T == {k \in Nat : SubSeq(place, 1, m - k) \in DOMAIN document}
<1>1. place \in Seq(Nat) /\ m \in Nat /\ \A i \in 1 .. m : place[i] \in Nat
  BY PlaceIs
<1>2. 0 \in T
  <2>1. /\ SubSeq(place, 1, m) \in Seq(Nat) /\ Len(SubSeq(place, 1, m)) = m
        /\ \A j \in 1 .. m : SubSeq(place, 1, m)[j] = place[j]
    BY <1>1, PrefixIs
  <2>2. SubSeq(place, 1, m) = place /\ m - 0 = m
    BY <1>1, <2>1, SeqEqual
  <2>. QED
    BY <2>2
<1>3. ASSUME NEW k \in 0 .. m, k \in T, k < m
      PROVE  k + 1 \in T
  <2> DEFINE a == m - k
             b == m - (k + 1)
             q == SubSeq(place, 1, a)
             r == SubSeq(place, 1, b)
  <2>1. /\ a \in Nat \ {0} /\ b \in Nat /\ a - 1 = b
        /\ \A i \in 1 .. b : i \in 1 .. a /\ i \in 1 .. m
        /\ \A i \in 1 .. a : i \in 1 .. m
    BY <1>1, <1>3
  <2>2. q \in DOMAIN document
    BY <1>3
  <2> HIDE DEF a, b
  <2>3. /\ q \in Seq(Nat) /\ Len(q) = a
        /\ \A j \in 1 .. a : q[j] = place[j]
    <3>1. \A i \in 1 .. a : place[i] \in Nat
      BY <1>1, <2>1
    <3>. QED
      BY <2>1, <3>1, PrefixIs
  <2>4. /\ r \in Seq(Nat) /\ Len(r) = b
        /\ \A j \in 1 .. b : r[j] = place[j]
    <3>1. \A i \in 1 .. b : place[i] \in Nat
      BY <1>1, <2>1
    <3>. QED
      BY <2>1, <3>1, PrefixIs
  <2> HIDE DEF q, r
  <2>5. q # <<>>
    BY <2>1, <2>3
  <2>6. Front(q) \in DOMAIN document
    BY <2>2, <2>5, ParentPlace
  <2>7. /\ Front(q) \in Seq(Nat) /\ Len(Front(q)) = b
        /\ \A j \in 1 .. b : Front(q)[j] = q[j]
    <3>1. \A i \in 1 .. b : q[i] \in Nat
      BY <1>1, <2>1, <2>3
    <3>2. Front(q) = SubSeq(q, 1, b)
      BY <2>1, <2>3 DEF Front
    <3>. QED
      BY <2>1, <3>1, <3>2, PrefixIs
  <2>8. \A j \in 1 .. b : Front(q)[j] = r[j]
    BY <2>1, <2>3, <2>4, <2>7
  <2>9. Front(q) = r
    BY <2>4, <2>7, <2>8, SeqEqual
  <2>. QED
    BY <1>3, <2>6, <2>9 DEF r, b
<1> HIDE DEF T
<1>4. 0 .. m \subseteq T
  BY <1>1, <1>2, <1>3, UpTo
<1>5. m - n \in T /\ m - (m - n) = n
  BY <1>1, <1>4
<1>. QED
  BY <1>5 DEF T

(* The places of the members of a place, of their members, and so on. *)
Below(document, place) ==
  {q \in DOMAIN document : Len(place) <= Len(q) /\ \A i \in 1 .. Len(place) : q[i] = place[i]}

(* It is the place itself, and what is below its members. *)
LEMMA BelowMembers ==
  ASSUME NEW document, IsDocument(document), NEW place \in DOMAIN document
  PROVE  Below(document, place) =
           {place} \cup UNION {Below(document, Append(place, i)) : i \in 1 .. document[place].size}
<1> DEFINE m == Len(place)
           Members == UNION {Below(document, Append(place, i)) : i \in 1 .. document[place].size}
<1>1. place \in Seq(Nat) /\ m \in Nat
  BY PlaceIs
<1>2. place \in Below(document, place)
  BY <1>1 DEF Below
<1>3. ASSUME NEW i \in 1 .. document[place].size, NEW q \in Below(document, Append(place, i))
      PROVE  q \in Below(document, place)
  <2>1. /\ Len(Append(place, i)) = m + 1
        /\ \A j \in 1 .. m : Append(place, i)[j] = place[j]
    BY MemberPlace
  <2>2. /\ q \in DOMAIN document /\ m + 1 <= Len(q)
        /\ \A j \in 1 .. m + 1 : q[j] = Append(place, i)[j]
    BY <2>1 DEF Below
  <2>3. Len(q) \in Nat
    BY <2>2, PlaceIs
  <2>4. m <= Len(q)
    BY <1>1, <2>2, <2>3
  <2>5. \A j \in 1 .. m : q[j] = place[j]
    <3>1. \A j \in 1 .. m : j \in 1 .. m + 1
      BY <1>1
    <3>. QED
      BY <2>1, <2>2, <3>1
  <2>. QED
    BY <2>2, <2>4, <2>5 DEF Below
<1>4. ASSUME NEW q \in Below(document, place), q # place
      PROVE  q \in Members
  <2>1. /\ q \in DOMAIN document /\ m <= Len(q)
        /\ \A j \in 1 .. m : q[j] = place[j]
    BY DEF Below
  <2>2. q \in Seq(Nat) /\ Len(q) \in Nat
    BY <2>1, PlaceIs
  <2>3. m < Len(q)
    <3>1. Len(q) = m => q = place
      BY <1>1, <2>1, <2>2, SeqEqual
    <3>. QED
      BY <1>1, <1>4, <2>1, <2>2, <3>1
  <2> DEFINE k == m + 1
             r == SubSeq(q, 1, k)
  <2>4. k \in Nat /\ k \in 0 .. Len(q) /\ k # 0 /\ k - 1 = m
    BY <1>1, <2>2, <2>3
  <2> HIDE DEF k
  <2>5. r \in DOMAIN document
    BY <2>1, <2>4, BeginningIsPlace
  <2>6. /\ r \in Seq(Nat) /\ Len(r) = k
        /\ \A j \in 1 .. k : r[j] = q[j]
    <3>1. \A j \in 1 .. k : q[j] \in Nat
      BY <2>1, <2>2, <2>4, PlaceIs
    <3>. QED
      BY <2>4, <3>1, PrefixIs
  <2> HIDE DEF r
  <2>7. r # <<>>
    BY <2>4, <2>6
  <2>8. /\ Front(r) \in DOMAIN document /\ Len(Front(r)) = m
        /\ r[k] \in 1 .. document[Front(r)].size
        /\ r = Append(Front(r), r[k])
    BY <2>4, <2>5, <2>6, <2>7, ParentPlace
  <2>9. Front(r) = place
    <3>1. Front(r) \in Seq(Nat) /\ \A j \in 1 .. m : Front(r)[j] = r[j]
      <4>1. \A j \in 1 .. Len(Front(r)) : Append(Front(r), r[k])[j] = Front(r)[j]
        BY <2>8, MemberPlace
      <4>. QED
        BY <2>8, <4>1, PlaceIs
    <3>2. \A j \in 1 .. m : r[j] = q[j]
      <4>1. \A j \in 1 .. m : j \in 1 .. k
        BY <1>1, <2>4
      <4>. QED
        BY <2>6, <4>1
    <3>3. \A j \in 1 .. m : Front(r)[j] = place[j]
      BY <2>1, <3>1, <3>2
    <3>. QED
      BY <1>1, <2>8, <3>1, <3>3, SeqEqual DEF m
  <2>10. r[k] \in 1 .. document[place].size /\ r = Append(place, r[k])
    BY <2>8, <2>9
  <2>11. q \in Below(document, r)
    BY <2>1, <2>4, <2>6 DEF Below
  <2>. QED
    BY <2>10, <2>11
<1>. QED
  BY <1>2, <1>3, <1>4

(* An equality of beginnings, position by position. *)
LEMMA SameBeginning ==
  ASSUME NEW p \in Seq(Nat), NEW q \in Seq(Nat), NEW n \in Nat, n <= Len(p), n <= Len(q)
  PROVE  SubSeq(p, 1, n) = SubSeq(q, 1, n) <=> \A i \in 1 .. n : p[i] = q[i]
<1>1. /\ \A i \in 1 .. n : p[i] \in Nat /\ q[i] \in Nat
  <2>1. \A i \in 1 .. n : i \in 1 .. Len(p) /\ i \in 1 .. Len(q)
    BY LenProperties
  <2>. QED
    BY <2>1, ElementOfSeq
<1>2. /\ SubSeq(p, 1, n) \in Seq(Nat) /\ Len(SubSeq(p, 1, n)) = n
      /\ \A j \in 1 .. n : SubSeq(p, 1, n)[j] = p[j]
  BY <1>1, PrefixIs
<1>3. /\ SubSeq(q, 1, n) \in Seq(Nat) /\ Len(SubSeq(q, 1, n)) = n
      /\ \A j \in 1 .. n : SubSeq(q, 1, n)[j] = q[j]
  BY <1>1, PrefixIs
<1>4. ASSUME \A i \in 1 .. n : p[i] = q[i]
      PROVE  SubSeq(p, 1, n) = SubSeq(q, 1, n)
  <2>1. \A i \in 1 .. n : SubSeq(p, 1, n)[i] = SubSeq(q, 1, n)[i]
    BY <1>2, <1>3, <1>4
  <2>. QED
    BY <1>2, <1>3, <2>1, SeqEqual
<1>5. ASSUME SubSeq(p, 1, n) = SubSeq(q, 1, n), NEW i \in 1 .. n
      PROVE  p[i] = q[i]
  BY <1>2, <1>3, <1>5
<1>. QED
  BY <1>4, <1>5

(* What it is to be a beginning of something longer. *)
LEMMA StrictPrefixMeans ==
  ASSUME NEW S, NEW p \in Seq(S), NEW q \in Seq(S)
  PROVE  IsStrictPrefix(p, q) <=> Len(p) < Len(q) /\ \A i \in 1 .. Len(p) : p[i] = q[i]
<1>1. Len(p) \in Nat /\ Len(q) \in Nat
  BY LenProperties
<1>2. IsPrefix(p, q) <=> Len(p) <= Len(q) /\ \A i \in 1 .. Len(p) : p[i] = q[i]
  BY PrefixMeans
<1>3. Len(p) = Len(q) /\ (\A i \in 1 .. Len(p) : p[i] = q[i]) => p = q
  BY SeqEqual
<1>4. ASSUME IsPrefix(p, q), p # q
      PROVE  Len(p) < Len(q)
  BY <1>1, <1>2, <1>3, <1>4
<1>5. Len(p) < Len(q) => Len(p) <= Len(q) /\ p # q
  BY <1>1
<1>. QED
  BY <1>2, <1>4, <1>5 DEF IsStrictPrefix

(* Document order, position by position. *)
LEMMA BeforeIs ==
  ASSUME NEW p \in Seq(Nat), NEW q \in Seq(Nat)
  PROVE  Before(p, q) <=>
           \/ Len(p) < Len(q) /\ \A i \in 1 .. Len(p) : p[i] = q[i]
           \/ \E n \in 1 .. Len(p) : /\ n <= Len(q) /\ p[n] < q[n]
                                     /\ \A i \in 1 .. n - 1 : p[i] = q[i]
<1>1. /\ Len(p) \in Nat /\ Len(q) \in Nat
      /\ DOMAIN p = 1 .. Len(p) /\ DOMAIN q = 1 .. Len(q)
  BY LenProperties
<1>2. IsStrictPrefix(p, q) <=> Len(p) < Len(q) /\ \A i \in 1 .. Len(p) : p[i] = q[i]
  <2> DEFINE N == Nat
  <2>1. p \in Seq(N) /\ q \in Seq(N)
    OBVIOUS
  <2> HIDE DEF N
  <2>. QED
    BY <1>1, <2>1, StrictPrefixMeans
<1>3. ASSUME NEW n \in (1 .. Len(p)) \cap (1 .. Len(q))
      PROVE  SubSeq(p, 1, n - 1) = SubSeq(q, 1, n - 1) <=> \A i \in 1 .. n - 1 : p[i] = q[i]
  <2> DEFINE k == n - 1
  <2>1. k \in Nat /\ k <= Len(p) /\ k <= Len(q)
    BY <1>1
  <2> HIDE DEF k
  <2>2. SubSeq(p, 1, k) = SubSeq(q, 1, k) <=> \A i \in 1 .. k : p[i] = q[i]
    BY <2>1, SameBeginning
  <2>. QED
    BY <2>2 DEF k
<1>4. DOMAIN p \cap DOMAIN q = {n \in 1 .. Len(p) : n <= Len(q)}
  BY <1>1
<1>. QED
  BY <1>1, <1>2, <1>3, <1>4 DEF Before

(* Of two places at most one is before the other. *)
LEMMA NotBothBefore ==
  ASSUME NEW p \in Seq(Nat), NEW q \in Seq(Nat), Before(p, q), Before(q, p)
  PROVE  FALSE
<1>1. Len(p) \in Nat /\ Len(q) \in Nat
  BY LenProperties
<1>2. /\ \A i \in 1 .. Len(p) : p[i] \in Nat
      /\ \A i \in 1 .. Len(q) : q[i] \in Nat
  BY ElementOfSeq
<1>3. PICK n \in Nat \ {0} :
        /\ n <= Len(p) + 1 /\ n <= Len(q)
        /\ \A i \in 1 .. n - 1 : p[i] = q[i]
        /\ n <= Len(p) => p[n] < q[n]
  <2>1. CASE Len(p) < Len(q) /\ \A i \in 1 .. Len(p) : p[i] = q[i]
    <3>1. Len(p) + 1 \in Nat \ {0} /\ (Len(p) + 1) - 1 = Len(p)
          /\ Len(p) + 1 <= Len(q) /\ ~(Len(p) + 1 <= Len(p))
      BY <1>1, <2>1
    <3>. QED
      BY <2>1, <3>1
  <2>2. CASE \E n \in 1 .. Len(p) : /\ n <= Len(q) /\ p[n] < q[n]
                                    /\ \A i \in 1 .. n - 1 : p[i] = q[i]
    BY <1>1, <2>2
  <2>. QED
    BY <2>1, <2>2, BeforeIs
<1>4. PICK k \in Nat \ {0} :
        /\ k <= Len(q) + 1 /\ k <= Len(p)
        /\ \A i \in 1 .. k - 1 : q[i] = p[i]
        /\ k <= Len(q) => q[k] < p[k]
  <2>1. CASE Len(q) < Len(p) /\ \A i \in 1 .. Len(q) : q[i] = p[i]
    <3>1. Len(q) + 1 \in Nat \ {0} /\ (Len(q) + 1) - 1 = Len(q)
          /\ Len(q) + 1 <= Len(p) /\ ~(Len(q) + 1 <= Len(q))
      BY <1>1, <2>1
    <3>. QED
      BY <2>1, <3>1
  <2>2. CASE \E k \in 1 .. Len(q) : /\ k <= Len(p) /\ q[k] < p[k]
                                    /\ \A i \in 1 .. k - 1 : q[i] = p[i]
    BY <1>1, <2>2
  <2>. QED
    BY <2>1, <2>2, BeforeIs
<1>5. CASE n < k
  <2>1. n \in 1 .. k - 1 /\ n <= Len(p) /\ n \in 1 .. Len(p) /\ n \in 1 .. Len(q)
    BY <1>1, <1>3, <1>4, <1>5
  <2>2. p[n] < q[n] /\ q[n] = p[n] /\ p[n] \in Nat
    BY <1>2, <1>3, <1>4, <2>1
  <2>. QED
    BY <2>2
<1>6. CASE k < n
  <2>1. k \in 1 .. n - 1 /\ k <= Len(q) /\ k \in 1 .. Len(p) /\ k \in 1 .. Len(q)
    BY <1>1, <1>3, <1>4, <1>6
  <2>2. q[k] < p[k] /\ q[k] = p[k] /\ p[k] \in Nat
    BY <1>2, <1>3, <1>4, <2>1
  <2>. QED
    BY <2>2
<1>7. CASE k = n
  <2>1. n <= Len(p) /\ k <= Len(q) /\ n \in 1 .. Len(p) /\ n \in 1 .. Len(q)
    BY <1>1, <1>3, <1>4, <1>7
  <2>2. p[n] < q[n] /\ q[n] < p[n] /\ p[n] \in Nat /\ q[n] \in Nat
    BY <1>2, <1>3, <1>4, <1>7, <2>1
  <2>. QED
    BY <2>2
<1>. QED
  BY <1>5, <1>6, <1>7

(* So there is one last place at most. *)
LEMMA LastIsChosen ==
  ASSUME NEW places, places \subseteq Seq(Nat), NEW place \in places, IsLastOf(place, places)
  PROVE  place = CHOOSE p \in places : \A q \in places \ {p} : Before(q, p)
<1>1. ASSUME NEW p \in places, \A q \in places \ {p} : Before(q, p)
      PROVE  p = place
  BY <1>1, NotBothBefore DEF IsLastOf
<1>2. \A q \in places \ {place} : Before(q, place)
  BY DEF IsLastOf
<1>. QED
  BY <1>1, <1>2

(* An object is before its members, and members are in their order, with all
   that is below them. *)
LEMMA MembersInOrder ==
  ASSUME NEW document, IsDocument(document), NEW place \in DOMAIN document,
         NEW i \in 1 .. document[place].size, NEW p \in Below(document, Append(place, i))
  PROVE  /\ Before(place, p)
         /\ \A j \in 1 .. document[place].size :
              i < j => \A q \in Below(document, Append(place, j)) : Before(p, q)
<1> DEFINE m == Len(place)
<1>1. place \in Seq(Nat) /\ m \in Nat /\ document[place].size \in Nat
  BY PlaceIs
<1>2. ASSUME NEW j \in 1 .. document[place].size, NEW q \in Below(document, Append(place, j))
      PROVE  /\ q \in Seq(Nat) /\ Len(q) \in Nat /\ m + 1 <= Len(q)
             /\ q[m + 1] = j
             /\ \A k \in 1 .. m : q[k] = place[k]
  <2>1. /\ Len(Append(place, j)) = m + 1 /\ Append(place, j)[m + 1] = j
        /\ \A k \in 1 .. m : Append(place, j)[k] = place[k]
    BY MemberPlace
  <2>2. /\ q \in DOMAIN document /\ m + 1 <= Len(q)
        /\ \A k \in 1 .. m + 1 : q[k] = Append(place, j)[k]
    BY <2>1 DEF Below
  <2>3. m + 1 \in 1 .. m + 1 /\ \A k \in 1 .. m : k \in 1 .. m + 1
    BY <1>1
  <2>. QED
    BY <2>1, <2>2, <2>3, PlaceIs
<1>3. /\ p \in Seq(Nat) /\ Len(p) \in Nat /\ m + 1 <= Len(p) /\ p[m + 1] = i
      /\ \A k \in 1 .. m : p[k] = place[k]
  BY <1>2
<1>4. Before(place, p)
  <2>1. Len(place) < Len(p)
    BY <1>1, <1>3
  <2>. QED
    BY <1>1, <1>3, <2>1, BeforeIs
<1>5. ASSUME NEW j \in 1 .. document[place].size, i < j, NEW q \in Below(document, Append(place, j))
      PROVE  Before(p, q)
  <2>1. /\ q \in Seq(Nat) /\ Len(q) \in Nat /\ m + 1 <= Len(q) /\ q[m + 1] = j
        /\ \A k \in 1 .. m : q[k] = place[k]
    BY <1>2
  <2>2. m + 1 \in 1 .. Len(p) /\ (m + 1) - 1 = m
    BY <1>1, <1>3
  <2>3. \A k \in 1 .. m : p[k] = q[k]
    BY <1>3, <2>1
  <2>4. \E n \in 1 .. Len(p) : /\ n <= Len(q) /\ p[n] < q[n]
                               /\ \A k \in 1 .. n - 1 : p[k] = q[k]
    BY <1>3, <1>5, <2>1, <2>2, <2>3
  <2>. QED
    BY <1>3, <2>1, <2>4, BeforeIs
<1>. QED
  BY <1>4, <1>5

-----------------------------------------------------------------------------
(***************************************************************************)
(* What the enclosing objects say                                          *)
(***************************************************************************)

(* The nearest severity of a member is its own, or else that of its parent. *)
LEMMA SeverityOfMember ==
  ASSUME NEW document, IsDocument(document), NEW place \in DOMAIN document,
         NEW i \in 1 .. document[place].size
  PROVE  LET q == Append(place, i)
         IN NearestSeverity(document, q)
              = SeverityAt(document[q], NearestSeverity(document, place))
<1> DEFINE q == Append(place, i)
           m == Len(place)
           OfMember == {n \in 1 .. Len(q) : document[SubSeq(q, 1, n)].severity # "none"}
           OfParent == {n \in 1 .. Len(place) : document[SubSeq(place, 1, n)].severity # "none"}
<1>1. /\ m \in Nat /\ Len(q) = m + 1
      /\ \A n \in 0 .. m : SubSeq(q, 1, n) = SubSeq(place, 1, n)
      /\ SubSeq(q, 1, m + 1) = q
  BY PlaceIs, MemberPlace
<1>2. \A n \in 1 .. m + 1 : n \in 0 .. m \/ n = m + 1
  BY <1>1
<1>3. /\ NearestSeverity(document, q)
           = IF OfMember = {} THEN "none" ELSE document[SubSeq(q, 1, Max(OfMember))].severity
      /\ NearestSeverity(document, place)
           = IF OfParent = {} THEN "none"
             ELSE document[SubSeq(place, 1, Max(OfParent))].severity
  BY DEF NearestSeverity
<1> HIDE DEF q
<1>4. ASSUME document[q].severity = "none"
      PROVE  NearestSeverity(document, q) = NearestSeverity(document, place)
  <2>1. \A n \in 1 .. m : n \in 1 .. m + 1 /\ n \in 0 .. m
    BY <1>1
  <2>4. m + 1 \notin OfMember
    BY <1>1, <1>4
  <2>5. \A n \in 1 .. m : n \in OfMember <=> n \in OfParent
    BY <1>1, <2>1
  <2>6. OfMember \subseteq 1 .. m + 1 /\ OfParent \subseteq 1 .. m
    BY <1>1
  <2>2. OfMember = OfParent
    <3> HIDE DEF OfMember, OfParent
    <3>1. \A n \in 1 .. m + 1 : n \in 1 .. m \/ n = m + 1
      BY <1>1
    <3>. QED
      BY <2>1, <2>4, <2>5, <2>6, <3>1
  <2>3. OfParent # {} => Max(OfParent) \in 0 .. m
    <3>1. OfParent \subseteq 1 .. m
      OBVIOUS
    <3> HIDE DEF OfMember, OfParent
    <3>. QED
      BY <1>1, <2>1, <3>1, MaxExists
  <2>7. OfParent # {} =>
          SubSeq(q, 1, Max(OfParent)) = SubSeq(place, 1, Max(OfParent))
    <3> HIDE DEF OfMember, OfParent
    <3>. QED
      BY <1>1, <2>3
  <2> HIDE DEF OfMember, OfParent, m
  <2>8. CASE OfParent = {}
    BY <1>3, <2>2, <2>8
  <2>9. CASE OfParent # {}
    <3>1. NearestSeverity(document, q) = document[SubSeq(q, 1, Max(OfParent))].severity
      BY <1>3, <2>2, <2>9
    <3>2. NearestSeverity(document, place) = document[SubSeq(place, 1, Max(OfParent))].severity
      BY <1>3, <2>9
    <3>. QED
      BY <2>7, <2>9, <3>1, <3>2
  <2>. QED
    BY <2>8, <2>9
<1>5. ASSUME document[q].severity # "none"
      PROVE  NearestSeverity(document, q) = document[q].severity
  <2>1. m + 1 \in OfMember /\ OfMember \subseteq 1 .. m + 1 /\ m + 1 \in Nat
    <3>1. m + 1 \in 1 .. Len(q) /\ m + 1 \in Nat
      BY <1>1
    <3>2. document[SubSeq(q, 1, m + 1)].severity # "none"
      BY <1>1, <1>5
    <3>. QED
      BY <1>1, <3>1, <3>2
  <2> HIDE DEF OfMember, OfParent
  <2>2. Max(OfMember) \in 1 .. m + 1 /\ Max(OfMember) >= m + 1
    BY <2>1, MaxExists
  <2>3. Max(OfMember) = m + 1 /\ OfMember # {}
    BY <1>1, <2>1, <2>2
  <2>. QED
    BY <1>1, <1>3, <2>3
<1>. QED
  BY <1>4, <1>5 DEF SeverityAt, q

(* Nothing encloses the root. *)
LEMMA SeverityOfRoot ==
  ASSUME NEW document
  PROVE  NearestSeverity(document, <<>>) = "none"
<1>1. {n \in 1 .. Len(<<>>) : document[SubSeq(<<>>, 1, n)].severity # "none"} = {}
  BY EmptySeq
<1>. QED
  BY <1>1 DEF NearestSeverity

(* The elements of an array are named as it is, the members of an object by
   themselves. *)
LEMMA NameOfMember ==
  ASSUME NEW document, IsDocument(document), NEW place \in DOMAIN document,
         NEW i \in 1 .. document[place].size
  PROVE  LET q == Append(place, i)
         IN /\ document[place].kind = "object" => NameAt(document, q) = document[q].name
            /\ document[place].kind # "object" /\ place # <<>> /\ document[<<>>].kind = "object"
                 => NameAt(document, q) = NameAt(document, place)
<1> DEFINE q == Append(place, i)
           m == Len(place)
           Named(p) == {n \in 1 .. Len(p) : document[SubSeq(p, 1, n - 1)].kind = "object"}
<1>1. /\ m \in Nat /\ Len(q) = m + 1 /\ place \in Seq(Nat)
      /\ \A n \in 0 .. m : SubSeq(q, 1, n) = SubSeq(place, 1, n)
      /\ SubSeq(q, 1, m + 1) = q /\ SubSeq(q, 1, m) = place
  <2>1. SubSeq(q, 1, m) = place
    <3>1. Front(q) = place /\ Len(q) = m + 1 /\ m \in Nat
      BY PlaceIs, MemberPlace
    <3>2. (m + 1) - 1 = m
      BY <3>1
    <3>. QED
      BY <3>1, <3>2 DEF Front
  <2>. QED
    BY <2>1, PlaceIs, MemberPlace
<1>2. /\ NameAt(document, q) = document[SubSeq(q, 1, Max(Named(q)))].name
      /\ NameAt(document, place) = document[SubSeq(place, 1, Max(Named(place)))].name
  BY DEF NameAt
<1> HIDE DEF q
<1>3. ASSUME document[place].kind = "object"
      PROVE  NameAt(document, q) = document[q].name
  <2>1. (m + 1) - 1 = m /\ m + 1 \in Nat /\ m + 1 \in 1 .. m + 1
    BY <1>1
  <2>2. m + 1 \in Named(q) /\ Named(q) \subseteq 1 .. m + 1
    BY <1>1, <1>3, <2>1
  <2> HIDE DEF Named
  <2>3. Max(Named(q)) \in 1 .. m + 1 /\ Max(Named(q)) >= m + 1
    BY <2>1, <2>2, MaxExists
  <2>4. Max(Named(q)) = m + 1
    BY <1>1, <2>3
  <2>. QED
    BY <1>1, <1>2, <2>4
<1>4. ASSUME document[place].kind # "object", place # <<>>, document[<<>>].kind = "object"
      PROVE  NameAt(document, q) = NameAt(document, place)
  <2>1. m # 0 /\ 1 \in 1 .. m
    BY <1>1, <1>4, EmptySeq
  <2>2. \A n \in 1 .. m + 1 : n = m + 1 \/ n \in 1 .. m
    BY <1>1
  <2>3. \A n \in 1 .. m : /\ n \in 1 .. m + 1 /\ n - 1 \in 0 .. m
                          /\ SubSeq(q, 1, n - 1) = SubSeq(place, 1, n - 1)
    BY <1>1
  <2>4. (m + 1) - 1 = m
    BY <1>1
  <2>5. m + 1 \notin Named(q)
    BY <1>1, <1>4, <2>4
  <2>6. Named(q) = Named(place)
    BY <1>1, <2>2, <2>3, <2>5
  <2>7. 1 \in Named(place)
    <3>1. SubSeq(place, 1, 0) = <<>>
      <4>1. 0 \in Nat /\ \A j \in 1 .. 0 : place[j] \in Nat
        OBVIOUS
      <4>2. SubSeq(place, 1, 0) \in Seq(Nat) /\ Len(SubSeq(place, 1, 0)) = 0
        BY <4>1, PrefixIs
      <4>. QED
        BY <4>2, EmptySeq
    <3>2. 1 - 1 = 0
      OBVIOUS
    <3>. QED
      BY <1>4, <2>1, <3>1, <3>2
  <2>8. Max(Named(place)) \in 0 .. m
    <3>1. Named(place) \subseteq 1 .. m
      OBVIOUS
    <3> HIDE DEF Named
    <3>2. Max(Named(place)) \in 1 .. m
      BY <1>1, <2>7, <3>1, MaxExists
    <3>. QED
      BY <1>1, <3>2
  <2>. QED
    BY <1>1, <1>2, <2>6, <2>8
<1>. QED
  BY <1>3, <1>4 DEF q

(* A document has a place that is as deep as any. *)
LEMMA DepthExists ==
  ASSUME NEW document, IsDocument(document)
  PROVE  \E d \in Nat : \A place \in DOMAIN document : Len(place) <= d
<1> DEFINE S == DOMAIN document
<1>1. PICK n \in Nat : \E f : f \in Surjection(1 .. n, S)
  <2>1. IsFiniteSet(S)
    BY DEF IsDocument
  <2> HIDE DEF S
  <2>. QED
    BY <2>1, FS_NatSurjection DEF ExistsSurjection
<1>2. PICK f : f \in Surjection(1 .. n, S)
  BY <1>1
<1>3. /\ \A k \in 1 .. n : f[k] \in S
      /\ \A place \in S : \E k \in 1 .. n : f[k] = place
  BY <1>2 DEF Surjection
<1> DEFINE T == {k \in Nat : \E d \in Nat : \A j \in 1 .. k : Len(f[j]) <= d}
<1>4. 0 \in T
  <2>1. 0 \in Nat /\ \A j \in 1 .. 0 : Len(f[j]) <= 0
    OBVIOUS
  <2>. QED
    BY <2>1
<1>5. ASSUME NEW k \in 0 .. n, k \in T, k < n
      PROVE  k + 1 \in T
  <2>1. PICK d \in Nat : \A j \in 1 .. k : Len(f[j]) <= d
    BY <1>5
  <2>2. k + 1 \in 1 .. n /\ \A j \in 1 .. k : j \in 1 .. n
    BY <1>5
  <2>3. Len(f[k + 1]) \in Nat /\ \A j \in 1 .. k : Len(f[j]) \in Nat
    BY <1>3, <2>2, PlaceIs
  <2>4. d + Len(f[k + 1]) \in Nat /\ k + 1 \in Nat
    BY <2>2, <2>3
  <2>5. \A j \in 1 .. k + 1 : Len(f[j]) <= d + Len(f[k + 1])
    <3> SUFFICES ASSUME NEW j \in 1 .. k + 1 PROVE Len(f[j]) <= d + Len(f[k + 1])
      OBVIOUS
    <3>1. CASE j = k + 1
      BY <2>3, <3>1
    <3>2. CASE j \in 1 .. k
      <4>1. Len(f[j]) <= d /\ Len(f[j]) \in Nat
        BY <2>1, <2>3, <3>2
      <4>. QED
        BY <2>3, <4>1
    <3>. QED
      BY <1>5, <3>1, <3>2
  <2>. QED
    BY <2>4, <2>5
<1> HIDE DEF T
<1>6. 0 .. n \subseteq T
  BY <1>4, <1>5, UpTo
<1>7. PICK d \in Nat : \A j \in 1 .. n : Len(f[j]) <= d
  <2>1. n \in T
    BY <1>6
  <2>. QED
    BY <2>1 DEF T
<1>. QED
  BY <1>3, <1>7

-----------------------------------------------------------------------------
(***************************************************************************)
(* The recursion of extractSensors()                                       *)
(***************************************************************************)

(* A call is of a place of the document, and so is the call for a member. *)
LEMMA MemberCallIs ==
  ASSUME NEW document, IsDocument(document), NEW c \in Calls(document),
         NEW i \in 1 .. document[c.place].size
  PROVE  /\ c.place \in DOMAIN document
         /\ MemberCall(document, c, i) \in Calls(document)
         /\ MemberCall(document, c, i).place = Append(c.place, i)
<1> DEFINE names == {document[place].name : place \in DOMAIN document}
           severities == {"none"} \cup {document[place].severity : place \in DOMAIN document}
           q == Append(c.place, i)
           next == MemberCall(document, c, i)
<1>1. Calls(document) = [name : names, place : DOMAIN document, inherited : severities]
  BY DEF Calls
<1> HIDE DEF names, severities
<1>2. c.place \in DOMAIN document /\ c.name \in names /\ c.inherited \in severities
  BY <1>1
<1>3. q \in DOMAIN document
  BY <1>2, MemberPlace
<1>4. document[q].name \in names /\ document[c.place].severity \in severities
  BY <1>2, <1>3 DEF names, severities
<1>5. next = [name |-> IF document[c.place].kind = "array" THEN c.name ELSE document[q].name,
              place |-> q,
              inherited |-> SeverityAt(document[c.place], c.inherited)]
  BY DEF MemberCall
<1>6. SeverityAt(document[c.place], c.inherited) \in severities
  BY <1>2, <1>4 DEF SeverityAt
<1> HIDE DEF q, next
<1>7. next.place = q /\ next \in [name : names, place : DOMAIN document, inherited : severities]
  BY <1>2, <1>3, <1>4, <1>5, <1>6
<1>. QED
  BY <1>1, <1>2, <1>7 DEF q, next

(* A node depends on the calls for its members alone. *)
LEMMA SameNode ==
  ASSUME NEW document, NEW c, NEW f, NEW g,
         \A i \in 1 .. document[c.place].size :
           f[MemberCall(document, c, i)] = g[MemberCall(document, c, i)]
  PROVE  FromNode(document, c, f) = FromNode(document, c, g)
<1>1. ASSUME NEW i \in 1 .. document[c.place].size
      PROVE  FromMember(document, c, i, f) = FromMember(document, c, i, g)
  BY DEF FromMember
<1>2. [i \in 1 .. document[c.place].size |-> FromMember(document, c, i, f)]
        = [i \in 1 .. document[c.place].size |-> FromMember(document, c, i, g)]
  BY <1>1
<1>. QED
  BY <1>2 DEF FromNode

(* The recursion ends: it goes down to a member, and a document has a depth. *)
LEMMA ExtractIs ==
  ASSUME NEW document, IsDocument(document)
  PROVE  extractSensors(document)
           = [c \in Calls(document) |-> FromNode(document, c, extractSensors(document))]
<1>1. PICK d \in Nat : \A place \in DOMAIN document : Len(place) <= d
  BY DepthExists
<1>2. \A c \in Calls(document) : c.place \in DOMAIN document /\ Len(c.place) \in Nat
  <2>1. \A c \in Calls(document) : c.place \in DOMAIN document
    BY DEF Calls
  <2>. QED
    BY <2>1, PlaceIs
<1> DEFINE Deep(k) == {c \in Calls(document) : Len(c.place) + k > d}
           Upto(k) == \E f : f = [c \in Deep(k) |-> FromNode(document, c, f)]
           T == {k \in Nat : Upto(k)}
<1>3. 0 \in T
  <2>1. Deep(0) = {}
    BY <1>1, <1>2
  <2> DEFINE f == [c \in {} |-> 0]
  <2>2. f = [c \in Deep(0) |-> FromNode(document, c, f)]
    BY <2>1
  <2> HIDE DEF f, Deep
  <2>3. Upto(0)
    BY <2>2
  <2>. QED
    BY <2>3
<1>4. ASSUME NEW k \in 0 .. d + 1, k \in T, k < d + 1
      PROVE  k + 1 \in T
  <2>1. PICK f : f = [c \in Deep(k) |-> FromNode(document, c, f)]
    BY <1>4
  <2> DEFINE g == [c \in Deep(k + 1) |-> FromNode(document, c, f)]
  <2>2. k \in Nat /\ k + 1 \in Nat
    OBVIOUS
  <2>3. Deep(k) \subseteq Deep(k + 1)
    BY <1>2, <2>2
  <2>4. ASSUME NEW c \in Deep(k + 1), NEW i \in 1 .. document[c.place].size
        PROVE  MemberCall(document, c, i) \in Deep(k)
    <3>1. /\ MemberCall(document, c, i) \in Calls(document)
          /\ MemberCall(document, c, i).place = Append(c.place, i)
      BY MemberCallIs
    <3>2. Len(Append(c.place, i)) = Len(c.place) + 1
      BY <1>2, MemberPlace
    <3>3. Len(c.place) + (k + 1) > d /\ Len(c.place) \in Nat /\ c.place \in DOMAIN document
      BY <1>2
    <3>4. (Len(c.place) + 1) + k > d
      <4> DEFINE n == Len(c.place)
      <4>1. n \in Nat /\ n + (k + 1) > d
        BY <3>3
      <4> HIDE DEF n
      <4>2. (n + 1) + k > d
        BY <2>2, <4>1
      <4>. QED
        BY <4>2 DEF n
    <3>. QED
      BY <3>1, <3>2, <3>4
  <2> HIDE DEF Deep
  <2>5. \A c \in Deep(k) : f[c] = FromNode(document, c, f) /\ g[c] = FromNode(document, c, f)
    BY <2>1, <2>3
  <2>6. ASSUME NEW c \in Deep(k + 1)
        PROVE  FromNode(document, c, f) = FromNode(document, c, g)
    <3> HIDE DEF g
    <3>1. \A i \in 1 .. document[c.place].size :
            f[MemberCall(document, c, i)] = g[MemberCall(document, c, i)]
      BY <2>4, <2>5
    <3>. QED
      BY <3>1, SameNode
  <2>7. g = [c \in Deep(k + 1) |-> FromNode(document, c, g)]
    <3> DEFINE h == [c \in Deep(k + 1) |-> FromNode(document, c, g)]
    <3>1. g = h
      BY <2>6
    <3>. QED
      BY <3>1
  <2> HIDE DEF g
  <2>8. Upto(k + 1)
    BY <2>7
  <2>. QED
    BY <2>2, <2>8
<1>5. d + 1 \in Nat /\ Deep(d + 1) = Calls(document)
  <2>1. ASSUME NEW c \in Calls(document)
        PROVE  Len(c.place) + (d + 1) > d
    <3> DEFINE n == Len(c.place)
    <3>1. n \in Nat
      BY <1>2
    <3> HIDE DEF n
    <3>2. n + (d + 1) > d
      BY <3>1
    <3>. QED
      BY <3>2 DEF n
  <2>2. d + 1 \in Nat
    OBVIOUS
  <2>3. Deep(d + 1) \subseteq Calls(document) /\ Calls(document) \subseteq Deep(d + 1)
    BY <2>1
  <2>. QED
    BY <2>2, <2>3
<1> HIDE DEF T
<1>6. 0 .. d + 1 \subseteq T
  BY <1>3, <1>4, <1>5, UpTo
<1> HIDE DEF Deep, Upto
<1>7. Upto(d + 1)
  <2>1. d + 1 \in T
    BY <1>5, <1>6
  <2>. QED
    BY <2>1 DEF T
<1>8. \E f : f = [c \in Calls(document) |-> FromNode(document, c, f)]
  BY <1>5, <1>7 DEF Upto
<1> DEFINE R(f) == f = [c \in Calls(document) |-> FromNode(document, c, f)]
<1>9. extractSensors(document) = CHOOSE f : R(f)
  BY DEF extractSensors
<1>10. \E f : R(f)
  BY <1>8
<1> HIDE DEF R
<1>11. R(extractSensors(document))
  BY <1>9, <1>10
<1>. QED
  BY <1>11 DEF R

-----------------------------------------------------------------------------
(***************************************************************************)
(* What a call of extractSensors() tells of a sensor                       *)
(***************************************************************************)

ReportingBelow(document, sensor, place) ==
  {q \in Below(document, place) : ReportsOn(document, sensor, q)}

(* A call that the walk comes to: it has the name and the severity that its place
   has in the document, and is of no number that its parent has dealt with. *)
Proper(document, c) ==
  /\ c \in Calls(document) /\ c.place # <<>> /\ document[<<>>].kind = "object"
  /\ c.name = NameAt(document, c.place)
  /\ c.inherited = NearestSeverity(document, Front(c.place))
  /\ document[c.place].kind = "number" /\ Len(c.place) > 1
       => document[Front(c.place)].kind # "object"

(* With its own severity it has the nearest one, which is in the document. *)
LEMMA SeverityOfCall ==
  ASSUME NEW document, IsDocument(document), NEW c, Proper(document, c)
  PROVE  /\ c.place \in DOMAIN document
         /\ SeverityAt(document[c.place], c.inherited) = NearestSeverity(document, c.place)
         /\ NearestSeverity(document, c.place)
              \in {"none"} \cup {document[place].severity : place \in DOMAIN document}
<1>1. c.place \in DOMAIN document /\ c.place # <<>>
      /\ c.inherited \in {"none"} \cup {document[place].severity : place \in DOMAIN document}
  BY DEF Proper, Calls
<1> DEFINE parent == Front(c.place)
           i == c.place[Len(c.place)]
<1>2. parent \in DOMAIN document /\ i \in 1 .. document[parent].size /\ c.place = Append(parent, i)
  BY <1>1, ParentPlace
<1>3. NearestSeverity(document, Append(parent, i))
        = SeverityAt(document[Append(parent, i)], NearestSeverity(document, parent))
  BY <1>2, SeverityOfMember
<1>4. SeverityAt(document[c.place], c.inherited) = NearestSeverity(document, c.place)
  BY <1>2, <1>3 DEF Proper
<1>. QED
  BY <1>1, <1>4 DEF SeverityAt

(* What is found in the node itself. *)
LEMMA OwnTells ==
  ASSUME NEW document, IsDocument(document), NEW sensor \in Measurement \cup {Leak},
         NEW c, Proper(document, c)
  PROVE  Tells(document, sensor,
               IF document[c.place].kind = "object"
                 THEN LeakReport(c.name, SeverityAt(document[c.place], c.inherited)) ELSE <<>>,
               {q \in {c.place} : ReportsOn(document, sensor, q)})
<1> DEFINE severity == NearestSeverity(document, c.place)
           severities == {"none"} \cup {document[place].severity : place \in DOMAIN document}
           report == Report(Leak, severity, 0)
           places == {q \in {c.place} : ReportsOn(document, sensor, q)}
           name == NameAt(document, c.place)
<1>1. c.place \in DOMAIN document /\ severity \in severities
      /\ SeverityAt(document[c.place], c.inherited) = severity
  BY SeverityOfCall
<1>2. c.name = name /\ (document[c.place].kind = "number" /\ Len(c.place) > 1
                          => document[Front(c.place)].kind # "object")
  BY DEF Proper
<1>3. report \in ReportsOf(document)
  <2>1. Leak \in Measurement \cup {Leak} /\ 0 \in {0} \cup {document[place].value : place \in DOMAIN document}
    OBVIOUS
  <2>. QED
    BY <1>1, <2>1 DEF ReportsOf
<1>4. report.sensor = Leak /\ report.severity = normalizeSeverity(severity)
  BY DEF Report
<1>5. Leak \notin Measurement
  BY DEF Leak, Measurement
<1> HIDE DEF report, severity, severities, name
<1>6. ReportsOn(document, sensor, c.place)
        <=> IF sensor = Leak THEN name \in LeakNames /\ document[c.place].kind = "object"
            ELSE /\ name \in DOMAIN SensorOf /\ SensorOf[name] = sensor
                 /\ document[c.place].kind = "number"
                 /\ Len(c.place) > 1
                 /\ document[Front(c.place)].kind = "object"
  BY DEF ReportsOn, name
<1>7. CASE document[c.place].kind = "object" /\ IsLeak(name) /\ sensor = Leak
  <2>1. ReportsOn(document, sensor, c.place)
    BY <1>6, <1>7 DEF IsLeak
  <2>2. places = {c.place}
    BY <2>1
  <2>3. LeakReport(c.name, severity) = <<report>>
    BY <1>2, <1>7 DEF LeakReport, report
  <2>4. IsReportAt(document, sensor, c.place, report)
    BY <1>4, <1>7 DEF IsReportAt, severity
  <2>5. Tells(document, sensor, <<report>>, {c.place})
    BY <1>3, <2>4, OneTells
  <2>. QED
    BY <1>1, <1>7, <2>2, <2>3, <2>5
<1>8. CASE document[c.place].kind = "object" /\ IsLeak(name) /\ sensor # Leak
  <2>1. ~ReportsOn(document, sensor, c.place)
    BY <1>6, <1>8 DEF IsLeak
  <2>2. places = {}
    BY <2>1
  <2>3. LeakReport(c.name, severity) = <<report>>
    BY <1>2, <1>8 DEF LeakReport, report
  <2>4. Tells(document, sensor, <<report>>, {})
    BY <1>3, <1>4, <1>8, OtherTells
  <2>. QED
    BY <1>1, <1>8, <2>2, <2>3, <2>4
<1>9. CASE document[c.place].kind = "object" /\ ~IsLeak(name)
  <2>1. ~ReportsOn(document, sensor, c.place)
    BY <1>6, <1>9 DEF IsLeak
  <2>2. places = {}
    BY <2>1
  <2>3. LeakReport(c.name, severity) = <<>>
    BY <1>2, <1>9 DEF LeakReport
  <2>. QED
    BY <1>1, <1>9, <2>2, <2>3, NothingTells
<1>10. CASE document[c.place].kind # "object"
  <2>1. ~ReportsOn(document, sensor, c.place)
    BY <1>2, <1>6, <1>10
  <2>2. places = {}
    BY <2>1
  <2>. QED
    BY <1>10, <2>2, NothingTells
<1>. QED
  BY <1>7, <1>8, <1>9, <1>10

(* A number in an object is a measurement, or nothing. *)
LEMMA NumberTells ==
  ASSUME NEW document, IsDocument(document), NEW sensor \in Measurement \cup {Leak},
         NEW c, Proper(document, c), NEW i \in 1 .. document[c.place].size,
         document[c.place].kind = "object", document[Append(c.place, i)].kind = "number",
         NEW found
  PROVE  Tells(document, sensor, FromMember(document, c, i, found),
               ReportingBelow(document, sensor, Append(c.place, i)))
<1> DEFINE q == Append(c.place, i)
           member == document[q]
           severity == NearestSeverity(document, c.place)
           severities == {"none"} \cup {document[place].severity : place \in DOMAIN document}
           report == Report(SensorOf[member.name], severity, member.value)
           places == ReportingBelow(document, sensor, q)
<1>1. c.place \in DOMAIN document /\ severity \in severities
      /\ SeverityAt(document[c.place], c.inherited) = severity
  BY SeverityOfCall
<1>2. /\ q \in DOMAIN document /\ Front(q) = c.place /\ Len(q) = Len(c.place) + 1
      /\ NearestSeverity(document, q) = SeverityAt(member, severity)
      /\ NameAt(document, q) = member.name
  BY <1>1, MemberPlace, SeverityOfMember, NameOfMember
<1>3. Len(q) > 1
  <2>1. Len(c.place) \in Nat \ {0}
    BY <1>1, ParentPlace DEF Proper
  <2>. QED
    BY <1>2, <2>1
<1> HIDE DEF q
<1>4. member.severity = "none" /\ member.size = 0
  BY <1>2 DEF IsDocument, q
<1>5. NearestSeverity(document, q) = severity
  BY <1>2, <1>4 DEF SeverityAt
<1>6. Below(document, q) = {q}
  <2>1. 1 .. member.size = {}
    BY <1>4
  <2>2. Below(document, q) = {q} \cup UNION {Below(document, Append(q, j)) : j \in 1 .. member.size}
    BY <1>2, BelowMembers
  <2>. QED
    BY <2>1, <2>2
<1>7. places = {p \in {q} : ReportsOn(document, sensor, p)}
  BY <1>6 DEF ReportingBelow
<1>8. FromMember(document, c, i, found) = MeasurementReport(member, severity)
  BY <1>1 DEF FromMember, MemberCall, q
<1>9. Leak \notin Measurement
  BY DEF Leak, Measurement
<1>10. ReportsOn(document, sensor, q)
        <=> member.name \in DOMAIN SensorOf /\ SensorOf[member.name] = sensor /\ sensor # Leak
  BY <1>2, <1>3 DEF ReportsOn, q
<1>11. ASSUME IsMeasurement(member.name)
       PROVE  /\ report \in ReportsOf(document)
              /\ report.sensor = SensorOf[member.name] /\ report.value = member.value
              /\ report.severity = normalizeSeverity(severity)
              /\ MeasurementReport(member, severity) = <<report>>
  <2>1. SensorOf[member.name] \in Measurement \cup {Leak}
    BY <1>11, ExtractAssumption DEF IsMeasurement
  <2>2. member.value \in {0} \cup {document[place].value : place \in DOMAIN document}
    BY <1>2
  <2>3. report \in ReportsOf(document)
    BY <1>1, <2>1, <2>2 DEF ReportsOf
  <2>. QED
    BY <1>11, <2>3 DEF Report, MeasurementReport
<1> HIDE DEF report, severity, severities, places
<1>12. CASE IsMeasurement(member.name) /\ SensorOf[member.name] = sensor
  <2>1. sensor # Leak /\ member.name \in DOMAIN SensorOf
    BY <1>9, <1>12, ExtractAssumption DEF IsMeasurement
  <2>2. places = {q}
    BY <1>7, <1>10, <1>12, <2>1
  <2>3. IsReportAt(document, sensor, q, report)
    BY <1>5, <1>11, <1>12 DEF IsReportAt
  <2>4. Tells(document, sensor, <<report>>, {q})
    BY <1>11, <1>12, <2>3, OneTells
  <2>. QED
    BY <1>8, <1>11, <1>12, <2>2, <2>4 DEF places, q
<1>13. CASE IsMeasurement(member.name) /\ SensorOf[member.name] # sensor
  <2>1. places = {}
    BY <1>7, <1>10, <1>13
  <2>2. Tells(document, sensor, <<report>>, {})
    BY <1>11, <1>13, OtherTells
  <2>. QED
    BY <1>8, <1>11, <1>13, <2>1, <2>2 DEF places, q
<1>14. CASE ~IsMeasurement(member.name)
  <2>1. places = {}
    BY <1>7, <1>10, <1>14 DEF IsMeasurement
  <2>2. MeasurementReport(member, severity) = <<>>
    BY <1>14 DEF MeasurementReport
  <2>. QED
    BY <1>8, <2>1, <2>2, NothingTells DEF places, q
<1>. QED
  BY <1>12, <1>13, <1>14

(* The walk comes to the calls for all other members. *)
LEMMA MemberIsProper ==
  ASSUME NEW document, IsDocument(document),
         NEW c, Proper(document, c), NEW i \in 1 .. document[c.place].size,
         ~(document[c.place].kind = "object" /\ document[Append(c.place, i)].kind = "number")
  PROVE  Proper(document, MemberCall(document, c, i))
<1> DEFINE q == Append(c.place, i)
           next == MemberCall(document, c, i)
           node == document[c.place]
<1>1. c \in Calls(document) /\ c.place # <<>> /\ document[<<>>].kind = "object"
      /\ c.name = NameAt(document, c.place)
  BY DEF Proper
<1>2. c.place \in DOMAIN document /\ next \in Calls(document) /\ next.place = q
  BY <1>1, MemberCallIs
<1>3. /\ q \in DOMAIN document /\ Front(q) = c.place /\ Len(q) = Len(c.place) + 1
      /\ node.kind = "object" => NameAt(document, q) = document[q].name
      /\ node.kind # "object" => NameAt(document, q) = NameAt(document, c.place)
  BY <1>1, <1>2, MemberPlace, NameOfMember
<1>4. node.kind = "object" \/ node.kind = "array"
  <2>1. node.size # 0
    <3>1. node.size \in Nat
      BY <1>2, PlaceIs
    <3>. QED
      BY <3>1
  <2>. QED
    BY <1>2, <2>1 DEF IsDocument
<1>5. /\ next.name = IF node.kind = "array" THEN c.name ELSE document[q].name
      /\ next.inherited = SeverityAt(node, c.inherited)
  BY DEF MemberCall
<1>6. next.inherited = NearestSeverity(document, c.place)
  BY <1>5, SeverityOfCall
<1>7. next.name = NameAt(document, q)
  BY <1>1, <1>3, <1>4, <1>5
<1>8. q # <<>>
  <2> DEFINE m == Len(c.place)
  <2>1. m \in Nat /\ Len(q) = m + 1
    BY <1>2, <1>3, PlaceIs
  <2> HIDE DEF m, q
  <2>2. Len(q) # 0
    BY <2>1
  <2>. QED
    BY <2>2, EmptySeq
<1> HIDE DEF q, next
<1>9. ~(node.kind = "object" /\ document[q].kind = "number")
  BY DEF q
<1>. QED
  BY <1>1, <1>2, <1>3, <1>6, <1>7, <1>8, <1>9 DEF Proper, next

(* What is found in a node and below it, if this is so of its members. *)
LEMMA NodeTells ==
  ASSUME NEW document, IsDocument(document), NEW sensor \in Measurement \cup {Leak},
         NEW c, Proper(document, c), NEW found,
         \A i \in 1 .. document[c.place].size :
           Proper(document, MemberCall(document, c, i)) =>
             Tells(document, sensor, found[MemberCall(document, c, i)],
                   ReportingBelow(document, sensor, Append(c.place, i)))
  PROVE  Tells(document, sensor, FromNode(document, c, found),
               ReportingBelow(document, sensor, c.place))
<1> DEFINE n == document[c.place].size
           own == IF document[c.place].kind = "object"
                    THEN LeakReport(c.name, SeverityAt(document[c.place], c.inherited)) ELSE <<>>
           places == {q \in {c.place} : ReportsOn(document, sensor, q)}
           lists == [i \in 1 .. n |-> FromMember(document, c, i, found)]
           later == [i \in 1 .. n |-> ReportingBelow(document, sensor, Append(c.place, i))]
<1>1. c.place \in DOMAIN document /\ n \in Nat
  BY PlaceIs, SeverityOfCall
<1>2. Tells(document, sensor, own, places)
  BY OwnTells
<1>3. ASSUME NEW i \in 1 .. n
      PROVE  Tells(document, sensor, FromMember(document, c, i, found),
                   ReportingBelow(document, sensor, Append(c.place, i)))
  <2>1. CASE document[c.place].kind = "object" /\ document[Append(c.place, i)].kind = "number"
    BY <2>1, NumberTells
  <2>2. CASE ~(document[c.place].kind = "object" /\ document[Append(c.place, i)].kind = "number")
    <3>1. Proper(document, MemberCall(document, c, i))
      BY <2>2, MemberIsProper
    <3>2. MemberCall(document, c, i).place = Append(c.place, i)
      BY DEF MemberCall
    <3>3. FromMember(document, c, i, found) = found[MemberCall(document, c, i)]
      BY <2>2, <3>2 DEF FromMember
    <3>. QED
      BY <3>1, <3>3
  <2>. QED
    BY <2>1, <2>2
<1>4. \A i \in 1 .. n : Tells(document, sensor, lists[i], later[i])
  BY <1>3
<1>5. ASSUME NEW i \in 1 .. n, NEW p \in later[i]
      PROVE  p \in Below(document, Append(c.place, i))
  BY <1>5 DEF ReportingBelow
<1>6. \A p \in places : \A i \in 1 .. n : \A q \in later[i] : Before(p, q)
  <2> SUFFICES ASSUME NEW p \in places, NEW i \in 1 .. n, NEW q \in later[i] PROVE Before(p, q)
    OBVIOUS
  <2>1. p = c.place /\ q \in Below(document, Append(c.place, i))
    BY <1>5
  <2>. QED
    BY <1>1, <2>1, MembersInOrder
<1>7. \A i, j \in 1 .. n : i < j => \A p \in later[i] : \A q \in later[j] : Before(p, q)
  <2> SUFFICES ASSUME NEW i \in 1 .. n, NEW j \in 1 .. n, i < j, NEW p \in later[i], NEW q \in later[j]
               PROVE  Before(p, q)
    OBVIOUS
  <2>1. p \in Below(document, Append(c.place, i)) /\ q \in Below(document, Append(c.place, j))
    BY <1>5
  <2>. QED
    BY <1>1, <2>1, MembersInOrder
<1>8. Len(lists) = n /\ lists = [i \in 1 .. n |-> lists[i]]
  BY <1>1
<1>9. Together(places, n, later) = ReportingBelow(document, sensor, c.place)
  <2>1. Below(document, c.place)
          = {c.place} \cup UNION {Below(document, Append(c.place, i)) : i \in 1 .. n}
    BY <1>1, BelowMembers
  <2>2. \A i \in 1 .. n : \A q :
          q \in later[i] <=> q \in Below(document, Append(c.place, i)) /\ ReportsOn(document, sensor, q)
    BY DEF ReportingBelow
  <2>3. \A q : q \in Below(document, c.place)
                 <=> \/ q = c.place
                     \/ \E i \in 1 .. n : q \in Below(document, Append(c.place, i))
    BY <2>1
  <2>4. \A q : q \in Together(places, n, later)
                 <=> q \in places \/ \E i \in 1 .. n : q \in later[i]
    <3> HIDE DEF places, n, later
    <3>. QED
      BY DEF Together
  <2>5. \A q : q \in places <=> q = c.place /\ ReportsOn(document, sensor, q)
    OBVIOUS
  <2>6. \A q : q \in ReportingBelow(document, sensor, c.place)
                 <=> q \in Below(document, c.place) /\ ReportsOn(document, sensor, q)
    BY DEF ReportingBelow
  <2> HIDE DEF places, n, later
  <2>7. \A q : q \in Together(places, n, later)
                 <=> q \in ReportingBelow(document, sensor, c.place)
    BY <2>2, <2>3, <2>4, <2>5, <2>6
  <2>. QED
    BY <2>7
<1>10. FromNode(document, c, found) = own \o FlattenSeq(lists)
  BY DEF FromNode
<1> HIDE DEF own, lists, later, places, n
<1>11. EachTells(document, sensor, n, lists, later) /\ OneAfterTheOther(places, n, later)
  BY <1>4, <1>6, <1>7, <1>8 DEF EachTells, OneAfterTheOther
<1>12. Tells(document, sensor, own \o FlattenSeq(lists), Together(places, n, later))
  BY <1>1, <1>2, <1>11, AllTell
<1>. QED
  BY <1>9, <1>10, <1>12

(* So it is of every call, from the deepest places up. *)
LEMMA CallTells ==
  ASSUME NEW document, IsDocument(document), NEW sensor \in Measurement \cup {Leak},
         NEW call, Proper(document, call)
  PROVE  Tells(document, sensor, extractSensors(document)[call],
               ReportingBelow(document, sensor, call.place))
<1> DEFINE found == extractSensors(document)
<1>1. PICK d \in Nat : \A place \in DOMAIN document : Len(place) <= d
  BY DepthExists
<1>2. found = [c \in Calls(document) |-> FromNode(document, c, found)]
  BY ExtractIs
<1> HIDE DEF found
<1> DEFINE Holds(c) == Tells(document, sensor, found[c], ReportingBelow(document, sensor, c.place))
           T == {k \in Nat : \A c \in Calls(document) :
                               Proper(document, c) /\ Len(c.place) + k > d => Holds(c)}
<1>3. \A c \in Calls(document) : c.place \in DOMAIN document /\ Len(c.place) \in Nat
  <2>1. \A c \in Calls(document) : c.place \in DOMAIN document
    BY DEF Calls
  <2>. QED
    BY <2>1, PlaceIs
<1>4. 0 \in T
  <2>1. ASSUME NEW c \in Calls(document)
        PROVE  ~(Len(c.place) + 0 > d)
    <3> DEFINE n == Len(c.place)
    <3>1. n \in Nat /\ n <= d
      BY <1>1, <1>3
    <3> HIDE DEF n
    <3>2. ~(n + 0 > d)
      BY <3>1
    <3>. QED
      BY <3>2 DEF n
  <2> HIDE DEF Holds
  <2>. QED
    BY <2>1
<1>5. ASSUME NEW k \in 0 .. d + 1, k \in T, k < d + 1
      PROVE  k + 1 \in T
  <2>1. ASSUME NEW c \in Calls(document), Proper(document, c), Len(c.place) + (k + 1) > d
        PROVE  Holds(c)
    <3>1. ASSUME NEW i \in 1 .. document[c.place].size,
                 Proper(document, MemberCall(document, c, i))
          PROVE  Tells(document, sensor, found[MemberCall(document, c, i)],
                       ReportingBelow(document, sensor, Append(c.place, i)))
      <4> DEFINE next == MemberCall(document, c, i)
      <4>1. next \in Calls(document) /\ next.place = Append(c.place, i)
        BY MemberCallIs
      <4>2. Len(Append(c.place, i)) = Len(c.place) + 1
        BY <1>3, MemberPlace
      <4>3. Len(c.place) + 1 + k > d
        <5> DEFINE n == Len(c.place)
        <5>1. n \in Nat /\ n + (k + 1) > d
          BY <1>3, <2>1
        <5> HIDE DEF n
        <5>2. n + 1 + k > d
          BY <5>1
        <5>. QED
          BY <5>2 DEF n
      <4>4. Proper(document, next) /\ Len(next.place) + k > d
        BY <3>1, <4>1, <4>2, <4>3
      <4> HIDE DEF next, Holds
      <4>5. Holds(next)
        BY <1>5, <4>1, <4>4
      <4>. QED
        BY <4>1, <4>5 DEF Holds, next
    <3>2. Tells(document, sensor, FromNode(document, c, found),
                ReportingBelow(document, sensor, c.place))
      BY <2>1, <3>1, NodeTells
    <3>3. found[c] = FromNode(document, c, found)
      BY <1>2
    <3>. QED
      BY <3>2, <3>3
  <2> HIDE DEF Holds
  <2>2. k + 1 \in Nat
    BY <1>1
  <2>3. \A c \in Calls(document) :
          Proper(document, c) /\ Len(c.place) + (k + 1) > d => Holds(c)
    BY <2>1
  <2>. QED
    BY <2>2, <2>3
<1> HIDE DEF T
<1>6. d + 1 \in Nat
  BY <1>1
<1>7. 0 .. d + 1 \subseteq T
  BY <1>4, <1>5, <1>6, UpTo
<1>8. d + 1 \in T
  BY <1>6, <1>7
<1>9. call \in Calls(document) /\ Len(call.place) + (d + 1) > d
  <2> DEFINE n == Len(call.place)
  <2>1. call \in Calls(document) /\ n \in Nat
    BY <1>3 DEF Proper
  <2> HIDE DEF n
  <2>2. n + (d + 1) > d
    BY <1>1, <2>1
  <2>. QED
    BY <2>1, <2>2 DEF n
<1> HIDE DEF Holds
<1>10. Holds(call)
  BY <1>8, <1>9 DEF T
<1>. QED
  BY <1>10 DEF Holds, found

(* What is no JSON has no places, and all else has a root. *)
LEMMA RootIsPlace ==
  ASSUME NEW document, IsDocument(document), ~Malformed(document)
  PROVE  <<>> \in DOMAIN document /\ \A i \in Nat : Append(<<>>, i) = <<i>>
<1>1. PICK place \in DOMAIN document : TRUE
  BY DEF Malformed
<1>2. place \in Seq(Nat) /\ Len(place) \in Nat
  BY PlaceIs
<1>3. 0 \in 0 .. Len(place)
  BY <1>2
<1>4. SubSeq(place, 1, 0) \in DOMAIN document
  BY <1>3, BeginningIsPlace
<1>5. SubSeq(place, 1, 0) = <<>>
  <2>1. 0 \in Nat /\ \A j \in 1 .. 0 : place[j] \in Nat
    OBVIOUS
  <2>2. SubSeq(place, 1, 0) \in Seq(Nat) /\ Len(SubSeq(place, 1, 0)) = 0
    BY <2>1, PrefixIs
  <2>. QED
    BY <2>2, EmptySeq
<1>6. ASSUME NEW i \in Nat
      PROVE  Append(<<>>, i) = <<i>>
  <2> DEFINE p == Append(<<>>, i)
             q == <<i>>
  <2>1. <<>> \in Seq(Nat) /\ Len(<<>>) = 0 /\ 0 + 1 = 1
    OBVIOUS
  <2>2. p \in Seq(Nat) /\ Len(p) = 1 /\ p[1] = i
    BY <2>1, AppendProperties
  <2>3. q \in Seq(Nat) /\ Len(q) = 1 /\ q[1] = i
    OBVIOUS
  <2> HIDE DEF p, q
  <2>4. \A j \in 1 .. Len(p) : p[j] = q[j]
    BY <2>2, <2>3
  <2>5. p = q
    BY <2>2, <2>3, <2>4, SeqEqual
  <2>. QED
    BY <2>5 DEF p, q
<1>. QED
  BY <1>4, <1>5, <1>6

(* An envelope is walked from its place, with its name and no severity. *)
LEMMA EnvelopeTells ==
  ASSUME NEW document, IsDocument(document), NEW sensor \in Measurement \cup {Leak},
         NEW mode, HasEnvelope(mode, document), NEW i \in 1 .. document[<<>>].size
  PROVE  Tells(document, sensor, FromEnvelope(mode, document, i),
               IF i \in EnvelopesIn(mode, document)
                 THEN ReportingBelow(document, sensor, Append(<<>>, i)) ELSE {})
<1>1. document[<<>>].kind = "object" /\ <<>> \in DOMAIN document /\ Append(<<>>, i) = <<i>>
  BY RootIsPlace DEF HasEnvelope
<1>2. CASE i \notin EnvelopesIn(mode, document)
  BY <1>2, NothingTells DEF FromEnvelope
<1>3. CASE i \in EnvelopesIn(mode, document)
  <2> DEFINE q == Append(<<>>, i)
             call == [name |-> document[q].name, place |-> q, inherited |-> "none"]
  <2>1. /\ q \in DOMAIN document /\ Front(q) = <<>> /\ Len(q) = 1
        /\ NameAt(document, q) = document[q].name
    <3>1. q \in DOMAIN document /\ Front(q) = <<>> /\ Len(q) = Len(<<>>) + 1
      BY <1>1, MemberPlace
    <3>2. NameAt(document, q) = document[q].name
      BY <1>1, NameOfMember
    <3>. QED
      BY <3>1, <3>2
  <2> HIDE DEF q
  <2>2. call \in Calls(document) /\ call.place = q
    <3> DEFINE names == {document[place].name : place \in DOMAIN document}
               severities == {"none"} \cup {document[place].severity : place \in DOMAIN document}
    <3>1. document[q].name \in names /\ "none" \in severities
      BY <2>1
    <3>2. Calls(document) = [name : names, place : DOMAIN document, inherited : severities]
      BY DEF Calls
    <3> HIDE DEF names, severities
    <3>. QED
      BY <2>1, <3>1, <3>2
  <2>3. q # <<>>
    <3>1. Len(<<>>) = 0 /\ Len(q) # 0
      BY <2>1
    <3>. QED
      BY <3>1
  <2>4. NearestSeverity(document, Front(q)) = "none"
    BY <2>1, SeverityOfRoot
  <2>5. ~(Len(q) > 1)
    BY <2>1
  <2>6. Proper(document, call)
    BY <1>1, <2>1, <2>2, <2>3, <2>4, <2>5 DEF Proper
  <2>7. FromEnvelope(mode, document, i) = extractSensors(document)[call]
    BY <1>1, <1>3 DEF FromEnvelope, q
  <2> HIDE DEF call
  <2>8. Tells(document, sensor, extractSensors(document)[call], ReportingBelow(document, sensor, call.place))
    BY <2>6, CallTells
  <2>. QED
    BY <1>3, <2>2, <2>7, <2>8 DEF q
<1>. QED
  BY <1>2, <1>3

(* What the job of a document tells of a sensor: the places below the envelopes. *)
LEMMA JobTells ==
  ASSUME NEW document, IsDocument(document), NEW sensor \in Measurement \cup {Leak},
         NEW mode, HasEnvelope(mode, document)
  PROVE  Tells(document, sensor, jobReports(mode, document), Reporting(mode, document, sensor))
<1> DEFINE n == document[<<>>].size
           lists == [i \in 1 .. n |-> FromEnvelope(mode, document, i)]
           Of(i) == IF i \in EnvelopesIn(mode, document)
                      THEN ReportingBelow(document, sensor, Append(<<>>, i)) ELSE {}
           later == [i \in 1 .. n |-> Of(i)]
<1>1. <<>> \in DOMAIN document /\ n \in Nat /\ EnvelopesIn(mode, document) \subseteq 1 .. n
  BY RootIsPlace, PlaceIs DEF HasEnvelope, EnvelopesIn
<1>2. EachTells(document, sensor, n, lists, later)
  <2>1. \A i \in 1 .. n : Tells(document, sensor, FromEnvelope(mode, document, i), Of(i))
    BY EnvelopeTells
  <2>2. Len(lists) = n /\ lists = [i \in 1 .. n |-> lists[i]]
    BY <1>1
  <2>3. \A i \in 1 .. n : Tells(document, sensor, lists[i], later[i])
    BY <2>1
  <2> HIDE DEF lists, later, n
  <2>. QED
    BY <2>2, <2>3 DEF EachTells
<1>3. ASSUME NEW i \in 1 .. n, NEW p \in later[i]
      PROVE  p \in Below(document, Append(<<>>, i))
  BY <1>3 DEF ReportingBelow
<1>4. OneAfterTheOther({}, n, later)
  <2>1. ASSUME NEW i \in 1 .. n, NEW j \in 1 .. n, i < j, NEW p \in later[i], NEW q \in later[j]
        PROVE  Before(p, q)
    <3>1. p \in Below(document, Append(<<>>, i)) /\ q \in Below(document, Append(<<>>, j))
      BY <1>3
    <3>. QED
      BY <1>1, <2>1, <3>1, MembersInOrder
  <2> HIDE DEF later, n
  <2>. QED
    BY <2>1 DEF OneAfterTheOther
<1>5. Together({}, n, later) = Reporting(mode, document, sensor)
  <2>1. \A p : p \in Together({}, n, later) <=> \E i \in 1 .. n : p \in later[i]
    <3> HIDE DEF later, n
    <3>. QED
      BY DEF Together
  <2>2. \A i \in 1 .. n : \A p :
          p \in later[i] <=> /\ i \in EnvelopesIn(mode, document)
                             /\ p \in Below(document, Append(<<>>, i))
                             /\ ReportsOn(document, sensor, p)
    BY DEF ReportingBelow
  <2>3. ASSUME NEW i \in 1 .. n, NEW p
        PROVE  p \in Below(document, Append(<<>>, i))
                 <=> p \in DOMAIN document /\ p # <<>> /\ p[1] = i
    <3>1. Len(Append(<<>>, i)) = 1 /\ Append(<<>>, i)[1] = i
      <4>1. Append(<<>>, i) = <<i>>
        BY RootIsPlace DEF HasEnvelope
      <4>. QED
        BY <4>1
    <3>2. p \in DOMAIN document => Len(p) \in Nat /\ (p # <<>> <=> 1 <= Len(p))
      <4> SUFFICES ASSUME p \in DOMAIN document
                   PROVE  Len(p) \in Nat /\ (p # <<>> <=> 1 <= Len(p))
        OBVIOUS
      <4>1. p \in Seq(Nat) /\ Len(p) \in Nat
        BY PlaceIs
      <4>. QED
        BY <4>1, EmptySeq
    <3>3. p \in Below(document, Append(<<>>, i))
            <=> p \in DOMAIN document /\ 1 <= Len(p) /\ \A j \in 1 .. 1 : p[j] = Append(<<>>, i)[j]
      BY <3>1 DEF Below
    <3>. QED
      BY <3>1, <3>2, <3>3
  <2>4. \A p : p \in Reporting(mode, document, sensor)
                 <=> /\ p \in DOMAIN document /\ p # <<>>
                     /\ p[1] \in EnvelopesIn(mode, document)
                     /\ ReportsOn(document, sensor, p)
    BY DEF Reporting
  <2> HIDE DEF later, n
  <2>5. ASSUME NEW p
        PROVE  p \in Together({}, n, later) <=> p \in Reporting(mode, document, sensor)
    <3>1. \A i \in 1 .. n : p \in later[i]
            <=> /\ i \in EnvelopesIn(mode, document)
                /\ p \in DOMAIN document /\ p # <<>> /\ p[1] = i
                /\ ReportsOn(document, sensor, p)
      BY <2>2, <2>3
    <3>. QED
      BY <1>1, <2>1, <2>4, <3>1
  <2>. QED
    BY <2>5
<1>6. jobReports(mode, document) = FlattenSeq(lists)
  BY DEF jobReports
<1> HIDE DEF lists, later, n
<1>7. /\ Tells(document, sensor, <<>> \o FlattenSeq(lists), Together({}, n, later))
      /\ FlattenSeq(lists) \in Seq(ReportsOf(document))
  BY <1>1, <1>2, <1>4, NothingTells, AllTell
<1>8. <<>> \o FlattenSeq(lists) = FlattenSeq(lists)
  BY <1>7, ConcatEmptySeq
<1>. QED
  BY <1>5, <1>6, <1>7, <1>8

-----------------------------------------------------------------------------
(***************************************************************************)
(* What drainOne() leaves in the records                                   *)
(***************************************************************************)

(* What is changed, and what is not. *)
LEMMA UpdatedIs ==
  ASSUME NEW function, NEW changes
  PROVE  /\ \A x : x \in DOMAIN Updated(function, changes)
                    <=> x \in DOMAIN function \/ x \in DOMAIN changes
         /\ \A x : x \in DOMAIN changes => Updated(function, changes)[x] = changes[x]
         /\ \A x : x \in DOMAIN function /\ x \notin DOMAIN changes
                    => Updated(function, changes)[x] = function[x]
BY DEF Updated

(* An HSET writes its fields, and leaves the other records. *)
LEMMA HSetIs ==
  ASSUME NEW records, NEW key, NEW fields
  PROVE  /\ \A k : k \in DOMAIN HSet(records, key, fields) <=> k \in DOMAIN records \/ k = key
         /\ \A k : k \in DOMAIN records /\ k # key => HSet(records, key, fields)[k] = records[k]
         /\ \A f : f \in DOMAIN fields => HSet(records, key, fields)[key][f] = fields[f]
<1> DEFINE changes == [k \in {key} |-> Updated(FieldsOf(records, key), fields)]
<1>1. /\ \A k : k \in DOMAIN changes <=> k = key
      /\ changes[key] = Updated(FieldsOf(records, key), fields)
  OBVIOUS
<1> HIDE DEF changes
<1>2. HSet(records, key, fields) = Updated(records, changes)
  BY DEF HSet, changes
<1>3. \A f : f \in DOMAIN fields => changes[key][f] = fields[f]
  <2> DEFINE old == FieldsOf(records, key)
  <2> HIDE DEF old
  <2>1. \A f : f \in DOMAIN fields => Updated(old, fields)[f] = fields[f]
    BY UpdatedIs
  <2>. QED
    BY <1>1, <2>1 DEF old
<1>4. /\ \A k : k \in DOMAIN Updated(records, changes)
                 <=> k \in DOMAIN records \/ k \in DOMAIN changes
      /\ \A k : k \in DOMAIN changes => Updated(records, changes)[k] = changes[k]
      /\ \A k : k \in DOMAIN records /\ k \notin DOMAIN changes
                 => Updated(records, changes)[k] = records[k]
  BY UpdatedIs
<1>. QED
  BY <1>1, <1>2, <1>3, <1>4

(* The records after the first reports. *)
Drained(records, mode, reports, timestamp, after, m) ==
  after = [n \in 0 .. m |->
             IF n = 0 THEN records
             ELSE HSet(after[n - 1], Key(mode, reports[n].sensor),
                       Fields(mode, reports[n], timestamp))]

(* There are such records: the recursion goes down to the first report. *)
LEMMA DrainedExists ==
  ASSUME NEW records, NEW mode, NEW reports, NEW timestamp, NEW m \in Nat
  PROVE  \E after : Drained(records, mode, reports, timestamp, after, m)
<1> DEFINE Is(f, k) == Drained(records, mode, reports, timestamp, f, k)
           T == {k \in Nat : \E f : Is(f, k)}
<1>1. 0 \in T
  <2> DEFINE f == [n \in 0 .. 0 |-> records]
  <2>1. Is(f, 0)
    BY DEF Drained
  <2> HIDE DEF f, Is
  <2>. QED
    BY <2>1
<1>2. ASSUME NEW k \in 0 .. m, k \in T, k < m
      PROVE  k + 1 \in T
  <2>1. PICK f : Is(f, k)
    BY <1>2
  <2> DEFINE Step(n) == HSet(f[n - 1], Key(mode, reports[n].sensor),
                             Fields(mode, reports[n], timestamp))
             g == [n \in 0 .. k + 1 |-> IF n = 0 THEN records ELSE Step(n)]
  <2>2. k \in Nat /\ k + 1 \in Nat
    OBVIOUS
  <2>3. \A n \in 0 .. k : f[n] = IF n = 0 THEN records ELSE Step(n)
    BY <2>1 DEF Drained
  <2>4. \A n \in 0 .. k : n \in 0 .. k + 1
    BY <2>2
  <2>5. \A n \in 0 .. k : g[n] = f[n]
    BY <2>3, <2>4
  <2>6. \A n \in 0 .. k + 1 : n # 0 => n - 1 \in 0 .. k
    BY <2>2
  <2>7. \A n \in 0 .. k + 1 :
          g[n] = IF n = 0 THEN records
                 ELSE HSet(g[n - 1], Key(mode, reports[n].sensor),
                           Fields(mode, reports[n], timestamp))
    <3> SUFFICES ASSUME NEW n \in 0 .. k + 1
                 PROVE  g[n] = IF n = 0 THEN records
                               ELSE HSet(g[n - 1], Key(mode, reports[n].sensor),
                                         Fields(mode, reports[n], timestamp))
      OBVIOUS
    <3>1. n # 0 => g[n - 1] = f[n - 1]
      BY <2>5, <2>6
    <3>2. g[n] = IF n = 0 THEN records ELSE Step(n)
      OBVIOUS
    <3> HIDE DEF g
    <3>. QED
      BY <3>1, <3>2
  <2>8. DOMAIN g = 0 .. k + 1 /\ g = [n \in DOMAIN g |-> g[n]]
    OBVIOUS
  <2> HIDE DEF g
  <2>9. Is(g, k + 1)
    BY <2>7, <2>8 DEF Drained
  <2> HIDE DEF Is
  <2>. QED
    BY <2>2, <2>9
<1> HIDE DEF T
<1>3. m \in 0 .. m /\ 0 .. m \subseteq T
  BY <1>1, <1>2, UpTo
<1> HIDE DEF Is
<1>4. \E f : Is(f, m)
  BY <1>3 DEF T
<1>. QED
  BY <1>4 DEF Is

(* So drainOne() gives the last of them. *)
LEMMA DrainOneIs ==
  ASSUME NEW records, NEW mode, NEW reports, NEW timestamp, Len(reports) \in Nat
  PROVE  \E after : /\ Drained(records, mode, reports, timestamp, after, Len(reports))
                    /\ drainOne(records, mode, reports, timestamp) = after[Len(reports)]
<1> DEFINE Is(f) == Drained(records, mode, reports, timestamp, f, Len(reports))
           after == CHOOSE f : Is(f)
<1>1. \E f : Is(f)
  BY DrainedExists
<1>2. Is(after)
  <2> HIDE DEF Is
  <2>. QED
    BY <1>1
<1>3. drainOne(records, mode, reports, timestamp) = after[Len(reports)]
  BY DEF drainOne, Drained
<1>. QED
  BY <1>2, <1>3

(* The records that reports are for are written, and no other; the last report
   for a record has its fields in it. *)
Writes(records, mode, reports, timestamp, m, written) ==
  /\ \A key : key \in DOMAIN written
                <=> \/ key \in DOMAIN records
                    \/ \E i \in 1 .. m : key = Key(mode, reports[i].sensor)
  /\ \A key \in DOMAIN records :
       (\A i \in 1 .. m : key # Key(mode, reports[i].sensor)) => written[key] = records[key]
  /\ \A i \in 1 .. m :
       (\A j \in i + 1 .. m : reports[j].sensor # reports[i].sensor) =>
         \A f \in DOMAIN Fields(mode, reports[i], timestamp) :
           written[Key(mode, reports[i].sensor)][f] = Fields(mode, reports[i], timestamp)[f]

(* This is so after each of the reports. *)
LEMMA DrainOneWrites ==
  ASSUME NEW records, NEW mode, NEW reports, NEW timestamp, Len(reports) \in Nat
  PROVE  Writes(records, mode, reports, timestamp, Len(reports),
                drainOne(records, mode, reports, timestamp))
<1> DEFINE m == Len(reports)
<1>1. PICK after : /\ Drained(records, mode, reports, timestamp, after, m)
                   /\ drainOne(records, mode, reports, timestamp) = after[m]
  BY DrainOneIs
<1> DEFINE K(n) == Key(mode, reports[n].sensor)
           F(n) == Fields(mode, reports[n], timestamp)
           T == {n \in Nat : n <= m => Writes(records, mode, reports, timestamp, n, after[n])}
<1> HIDE DEF m
<1>0. m \in Nat
  BY DEF m
<1>2. /\ after[0] = records
      /\ \A n \in 0 .. m : n # 0 => after[n] = HSet(after[n - 1], K(n), F(n))
  BY <1>0, <1>1 DEF Drained
<1>3. 0 \in T
  <2>1. Writes(records, mode, reports, timestamp, 0, records)
    BY DEF Writes
  <2>. QED
    BY <1>2, <2>1
<1>4. ASSUME NEW n \in 0 .. m, n \in T, n < m
      PROVE  n + 1 \in T
  <2> DEFINE k == n + 1
             old == after[n]
             new == after[k]
  <2>1. /\ n \in Nat /\ k \in Nat /\ k \in 0 .. m /\ k # 0 /\ k - 1 = n /\ n <= m
        /\ \A i \in 1 .. k : i \in 1 .. n \/ i = k
        /\ \A i \in 1 .. n : i \in 1 .. k /\ k \in i + 1 .. k
        /\ \A i \in 1 .. n : \A j \in i + 1 .. n : j \in i + 1 .. k
        /\ k \in 1 .. k
    BY <1>0, <1>4
  <2> HIDE DEF k
  <2>2. new = HSet(old, K(k), F(k))
    BY <1>2, <2>1
  <2>3. Writes(records, mode, reports, timestamp, n, old)
    BY <1>4, <2>1
  <2> HIDE DEF old, new, F
  <2>4. /\ \A x : x \in DOMAIN new <=> x \in DOMAIN old \/ x = K(k)
        /\ \A x : x \in DOMAIN old /\ x # K(k) => new[x] = old[x]
        /\ \A f : f \in DOMAIN F(k) => new[K(k)][f] = F(k)[f]
    <3> DEFINE key == K(k)
               fields == F(k)
    <3> HIDE DEF key, fields
    <3>1. new = HSet(old, key, fields)
      BY <2>2 DEF key, fields
    <3>2. /\ \A x : x \in DOMAIN HSet(old, key, fields) <=> x \in DOMAIN old \/ x = key
          /\ \A x : x \in DOMAIN old /\ x # key => HSet(old, key, fields)[x] = old[x]
          /\ \A f : f \in DOMAIN fields => HSet(old, key, fields)[key][f] = fields[f]
      BY HSetIs
    <3>. QED
      BY <3>1, <3>2 DEF key, fields
  <2>5. \A i \in 1 .. n : K(i) \in DOMAIN old
    BY <2>3 DEF Writes
  <2>6. \A key : key \in DOMAIN new
                   <=> \/ key \in DOMAIN records
                       \/ \E i \in 1 .. k : key = K(i)
    <3>1. \A key : (\E i \in 1 .. k : key = K(i)) <=> (\E i \in 1 .. n : key = K(i)) \/ key = K(k)
      BY <2>1
    <3>. QED
      BY <2>3, <2>4, <3>1 DEF Writes
  <2>7. ASSUME NEW key \in DOMAIN records, \A i \in 1 .. k : key # K(i)
        PROVE  new[key] = records[key]
    <3>1. key # K(k) /\ \A i \in 1 .. n : key # K(i)
      BY <2>1, <2>7
    <3>2. key \in DOMAIN old /\ old[key] = records[key]
      BY <2>3, <3>1 DEF Writes
    <3>. QED
      BY <2>4, <3>1, <3>2
  <2>8. ASSUME NEW i \in 1 .. k, \A j \in i + 1 .. k : reports[j].sensor # reports[i].sensor,
               NEW f \in DOMAIN F(i)
        PROVE  new[K(i)][f] = F(i)[f]
    <3>1. CASE i = k
      BY <2>4, <3>1
    <3>2. CASE i \in 1 .. n
      <4>1. K(i) # K(k)
        BY <2>1, <2>8, <3>2 DEF Key
      <4>2. \A j \in i + 1 .. n : reports[j].sensor # reports[i].sensor
        BY <2>1, <2>8, <3>2
      <4>3. old[K(i)][f] = F(i)[f]
        BY <2>3, <2>8, <3>2, <4>2 DEF Writes, F
      <4>. QED
        BY <2>4, <2>5, <3>2, <4>1, <4>3
    <3>. QED
      BY <2>1, <3>1, <3>2
  <2>9. Writes(records, mode, reports, timestamp, k, new)
    BY <2>6, <2>7, <2>8 DEF Writes, F
  <2>. QED
    BY <2>1, <2>9 DEF k, new
<1> HIDE DEF T
<1>5. m \in 0 .. m /\ 0 .. m \subseteq T
  BY <1>0, <1>3, <1>4, UpTo
<1>6. Writes(records, mode, reports, timestamp, m, after[m])
  BY <1>0, <1>5 DEF T
<1>. QED
  BY <1>1, <1>6 DEF m

(* What is stored for the last report on a sensor is what its place says. *)
LEMMA FieldsSay ==
  ASSUME NEW document, NEW mode, NEW sensor \in Measurement \cup {Leak}, NEW timestamp,
         NEW places, NEW place, place = CHOOSE p \in places : \A q \in places \ {p} : Before(q, p),
         places = Reporting(mode, document, sensor),
         NEW report, IsReportAt(document, sensor, place, report),
         NEW record, \A f \in DOMAIN Fields(mode, report, timestamp) :
                       record[f] = Fields(mode, report, timestamp)[f]
  PROVE  SaysTheLastReport(record, mode, document, sensor, timestamp)
<1> DEFINE severity == normalizeSeverity(NearestSeverity(document, place))
           fields == Fields(mode, report, timestamp)
<1>1. /\ report.sensor = sensor /\ report.severity = severity
      /\ sensor # Leak => report.value = document[place].value
  BY DEF IsReportAt
<1> HIDE DEF severity
<1>2. ASSUME sensor = Leak
      PROVE  record["timestamp"] = timestamp /\ record["leak"] = severity
  <2>1. fields = [leak |-> severity, timestamp |-> timestamp]
    BY <1>1, <1>2 DEF Fields
  <2>2. /\ "timestamp" \in DOMAIN fields /\ fields["timestamp"] = timestamp
        /\ "leak" \in DOMAIN fields /\ fields["leak"] = severity
    BY <2>1
  <2> HIDE DEF fields
  <2>. QED
    BY <2>2 DEF fields
<1>3. ASSUME sensor # Leak
      PROVE  /\ record["timestamp"] = timestamp /\ record["severity"] = severity
             /\ mode = "telemetry" => record[valueField(sensor)] = document[place].value
  <2> DEFINE names == {"severity", "timestamp"}
                        \cup (IF mode = "telemetry" THEN {valueField(sensor), "unit"} ELSE {})
  <2>1. fields = [field \in names |->
                    CASE field = "severity" -> severity
                      [] field = "timestamp" -> timestamp
                      [] field = "unit" -> unit(sensor)
                      [] OTHER -> report.value]
    BY <1>1, <1>3 DEF Fields
  <2>2. /\ "timestamp" \in DOMAIN fields /\ fields["timestamp"] = timestamp
        /\ "severity" \in DOMAIN fields /\ fields["severity"] = severity
    BY <2>1
  <2>3. ASSUME mode = "telemetry"
        PROVE  valueField(sensor) \in DOMAIN fields /\ fields[valueField(sensor)] = report.value
    <3>1. valueField(sensor) \in names /\ valueField(sensor) \notin {"severity", "timestamp", "unit"}
      BY <2>3 DEF valueField
    <3> HIDE DEF names, fields
    <3>. QED
      BY <2>1, <3>1
  <2> HIDE DEF fields
  <2>. QED
    BY <1>1, <1>3, <2>2, <2>3 DEF fields
<1>. QED
  BY <1>2, <1>3 DEF SaysTheLastReport, severity

(* A job for a document that has an envelope: the reports it makes are stored, for
   the sensors that places of the document report on and for no other. *)
LEMMA JobIsStored ==
  ASSUME NEW document, IsDocument(document), NEW mode, HasEnvelope(mode, document),
         NEW records, NEW time
  PROVE  StoresTheLastReports(records, drainOne(records, mode, jobReports(mode, document), time),
                              mode, document, time)
<1> DEFINE reports == jobReports(mode, document)
           m == Len(reports)
           written == drainOne(records, mode, reports, time)
           sensors == Measurement \cup {Leak}
           reported == {sensor \in sensors : Reporting(mode, document, sensor) # {}}
           keys == {Key(mode, sensor) : sensor \in reported}
<1>1. \A sensor \in sensors : Tells(document, sensor, reports, Reporting(mode, document, sensor))
  BY JobTells
<1> HIDE DEF reports
<1>2. /\ reports \in Seq(ReportsOf(document)) /\ m \in Nat
      /\ \A i \in 1 .. m : reports[i].sensor \in sensors
  <2>1. Leak \in sensors
    OBVIOUS
  <2>2. reports \in Seq(ReportsOf(document))
    BY <1>1, <2>1 DEF Tells
  <2>3. \A report \in ReportsOf(document) : report.sensor \in sensors
    BY DEF ReportsOf, Report
  <2> HIDE DEF sensors
  <2>. QED
    BY <2>2, <2>3, LenProperties, ElementOfSeq
<1>3. Writes(records, mode, reports, time, m, written)
  BY <1>2, DrainOneWrites
<1>4. ASSUME NEW i \in 1 .. m
      PROVE  reports[i].sensor \in reported
  BY <1>1, <1>2 DEF Tells
<1>5. ASSUME NEW sensor \in reported
      PROVE  \E i \in 1 .. m : \E place \in Reporting(mode, document, sensor) :
               /\ reports[i].sensor = sensor
               /\ IsLastOf(place, Reporting(mode, document, sensor))
               /\ IsReportAt(document, sensor, place, reports[i])
               /\ \A j \in i + 1 .. m : reports[j].sensor # sensor
  <2>1. /\ Tells(document, sensor, reports, Reporting(mode, document, sensor))
        /\ Reporting(mode, document, sensor) # {}
    BY <1>1
  <2>2. PICK place \in Reporting(mode, document, sensor), i \in 1 .. m :
          /\ IsLastOf(place, Reporting(mode, document, sensor))
          /\ IsReportAt(document, sensor, place, reports[i])
          /\ \A j \in i + 1 .. m : reports[j].sensor # sensor
    BY <2>1 DEF Tells
  <2>. QED
    BY <2>2 DEF IsReportAt
<1> HIDE DEF m, written, sensors, reported
<1>6. \A key : key \in keys <=> \E i \in 1 .. m : key = Key(mode, reports[i].sensor)
  <2>1. \A sensor \in reported : \E i \in 1 .. m : reports[i].sensor = sensor
    BY <1>5
  <2>. QED
    BY <1>4, <2>1
<1> HIDE DEF keys
<1>7. DOMAIN written = DOMAIN records \cup keys
  <2>1. \A key : key \in DOMAIN written <=> key \in DOMAIN records \/ key \in keys
    BY <1>3, <1>6 DEF Writes
  <2>. QED
    BY <2>1
<1>8. ASSUME NEW sensor \in reported
      PROVE  SaysTheLastReport(written[Key(mode, sensor)], mode, document, sensor, time)
  <2> DEFINE places == Reporting(mode, document, sensor)
  <2>1. PICK i \in 1 .. m, place \in places :
          /\ reports[i].sensor = sensor
          /\ IsLastOf(place, places)
          /\ IsReportAt(document, sensor, place, reports[i])
          /\ \A j \in i + 1 .. m : reports[j].sensor # sensor
    BY <1>5
  <2>2. sensor \in Measurement \cup {Leak}
    BY DEF reported, sensors
  <2>3. place = CHOOSE p \in places : \A q \in places \ {p} : Before(q, p)
    <3>1. places \subseteq Seq(Nat)
      <4>1. places \subseteq DOMAIN document
        BY DEF Reporting
      <4>. QED
        BY <4>1, PlaceIs
    <3> HIDE DEF places
    <3>. QED
      BY <2>1, <3>1, LastIsChosen
  <2> DEFINE report == reports[i]
             record == written[Key(mode, sensor)]
  <2>4. \A f \in DOMAIN Fields(mode, report, time) : record[f] = Fields(mode, report, time)[f]
    BY <1>3, <2>1 DEF Writes
  <2>5. IsReportAt(document, sensor, place, report)
    BY <2>1
  <2>6. places = Reporting(mode, document, sensor)
    OBVIOUS
  <2> HIDE DEF report, record, places
  <2>7. SaysTheLastReport(record, mode, document, sensor, time)
    BY <2>2, <2>3, <2>4, <2>5, <2>6, FieldsSay
  <2>. QED
    BY <2>7 DEF record
<1>9. ASSUME NEW key \in DOMAIN records \ keys
      PROVE  written[key] = records[key]
  BY <1>3, <1>6 DEF Writes
<1>. QED
  BY <1>7, <1>8, <1>9 DEF StoresTheLastReports, reports, written, reported, sensors, keys

-----------------------------------------------------------------------------
(***************************************************************************)
(* The queue and the worker                                                *)
(***************************************************************************)

(* What waits in the queue was posted, and has an envelope. *)
QueueInv ==
  /\ queue \in Seq(1 .. Len(posted))
  /\ \A k \in 1 .. Len(queue) : Forwarded(queue[k])

(* A call is for a payload with an envelope, and requests do not change. *)
LEMMA QueueStep ==
  ASSUME AnswersInv, QueueInv, [RequestsNext]_requestVars
  PROVE  QueueInv'
<1>1. /\ queue \in Seq(1 .. Len(posted)) /\ Len(posted) \in Nat /\ Len(queue) \in Nat
      /\ posted \in Seq(Posts)
      /\ \A k \in 1 .. Len(queue) : queue[k] \in 1 .. Len(posted) /\ Forwarded(queue[k])
  BY LenProperties, ElementOfSeq DEF QueueInv, AnswersInv, RequestTypes
<1>2. CASE Len(posted) < Len(Requests)
           /\ \E request \in Requests[Len(posted) + 1] : Post(request)
  <2>1. Len(posted) + 1 \in DOMAIN Requests
    BY <1>1, <1>2, OemAssumption
  <2>2. PICK request \in Requests[Len(posted) + 1] : Post(request)
    BY <1>2
  <2>3. request \in Posts /\ posted' = Append(posted, request) /\ queue' = queue
    BY <2>1, <2>2 DEF Posts, Post
  <2>4. Len(posted') = Len(posted) + 1 /\ \A r \in 1 .. Len(posted) : posted'[r] = posted[r]
    BY <1>1, <2>3, OneMore
  <2>5. 1 .. Len(posted) \subseteq 1 .. Len(posted')
    BY <1>1, <2>4
  <2>6. queue' \in Seq(1 .. Len(posted'))
    BY <1>1, <2>3, <2>5, SeqMonotonic
  <2>7. \A k \in 1 .. Len(queue') : Forwarded(queue[k])'
    BY <1>1, <2>3, <2>4 DEF Forwarded
  <2>. QED
    BY <2>6, <2>7 DEF QueueInv
<1>3. CASE TimesOut
  BY <1>3 DEF TimesOut, QueueInv, Forwarded
<1>4. CASE SubmitMethod
  <2>1. posted' = posted
    BY <1>4 DEF SubmitMethod
  <2>2. Head(calls) \in 1 .. Len(posted) /\ Forwarded(Head(calls))
    <3>1. Head(calls) = calls[1] /\ Len(calls) \in Nat \ {0}
      BY <1>4, SubmitMethodDoes
    <3>. QED
      BY <3>1, CallPlaces DEF AnswersInv, CallsAreOpen
  <2>3. Push(Head(calls))
    BY <1>4, <2>2 DEF SubmitMethod, Forwarded
  <2>4. CASE queue' = queue
    BY <1>1, <2>1, <2>4 DEF QueueInv, Forwarded
  <2>5. CASE queue' = Append(queue, Head(calls))
    <3>1. /\ queue' \in Seq(1 .. Len(posted)) /\ Len(queue') = Len(queue) + 1
          /\ \A k \in 1 .. Len(queue) : queue'[k] = queue[k]
          /\ queue'[Len(queue) + 1] = Head(calls)
      BY <1>1, <2>2, <2>5, OneMore
    <3>2. \A k \in 1 .. Len(queue) + 1 : k \in 1 .. Len(queue) \/ k = Len(queue) + 1
      BY <1>1
    <3>3. \A k \in 1 .. Len(queue') : Forwarded(queue'[k])
      BY <1>1, <2>2, <3>1, <3>2
    <3>. QED
      BY <2>1, <3>1, <3>3 DEF QueueInv, Forwarded
  <2>. QED
    BY <2>3, <2>4, <2>5 DEF Push
<1>5. CASE Drain
  <2>1. queue # <<>> /\ queue' = Tail(queue) /\ posted' = posted
    BY <1>5 DEF Drain
  <2>2. /\ queue' \in Seq(1 .. Len(posted)) /\ Len(queue') = Len(queue) - 1
        /\ \A k \in 1 .. Len(queue) - 1 : queue'[k] = queue[k + 1] /\ k + 1 \in 1 .. Len(queue)
    BY <1>1, <2>1, HeadTailProperties
  <2>3. \A k \in 1 .. Len(queue') : Forwarded(queue'[k])
    BY <1>1, <2>2
  <2>. QED
    BY <2>1, <2>2, <2>3 DEF QueueInv, Forwarded
<1>6. CASE UNCHANGED requestVars
  BY <1>6 DEF requestVars, QueueInv, Forwarded
<1>. QED
  BY <1>2, <1>3, <1>4, <1>5, <1>6 DEF RequestsNext

(* With what the worker stores, the requests are what they are without. *)
THEOREM StoringIsNoRequest == OemSpec => RequestsSpec
<1>1. OemInit => RequestsInit
  BY DEF OemInit
<1>2. [OemNext]_oemVars => [RequestsNext]_requestVars
  BY DEF OemNext, oemVars, requestVars
<1>. QED
  BY <1>1, <1>2, PTL DEF OemSpec, RequestsSpec

(* So it is whenever the worker takes a job. *)
LEMMA QueueInvariant == OemSpec => [](AnswersInv /\ QueueInv)
<1>1. RequestsInit => QueueInv
  <2> SUFFICES ASSUME RequestsInit PROVE QueueInv
    OBVIOUS
  <2>1. queue = <<>>
    BY DEF RequestsInit
  <2>2. queue \in Seq(1 .. Len(posted)) /\ 1 .. Len(queue) = {}
    BY <2>1
  <2>. QED
    BY <2>2 DEF QueueInv
<1>2. AnswersInv /\ QueueInv /\ [RequestsNext]_requestVars => QueueInv'
  BY QueueStep
<1>. QED
  BY <1>1, <1>2, AnswersInvariant, StoringIsNoRequest, PTL DEF RequestsSpec

(* The records of STATE_DB after a job, for any document (extractSensors() and
   drainOne() in rack_manager_receiver.cpp): the record of each sensor that the
   document reports on says what the last of its reports in document order says,
   with the severity of the nearest enclosing object that has one, and every other
   record is as it was. *)
THEOREM LastReportIsStored == OemSpec => NearestSeverityOfTheLast
<1> DEFINE Stored == StoresTheLastReports(stored, stored', last'.mode, last'.body, drained')
<1>1. AnswersInv /\ QueueInv /\ [OemNext]_oemVars => [drained' # drained => Stored]_oemVars
  <2> SUFFICES ASSUME AnswersInv, QueueInv, OemNext, drained' # drained
               PROVE  Stored
    OBVIOUS
  <2>1. Drain
    BY DEF OemNext, RequestsNext, Post, TimesOut, SubmitMethod
  <2> DEFINE r == Head(queue)
             document == posted[r].body
             mode == posted[r].mode
  <2>2. r \in 1 .. Len(posted) /\ Forwarded(r)
    <3>1. queue # <<>> /\ queue \in Seq(1 .. Len(posted))
      BY <2>1 DEF Drain, QueueInv
    <3>2. r = queue[1] /\ Len(queue) \in Nat \ {0}
      BY <3>1, HeadTailProperties, LenProperties, EmptySeq
    <3>. QED
      BY <3>1, <3>2, ElementOfSeq DEF QueueInv
  <2>3. IsDocument(document) /\ HasEnvelope(mode, document)
    <3>1. posted[r] \in Posts
      BY <2>2, ElementOfSeq DEF AnswersInv, RequestTypes
    <3>2. IsDocument(posted[r].body)
      BY <3>1, OemAssumption DEF Posts
    <3>. QED
      BY <2>2, <3>2 DEF Forwarded
  <2>4. /\ last' = posted[r]
        /\ stored' = drainOne(stored, mode, jobReports(mode, document), drained')
    BY DEF OemNext, Store
  <2>5. last'.mode = mode /\ last'.body = document
    BY <2>4
  <2> HIDE DEF r, document, mode
  <2>. QED
    BY <2>3, <2>4, <2>5, JobIsStored
<1>. QED
  BY <1>1, QueueInvariant, PTL DEF OemSpec, NearestSeverityOfTheLast
=============================================================================
