---------------------------- MODULE MCOemActions ------------------------------
(***************************************************************************)
(* A small instance of OemActions: first any of many payloads of depth     *)
(* four, with and without severities, leak entries inside leak entries,    *)
(* arrays of leaks and of numbers, in one envelope or two; then one of a   *)
(* few, some of them refused.                                              *)
(***************************************************************************)
EXTENDS OemActions

MCSensorOf == [InletTemperature |-> "Inlet_liquid_temperature",
               RowInletTemperature |-> "Inlet_liquid_temperature",
               FlowRate |-> "Inlet_liquid_flow_rate",
               LeakFlowRate |-> "Inlet_liquid_flow_rate"]

MCLeakNames == {"Leak1", "RowLeak", "LeakFlowRate", "redfishLeak"}

MCUpperCase == [Critical |-> "CRITICAL", CRITICAL |-> "CRITICAL", Major |-> "MAJOR",
                Minor |-> "MINOR", minor |-> "MINOR"]

MCEnvelope == [alert |-> {"redfish_Alarms", "redfishLeak"},
               telemetry |-> {"redfish_Alarms", "SystemAlarms"}]

(* Documents are written as trees: the members of an object are pairs of a name
   and a tree, those of an array are trees. *)
Number(value) == [kind |-> "number", severity |-> "none", value |-> value, members |-> <<>>]
Object(severity, members) ==
  [kind |-> "object", severity |-> severity, value |-> 0, members |-> members]
Array(members) ==
  [kind |-> "array", severity |-> "none", value |-> 0,
   members |-> [i \in DOMAIN members |-> <<"none", members[i]>>]]

RECURSIVE Nodes(_, _)
Nodes(name, tree) ==
  LET below == [i \in DOMAIN tree.members |->
                  Nodes(tree.members[i][1], tree.members[i][2])]
      places == UNION {{<<i>> \o place : place \in DOMAIN below[i]} : i \in DOMAIN below}
  IN [place \in {<<>>} \cup places |->
        IF place = <<>>
          THEN [kind |-> tree.kind, name |-> name, size |-> Len(tree.members),
                severity |-> tree.severity, value |-> tree.value]
          ELSE below[Head(place)][Tail(place)]]

Inner == {Object("none", <<<<"InletTemperature", Number(7)>>,
                           <<"RowInletTemperature", Number(8)>>>>),
          Object("Critical", <<<<"FlowRate", Number(5)>>,
                               <<"InletTemperature", Number(6)>>>>),
          Object("minor", <<>>),
          Number(9)}
Middle == {Array(<<x, y>>) : x \in Inner, y \in {Object("minor", <<>>), Number(9)}}
            \cup {Object(s, <<<<n, x>>>>) :
                    s \in {"none", "Minor"}, n \in {"LeakFlowRate", "Leak1"}, x \in Inner}
Payloads ==
  {Object("none", <<<<"Leak1", m>>, <<"RowLeak", Object("none", <<>>)>>>>) : m \in Middle}
    \cup {Object("Major", <<<<"Position", m>>, <<"RowLeak", Object("CRITICAL", <<>>)>>>>) :
            m \in Middle}

(* The members in the order of their names. *)
InOne(payload) == Object("none", <<<<"redfish_Alarms", payload>>>>)
InTwo(first, second) ==
  Object("none", <<<<"SystemAlarms", first>>, <<"redfishLeak", second>>,
                   <<"redfish_Alarms", first>>>>)

Wet == Object("minor", <<<<"FlowRate", Number(4)>>, <<"Leak1", Object("none", <<>>)>>>>)
Flow == Object("none", <<<<"FlowRate", Number(3)>>>>)

Post1(mode, tree) ==
  [manager |-> "bmc", fits |-> TRUE, mode |-> mode, body |-> Nodes("none", tree)]

First ==
  {Post1(mode, InOne(p)) : mode \in Mode, p \in Payloads}
    \cup {Post1(mode, InTwo(Flow, m)) : mode \in Mode, m \in Middle}
Second ==
  {Post1("alert", InOne(Wet)), Post1("telemetry", InOne(Wet)),
   Post1("telemetry", InOne(Flow)), Post1("alert", InTwo(Number(2), Wet)),
   Post1("alert", Array(<<>>)),
   Post1("telemetry", Object("none", <<<<"redfishLeak", Wet>>>>)),
   [Post1("telemetry", InOne(Flow)) EXCEPT !.body = [place \in {} |-> "none"]],
   [Post1("alert", InOne(Flow)) EXCEPT !.manager = "other"],
   [Post1("alert", InOne(Flow)) EXCEPT !.fits = FALSE]}

MCRequests == <<First, Second>>
=============================================================================
