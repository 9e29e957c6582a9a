------------------------- MODULE PowerControl_proofs -------------------------
(***************************************************************************)
(* Theorems about the closed power control, PowerControl and HostEvents,   *)
(* for every behaviour of bmcctld, of the clients and of the two           *)
(* connections, and every bound.                                           *)
(***************************************************************************)
EXTENDS HostEvents, StateManager_proofs

-----------------------------------------------------------------------------
(* What is in a stream once a message was appended. *)
LEMMA InAppended ==
  ASSUME NEW S, NEW s \in Seq(S), NEW e \in S, NEW m
  PROVE  InStream(Append(s, e), m) <=> InStream(s, m) \/ m = e
<1>1. /\ Len(s) \in Nat /\ DOMAIN s = 1 .. Len(s)
      /\ DOMAIN Append(s, e) = 1 .. Len(s) + 1
      /\ \A i \in 1 .. Len(s) : Append(s, e)[i] = s[i]
      /\ Append(s, e)[Len(s) + 1] = e
  BY AppendProperties, LenProperties
<1>2. \A i \in 1 .. Len(s) + 1 : i \in 1 .. Len(s) \/ i = Len(s) + 1
  BY <1>1
<1>3. Len(s) + 1 \in 1 .. Len(s) + 1 /\ 1 .. Len(s) \subseteq 1 .. Len(s) + 1
  BY <1>1
<1>4. ASSUME InStream(Append(s, e), m) PROVE InStream(s, m) \/ m = e
  <2>1. PICK i \in 1 .. Len(s) + 1 : Append(s, e)[i] = m
    BY <1>1, <1>4 DEF InStream, ToSet
  <2>. QED
    BY <1>1, <1>2, <2>1 DEF InStream, ToSet
<1>5. ASSUME InStream(s, m) \/ m = e PROVE InStream(Append(s, e), m)
  <2>1. CASE m = e
    BY <1>1, <1>3, <2>1 DEF InStream, ToSet
  <2>2. CASE InStream(s, m)
    <3>1. PICK i \in 1 .. Len(s) : s[i] = m
      BY <1>1, <2>2 DEF InStream, ToSet
    <3>. QED
      BY <1>1, <1>3, <3>1 DEF InStream, ToSet
  <2>. QED
    BY <1>5, <2>1, <2>2
<1>. QED
  BY <1>4, <1>5

(* What is in a stream whose first message is read next. *)
LEMMA InTail ==
  ASSUME NEW S, NEW s \in Seq(S), s # <<>>, NEW m
  PROVE  /\ Head(s) \in S /\ Tail(s) \in Seq(S)
         /\ InStream(s, m) <=> m = Head(s) \/ InStream(Tail(s), m)
<1>1. /\ Len(s) \in Nat \ {0} /\ DOMAIN s = 1 .. Len(s) /\ Head(s) = s[1]
      /\ Head(s) \in S /\ Tail(s) \in Seq(S)
      /\ DOMAIN Tail(s) = 1 .. Len(s) - 1
      /\ \A i \in 1 .. Len(s) - 1 : Tail(s)[i] = s[i + 1]
  BY HeadTailProperties, LenProperties, EmptySeq
<1>2. \A i \in 1 .. Len(s) : i = 1 \/ (i - 1 \in 1 .. Len(s) - 1 /\ i = (i - 1) + 1)
  BY <1>1
<1>3. 1 \in 1 .. Len(s) /\ \A i \in 1 .. Len(s) - 1 : i + 1 \in 1 .. Len(s)
  BY <1>1
<1>4. ASSUME InStream(s, m) PROVE m = Head(s) \/ InStream(Tail(s), m)
  <2>1. PICK i \in 1 .. Len(s) : s[i] = m
    BY <1>1, <1>4 DEF InStream, ToSet
  <2>2. CASE i = 1
    BY <1>1, <2>1, <2>2
  <2>3. CASE i # 1
    <3>1. i - 1 \in 1 .. Len(s) - 1 /\ Tail(s)[i - 1] = m
      BY <1>1, <1>2, <2>1, <2>3
    <3>. QED
      BY <1>1, <3>1 DEF InStream, ToSet
  <2>. QED
    BY <2>2, <2>3
<1>5. ASSUME m = Head(s) \/ InStream(Tail(s), m) PROVE InStream(s, m)
  <2>1. CASE m = Head(s)
    BY <1>1, <1>3, <2>1 DEF InStream, ToSet
  <2>2. CASE InStream(Tail(s), m)
    <3>1. PICK i \in 1 .. Len(s) - 1 : Tail(s)[i] = m
      BY <1>1, <2>2 DEF InStream, ToSet
    <3>. QED
      BY <1>1, <1>3, <3>1 DEF InStream, ToSet
  <2>. QED
    BY <1>5, <2>1, <2>2
<1>. QED
  BY <1>1, <1>4, <1>5

(* Redis adds nothing but the message, and adds it if the key is subscribed. *)
LEMMA AnnouncedStream ==
  ASSUME NEW S, NEW s \in Seq(S), NEW e \in S
  PROVE  /\ Announced(s, e) \in Seq(S)
         /\ \A m : m # e => (InStream(Announced(s, e), m) <=> InStream(s, m))
         /\ listening /\ SubscribedTo(e.key) => InStream(Announced(s, e), e)
<1>1. Announced(s, e) \in {s, Append(s, e)}
  BY DEF Announced
<1>2. Append(s, e) \in Seq(S)
  BY AppendProperties
<1>3. \A m : InStream(Append(s, e), m) <=> InStream(s, m) \/ m = e
  BY InAppended
<1>4. listening /\ SubscribedTo(e.key) => Announced(s, e) = Append(s, e)
  BY DEF Announced
<1>. QED
  BY <1>1, <1>2, <1>3, <1>4

-----------------------------------------------------------------------------
(***************************************************************************)
(* The closed system is a StateManager                                     *)
(***************************************************************************)
Messages(count) == {Ack, HostChanged} \cup {CommandChanged(j) : j \in 1 .. count}

(* The types, with the stream's as that of a sequence. *)
SysTypeInv ==
  /\ hostRecord \in HostRecords \cup {NoRecord}
  /\ status \in Seq(CommandStatus)
  /\ Len(status) = Len(published)
  /\ subscribed \in 0 .. Len(SubscribeOrder)
  /\ stream \in Seq(Messages(Len(published)))
  /\ listening \in BOOLEAN
  /\ rereading \in BOOLEAN
  /\ running \in BOOLEAN
  /\ hostWrites \in 0 .. MaxHostWrites
  /\ missed \in BOOLEAN
  /\ timedOut \subseteq DOMAIN published

(* The stream is a sequence of the messages that SysTypeOK names. *)
LEMMA SysTypeInvImplies == SysTypeInv => SysTypeOK
<1> SUFFICES ASSUME SysTypeInv PROVE SysTypeOK
  OBVIOUS
<1>1. DOMAIN published = 1 .. Len(published) => 
        \A i \in DOMAIN stream :
          stream[i] \in {Ack, HostChanged} \cup {CommandChanged(j) : j \in DOMAIN published}
  BY LenProperties, ElementOfSeq DEF SysTypeInv, Messages
<1>. QED
  BY <1>1 DEF SysTypeInv, SysTypeOK

(* The keys to subscribe are finitely many. *)
LEMMA SubscribeOrderLength == Len(SubscribeOrder) \in Nat
<1>1. [i \in 1 .. LeakSensors |-> "leak"] \in Seq({"leak", "host", "command"})
  BY PowerControlAssumption, SeqDef
<1>2. <<"host", "command">> \in Seq({"leak", "host", "command"})
  OBVIOUS
<1>. QED
  BY <1>1, <1>2, ConcatProperties, LenProperties DEF SubscribeOrder

(* The places of the commands, and the lengths behind them. *)
LEMMA Places ==
  ASSUME TypeOK, SysTypeInv
  PROVE  /\ Len(published) \in Nat
         /\ DOMAIN published = 1 .. Len(published)
         /\ DOMAIN status = 1 .. Len(published)
         /\ \A i \in 1 .. Len(published) :
              /\ status[i] \in CommandStatus
              /\ published[i] \in PublishedCommand /\ published[i].id \in PublishedIds
BY LenProperties, ElementOfSeq DEF TypeOK, SysTypeInv, PublishedIds

(* A record the bridge can read seeds it with a value that StateManager knows. *)
LEMMA SeedFromType ==
  ASSUME NEW record \in HostRecords \cup {NoRecord}
  PROVE  SeedFrom(record) \in SeedValues
<1>1. CASE record = NoRecord
  <2>1. record[1] = NoField /\ record[2] = NoField
    BY <1>1 DEF NoRecord
  <2>2. mapHostState(record[1], record[2]) = NoMapping
    BY <2>1 DEF mapHostState, hostStateFromDeviceStatus, TransitionalPowerState,
                StablePowerState, NoMapping, NoField
  <2>. QED
    BY <2>2 DEF SeedFrom, SeedValues
<1>2. CASE record \in HostRecords
  BY <1>2 DEF SeedFrom, SeedValues
<1>. QED
  BY <1>1, <1>2

(* The step that a notification makes: it posts what STATE_DB holds now. *)
LEMMA DeliverStep ==
  ASSUME TypeOK, SysTypeInv, Deliver
  PROVE  \/ /\ rereading /\ Head(stream) = HostChanged /\ hostRecord[1] # NoField
            /\ hostRecord \in HostRecords
            /\ onHostStateChanged(hostRecord)
         \/ /\ \E i \in 1 .. Len(published) :
                 onCommandStatusChanged(published[i].id, status[i])
            /\ Head(stream) # HostChanged
         \/ /\ UNCHANGED vars
            /\ rereading /\ Head(stream) = HostChanged => hostRecord[1] = NoField
<1> DEFINE message == Head(stream)
<1>1. message \in Messages(Len(published))
  BY InTail DEF Deliver, SysTypeInv
<1>2. CASE rereading /\ message = HostChanged /\ hostRecord[1] # NoField
  <2>1. hostRecord \in HostRecords
    BY <1>2 DEF SysTypeInv, NoRecord
  <2>2. message.key # "command"
    BY <1>2 DEF HostChanged
  <2>3. onHostStateChanged(hostRecord)
    BY <1>2, <2>2 DEF Deliver
  <2>. QED
    BY <1>2, <2>1, <2>3
<1>3. CASE /\ rereading /\ message.key = "command"
           /\ ~(message = HostChanged /\ hostRecord[1] # NoField)
  <2>1. onCommandStatusChanged(published[message.n].id, status[message.n])
    BY <1>3 DEF Deliver
  <2>2. message # HostChanged
    BY <1>3 DEF HostChanged
  <2>3. message.n \in 1 .. Len(published)
    BY <1>1, <1>3 DEF Messages, Ack, HostChanged, CommandChanged
  <2>. QED
    BY <2>1, <2>2, <2>3
<1>4. CASE \/ ~rereading
           \/ message.key # "command" /\ ~(message = HostChanged /\ hostRecord[1] # NoField)
  BY <1>4 DEF Deliver
<1>. QED
  BY <1>2, <1>3, <1>4

(* Every step of the closed system is one that StateManager allows. *)
LEMMA ControlStep ==
  ASSUME TypeOK, SysTypeInv, [SysNext]_allVars
  PROVE  [Next]_vars
<1>1. CASE Subscribe \/ Run \/ SubscriberFails \/ RereadingFails \/ Bmcctld
  BY <1>1 DEF Subscribe, Run, SubscriberFails, RereadingFails, Bmcctld, WriteHostState, ReportStatus
<1>2. CASE IoStep
  BY <1>2 DEF IoStep, Next, Timers
<1>3. ASSUME NEW id \in expired, IoTimeout(id) PROVE Next
  BY <1>3 DEF IoTimeout, Next, Timers
<1>4. CASE Deliver
  <2>1. ASSUME NEW i \in 1 .. Len(published),
               onCommandStatusChanged(published[i].id, status[i])
        PROVE  Next
    <3>1. published[i].id \in PublishedIds /\ status[i] \in CommandStatus
      BY Places
    <3>. QED
      BY <2>1, <3>1 DEF Next, Environment
  <2>. QED
    BY <1>4, <2>1, DeliverStep DEF Next, Environment
<1>5. CASE RestartBridge
  <2>1. \A connected \in Connected : SeedFrom(getHostState(connected)) \in SeedValues
    BY SeedFromType DEF SysTypeInv, getHostState
  <2>. QED
    BY <1>5, <2>1 DEF RestartBridge, Next, Environment
<1>6. CASE UNCHANGED allVars
  BY <1>6 DEF allVars
<1>. QED
  BY <1>1, <1>2, <1>3, <1>4, <1>5, <1>6 DEF SysNext
(* A command is only ever added to the end of RACK_MANAGER_COMMAND, and only
   by a handler. *)
LEMMA PublishedGrows ==
  ASSUME TypeOK, [Next]_vars
  PROVE  \/ published' = published
         \/ /\ delayed # NoRequest
            /\ published' = Append(published, DelayedCommand)
            /\ DelayedCommand \in PublishedCommand /\ DelayedCommand.id = NextId
<1>1. ASSUME delayed # NoRequest
      PROVE  DelayedCommand \in PublishedCommand /\ DelayedCommand.id = NextId
  BY <1>1, DelayedCommandType DEF DelayedCommand
<1>2. CASE ExecuteHostTransition \/ DropHostTransition
  BY <1>1, <1>2
     DEF ExecuteHostTransition, DropHostTransition, PublishSucceeds, PublishFails,
         publisherVars
<1>3. ASSUME NEW w \in SetterWrites, queueTransition(w[1], w[2])
      PROVE  published' = published
  BY <1>3 DEF queueTransition, publisherVars
<1>4. CASE CommandTimerExpires \/ \E id \in expired : onCommandTimeout(id)
  BY <1>4 DEF CommandTimerExpires, onCommandTimeout, publisherVars
<1>5. CASE RunPosted
  BY <1>5 DEF RunPosted, applyHostState, handleCommandStatus, publisherVars
<1>6. CASE Environment
  BY <1>6 DEF Environment, onHostStateChanged, onCommandStatusChanged, Restart,
              publisherVars
<1>7. CASE UNCHANGED vars
  BY <1>7 DEF vars, publisherVars
<1>. QED
  BY <1>2, <1>3, <1>4, <1>5, <1>6, <1>7
     DEF Next, Client, Timers, ActionTimerFires, RefuseTransition, vars, publisherVars

(* The places of the commands after a step. *)
LEMMA PlacesKept ==
  ASSUME TypeOK, SysTypeInv, [Next]_vars
  PROVE  /\ Len(published') \in Nat /\ DOMAIN published' = 1 .. Len(published')
         /\ published' # published =>
              /\ delayed # NoRequest
              /\ Len(published') = Len(published) + 1
              /\ published'[Len(published')].id = NextId
         /\ Len(published) <= Len(published') /\ Len(published') <= Len(published) + 1
         /\ \A i \in 1 .. Len(published) : published'[i] = published[i]
<1>1. TypeOK'
  BY TypeStep
<1>2. Len(published') \in Nat /\ DOMAIN published' = 1 .. Len(published')
  BY <1>1, LenProperties DEF TypeOK
<1>3. CASE published' = published
  BY <1>2, <1>3, Places
<1>4. CASE published' # published
  <2>1. /\ delayed # NoRequest
        /\ published' = Append(published, DelayedCommand)
        /\ DelayedCommand \in PublishedCommand /\ DelayedCommand.id = NextId
    BY <1>4, PublishedGrows
  <2>2. /\ Len(published') = Len(published) + 1
        /\ \A i \in 1 .. Len(published) : published'[i] = published[i]
        /\ published'[Len(published) + 1] = DelayedCommand
    BY <2>1, AppendProperties DEF TypeOK
  <2>3. Len(published) \in Nat
    BY Places
  <2>4. published'[Len(published')].id = NextId
    BY <2>1, <2>2
  <2>. QED
    BY <1>2, <2>1, <2>2, <2>3, <2>4
<1>. QED
  BY <1>3, <1>4

(* Every step of the closed system keeps the types of what StateManager lacks. *)
LEMMA SysTypeStep ==
  ASSUME TypeOK, SysTypeInv, [SysNext]_allVars
  PROVE  SysTypeInv'
<1> DEFINE Old == Messages(Len(published))
           New == Messages(Len(published'))
<1>1. /\ Len(published) \in Nat /\ Len(published') \in Nat
      /\ Len(published) <= Len(published')
      /\ DOMAIN published = 1 .. Len(published)
      /\ DOMAIN published' = 1 .. Len(published')
      /\ published' # published => Len(published') = Len(published) + 1
  BY ControlStep, Places, PlacesKept
<1>0. 1 .. Len(published) \subseteq 1 .. Len(published')
  <2> SUFFICES ASSUME NEW i \in 1 .. Len(published) PROVE i \in 1 .. Len(published')
    OBVIOUS
  <2>1. Len(published) \in Nat /\ Len(published') \in Nat /\ Len(published) <= Len(published')
    BY <1>1
  <2>. QED
    BY <2>1
<1>2. stream \in Seq(Old) /\ Old \subseteq New /\ Ack \in Old /\ HostChanged \in Old
  <2>1. stream \in Seq(Old)
    BY DEF SysTypeInv
  <2>. QED
    BY <1>0, <2>1 DEF Messages
<1>3. stream \in Seq(New)
  BY <1>2, SeqMonotonic
<1>4. timedOut \subseteq DOMAIN published'
  BY <1>0, <1>1 DEF SysTypeInv
<1>5. stream = <<>> => stream' \in Seq(New) \/ stream' # <<>>
  BY EmptySeq
<1>6. CASE Subscribe
  <2>1. Append(stream, Ack) \in Seq(Old) /\ Append(stream, Ack) # <<>>
    BY <1>2, AppendProperties
  <2>2. Tail(Append(stream, Ack)) \in Seq(Old)
    BY <2>1, HeadTailProperties
  <2>3. UNCHANGED published
    BY <1>6 DEF Subscribe, vars, publisherVars
  <2>4. subscribed' \in 0 .. Len(SubscribeOrder)
    BY <1>6, SubscribeOrderLength DEF Subscribe, SysTypeInv
  <2>5. missed' \in BOOLEAN
    BY <1>6 DEF Subscribe, SysTypeInv
  <2>6. UNCHANGED <<hostRecord, status, listening, rereading, running, hostWrites, timedOut>>
        /\ stream' = Tail(Append(stream, Ack))
    BY <1>6 DEF Subscribe
  <2>. QED
    BY <2>2, <2>3, <2>4, <2>5, <2>6 DEF SysTypeInv
<1>7. CASE Run
  BY <1>7 DEF Run, SysTypeInv, vars, publisherVars
<1>8. CASE IoStep
  <2>1. /\ PublishEffect
        /\ UNCHANGED <<hostRecord, subscribed, listening, rereading, running, hostWrites,
                       missed, timedOut>>
    BY <1>8 DEF IoStep
  <2>2. CASE published' = published
    BY <2>1, <2>2 DEF PublishEffect, SysTypeInv
  <2>3. CASE published' # published
    <3>1. /\ status' = Append(status, "PENDING")
          /\ stream' = Announced(stream, CommandChanged(Len(published')))
      BY <2>1, <2>3 DEF PublishEffect
    <3>2. "PENDING" \in CommandStatus
      BY DEF CommandStatus
    <3>3. status' \in Seq(CommandStatus) /\ Len(status') = Len(status) + 1
      BY <3>1, <3>2, AppendProperties DEF SysTypeInv
    <3>4. CommandChanged(Len(published')) \in New
      BY <1>1, <2>3 DEF Messages
    <3>5. stream' \in Seq(New)
      BY <1>3, <3>1, <3>4, AnnouncedStream
    <3>6. Len(status') = Len(published')
      BY <1>1, <2>3, <3>3 DEF SysTypeInv
    <3>. QED
      BY <1>4, <2>1, <3>3, <3>5, <3>6 DEF SysTypeInv
  <2>. QED
    BY <2>2, <2>3
<1>9. ASSUME NEW id \in expired, IoTimeout(id) PROVE SysTypeInv'
  <2>1. UNCHANGED published
    BY <1>9 DEF IoTimeout, onCommandTimeout, publisherVars
  <2>2. timedOut' \subseteq DOMAIN published
    BY <1>9 DEF IoTimeout, SysTypeInv
  <2>. QED
    BY <1>9, <2>1, <2>2 DEF IoTimeout, SysTypeInv
<1>10. CASE Deliver
  <2>1. UNCHANGED published
    BY <1>10, DeliverStep
       DEF onHostStateChanged, onCommandStatusChanged, vars, publisherVars
  <2>2. stream' \in Seq(Old)
    BY <1>2, <1>10, InTail DEF Deliver
  <2>3. UNCHANGED <<hostRecord, status, subscribed, listening, rereading, running,
                    hostWrites, missed, timedOut>>
    BY <1>10 DEF Deliver
  <2>. QED
    BY <2>1, <2>2, <2>3 DEF SysTypeInv
<1>11. CASE SubscriberFails \/ RereadingFails
  BY <1>11, EmptySeq DEF SubscriberFails, RereadingFails, SysTypeInv, vars, publisherVars
<1>12. ASSUME NEW r \in HostRecords, WriteHostState(r) PROVE SysTypeInv'
  <2>1. stream' \in Seq(Old)
    BY <1>2, <1>12, AnnouncedStream DEF WriteHostState
  <2>2. hostWrites' \in 0 .. MaxHostWrites
    BY <1>12, PowerControlAssumption DEF WriteHostState, SysTypeInv
  <2>3. missed' \in BOOLEAN
    BY <1>12 DEF WriteHostState
  <2>4. /\ hostRecord' \in HostRecords
        /\ UNCHANGED <<published, status, subscribed, listening, rereading, running, timedOut>>
    BY <1>12 DEF WriteHostState, vars, publisherVars
  <2>. QED
    BY <2>1, <2>2, <2>3, <2>4 DEF SysTypeInv
<1>13. ASSUME NEW i \in DOMAIN status, NEW s \in CommandStatus, ReportStatus(i, s)
       PROVE  SysTypeInv'
  <2>1. i \in 1 .. Len(published) /\ CommandChanged(i) \in Old
    BY Places DEF Messages
  <2>2. stream' \in Seq(Old)
    BY <1>2, <1>13, <2>1, AnnouncedStream DEF ReportStatus
  <2>3. status' \in Seq(CommandStatus) /\ Len(status') = Len(status)
    BY <1>13, <2>1, ExceptSeq DEF ReportStatus, SysTypeInv
  <2>4. UNCHANGED <<published, hostRecord, subscribed, listening, rereading, running,
                    hostWrites, missed, timedOut>>
    BY <1>13 DEF ReportStatus, vars, publisherVars
  <2>. QED
    BY <2>2, <2>3, <2>4 DEF SysTypeInv
<1>14. CASE RestartBridge
  <2>1. stream' \in Seq(New) /\ subscribed' \in 0 .. Len(SubscribeOrder)
    BY <1>14, EmptySeq, SubscribeOrderLength DEF RestartBridge
  <2>2. /\ listening' \in BOOLEAN /\ rereading' \in BOOLEAN
        /\ running' \in BOOLEAN /\ missed' \in BOOLEAN
        /\ UNCHANGED <<published, hostRecord, status, hostWrites, timedOut>>
    BY <1>14 DEF RestartBridge, Restart, Connected
  <2>. QED
    BY <2>1, <2>2 DEF SysTypeInv
<1>15. CASE UNCHANGED allVars
  BY <1>15 DEF allVars, vars, publisherVars, systemVars, SysTypeInv
<1>. QED
  BY <1>6, <1>7, <1>8, <1>9, <1>10, <1>11, <1>12, <1>13, <1>14, <1>15
     DEF SysNext, Bmcctld

(* The bridge starts with all of them right. *)
LEMMA SysInitTypes == SysInit => TypeOK /\ SysTypeInv
<1> SUFFICES ASSUME SysInit PROVE TypeOK /\ SysTypeInv
  OBVIOUS
<1>1. TypeOK
  BY InitType DEF SysInit
<1>2. Len(published) = 0 /\ published = <<>>
  BY EmptySeq DEF SysInit, Init
<1>3. status \in Seq(CommandStatus) /\ Len(status) = 0
  BY EmptySeq DEF SysInit
<1>4. stream \in Seq(Messages(Len(published)))
  BY EmptySeq DEF SysInit
<1>5. /\ hostRecord \in HostRecords \cup {NoRecord}
      /\ subscribed \in 0 .. Len(SubscribeOrder)
      /\ listening \in BOOLEAN /\ rereading \in BOOLEAN
      /\ running \in BOOLEAN /\ missed \in BOOLEAN
      /\ hostWrites \in 0 .. MaxHostWrites /\ timedOut \subseteq DOMAIN published
  <2>1. /\ hostRecord \in HostRecords \cup {NoRecord}
        /\ listening \in BOOLEAN /\ rereading \in BOOLEAN
        /\ running \in BOOLEAN /\ missed \in BOOLEAN
        /\ timedOut \subseteq DOMAIN published
    BY DEF SysInit, Connected
  <2>2. subscribed \in 0 .. Len(SubscribeOrder) /\ hostWrites \in 0 .. MaxHostWrites
    BY PowerControlAssumption, SubscribeOrderLength DEF SysInit
  <2>. QED
    BY <2>1, <2>2
<1>. QED
  BY <1>1, <1>2, <1>3, <1>4, <1>5 DEF SysTypeInv

(***************************************************************************)
(* The closed system keeps its types, and is a StateManager whose          *)
(* environment is made of bmcctld and the two Redis connections: what is   *)
(* proved of StateManager holds here.                                      *)
(***************************************************************************)
LEMMA SysTypesHold == SysSpec => [](TypeOK /\ SysTypeInv)
<1>1. TypeOK /\ SysTypeInv /\ [SysNext]_allVars => TypeOK' /\ SysTypeInv'
  BY ControlStep, TypeStep, SysTypeStep
<1>. QED
  BY <1>1, SysInitTypes, PTL DEF SysSpec

(* SysSpec => Spec: each step of the closed system is one of StateManager, or none. *)
THEOREM ControlIsStateManager == SysSpec => Spec
<1>1. SysInit => Init
  BY DEF SysInit
<1>2. TypeOK /\ SysTypeInv /\ [SysNext]_allVars => [Next]_vars
  BY ControlStep
<1>. QED
  BY <1>1, <1>2, SysTypesHold, PTL DEF SysSpec, Spec

-----------------------------------------------------------------------------
(***************************************************************************)
(* One live command                                                        *)
(***************************************************************************)

(* A report that waits to be handled is about a command, and if it is a last
   one then STATE_DB has a last status too. *)
ReportsTrue ==
  \A k \in DOMAIN posted : posted[k].about = "command" =>
    \E i \in DOMAIN published :
      /\ published[i].id = posted[k].id
      /\ isTerminalCommandStatus(posted[k].status) => isTerminalCommandStatus(status[i])

(***************************************************************************)
(* A live command is the pending one, or the one whose HMSET was executed  *)
(* although the connection broke: after that nothing is written any more.  *)
(***************************************************************************)
LiveInv ==
  /\ publisherLink # "up" => pendingCommandId = NoId
  /\ \A i \in LiveCommands :
       \/ published[i].id = pendingCommandId
       \/ publisherLink = "broken" /\ i = Len(published)
  /\ ReportsTrue

(* No command loses its place, and no last status is ever taken back. *)
LEMMA StatusKept ==
  ASSUME TypeOK, SysTypeInv, [SysNext]_allVars, NEW i \in 1 .. Len(published)
  PROVE  /\ i \in 1 .. Len(published') /\ published'[i] = published[i]
         /\ isTerminalCommandStatus(status[i]) => isTerminalCommandStatus(status'[i])
<1>1. [Next]_vars
  BY ControlStep
<1>2. /\ Len(published) \in Nat /\ Len(published') \in Nat
      /\ Len(published) <= Len(published') /\ published'[i] = published[i]
      /\ DOMAIN status = 1 .. Len(published)
  BY <1>1, Places, PlacesKept
<1>3. i \in 1 .. Len(published')
  BY <1>2
<1>4. CASE IoStep
  <2>1. status' = status \/ status' = Append(status, "PENDING")
    BY <1>4 DEF IoStep, PublishEffect
  <2>2. "PENDING" \in CommandStatus /\ i \in 1 .. Len(status)
    BY <1>2 DEF CommandStatus, SysTypeInv
  <2>3. status'[i] = status[i]
    BY <2>1, <2>2, AppendProperties DEF SysTypeInv
  <2>. QED
    BY <1>2, <1>3, <2>3
<1>5. ASSUME NEW j \in DOMAIN status, NEW s \in CommandStatus, ReportStatus(j, s)
      PROVE  isTerminalCommandStatus(status[i]) => isTerminalCommandStatus(status'[i])
  <2>1. status' = [status EXCEPT ![j] = s] /\ ~isTerminalCommandStatus(status[j])
    BY <1>5 DEF ReportStatus, isTerminalCommandStatus
  <2>. QED
    BY <1>2, <2>1
<1>6. ASSUME UNCHANGED status
      PROVE  isTerminalCommandStatus(status[i]) => isTerminalCommandStatus(status'[i])
  BY <1>6
<1>. QED
  BY <1>2, <1>3, <1>4, <1>5, <1>6
     DEF SysNext, Subscribe, Run, IoTimeout, Deliver, SubscriberFails, RereadingFails,
         Bmcctld, WriteHostState, RestartBridge, allVars, systemVars

(* What a step makes of the posted work. *)
LEMMA PostedStep ==
  ASSUME TypeOK, SysTypeInv, [SysNext]_allVars
  PROVE  \/ UNCHANGED posted
         \/ posted # <<>> /\ posted' = Tail(posted) /\ UNCHANGED stream /\ IoStep
         \/ posted' = <<>> /\ RestartBridge
         \/ /\ Deliver /\ hostRecord \in HostRecords
            /\ posted' = Append(posted, [about |-> "host", info |-> hostRecord])
         \/ /\ Deliver /\ Head(stream) # HostChanged
            /\ \E i \in 1 .. Len(published) :
                 posted' = Append(posted, [about |-> "command", id |-> published[i].id,
                                           status |-> status[i]])
<1>1. CASE Subscribe \/ Run \/ SubscriberFails \/ RereadingFails \/ Bmcctld \/ UNCHANGED allVars
  BY <1>1
     DEF Subscribe, Run, SubscriberFails, RereadingFails, Bmcctld, WriteHostState, ReportStatus,
         allVars, vars
<1>2. CASE IoStep
  <2>1. CASE RunPosted
    <3>1. posted # <<>> /\ posted' = Tail(posted) /\ UNCHANGED published
      BY <2>1 DEF RunPosted, applyHostState, handleCommandStatus, publisherVars
    <3>2. UNCHANGED stream
      BY <1>2, <3>1 DEF IoStep, PublishEffect
    <3>. QED
      BY <1>2, <3>1, <3>2
  <2>2. CASE Client \/ ActionTimerFires \/ CommandTimerExpires
    BY <2>2
       DEF Client, queueTransition, RefuseTransition, ActionTimerFires,
           ExecuteHostTransition, DropHostTransition, CommandTimerExpires, vars
  <2>. QED
    BY <1>2, <2>1, <2>2 DEF IoStep
<1>3. ASSUME NEW id \in expired, IoTimeout(id) PROVE UNCHANGED posted
  BY <1>3 DEF IoTimeout, onCommandTimeout
<1>4. CASE Deliver
  <2>1. CASE UNCHANGED vars
    BY <2>1 DEF vars
  <2>2. CASE onHostStateChanged(hostRecord) /\ hostRecord \in HostRecords
    BY <1>4, <2>2 DEF onHostStateChanged
  <2>3. CASE /\ \E i \in 1 .. Len(published) :
                  onCommandStatusChanged(published[i].id, status[i])
             /\ Head(stream) # HostChanged
    BY <1>4, <2>3 DEF onCommandStatusChanged
  <2>. QED
    BY <1>4, <2>1, <2>2, <2>3, DeliverStep
<1>5. CASE RestartBridge
  BY <1>5 DEF RestartBridge, Restart
<1>. QED
  BY <1>1, <1>2, <1>3, <1>4, <1>5 DEF SysNext

(* No step makes a report that waits to be handled untrue. *)
LEMMA ReportsStep ==
  ASSUME TypeOK, SysTypeInv, ReportsTrue, [SysNext]_allVars
  PROVE  ReportsTrue'
<1> DEFINE IsTrue(r) == \E i \in 1 .. Len(published') :
             /\ published'[i].id = r.id
             /\ isTerminalCommandStatus(r.status) => isTerminalCommandStatus(status'[i])
<1>1. DOMAIN published = 1 .. Len(published) /\ DOMAIN published' = 1 .. Len(published')
  BY ControlStep, Places, PlacesKept
<1>2. ASSUME NEW r, NEW i \in 1 .. Len(published), published[i].id = r.id,
             isTerminalCommandStatus(r.status) => isTerminalCommandStatus(status[i])
      PROVE  IsTrue(r)
  BY <1>2, StatusKept
<1>3. ASSUME NEW k \in DOMAIN posted, posted[k].about = "command" PROVE IsTrue(posted[k])
  BY <1>1, <1>2, <1>3 DEF ReportsTrue
<1> HIDE DEF IsTrue
<1>4. /\ posted \in Seq(HostInfo \cup StatusInfo)
      /\ Len(posted) \in Nat /\ DOMAIN posted = 1 .. Len(posted)
  BY LenProperties DEF TypeOK
<1>5. ASSUME NEW r \in HostInfo \cup StatusInfo, posted' = Append(posted, r),
             r.about = "command" => IsTrue(r), NEW k \in DOMAIN posted',
             posted'[k].about = "command"
      PROVE  IsTrue(posted'[k])
  <2>1. /\ DOMAIN posted' = 1 .. Len(posted) + 1 /\ posted'[Len(posted) + 1] = r
        /\ \A l \in 1 .. Len(posted) : posted'[l] = posted[l]
    BY <1>4, <1>5, AppendProperties, LenProperties
  <2>2. k \in 1 .. Len(posted) \/ k = Len(posted) + 1
    BY <1>4, <2>1
  <2>3. CASE k = Len(posted) + 1
    BY <1>5, <2>1, <2>3
  <2>4. CASE k \in 1 .. Len(posted)
    BY <1>3, <1>4, <1>5, <2>1, <2>4
  <2>. QED
    BY <2>2, <2>3, <2>4
<1>6. SUFFICES ASSUME NEW k \in DOMAIN posted', posted'[k].about = "command"
               PROVE  IsTrue(posted'[k])
  BY <1>1 DEF ReportsTrue, IsTrue
<1>7. CASE UNCHANGED posted
  BY <1>3, <1>6, <1>7
<1>8. CASE posted # <<>> /\ posted' = Tail(posted)
  <2>1. /\ DOMAIN posted' = 1 .. Len(posted) - 1
        /\ \A l \in 1 .. Len(posted) - 1 : posted'[l] = posted[l + 1]
    BY <1>4, <1>8, HeadTailProperties, LenProperties
  <2>2. k + 1 \in DOMAIN posted /\ posted'[k] = posted[k + 1]
    BY <1>4, <2>1
  <2>. QED
    BY <1>3, <1>6, <2>2
<1>9. CASE posted' = <<>>
  BY <1>9
<1>10. CASE /\ hostRecord \in HostRecords
            /\ posted' = Append(posted, [about |-> "host", info |-> hostRecord])
  <2> DEFINE r == [about |-> "host", info |-> hostRecord]
  <2>1. r \in HostInfo \cup StatusInfo /\ r.about # "command" /\ posted' = Append(posted, r)
    BY <1>10 DEF HostInfo
  <2> HIDE DEF r
  <2>. QED
    BY <1>5, <1>6, <2>1
<1>11. ASSUME NEW i \in 1 .. Len(published),
              posted' = Append(posted, [about |-> "command", id |-> published[i].id,
                                        status |-> status[i]])
       PROVE  IsTrue(posted'[k])
  <2> DEFINE r == [about |-> "command", id |-> published[i].id, status |-> status[i]]
  <2>1. published[i] \in PublishedCommand /\ status[i] \in CommandStatus
    BY Places
  <2>2. /\ r \in HostInfo \cup StatusInfo /\ posted' = Append(posted, r)
        /\ published[i].id = r.id /\ r.status = status[i]
    BY <1>11, <2>1 DEF StatusInfo, PublishedCommand
  <2> HIDE DEF r
  <2>3. IsTrue(r)
    BY <1>2, <2>2
  <2>. QED
    BY <1>5, <1>6, <2>2, <2>3
<1>. QED
  BY <1>7, <1>8, <1>9, <1>10, <1>11, PostedStep

(* The ids in RACK_MANAGER_COMMAND are distinct. *)
LEMMA IdsDistinct ==
  ASSUME TypeOK, SysTypeInv, RequestInv,
         NEW i \in 1 .. Len(published), NEW j \in 1 .. Len(published),
         published[i].id = published[j].id
  PROVE  i = j
<1>1. i \in Nat /\ j \in Nat
  BY Places
<1>2. i < j \/ j < i \/ i = j
  BY <1>1
<1>. QED
  BY <1>2 DEF RequestInv, PublishedDiffer

(* The report that ends the wait for a command is true. *)
LEMMA ConcludedIsOver ==
  ASSUME TypeOK, SysTypeInv, RequestInv, ReportsTrue,
         posted # <<>>, Head(posted).about = "command", Concludes(Head(posted)),
         NEW i \in 1 .. Len(published), published[i].id = pendingCommandId
  PROVE  isTerminalCommandStatus(status[i])
<1>1. 1 \in DOMAIN posted /\ Head(posted) = posted[1]
  BY LenProperties, EmptySeq DEF TypeOK
<1>2. PICK j \in 1 .. Len(published) :
        /\ published[j].id = posted[1].id
        /\ isTerminalCommandStatus(posted[1].status) => isTerminalCommandStatus(status[j])
  BY <1>1, Places DEF ReportsTrue
<1>3. posted[1].id = pendingCommandId /\ isTerminalCommandStatus(posted[1].status)
  BY <1>1 DEF Concludes
<1>4. i = j
  BY <1>2, <1>3, IdsDistinct
<1>. QED
  BY <1>2, <1>3, <1>4

(* Steps that leave the command, the pending id and the connection alone. *)
LEMMA LiveKept ==
  ASSUME TypeOK, SysTypeInv, LiveInv, [SysNext]_allVars,
         UNCHANGED <<published, pendingCommandId, publisherLink, boot>>,
         timedOut \subseteq timedOut'
  PROVE  LiveInv'
<1>1. LiveCommands' \subseteq LiveCommands
  <2> SUFFICES ASSUME NEW i \in LiveCommands' PROVE i \in LiveCommands
    OBVIOUS
  <2>1. i \in 1 .. Len(published)
    BY Places DEF LiveCommands
  <2>. QED
    BY <2>1, StatusKept, Places DEF LiveCommands
<1>2. ReportsTrue'
  BY ReportsStep DEF LiveInv
<1>. QED
  BY <1>1, <1>2 DEF LiveInv

(* Steps that release the pending command, which is over. *)
LEMMA LiveReleased ==
  ASSUME TypeOK, SysTypeInv, LiveInv, [SysNext]_allVars,
         UNCHANGED <<published, publisherLink, boot>>,
         pendingCommandId # NoId, pendingCommandId' = NoId,
         timedOut \subseteq timedOut',
         \A i \in 1 .. Len(published) : published[i].id = pendingCommandId =>
           isTerminalCommandStatus(status[i]) \/ i \in timedOut'
  PROVE  LiveInv'
<1>1. publisherLink = "up"
  BY DEF LiveInv
<1>2. ASSUME NEW i \in LiveCommands' PROVE FALSE
  <2>1. i \in 1 .. Len(published) /\ i \in LiveCommands
    <3>1. i \in 1 .. Len(published)
      BY Places DEF LiveCommands
    <3>. QED
      BY <3>1, StatusKept, Places DEF LiveCommands
  <2>2. published[i].id = pendingCommandId
    BY <1>1, <2>1 DEF LiveInv
  <2>3. ~isTerminalCommandStatus(status'[i]) /\ i \notin timedOut'
    BY DEF LiveCommands
  <2>. QED
    BY <2>1, <2>2, <2>3, StatusKept
<1>3. ReportsTrue'
  BY ReportsStep DEF LiveInv
<1>. QED
  BY <1>2, <1>3 DEF LiveInv

(* The delayed request is published, or its publication fails. *)
LEMMA LivePublished ==
  ASSUME TypeOK, SysTypeInv, SlotConsistent, LiveInv, [SysNext]_allVars,
         delayed # NoRequest, ExecuteHostTransition \/ DropHostTransition, UNCHANGED timedOut
  PROVE  LiveInv'
<1>1. pendingCommandId = NoId /\ UNCHANGED boot
  BY DEF SlotConsistent, ExecuteHostTransition, DropHostTransition
<1>2. [Next]_vars
  BY ControlStep
<1>3. /\ Len(published) \in Nat /\ DOMAIN published = 1 .. Len(published)
      /\ DOMAIN published' = 1 .. Len(published')
      /\ published' # published =>
           Len(published') = Len(published) + 1 /\ published'[Len(published')].id = NextId
  BY <1>2, Places, PlacesKept
<1>4. \A i \in 1 .. Len(published) : published[i].id # NoId
  BY Places, NullValues DEF PublishedCommand
<1>5. ASSUME NEW i \in LiveCommands, i \in 1 .. Len(published)
      PROVE  publisherLink = "broken" /\ i = Len(published)
  BY <1>1, <1>4, <1>5 DEF LiveInv
<1>6. ASSUME NEW i \in LiveCommands', i \in 1 .. Len(published)
      PROVE  i \in LiveCommands
  BY <1>1, <1>3, <1>6, StatusKept DEF LiveCommands
<1>7. ReportsTrue'
  BY ReportsStep DEF LiveInv
<1>8. CASE ExecuteHostTransition
  <2>1. publisherLink = "up" /\ UNCHANGED publisherLink /\ pendingCommandId' = NextId
    BY <1>8 DEF ExecuteHostTransition, PublishSucceeds
  <2>2. ASSUME NEW i \in LiveCommands' PROVE published'[i].id = pendingCommandId'
    <3>1. i \notin 1 .. Len(published)
      BY <1>5, <1>6, <2>1
    <3>2. i \in 1 .. Len(published')
      BY <1>3 DEF LiveCommands
    <3>3. published' # published
      BY <3>1, <3>2
    <3>4. i = Len(published')
      BY <1>3, <3>1, <3>2, <3>3
    <3>. QED
      BY <1>3, <2>1, <3>3, <3>4
  <2>. QED
    BY <1>7, <2>1, <2>2 DEF LiveInv
<1>9. CASE DropHostTransition
  <2>1. UNCHANGED pendingCommandId
    BY <1>9 DEF DropHostTransition, pendingVars
  <2>2. ASSUME NEW i \in LiveCommands'
        PROVE  publisherLink' = "broken" /\ i = Len(published')
    <3>1. i \in 1 .. Len(published')
      BY <1>3 DEF LiveCommands
    <3>2. CASE i \in 1 .. Len(published)
      <4>1. publisherLink = "broken" /\ i = Len(published)
        BY <1>5, <1>6, <3>2
      <4>2. publisherLink' = "broken" /\ UNCHANGED published
        BY <1>9, <4>1 DEF DropHostTransition, PublishFails
      <4>. QED
        BY <4>1, <4>2
    <3>3. CASE i \notin 1 .. Len(published)
      <4>1. published' # published
        BY <3>1, <3>3
      <4>2. publisherLink' = "broken"
        BY <1>9, <4>1 DEF DropHostTransition, PublishFails, publisherVars
      <4>3. i = Len(published')
        BY <1>3, <3>1, <3>3, <4>1
      <4>. QED
        BY <4>2, <4>3
    <3>. QED
      BY <3>2, <3>3
  <2>3. pendingCommandId' = NoId
    BY <1>1, <2>1
  <2>. QED
    BY <1>7, <2>2, <2>3 DEF LiveInv
<1>. QED
  BY <1>8, <1>9

(* Every step keeps LiveInv. *)
LEMMA LiveStep ==
  ASSUME TypeOK, SysTypeInv, SlotConsistent, RequestInv, LiveInv, [SysNext]_allVars
  PROVE  LiveInv'
<1>1. CASE Subscribe \/ Run \/ SubscriberFails \/ RereadingFails \/ Bmcctld \/ UNCHANGED allVars
  BY <1>1, LiveKept
     DEF Subscribe, Run, SubscriberFails, RereadingFails, Bmcctld, WriteHostState, ReportStatus,
         allVars, systemVars, vars, publisherVars, pendingVars
<1>2. CASE IoStep
  <2>1. UNCHANGED timedOut
    BY <1>2 DEF IoStep
  <2>2. CASE Client \/ CommandTimerExpires \/ applyHostState
    <3>1. UNCHANGED <<published, pendingCommandId, publisherLink, boot>>
      BY <2>2
         DEF Client, queueTransition, RefuseTransition, CommandTimerExpires, applyHostState,
             vars, publisherVars, pendingVars
    <3>. QED
      BY <2>1, <3>1, LiveKept
  <2>3. CASE ActionTimerFires
    BY <2>1, <2>3, LivePublished
       DEF ActionTimerFires, ExecuteHostTransition, DropHostTransition
  <2>4. CASE handleCommandStatus
    <3>1. UNCHANGED <<published, publisherLink, boot>>
      BY <2>4 DEF handleCommandStatus, publisherVars
    <3>2. CASE Concludes(Head(posted))
      <4>1. /\ posted # <<>> /\ Head(posted).about = "command"
            /\ pendingCommandId' = NoId
        BY <2>4, <3>2 DEF handleCommandStatus, completePendingCommand
      <4>2. \A i \in 1 .. Len(published) : published[i].id = pendingCommandId =>
              isTerminalCommandStatus(status[i])
        BY <3>2, <4>1, ConcludedIsOver DEF LiveInv
      <4>3. CASE pendingCommandId = NoId
        BY <2>1, <3>1, <4>1, <4>3, LiveKept
      <4>4. CASE pendingCommandId # NoId
        BY <2>1, <3>1, <4>1, <4>2, <4>4, LiveReleased
      <4>. QED
        BY <4>3, <4>4
    <3>3. CASE ~Concludes(Head(posted))
      <4>1. UNCHANGED pendingCommandId
        BY <2>4, <3>3 DEF handleCommandStatus
      <4>. QED
        BY <2>1, <3>1, <4>1, LiveKept
    <3>. QED
      BY <3>2, <3>3
  <2>. QED
    BY <1>2, <2>2, <2>3, <2>4 DEF IoStep, RunPosted
<1>3. ASSUME NEW id \in expired, IoTimeout(id) PROVE LiveInv'
  <2>1. UNCHANGED <<published, publisherLink, boot>>
    BY <1>3 DEF IoTimeout, onCommandTimeout, publisherVars
  <2>2. CASE id = pendingCommandId
    <3>1. /\ pendingCommandId' = NoId
          /\ timedOut' = timedOut \cup {i \in DOMAIN published : published[i].id = id}
      BY <1>3, <2>2 DEF IoTimeout, onCommandTimeout, completePendingCommand
    <3>2. \A i \in 1 .. Len(published) : published[i].id = pendingCommandId => i \in timedOut'
      BY <2>2, <3>1, Places
    <3>3. pendingCommandId # NoId
      BY <2>2, NullValues DEF TypeOK
    <3>. QED
      BY <2>1, <3>1, <3>2, <3>3, LiveReleased
  <2>3. CASE id # pendingCommandId
    BY <1>3, <2>1, <2>3, LiveKept DEF IoTimeout, onCommandTimeout
  <2>. QED
    BY <2>2, <2>3
<1>4. CASE Deliver
  <2>1. UNCHANGED <<published, pendingCommandId, publisherLink, boot, timedOut>>
    BY <1>4, DeliverStep
       DEF Deliver, onHostStateChanged, onCommandStatusChanged, vars, publisherVars,
           pendingVars
  <2>. QED
    BY <2>1, LiveKept
<1>5. CASE RestartBridge
  <2>1. pendingCommandId' = NoId /\ UNCHANGED published /\ boot' = boot + 1
    BY <1>5 DEF RestartBridge, Restart
  <2>2. ASSUME NEW i \in LiveCommands' PROVE FALSE
    <3>1. i \in 1 .. Len(published) /\ published[i].id.boot = boot + 1
      BY <2>1, Places DEF LiveCommands
    <3>2. published[i].id.boot \in Nat /\ boot \in Nat
      BY <3>1, Places DEF PublishedCommand, CommandId, TypeOK
    <3>3. published[i].id.boot <= boot
      BY <3>1, <3>2 DEF RequestInv, IdsArePast
    <3>. QED
      BY <3>1, <3>2, <3>3
  <2>3. ReportsTrue'
    BY ReportsStep DEF LiveInv
  <2>. QED
    BY <2>1, <2>2, <2>3 DEF LiveInv
<1>. QED
  BY <1>1, <1>2, <1>3, <1>4, <1>5 DEF SysNext

(* The invariants of the closed system, those of StateManager included. *)
CommandInv == TypeOK /\ SysTypeInv /\ SlotConsistent /\ RequestInv /\ LiveInv

(* LiveInv holds with all that it rests on. *)
LEMMA CommandsInvariant == SysSpec => []CommandInv
<1>1. SysInit => LiveInv
  <2> SUFFICES ASSUME SysInit PROVE LiveInv
    OBVIOUS
  <2>1. DOMAIN published = {} /\ DOMAIN posted = {} /\ pendingCommandId = NoId
    BY DEF SysInit, Init
  <2>. QED
    BY <2>1 DEF LiveInv, LiveCommands, ReportsTrue
<1>2. TypeOK /\ SysTypeInv /\ SlotConsistent /\ RequestInv /\ LiveInv /\ [SysNext]_allVars
      => LiveInv'
  BY LiveStep
<1>3. SysSpec => []SlotConsistent /\ []RequestInv
  BY ControlIsStateManager, SlotIsConsistent, RequestsInvariant, PTL
<1>4. SysSpec => []LiveInv
  BY <1>1, <1>2, <1>3, SysTypesHold, PTL DEF SysSpec
<1>. QED
  BY <1>3, <1>4, SysTypesHold, PTL DEF CommandInv

(***************************************************************************)
(* bmcctld never has two commands of one incarnation to work on, unless    *)
(* the earlier one was given up after 600 s (state_manager.cpp:241-341,    *)
(* 375-432): also not when a write that was reported failed was executed.  *)
(***************************************************************************)
THEOREM LiveCommandIsSingle == SysSpec => []OneLiveCommand
<1>1. CommandInv => OneLiveCommand
  <2> SUFFICES ASSUME CommandInv, NEW i \in LiveCommands, NEW j \in LiveCommands
               PROVE  i = j
    BY DEF OneLiveCommand
  <2>1. TypeOK /\ SysTypeInv /\ RequestInv /\ LiveInv
    BY DEF CommandInv
  <2>2. /\ i \in 1 .. Len(published) /\ j \in 1 .. Len(published)
        /\ \A k \in 1 .. Len(published) : published[k].id # NoId
    BY <2>1, Places, NullValues DEF LiveCommands, PublishedCommand
  <2>3. CASE publisherLink = "broken"
    <3>1. pendingCommandId = NoId
      BY <2>1, <2>3 DEF LiveInv
    <3>. QED
      BY <2>1, <2>2, <3>1 DEF LiveInv
  <2>4. CASE publisherLink # "broken"
    <3>1. published[i].id = published[j].id
      BY <2>1, <2>4 DEF LiveInv
    <3>. QED
      BY <2>1, <2>2, <3>1, IdsDistinct
  <2>. QED
    BY <2>3, <2>4
<1>. QED
  BY <1>1, CommandsInvariant, PTL

(***************************************************************************)
(* A step that releases a pending command finds DONE or FAILED in STATE_DB *)
(* for it, or gives it up after the 600 s, or ends the process             *)
(* (state_manager.cpp:375-432, update_engine.cpp: the hash is read again   *)
(* when the notification arrives).                                         *)
(***************************************************************************)
THEOREM ReleaseIsJustified == SysSpec => ReleasedWhenOver
<1> DEFINE Justified ==
      \A i \in DOMAIN published :
        /\ pendingCommandId = published[i].id
        /\ pendingCommandId' # pendingCommandId
        /\ boot' = boot
        => isTerminalCommandStatus(status[i]) \/ i \in timedOut'
<1>1. CommandInv /\ [SysNext]_allVars => [Justified]_allVars
  <2> SUFFICES ASSUME CommandInv, SysNext, NEW i \in DOMAIN published,
                      pendingCommandId = published[i].id,
                      pendingCommandId' # pendingCommandId, boot' = boot
               PROVE  isTerminalCommandStatus(status[i]) \/ i \in timedOut'
    OBVIOUS
  <2>1. TypeOK /\ SysTypeInv /\ SlotConsistent /\ RequestInv /\ LiveInv
    BY DEF CommandInv
  <2>2. i \in 1 .. Len(published) /\ pendingCommandId # NoId
    BY <2>1, Places, NullValues DEF PublishedCommand
  <2>3. CASE Subscribe \/ Run \/ SubscriberFails \/ RereadingFails \/ Bmcctld
    BY <2>3
       DEF Subscribe, Run, SubscriberFails, RereadingFails, Bmcctld, WriteHostState, ReportStatus, vars,
           pendingVars
  <2>4. CASE IoStep
    <3>1. CASE Client \/ CommandTimerExpires \/ applyHostState
      BY <3>1
         DEF Client, queueTransition, RefuseTransition, CommandTimerExpires, applyHostState,
             vars, pendingVars
    <3>2. CASE ActionTimerFires
      BY <2>1, <2>2, <3>2
         DEF ActionTimerFires, ExecuteHostTransition, DropHostTransition, SlotConsistent
    <3>3. CASE handleCommandStatus
      <4>1. /\ posted # <<>> /\ Head(posted).about = "command"
            /\ Concludes(Head(posted))
        BY <3>3 DEF handleCommandStatus
      <4>. QED
        BY <2>1, <2>2, <4>1, ConcludedIsOver DEF LiveInv
    <3>. QED
      BY <2>4, <3>1, <3>2, <3>3 DEF IoStep, RunPosted
  <2>5. ASSUME NEW id \in expired, IoTimeout(id) PROVE i \in timedOut'
    <3>1. id = pendingCommandId
      BY <2>5 DEF IoTimeout, onCommandTimeout
    <3>. QED
      BY <2>5, <3>1 DEF IoTimeout
  <2>6. CASE Deliver
    BY <2>1, <2>6, DeliverStep
       DEF onHostStateChanged, onCommandStatusChanged, vars, pendingVars
  <2>7. CASE RestartBridge
    <3>1. boot \in Nat
      BY <2>1 DEF TypeOK
    <3>. QED
      BY <2>7, <3>1 DEF RestartBridge, Restart
  <2>. QED
    BY <2>3, <2>4, <2>5, <2>6, <2>7 DEF SysNext
<1>. QED
  BY <1>1, CommandsInvariant, PTL DEF SysSpec, ReleasedWhenOver

-----------------------------------------------------------------------------
(***************************************************************************)
(* The mirror and the events                                               *)
(***************************************************************************)
IsLastHost(k) ==
  /\ posted[k].about = "host"
  /\ \A l \in DOMAIN posted : l > k => posted[l].about # "host"

(* All that can keep the mirror from being up to date is out of the way: the
   connections are there, and the last write was announced and delivered. *)
Delivered ==
  /\ listening /\ rereading /\ ~missed
  /\ ~InStream(stream, HostChanged)
  /\ hostRecord[1] # NoField

(* Then the last record posted is the one in STATE_DB; with nothing posted it has
   been applied. *)
MirrorInv ==
  Delivered =>
    /\ \A k \in DOMAIN posted : IsLastHost(k) => posted[k].info = hostRecord
    /\ (\A k \in DOMAIN posted : posted[k].about # "host") => Mirrors

(* A value that bmcweb was told of is the last on its way, or was the last event. *)
EventInv ==
  ~unheard =>
    IF signals = <<>> THEN lastEvent = mapHostStateToEvent(currentHostState)
                      ELSE signals[Len(signals)] = currentHostState

(* A step that neither posts, applies nor writes a host record keeps MirrorInv. *)
LEMMA MirrorKept ==
  ASSUME MirrorInv, UNCHANGED <<posted, currentHostState, hostRecord>>,
         Delivered' => Delivered
  PROVE  MirrorInv'
BY DEF MirrorInv, Delivered, IsLastHost, Mirrors

(* The first of the posted handlers ran. *)
LEMMA MirrorAfterFirst ==
  ASSUME TypeOK, MirrorInv, posted # <<>>, posted' = Tail(posted), UNCHANGED hostRecord,
         Delivered' => Delivered,
         Head(posted).about = "host" =>
           LET mapped == mapHostState(Head(posted).info[1], Head(posted).info[2])
           IN mapped \in {currentHostState', NoMapping},
         Head(posted).about # "host" => UNCHANGED currentHostState
  PROVE  MirrorInv'
<1>1. /\ Len(posted) \in Nat \ {0} /\ DOMAIN posted = 1 .. Len(posted)
      /\ DOMAIN posted' = 1 .. Len(posted) - 1 /\ Head(posted) = posted[1]
      /\ \A k \in 1 .. Len(posted) - 1 : posted'[k] = posted[k + 1]
  BY HeadTailProperties, LenProperties, EmptySeq DEF TypeOK
<1>2. \A l \in 1 .. Len(posted) : l = 1 \/ (l - 1 \in 1 .. Len(posted) - 1 /\ l = (l - 1) + 1)
  BY <1>1
<1>3. 1 \in 1 .. Len(posted) /\ \A k \in 1 .. Len(posted) - 1 : k + 1 \in 1 .. Len(posted)
  BY <1>1
<1>4. SUFFICES ASSUME Delivered'
      PROVE  /\ \A k \in DOMAIN posted' : IsLastHost(k)' => posted'[k].info = hostRecord
             /\ (\A k \in DOMAIN posted' : posted'[k].about # "host") => Mirrors'
  BY DEF MirrorInv, Delivered
<1>5. /\ \A k \in DOMAIN posted : IsLastHost(k) => posted[k].info = hostRecord
      /\ (\A k \in DOMAIN posted : posted[k].about # "host") => Mirrors
  BY <1>4 DEF MirrorInv, Delivered
<1>6. ASSUME NEW k \in DOMAIN posted', IsLastHost(k)'
      PROVE  posted'[k].info = hostRecord
  <2>1. k \in 1 .. Len(posted) - 1 /\ k + 1 \in 1 .. Len(posted) /\ posted'[k] = posted[k + 1]
    BY <1>1, <1>3
  <2>2. posted[k + 1].about = "host"
    BY <1>6, <2>1 DEF IsLastHost
  <2>3. ASSUME NEW l \in DOMAIN posted, l > k + 1 PROVE posted[l].about # "host"
    <3>1. l - 1 \in DOMAIN posted' /\ posted'[l - 1] = posted[l] /\ l - 1 > k
      BY <1>1, <1>2, <2>1, <2>3
    <3>. QED
      BY <1>6, <3>1 DEF IsLastHost
  <2>4. IsLastHost(k + 1)
    BY <2>2, <2>3 DEF IsLastHost
  <2>. QED
    BY <1>1, <1>5, <2>1, <2>4
<1>7. ASSUME \A k \in DOMAIN posted' : posted'[k].about # "host"
      PROVE  Mirrors'
  <2>1. ASSUME NEW l \in DOMAIN posted, l # 1 PROVE posted[l].about # "host"
    <3>1. l - 1 \in DOMAIN posted' /\ posted'[l - 1] = posted[l]
      BY <1>1, <1>2, <2>1
    <3>. QED
      BY <1>7, <3>1
  <2>2. CASE posted[1].about = "host"
    <3>1. IsLastHost(1)
      BY <1>1, <2>1, <2>2 DEF IsLastHost
    <3>2. posted[1].info = hostRecord
      BY <1>1, <1>3, <1>5, <3>1
    <3>. QED
      BY <1>1, <2>2, <3>2 DEF Mirrors
  <2>3. CASE posted[1].about # "host"
    <3>1. Mirrors
      BY <1>5, <2>1, <2>3
    <3>. QED
      BY <1>1, <2>3, <3>1 DEF Mirrors
  <2>. QED
    BY <2>2, <2>3
<1>. QED
  BY <1>6, <1>7

(* One more handler is posted. *)
LEMMA MirrorAfterPosting ==
  ASSUME TypeOK, SysTypeInv, MirrorInv, NEW r \in HostInfo \cup StatusInfo,
         posted' = Append(posted, r), UNCHANGED <<hostRecord, currentHostState>>,
         \/ r.about = "host" /\ r.info = hostRecord
         \/ r.about # "host" /\ (Delivered' => Delivered)
  PROVE  MirrorInv'
<1>1. /\ Len(posted) \in Nat /\ DOMAIN posted = 1 .. Len(posted)
      /\ DOMAIN posted' = 1 .. Len(posted) + 1 /\ posted'[Len(posted) + 1] = r
      /\ \A k \in 1 .. Len(posted) : posted'[k] = posted[k]
  BY AppendProperties, LenProperties DEF TypeOK
<1>2. \A k \in 1 .. Len(posted) + 1 :
        k = Len(posted) + 1 \/ (k \in 1 .. Len(posted) /\ Len(posted) + 1 > k)
  BY <1>1
<1>3. Len(posted) + 1 \in DOMAIN posted' /\ DOMAIN posted \subseteq DOMAIN posted'
  BY <1>1
<1>4. CASE r.about = "host" /\ r.info = hostRecord
  <2>1. ASSUME NEW k \in DOMAIN posted', IsLastHost(k)' PROVE k = Len(posted) + 1
    BY <1>1, <1>2, <1>3, <1>4, <2>1 DEF IsLastHost
  <2>2. posted'[Len(posted) + 1].about = "host" /\ posted'[Len(posted) + 1].info = hostRecord
    BY <1>1, <1>4
  <2>. QED
    BY <1>3, <2>1, <2>2 DEF MirrorInv
<1>5. CASE r.about # "host" /\ (Delivered' => Delivered)
  <2>1. ASSUME NEW k \in DOMAIN posted', IsLastHost(k)'
        PROVE  k \in DOMAIN posted /\ IsLastHost(k) /\ posted'[k] = posted[k]
    <3>1. k # Len(posted) + 1
      BY <1>1, <1>5, <2>1 DEF IsLastHost
    <3>2. k \in DOMAIN posted /\ posted'[k] = posted[k]
      BY <1>1, <1>2, <2>1, <3>1
    <3>. QED
      BY <1>1, <1>3, <2>1, <3>2 DEF IsLastHost
  <2>2. ASSUME \A k \in DOMAIN posted' : posted'[k].about # "host"
        PROVE  \A k \in DOMAIN posted : posted[k].about # "host"
    BY <1>1, <1>3, <2>2
  <2>3. SUFFICES ASSUME Delivered'
        PROVE  /\ \A k \in DOMAIN posted' : IsLastHost(k)' => posted'[k].info = hostRecord
               /\ (\A k \in DOMAIN posted' : posted'[k].about # "host") => Mirrors'
    BY DEF MirrorInv, Delivered
  <2>4. /\ \A k \in DOMAIN posted : IsLastHost(k) => posted[k].info = hostRecord
        /\ (\A k \in DOMAIN posted : posted[k].about # "host") => Mirrors
    BY <1>5, <2>3 DEF MirrorInv, Delivered
  <2>. QED
    BY <2>1, <2>2, <2>4 DEF Mirrors
<1>. QED
  BY <1>4, <1>5

(* A bridge that can read STATE_DB starts with what it says. *)
LEMMA SeedMirrors ==
  ASSUME NEW record, NEW host, host = SeedFrom(record)
  PROVE  mapHostState(record[1], record[2]) \in {host, NoMapping}
BY DEF SeedFrom

(* Every step keeps MirrorInv. *)
LEMMA MirrorStep ==
  ASSUME TypeOK, SysTypeInv, MirrorInv, [SysNext]_allVars
  PROVE  MirrorInv'
<1> DEFINE S == Messages(Len(published))
<1>1. /\ stream \in Seq(S) /\ Ack \in S /\ HostChanged \in S
      /\ \A j : CommandChanged(j) # HostChanged
      /\ Ack # HostChanged /\ HostChanged.key = "host"
  BY DEF SysTypeInv, Messages, CommandChanged, HostChanged, Ack
<1>2. CASE Subscribe
  <2>1. Append(stream, Ack) \in Seq(S) /\ Append(stream, Ack) # <<>>
    BY <1>1, AppendProperties
  <2>2. InStream(stream, HostChanged) =>
          HostChanged = Head(Append(stream, Ack))
          \/ InStream(Tail(Append(stream, Ack)), HostChanged)
    BY <1>1, <2>1, InAppended, InTail
  <2>3. Delivered' => Delivered
    BY <1>2, <2>2 DEF Subscribe, Delivered
  <2>. QED
    BY <1>2, <2>3, MirrorKept DEF Subscribe, vars, mirrorVars
<1>3. CASE Run
  BY <1>3, MirrorKept DEF Run, vars, mirrorVars, Delivered
<1>4. CASE IoStep
  <2>1. UNCHANGED <<hostRecord, listening, rereading, missed>> /\ PublishEffect
    BY <1>4 DEF IoStep
  <2>2. InStream(stream', HostChanged) <=> InStream(stream, HostChanged)
    <3>1. CASE published' = published
      BY <2>1, <3>1 DEF PublishEffect
    <3>2. CASE published' # published
      <4> DEFINE New == Messages(Len(published'))
      <4>1. Len(published) \in Nat /\ Len(published') = Len(published) + 1
        BY <3>2, ControlStep, Places, PlacesKept
      <4>2. S \subseteq New /\ CommandChanged(Len(published')) \in New
        BY <4>1 DEF Messages
      <4>3. stream \in Seq(New)
        BY <1>1, <4>2, SeqMonotonic
      <4>4. stream' = Announced(stream, CommandChanged(Len(published')))
        BY <2>1, <3>2 DEF PublishEffect
      <4>. QED
        BY <1>1, <4>2, <4>3, <4>4, AnnouncedStream
    <3>. QED
      BY <3>1, <3>2
  <2>3. Delivered' => Delivered
    BY <2>1, <2>2 DEF Delivered
  <2>4. CASE Client \/ ActionTimerFires \/ CommandTimerExpires
    BY <2>1, <2>3, <2>4, MirrorKept
       DEF Client, queueTransition, RefuseTransition, ActionTimerFires,
           ExecuteHostTransition, DropHostTransition, CommandTimerExpires, vars, mirrorVars
  <2>5. CASE applyHostState
    <3> DEFINE mapped == mapHostState(Head(posted).info[1], Head(posted).info[2])
    <3>1. /\ posted # <<>> /\ posted' = Tail(posted) /\ Head(posted).about = "host"
          /\ IF mapped = NoMapping THEN UNCHANGED mirrorVars ELSE updateHostState(mapped)
      BY <2>5 DEF applyHostState
    <3> HIDE DEF mapped
    <3>2. mapped \in {currentHostState', NoMapping}
      BY <3>1 DEF updateHostState, mirrorVars
    <3>. QED
      BY <2>1, <2>3, <3>1, <3>2, MirrorAfterFirst DEF mapped
  <2>6. CASE handleCommandStatus
    BY <2>1, <2>3, <2>6, MirrorAfterFirst DEF handleCommandStatus, mirrorVars
  <2>. QED
    BY <1>4, <2>4, <2>5, <2>6 DEF IoStep, RunPosted
<1>5. ASSUME NEW id \in expired, IoTimeout(id) PROVE MirrorInv'
  BY <1>5, MirrorKept DEF IoTimeout, onCommandTimeout, mirrorVars, Delivered
<1>6. CASE Deliver
  <2>1. /\ stream # <<>> /\ stream' = Tail(stream)
        /\ UNCHANGED <<hostRecord, listening, rereading, missed>>
    BY <1>6 DEF Deliver
  <2>2. Head(stream) # HostChanged => (Delivered' => Delivered)
    BY <1>1, <2>1, InTail DEF Delivered
  <2>3. CASE /\ hostRecord \in HostRecords /\ onHostStateChanged(hostRecord)
    <3> DEFINE r == [about |-> "host", info |-> hostRecord]
    <3>1. /\ r \in HostInfo \cup StatusInfo /\ posted' = Append(posted, r)
          /\ r.about = "host" /\ r.info = hostRecord /\ UNCHANGED currentHostState
      BY <2>3 DEF onHostStateChanged, HostInfo, mirrorVars
    <3> HIDE DEF r
    <3>. QED
      BY <2>1, <3>1, MirrorAfterPosting
  <2>4. ASSUME NEW i \in 1 .. Len(published), Head(stream) # HostChanged,
               onCommandStatusChanged(published[i].id, status[i])
        PROVE  MirrorInv'
    <3> DEFINE r == [about |-> "command", id |-> published[i].id, status |-> status[i]]
    <3>1. published[i] \in PublishedCommand /\ status[i] \in CommandStatus
      BY Places
    <3>2. /\ r \in HostInfo \cup StatusInfo /\ posted' = Append(posted, r)
          /\ r.about # "host" /\ UNCHANGED currentHostState
      BY <2>4, <3>1 DEF onCommandStatusChanged, StatusInfo, PublishedCommand, mirrorVars
    <3> HIDE DEF r
    <3>. QED
      BY <2>1, <2>2, <2>4, <3>2, MirrorAfterPosting
  <2>5. CASE /\ UNCHANGED vars
             /\ rereading /\ Head(stream) = HostChanged => hostRecord[1] = NoField
    <3>1. Delivered' => Delivered
      BY <2>1, <2>2, <2>5 DEF Delivered
    <3>. QED
      BY <2>1, <2>5, <3>1, MirrorKept DEF vars, mirrorVars
  <2>. QED
    BY <1>6, <2>3, <2>4, <2>5, DeliverStep
<1>7. CASE SubscriberFails \/ RereadingFails
  BY <1>7 DEF SubscriberFails, RereadingFails, MirrorInv, Delivered
<1>8. ASSUME NEW r \in HostRecords, WriteHostState(r) PROVE MirrorInv'
  <2>1. /\ stream' = Announced(stream, HostChanged)
        /\ missed' = ~(listening /\ SubscribedTo("host"))
    BY <1>8 DEF WriteHostState
  <2>2. listening /\ SubscribedTo("host") => InStream(stream', HostChanged)
    BY <1>1, <2>1, AnnouncedStream
  <2>. QED
    BY <2>1, <2>2 DEF MirrorInv, Delivered
<1>9. ASSUME NEW i \in DOMAIN status, NEW t \in CommandStatus, ReportStatus(i, t)
      PROVE  MirrorInv'
  <2>1. CommandChanged(i) \in S
    BY Places DEF Messages
  <2>2. stream' = Announced(stream, CommandChanged(i))
    BY <1>9 DEF ReportStatus
  <2>3. InStream(stream', HostChanged) <=> InStream(stream, HostChanged)
    BY <1>1, <2>1, <2>2, AnnouncedStream
  <2>. QED
    BY <1>9, <2>3, MirrorKept DEF ReportStatus, vars, mirrorVars, Delivered
<1>10. CASE RestartBridge
  <2>1. /\ posted' = <<>> /\ currentHostState' = SeedFrom(getHostState(rereading'))
        /\ UNCHANGED hostRecord
    BY <1>10 DEF RestartBridge, Restart
  <2>2. rereading' => Mirrors'
    BY <2>1, SeedMirrors DEF Mirrors, getHostState
  <2>. QED
    BY <2>1, <2>2 DEF MirrorInv, Delivered
<1>11. CASE UNCHANGED allVars
  BY <1>11, MirrorKept DEF allVars, systemVars, vars, mirrorVars, Delivered
<1>. QED
  BY <1>2, <1>3, <1>4, <1>5, <1>6, <1>7, <1>8, <1>9, <1>10, <1>11 DEF SysNext, Bmcctld

(* MirrorInv holds from the start. *)
LEMMA MirrorInvariant == SysSpec => []MirrorInv
<1>1. SysInit => MirrorInv
  <2> SUFFICES ASSUME SysInit PROVE MirrorInv
    OBVIOUS
  <2>1. posted = <<>> /\ currentHostState = SeedFrom(getHostState(rereading))
    BY DEF SysInit, Init, initializeFromDb
  <2>2. rereading => Mirrors
    BY <2>1, SeedMirrors DEF Mirrors, getHostState
  <2>. QED
    BY <2>1, <2>2 DEF MirrorInv, Delivered
<1>2. TypeOK /\ SysTypeInv /\ MirrorInv /\ [SysNext]_allVars => MirrorInv'
  BY MirrorStep
<1>. QED
  BY <1>1, <1>2, SysTypesHold, PTL DEF SysSpec

-----------------------------------------------------------------------------
(***************************************************************************)
(* The far end                                                             *)
(***************************************************************************)

(* bmcweb only listens: the closed control does not notice it. *)
LEMMA EventsAreControl == EventsSpec => SysSpec
<1>1. EventsInit => SysInit
  BY DEF EventsInit
<1>2. [EventsNext]_hostEventVars => [SysNext]_allVars
  BY DEF EventsNext, onHostStatePropertiesChanged, BmcwebStops, BmcwebStarts,
         hostEventVars
<1>. QED
  BY <1>1, <1>2, PTL DEF EventsSpec, SysSpec

(* Every host state has its event (host_state_monitor.cpp). *)
LEMMA EveryStateHasItsEvent ==
  \A s \in HostState : mapHostStateToEvent(s) # NoEvent
BY DEF HostState, mapHostStateToEvent, NoEvent

(* bmcweb's own variables. *)
EventTypeInv ==
  /\ signals \in Seq(HostState)
  /\ bmcwebUp \in BOOLEAN
  /\ unheard \in BOOLEAN
  /\ lastEvent \in {NoEvent} \cup {mapHostStateToEvent(s) : s \in HostState}

(* What a step of bmcweb, or one that it hears, does to its own variables. *)
LEMMA EventTypeStep ==
  ASSUME TypeOK, TypeOK', EventTypeInv, [EventsNext]_hostEventVars
  PROVE  EventTypeInv'
<1>1. currentHostState' \in HostState /\ signals \in Seq(HostState)
  BY DEF TypeOK, EventTypeInv
<1>2. CASE SysNext /\ Signals
  <2>1. Append(signals, currentHostState') \in Seq(HostState)
    BY <1>1, AppendProperties
  <2>. QED
    BY <1>2, <2>1 DEF Signals, EventTypeInv
<1>3. CASE onHostStatePropertiesChanged
  <2>1. Head(signals) \in HostState /\ Tail(signals) \in Seq(HostState)
    BY <1>1, <1>3, HeadTailProperties DEF onHostStatePropertiesChanged
  <2>. QED
    BY <1>3, <2>1 DEF onHostStatePropertiesChanged, EventTypeInv
<1>4. CASE BmcwebStops
  <2>1. <<>> \in Seq(HostState) /\ (unheard \/ signals # <<>>) \in BOOLEAN
    BY EmptySeq
  <2>. QED
    BY <1>4, <2>1 DEF BmcwebStops, EventTypeInv
<1>5. CASE BmcwebStarts
  BY <1>5 DEF BmcwebStarts, EventTypeInv
<1>6. CASE UNCHANGED hostEventVars
  BY <1>6 DEF hostEventVars, eventVars, EventTypeInv
<1>. QED
  BY <1>2, <1>3, <1>4, <1>5, <1>6 DEF EventsNext

(* The types of bmcweb's variables always hold. *)
LEMMA EventTypesHold == EventsSpec => []EventTypeInv
<1>1. EventsInit => EventTypeInv
  BY EmptySeq DEF EventsInit, EventTypeInv
<1>2. TypeOK /\ TypeOK' /\ EventTypeInv /\ [EventsNext]_hostEventVars => EventTypeInv'
  BY EventTypeStep
<1>. QED
  BY <1>1, <1>2, EventsAreControl, SysTypesHold, PTL DEF EventsSpec

(***************************************************************************)
(* EventsTypeOK: all that the control, the connections, the STATE_DB       *)
(* hashes and bmcweb keep has its type.                                    *)
(***************************************************************************)
THEOREM EventsTypeCorrect == EventsSpec => []EventsTypeOK
<1>1. SysTypeInv /\ EventTypeInv => EventsTypeOK
  BY SysTypeInvImplies DEF EventTypeInv, EventsTypeOK
<1>. QED
  BY <1>1, EventTypesHold, EventsAreControl, SysTypesHold, PTL

(* The value that bmcweb was told of last is the current one. *)
LEMMA EventStep ==
  ASSUME TypeOK, EventTypeInv, EventInv, [EventsNext]_hostEventVars
  PROVE  EventInv'
<1>1. currentHostState \in HostState /\ signals \in Seq(HostState) /\ unheard \in BOOLEAN
  BY DEF TypeOK, EventTypeInv
<1>2. CASE SysNext /\ Signals
  <2>1. CASE currentHostState' = currentHostState
    BY <1>2, <2>1 DEF Signals, EventInv
  <2>2. CASE currentHostState' # currentHostState /\ unheard' # FALSE
    BY <1>2, <2>2 DEF Signals, EventInv
  <2>3. CASE currentHostState' # currentHostState /\ unheard' = FALSE
    <3>1. signals' = Append(signals, currentHostState')
      BY <1>2, <2>3 DEF Signals
    <3> DEFINE told == currentHostState'
    <3>2. Append(signals, told) # <<>> /\ Append(signals, told)[Len(Append(signals, told))] = told
      <4>1. signals \in Seq(HostState \cup {told}) /\ told \in HostState \cup {told}
        BY <1>1, SeqMonotonic
      <4>. HIDE DEF told
      <4>. QED
        BY <4>1, AppendProperties, LenProperties, EmptySeq
    <3>. QED
      BY <3>1, <3>2 DEF EventInv
  <2>. QED
    BY <2>1, <2>2, <2>3
<1>3. CASE onHostStatePropertiesChanged
  <2>1. /\ signals # <<>> /\ signals' = Tail(signals)
        /\ unheard' = unheard /\ currentHostState' = currentHostState
    BY <1>3 DEF onHostStatePropertiesChanged, allVars, vars, mirrorVars
  <2>2. /\ Len(signals) \in Nat \ {0} /\ Head(signals) = signals[1]
        /\ Len(Tail(signals)) = Len(signals) - 1
        /\ Tail(signals) \in Seq(HostState)
        /\ \A i \in 1 .. Len(signals) - 1 : Tail(signals)[i] = signals[i + 1]
    BY <1>1, <2>1, HeadTailProperties, LenProperties, EmptySeq
  <2>3. CASE Len(signals) = 1
    <3>1. Tail(signals) = <<>>
      <4>1. Len(Tail(signals)) = 0
        BY <2>2, <2>3
      <4>. QED
        BY <2>2, <4>1, EmptySeq
    <3>2. EventInv => unheard \/ signals[1] = currentHostState
      BY <2>1, <2>3 DEF EventInv
    <3>3. mapHostStateToEvent(currentHostState) # NoEvent
      BY <1>1, EveryStateHasItsEvent
    <3>. QED
      BY <1>3, <2>1, <2>2, <3>1, <3>2, <3>3 DEF onHostStatePropertiesChanged, EventInv
  <2>4. CASE Len(signals) # 1
    <3>1. /\ Len(signals) - 1 \in 1 .. Len(signals) - 1
          /\ (Len(signals) - 1) + 1 = Len(signals) /\ Len(Tail(signals)) # 0
      BY <2>2, <2>4
    <3>2. Tail(signals) # <<>> /\ Tail(signals)[Len(Tail(signals))] = signals[Len(signals)]
      BY <2>2, <3>1, EmptySeq
    <3>. QED
      BY <2>1, <3>2 DEF EventInv
  <2>. QED
    BY <2>3, <2>4
<1>4. CASE BmcwebStops
  BY <1>1, <1>4 DEF BmcwebStops, allVars, vars, mirrorVars, EventInv
<1>5. CASE BmcwebStarts
  BY <1>5 DEF BmcwebStarts, allVars, vars, mirrorVars, EventInv
<1>6. CASE UNCHANGED hostEventVars
  BY <1>6 DEF hostEventVars, allVars, vars, mirrorVars, eventVars, EventInv
<1>. QED
  BY <1>2, <1>3, <1>4, <1>5, <1>6 DEF EventsNext

(* EventInv holds from the start. *)
LEMMA EventInvariant == EventsSpec => []EventInv
<1>1. EventsInit => EventInv
  BY DEF EventsInit, EventInv
<1>2. TypeOK /\ EventTypeInv /\ EventInv /\ [EventsNext]_hostEventVars => EventInv'
  BY EventStep
<1>. QED
  BY <1>1, <1>2, EventTypesHold, EventsAreControl, SysTypesHold, PTL DEF EventsSpec

(***************************************************************************)
(* SubscribersKnow: whatever was written, read late or skipped in between, *)
(* once nothing is under way CurrentHostState and the last power event     *)
(* tell what HOST_STATE says.  Of the records that were written the last   *)
(* one posted is the current one (MirrorInv), and of the values that were  *)
(* signalled the last one is the current one (EventInv): neither follows   *)
(* from SubscribersKnow, which says nothing while something is under way.  *)
(***************************************************************************)
THEOREM SubscribersAreTold == EventsSpec => []SubscribersKnow
<1>1. MirrorInv /\ EventInv /\ EventTypeInv => SubscribersKnow
  <2> SUFFICES ASSUME MirrorInv, EventInv, EventTypeInv, listening, rereading, ~missed,
                      ~HostUnderWay, hostRecord[1] # NoField
               PROVE  Mirrors /\ (~unheard /\ signals = <<>> => Told)
    BY DEF SubscribersKnow
  <2>1. Mirrors
    BY DEF MirrorInv, Delivered, HostUnderWay
  <2>2. ASSUME ~unheard, signals = <<>> PROVE Told
    BY <2>1, <2>2 DEF EventInv, Mirrors, Told
  <2>. QED
    BY <2>1, <2>2
<1>. QED
  BY <1>1, MirrorInvariant, EventInvariant, EventTypesHold, EventsAreControl, PTL
=============================================================================
