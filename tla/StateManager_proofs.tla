------------------------- MODULE StateManager_proofs -------------------------
(***************************************************************************)
(* Theorems about StateManager, for every size of the queue, every set of  *)
(* host records and D-Bus writes, and every bound.                         *)
(***************************************************************************)
EXTENDS StateManager, SequenceTheorems, TLAPS

-----------------------------------------------------------------------------
(* The translation tables stay within the two vocabularies. *)

(* mapHostState() yields a HostState or nothing (host_state_mapping.hpp). *)
LEMMA MapHostStateType ==
  \A d, s : mapHostState(d, s) \in HostState \cup {NoMapping}
BY DEF mapHostState, RuleHostState, hostStateFromDeviceStatus, HostState,
       NoMapping, TransitionalPowerState, StablePowerState

(* hostStateToChassisPowerState() yields a PowerState. *)
LEMMA ChassisPowerStateType ==
  \A h : hostStateToChassisPowerState(h) \in ChassisPowerState
BY DEF hostStateToChassisPowerState, ChassisPowerState

(* Every transition the setters accept has a command. *)
LEMMA TransitionToCommandType ==
  \A t \in SupportedTransition : transitionToCommand(t) \in Command
BY DEF transitionToCommand, SupportedTransition, Command

(* What the bridge starts with is a HostState. *)
LEMMA SeedValuesType == SeedValues \subseteq HostState
BY MapHostStateType DEF SeedValues, HostState, NoMapping

-----------------------------------------------------------------------------
(***************************************************************************)
(* Type correctness                                                        *)
(***************************************************************************)
LEMMA ProcessNextActionType ==
  ASSUME NEW busy \in BOOLEAN, NEW q \in Seq(Request), Len(q) <= MaxQueueSize,
         NEW outstanding \in Request \cup {NoRequest},
         processNextAction(busy, q, outstanding)
  PROVE  /\ actionQueue' \in Seq(Request)
         /\ Len(actionQueue') <= MaxQueueSize
         /\ actionInProgress' \in BOOLEAN
         /\ delayed' \in Request \cup {NoRequest}
<1>1. CASE busy \/ q = <<>>
  BY <1>1 DEF processNextAction
<1>2. CASE ~busy /\ q # <<>>
  <2>1. /\ Head(q) \in Request
        /\ Tail(q) \in Seq(Request)
        /\ Len(Tail(q)) <= MaxQueueSize
    BY <1>2, StateManagerAssumption, HeadTailProperties, LenProperties
  <2>. QED
    BY <2>1, <1>2 DEF processNextAction
<1>. QED
  BY <1>1, <1>2

(* What generateRequestId() and hmset() build from the delayed request. *)
LEMMA DelayedCommandType ==
  ASSUME TypeOK, delayed # NoRequest
  PROVE  /\ NextId \in CommandId
         /\ DelayedCommand \in PublishedCommand
<1>1. NextId \in CommandId
  BY DEF TypeOK, NextId, CommandId
<1>2. delayed \in Request
  BY DEF TypeOK
<1>3. transitionToCommand(delayed.transition) \in Command
  BY <1>2, TransitionToCommandType DEF Request
<1>. QED
  BY <1>1, <1>2, <1>3 DEF DelayedCommand, PublishedCommand, Request

(* The elements of the sequences have their types. *)
LEMMA ElementTypes ==
  ASSUME TypeOK
  PROVE  /\ \A i \in DOMAIN published : published[i] \in PublishedCommand
         /\ \A i \in DOMAIN actionQueue : actionQueue[i] \in Request
         /\ PublishedIds \subseteq CommandId
         /\ Waiting \subseteq Nat \ {0}
<1>1. \A i \in DOMAIN published : published[i] \in PublishedCommand
  BY LenProperties, ElementOfSeq DEF TypeOK
<1>2. \A i \in DOMAIN actionQueue : actionQueue[i] \in Request
  BY LenProperties, ElementOfSeq DEF TypeOK
<1>3. PublishedIds \subseteq CommandId
  BY <1>1 DEF PublishedIds, PublishedCommand
<1>4. delayed.n \in Nat
  <2>1. CASE delayed \in Request
    BY <2>1 DEF Request
  <2>2. CASE delayed = NoRequest
    BY <2>2 DEF NoRequest
  <2>. QED
    BY <2>1, <2>2 DEF TypeOK
<1>5. Waiting \subseteq Nat \ {0}
  BY <1>2, <1>4 DEF Waiting, Request, NoRequest
<1>. QED
  BY <1>1, <1>2, <1>3, <1>5

(* A step keeps the types. *)
LEMMA TypeStep ==
  ASSUME TypeOK, [Next]_vars
  PROVE  TypeOK'
<1> USE StateManagerAssumption
<1>1. ASSUME NEW w \in SetterWrites, queueTransition(w[1], w[2])
      PROVE  TypeOK'
  <2> DEFINE r == [n |-> Len(accepted) + 1, transition |-> w[2]]
             q == Append(actionQueue, r)
  <2>1. w[1] \in Property /\ w[2] \in SupportedTransition
    BY <1>1 DEF queueTransition
  <2>2. r \in Request
    BY <2>1 DEF TypeOK, Request
  <2>3. q \in Seq(Request) /\ Len(q) <= MaxQueueSize
    BY <1>1, <2>2, AppendProperties DEF TypeOK, queueTransition, QueueFull
  <2>4. processNextAction(actionInProgress, q, delayed)
    BY <1>1 DEF queueTransition
  <2>5. /\ actionQueue' \in Seq(Request)
        /\ Len(actionQueue') <= MaxQueueSize
        /\ actionInProgress' \in BOOLEAN
        /\ delayed' \in Request \cup {NoRequest}
    <3> HIDE DEF q
    <3>. QED
      BY <2>3, <2>4, ProcessNextActionType DEF TypeOK
  <2>6. accepted' \in Seq(SupportedTransition)
    BY <1>1, <2>1 DEF TypeOK, queueTransition
  <2>7. lastRequested' \in [Property -> SupportedTransition \cup {NoTransition}]
    BY <1>1, <2>1 DEF TypeOK, queueTransition
  <2>. QED
    BY <1>1, <2>5, <2>6, <2>7
       DEF TypeOK, queueTransition, mirrorVars, pendingVars, publisherVars
<1>2. CASE ExecuteHostTransition
  <2>1. NextId \in CommandId /\ DelayedCommand \in PublishedCommand
    BY <1>2, DelayedCommandType DEF ExecuteHostTransition
  <2>. QED
    BY <1>2, <2>1 DEF TypeOK, ExecuteHostTransition, PublishSucceeds,
       mirrorVars, historyVars
<1>3. CASE DropHostTransition
  <2>1. DelayedCommand \in PublishedCommand
    BY <1>3, DelayedCommandType DEF DropHostTransition
  <2>2. published' \in {published, Append(published, DelayedCommand)}
    BY <1>3 DEF DropHostTransition, PublishFails, publisherVars
  <2>3. published' \in Seq(PublishedCommand)
    <3> HIDE DEF DelayedCommand
    <3>1. published \in Seq(PublishedCommand)
      BY DEF TypeOK
    <3>2. Append(published, DelayedCommand) \in Seq(PublishedCommand)
      BY <2>1, <3>1, AppendProperties
    <3>. QED
      BY <2>2, <3>1, <3>2
  <2>4. /\ requestCounter' \in Nat
        /\ publisherLink' \in {"none", "up", "broken"}
    BY <1>3 DEF TypeOK, DropHostTransition, PublishFails, publisherVars
  <2>5. failed' \in SUBSET (Nat \ {0})
    BY <1>3 DEF TypeOK, DropHostTransition, Request
  <2>6. /\ actionQueue' \in Seq(Request)
        /\ Len(actionQueue') <= MaxQueueSize
        /\ actionInProgress' \in BOOLEAN
        /\ delayed' \in Request \cup {NoRequest}
    BY <1>3, ProcessNextActionType DEF TypeOK, DropHostTransition
  <2>. QED
    BY <1>3, <2>3, <2>4, <2>5, <2>6
       DEF TypeOK, DropHostTransition, mirrorVars, pendingVars
<1>4. CASE CommandTimerExpires
  BY <1>4 DEF TypeOK, CommandTimerExpires, mirrorVars, slotVars,
     publisherVars, historyVars
<1>5. ASSUME completePendingCommand
      PROVE  /\ pendingCommandId' \in CommandId \cup {NoId}
             /\ commandTimer' \in CommandId \cup {NoId}
             /\ actionQueue' \in Seq(Request)
             /\ Len(actionQueue') <= MaxQueueSize
             /\ actionInProgress' \in BOOLEAN
             /\ delayed' \in Request \cup {NoRequest}
  BY <1>5, ProcessNextActionType DEF TypeOK, completePendingCommand
<1>6. ASSUME NEW id \in expired, onCommandTimeout(id)
      PROVE  TypeOK'
  BY <1>5, <1>6 DEF TypeOK, onCommandTimeout, mirrorVars, slotVars,
     publisherVars, historyVars
<1>7. CASE handleCommandStatus
  BY <1>5, <1>7 DEF TypeOK, handleCommandStatus, mirrorVars, slotVars,
     publisherVars, historyVars
<1>8. CASE applyHostState
  <2>1. posted' \in Seq(HostInfo \cup StatusInfo)
    BY <1>8 DEF TypeOK, applyHostState
  <2>2. /\ currentHostState' \in HostState
        /\ currentChassisPowerState' \in ChassisPowerState
        /\ signalled' \in [host : HostState, chassis : ChassisPowerState]
    <3> DEFINE mapped == mapHostState(Head(posted).info[1], Head(posted).info[2])
    <3>1. CASE mapped = NoMapping
      BY <1>8, <3>1 DEF TypeOK, applyHostState, mirrorVars
    <3>2. CASE mapped # NoMapping
      <4>1. mapped \in HostState
        BY <3>2, MapHostStateType
      <4>2. updateHostState(mapped)
        BY <1>8, <3>2 DEF applyHostState
      <4> HIDE DEF mapped
      <4>. QED
        BY <4>1, <4>2, ChassisPowerStateType DEF TypeOK, updateHostState, mirrorVars
    <3>. QED
      BY <3>1, <3>2
  <2>. QED
    BY <1>8, <2>1, <2>2 DEF TypeOK, applyHostState, slotVars, pendingVars,
       publisherVars, historyVars
<1>9. ASSUME NEW info \in HostRecords, onHostStateChanged(info)
      PROVE  TypeOK'
  <2>1. [about |-> "host", info |-> info] \in HostInfo
    BY DEF HostInfo
  <2>. QED
    BY <1>9, <2>1 DEF TypeOK, onHostStateChanged, mirrorVars, slotVars,
       pendingVars, publisherVars, historyVars
<1>10. ASSUME NEW id \in PublishedIds, NEW status \in CommandStatus,
              onCommandStatusChanged(id, status)
       PROVE  TypeOK'
  <2>1. id \in CommandId
    BY ElementTypes
  <2>2. [about |-> "command", id |-> id, status |-> status] \in StatusInfo
    BY <2>1 DEF StatusInfo
  <2>. QED
    BY <1>10, <2>2 DEF TypeOK, onCommandStatusChanged, mirrorVars, slotVars,
       pendingVars, publisherVars, historyVars
<1>11. ASSUME NEW s \in SeedValues, Restart(s)
       PROVE  TypeOK'
  <2>1. /\ currentHostState' \in HostState
        /\ currentChassisPowerState' \in ChassisPowerState
        /\ signalled' \in [host : HostState, chassis : ChassisPowerState]
    BY <1>11, SeedValuesType, ChassisPowerStateType DEF Restart
  <2>2. lastRequested' \in [Property -> SupportedTransition \cup {NoTransition}]
    <3>1. lastRequested' = [p \in Property |-> NoTransition]
      BY <1>11 DEF Restart
    <3>. QED
      BY <3>1
  <2>3. forgotten' \in SUBSET (Nat \ {0})
    BY <1>11, ElementTypes DEF TypeOK, Restart
  <2>4. boot' \in Nat \ {0}
    BY <1>11 DEF TypeOK, Restart
  <2>5. /\ actionQueue' \in Seq(Request)
        /\ Len(actionQueue') <= MaxQueueSize
        /\ posted' \in Seq(HostInfo \cup StatusInfo)
    <3>1. actionQueue' = <<>> /\ posted' = <<>>
      BY <1>11 DEF Restart
    <3>. QED
      BY <3>1, EmptySeq
  <2>6. /\ actionInProgress' \in BOOLEAN
        /\ delayed' \in Request \cup {NoRequest}
        /\ pendingCommandId' \in CommandId \cup {NoId}
        /\ commandTimer' \in CommandId \cup {NoId}
        /\ expired' \in SUBSET CommandId
        /\ publisherLink' \in {"none", "up", "broken"}
        /\ requestCounter' \in Nat
    BY <1>11 DEF Restart
  <2>7. UNCHANGED <<published, accepted, failed>>
    BY <1>11 DEF Restart
  <2>. QED
    BY <2>1, <2>2, <2>3, <2>4, <2>5, <2>6, <2>7 DEF TypeOK
<1>12. CASE UNCHANGED vars
  BY <1>12 DEF TypeOK, vars, mirrorVars, slotVars, pendingVars,
     publisherVars, historyVars
<1>. QED
  BY <1>1, <1>2, <1>3, <1>4, <1>6, <1>7, <1>8, <1>9, <1>10, <1>11, <1>12
     DEF Next, Client, Timers, ActionTimerFires, RunPosted, Environment,
         RefuseTransition

(* The initial values have their types. *)
LEMMA InitType == Init => TypeOK
<1> SUFFICES ASSUME Init PROVE TypeOK
  OBVIOUS
<1>1. /\ currentHostState \in HostState
      /\ currentChassisPowerState \in ChassisPowerState
      /\ signalled \in [host : HostState, chassis : ChassisPowerState]
  <2>1. PICK s \in SeedValues : initializeFromDb(s)
    BY DEF Init
  <2>2. s \in HostState
    BY <2>1, SeedValuesType
  <2>3. hostStateToChassisPowerState(s) \in ChassisPowerState
    BY ChassisPowerStateType
  <2>. QED
    BY <2>1, <2>2, <2>3 DEF initializeFromDb
<1>2. lastRequested \in [Property -> SupportedTransition \cup {NoTransition}]
  <2>1. lastRequested = [p \in Property |-> NoTransition]
    BY DEF Init
  <2>. QED
    BY <2>1
<1>3. actionQueue \in Seq(Request) /\ Len(actionQueue) <= MaxQueueSize
  <2>1. actionQueue = <<>>
    BY DEF Init
  <2>. QED
    BY <2>1, EmptySeq, StateManagerAssumption
<1>4. /\ posted \in Seq(HostInfo \cup StatusInfo)
      /\ published \in Seq(PublishedCommand)
      /\ accepted \in Seq(SupportedTransition)
  <2>1. posted = <<>> /\ published = <<>> /\ accepted = <<>>
    BY DEF Init
  <2>. QED
    BY <2>1, EmptySeq
<1>5. /\ actionInProgress \in BOOLEAN
      /\ delayed \in Request \cup {NoRequest}
      /\ pendingCommandId \in CommandId \cup {NoId}
      /\ commandTimer \in CommandId \cup {NoId}
      /\ expired \in SUBSET CommandId
  BY DEF Init
<1>6. /\ publisherLink \in {"none", "up", "broken"}
      /\ requestCounter \in Nat
      /\ boot \in Nat \ {0}
      /\ failed \in SUBSET (Nat \ {0})
      /\ forgotten \in SUBSET (Nat \ {0})
  <2>1. publisherLink \in {"none", "up", "broken"}
    BY DEF Init
  <2>2. /\ requestCounter = 0 /\ boot = 1
        /\ failed = {} /\ forgotten = {}
    BY DEF Init
  <2>. QED
    BY <2>1, <2>2
<1>. QED
  BY <1>1, <1>2, <1>3, <1>4, <1>5, <1>6 DEF TypeOK

(* Every variable stays in its range (state_manager.hpp:96-130). *)
THEOREM TypeCorrect == Spec => []TypeOK
<1>1. TypeOK /\ [Next]_vars => TypeOK'
  BY TypeStep
<1>. QED
  BY <1>1, InitType, PTL DEF Spec

-----------------------------------------------------------------------------
(***************************************************************************)
(* The action slot                                                         *)
(***************************************************************************)

(* The null id and the null request are no real ones. *)
LEMMA NullValues ==
  /\ NoId \notin CommandId
  /\ NoRequest \notin Request
BY DEF NoId, CommandId, NoRequest, Request

(* Freeing the slot with nothing delayed and nothing pending: the next request
   takes it at once, or nothing is queued. *)
LEMMA FreeSlot ==
  ASSUME TypeOK, processNextAction(FALSE, actionQueue, NoRequest),
         pendingCommandId' = NoId, commandTimer' = NoId
  PROVE  SlotConsistent'
<1>1. CASE actionQueue = <<>>
  BY <1>1 DEF processNextAction, SlotConsistent
<1>2. CASE actionQueue # <<>>
  <2>1. Head(actionQueue) \in Request
    BY <1>2, HeadTailProperties DEF TypeOK
  <2>. QED
    BY <1>2, <2>1, NullValues DEF processNextAction, SlotConsistent
<1>. QED
  BY <1>1, <1>2

(***************************************************************************)
(* The slot is busy exactly while a request is delayed or a command is     *)
(* pending, and a pending command has a timer (state_manager.cpp:60-63,    *)
(* 241-341, 375-432).  Inductive together with TypeOK.                     *)
(***************************************************************************)
THEOREM SlotIsConsistent == Spec => []SlotConsistent
<1>1. Init => SlotConsistent
  BY DEF Init, SlotConsistent
<1>2. TypeOK /\ SlotConsistent /\ [Next]_vars => SlotConsistent'
  <2> SUFFICES ASSUME TypeOK, SlotConsistent, [Next]_vars PROVE SlotConsistent'
    OBVIOUS
  <2>1. ASSUME NEW w \in SetterWrites, queueTransition(w[1], w[2])
        PROVE  SlotConsistent'
    <3> DEFINE r == [n |-> Len(accepted) + 1, transition |-> w[2]]
               q == Append(actionQueue, r)
    <3>1. /\ processNextAction(actionInProgress, q, delayed)
          /\ UNCHANGED <<pendingCommandId, commandTimer, expired>>
      BY <2>1 DEF queueTransition, pendingVars
    <3>2. CASE actionInProgress
      <4> HIDE DEF q
      <4>. QED
        BY <3>1, <3>2 DEF processNextAction, SlotConsistent
    <3>3. CASE ~actionInProgress
      <4>1. actionQueue = <<>> /\ pendingCommandId = NoId
        BY <3>3 DEF SlotConsistent
      <4>2. r \in Request
        BY <2>1 DEF TypeOK, queueTransition, Request
      <4>3. q = <<r>>
        BY <4>1
      <4>4. q # <<>> /\ Head(q) = r /\ Tail(q) = <<>>
        BY <4>3
      <4>5. /\ actionInProgress' = TRUE
            /\ actionQueue' = <<>>
            /\ delayed' = r
        <5> HIDE DEF q, r
        <5>. QED
          BY <3>1, <3>3, <4>4 DEF processNextAction
      <4> HIDE DEF q, r
      <4>. QED
        BY <3>1, <4>1, <4>2, <4>5, NullValues DEF SlotConsistent
    <3>. QED
      BY <3>2, <3>3 DEF TypeOK
  <2>2. CASE ExecuteHostTransition
    <3>1. NextId # NoId
      BY <2>2, DelayedCommandType, NullValues DEF ExecuteHostTransition
    <3>. QED
      BY <2>2, <3>1 DEF ExecuteHostTransition, SlotConsistent
  <2>3. CASE DropHostTransition
    <3>1. pendingCommandId' = NoId /\ commandTimer' = NoId
      BY <2>3 DEF DropHostTransition, pendingVars, SlotConsistent
    <3>. QED
      BY <2>3, <3>1, FreeSlot DEF DropHostTransition
  <2>4. CASE CommandTimerExpires
    BY <2>4 DEF CommandTimerExpires, slotVars, SlotConsistent
  <2>5. ASSUME completePendingCommand, pendingCommandId # NoId
        PROVE  SlotConsistent'
    BY <2>5, FreeSlot DEF completePendingCommand, SlotConsistent
  <2>6. ASSUME NEW id \in expired, onCommandTimeout(id)
        PROVE  SlotConsistent'
    <3>1. CASE id = pendingCommandId
      <4>1. pendingCommandId # NoId
        BY <3>1, NullValues DEF TypeOK
      <4>. QED
        BY <2>5, <2>6, <3>1, <4>1 DEF onCommandTimeout
    <3>2. CASE id # pendingCommandId
      BY <2>6, <3>2 DEF onCommandTimeout, slotVars, SlotConsistent
    <3>. QED
      BY <3>1, <3>2
  <2>7. CASE handleCommandStatus
    <3>1. CASE Concludes(Head(posted))
      <4>1. Head(posted) \in HostInfo \cup StatusInfo
        BY <2>7, HeadTailProperties DEF TypeOK, handleCommandStatus
      <4>2. Head(posted).id \in CommandId
        BY <2>7, <4>1 DEF handleCommandStatus, HostInfo, StatusInfo
      <4>. QED
        BY <2>5, <2>7, <3>1, <4>2, NullValues DEF handleCommandStatus, Concludes
    <3>2. CASE ~Concludes(Head(posted))
      BY <2>7, <3>2 DEF handleCommandStatus, slotVars, SlotConsistent
    <3>. QED
      BY <3>1, <3>2
  <2>8. ASSUME UNCHANGED <<slotVars, pendingVars>>
        PROVE  SlotConsistent'
    BY <2>8 DEF slotVars, pendingVars, SlotConsistent
  <2>9. CASE applyHostState
    BY <2>8, <2>9 DEF applyHostState
  <2>10. ASSUME NEW info \in HostRecords, onHostStateChanged(info)
         PROVE  SlotConsistent'
    BY <2>8, <2>10 DEF onHostStateChanged
  <2>11. ASSUME NEW id \in PublishedIds, NEW status \in CommandStatus,
                onCommandStatusChanged(id, status)
         PROVE  SlotConsistent'
    BY <2>8, <2>11 DEF onCommandStatusChanged
  <2>12. ASSUME NEW s \in SeedValues, Restart(s)
         PROVE  SlotConsistent'
    BY <2>12 DEF Restart, SlotConsistent
  <2>13. CASE UNCHANGED vars
    BY <2>8, <2>13 DEF vars
  <2>. QED
    BY <2>1, <2>2, <2>3, <2>4, <2>6, <2>7, <2>9, <2>10, <2>11, <2>12, <2>13
       DEF Next, Client, Timers, ActionTimerFires, RunPosted, Environment,
           RefuseTransition
<1>. QED
  BY <1>1, <1>2, TypeCorrect, PTL DEF Spec

(***************************************************************************)
(* No step releases a pending command but on its own DONE / FAILED, its    *)
(* own timeout, or the end of the process (state_manager.cpp:375-423): a   *)
(* late answer to an earlier command never frees the slot of a later one.  *)
(***************************************************************************)
THEOREM ReleaseIsOwn == Spec => ReleasedByOwnOutcome
<1> DEFINE Released == pendingCommandId \notin {NoId, pendingCommandId'} => OwnOutcome
<1>1. TypeOK /\ SlotConsistent /\ [Next]_vars => [Released]_vars
  <2> SUFFICES ASSUME TypeOK, SlotConsistent, Next PROVE Released
    BY DEF vars
  <2>1. ASSUME NEW w \in SetterWrites, queueTransition(w[1], w[2])
        PROVE  Released
    BY <2>1 DEF queueTransition, pendingVars
  <2>2. CASE ExecuteHostTransition
    BY <2>2 DEF ExecuteHostTransition, SlotConsistent
  <2>3. CASE DropHostTransition
    BY <2>3 DEF DropHostTransition, pendingVars
  <2>4. CASE CommandTimerExpires
    BY <2>4 DEF CommandTimerExpires
  <2>5. ASSUME NEW id \in expired, onCommandTimeout(id)
        PROVE  Released
    BY <2>5 DEF onCommandTimeout, OwnOutcome
  <2>6. CASE handleCommandStatus
    BY <2>6 DEF handleCommandStatus, Concludes, OwnOutcome
  <2>7. CASE applyHostState
    BY <2>7 DEF applyHostState, pendingVars
  <2>8. ASSUME NEW info \in HostRecords, onHostStateChanged(info)
        PROVE  Released
    BY <2>8 DEF onHostStateChanged, pendingVars
  <2>9. ASSUME NEW id \in PublishedIds, NEW status \in CommandStatus,
               onCommandStatusChanged(id, status)
        PROVE  Released
    BY <2>9 DEF onCommandStatusChanged, pendingVars
  <2>10. ASSUME NEW s \in SeedValues, Restart(s)
         PROVE  Released
    BY <2>10 DEF Restart, OwnOutcome, TypeOK
  <2>11. CASE UNCHANGED vars
    BY <2>11 DEF vars, pendingVars
  <2>. QED
    BY <2>1, <2>2, <2>3, <2>4, <2>5, <2>6, <2>7, <2>8, <2>9, <2>10, <2>11
       DEF Next, Client, Timers, ActionTimerFires, RunPosted, Environment,
           RefuseTransition
<1>. QED
  BY <1>1, TypeCorrect, SlotIsConsistent, PTL DEF Spec, ReleasedByOwnOutcome

-----------------------------------------------------------------------------
(***************************************************************************)
(* A client that follows PropertiesChanged is never behind a Get: the two  *)
(* early returns of updateHostState() (state_manager.cpp:434-462) leave no *)
(* change unsignalled.                                                     *)
(***************************************************************************)
THEOREM SignalsAreCurrent == Spec => []SignalledIsCurrent
<1>1. Init => SignalledIsCurrent
  BY DEF Init, initializeFromDb, SignalledIsCurrent
<1>2. TypeOK /\ SignalledIsCurrent /\ [Next]_vars => SignalledIsCurrent'
  <2> SUFFICES ASSUME TypeOK, SignalledIsCurrent, [Next]_vars
               PROVE  SignalledIsCurrent'
    OBVIOUS
  <2>1. ASSUME UNCHANGED mirrorVars PROVE SignalledIsCurrent'
    BY <2>1 DEF mirrorVars, SignalledIsCurrent
  <2>2. CASE applyHostState
    <3>1. ASSUME NEW s, updateHostState(s) PROVE SignalledIsCurrent'
      <4>1. CASE s = currentHostState
        BY <2>1, <3>1, <4>1 DEF updateHostState
      <4>2. CASE s # currentHostState
        BY <3>1, <4>2 DEF updateHostState, SignalledIsCurrent
      <4>. QED
        BY <4>1, <4>2
    <3>. QED
      BY <2>1, <2>2, <3>1 DEF applyHostState
  <2>3. ASSUME NEW s \in SeedValues, Restart(s) PROVE SignalledIsCurrent'
    BY <2>3 DEF Restart, SignalledIsCurrent
  <2>4. ASSUME NEW w \in SetterWrites, queueTransition(w[1], w[2])
        PROVE  SignalledIsCurrent'
    BY <2>1, <2>4 DEF queueTransition
  <2>5. CASE ActionTimerFires
    BY <2>1, <2>5 DEF ActionTimerFires, ExecuteHostTransition, DropHostTransition
  <2>6. CASE CommandTimerExpires
    BY <2>1, <2>6 DEF CommandTimerExpires
  <2>7. ASSUME NEW id \in expired, onCommandTimeout(id) PROVE SignalledIsCurrent'
    BY <2>1, <2>7 DEF onCommandTimeout
  <2>8. CASE handleCommandStatus
    BY <2>1, <2>8 DEF handleCommandStatus
  <2>9. ASSUME NEW info \in HostRecords, onHostStateChanged(info)
        PROVE  SignalledIsCurrent'
    BY <2>1, <2>9 DEF onHostStateChanged
  <2>10. ASSUME NEW id \in PublishedIds, NEW status \in CommandStatus,
                onCommandStatusChanged(id, status)
         PROVE  SignalledIsCurrent'
    BY <2>1, <2>10 DEF onCommandStatusChanged
  <2>11. CASE UNCHANGED vars
    BY <2>1, <2>11 DEF vars
  <2>. QED
    BY <2>2, <2>3, <2>4, <2>5, <2>6, <2>7, <2>8, <2>9, <2>10, <2>11
       DEF Next, Client, Timers, RunPosted, Environment, RefuseTransition
<1>. QED
  BY <1>1, <1>2, TypeCorrect, PTL DEF Spec

-----------------------------------------------------------------------------
(***************************************************************************)
(* What becomes of an accepted request, for every size of the queue and    *)
(* every bound: none is forgotten, commands are published in the order of  *)
(* acceptance, and StateManager implements CommandDispatch.                *)
(***************************************************************************)

(***************************************************************************)
(* The inductive invariant.  Requests wait contiguously: the queue holds   *)
(* the last ones accepted, the delayed one precedes them, and everything   *)
(* before has been tried or was lost in a restart.  The ids written so far *)
(* are older than the next one.                                            *)
(***************************************************************************)
QueueBase == Len(accepted) - Len(actionQueue)

QueueIsLatest ==
  /\ QueueBase \in Nat
  /\ \A i \in 1 .. Len(actionQueue) :
       /\ actionQueue[i].n = QueueBase + i
       /\ actionQueue[i].transition = accepted[QueueBase + i]

DelayedIsNext ==
  delayed # NoRequest =>
    /\ QueueBase # 0
    /\ delayed.n = QueueBase
    /\ delayed.transition = accepted[QueueBase]

FirstWaiting == IF delayed = NoRequest THEN QueueBase + 1 ELSE QueueBase

Settled == PublishedRequests \cup failed \cup forgotten

SettledArePast == Settled = 1 .. (FirstWaiting - 1)

IdsArePast ==
  \A i \in 1 .. Len(published) :
    \/ published[i].id.boot < boot
    \/ published[i].id.boot = boot /\ published[i].id.seq <= requestCounter

PublishedDiffer ==
  \A i, j \in 1 .. Len(published) : i < j =>
    /\ published[i].n < published[j].n
    /\ published[i].id # published[j].id

PublishedAsAsked ==
  \A i \in 1 .. Len(published) :
    published[i].command = transitionToCommand(accepted[published[i].n])

RequestInv ==
  /\ QueueIsLatest
  /\ DelayedIsNext
  /\ SettledArePast
  /\ IdsArePast
  /\ PublishedDiffer
  /\ PublishedAsAsked

-----------------------------------------------------------------------------
(* Sequence facts in the form the proofs below need. *)

(* The lengths of the sequences are numbers. *)
LEMMA Lengths ==
  ASSUME TypeOK
  PROVE  /\ Len(accepted) \in Nat /\ DOMAIN accepted = 1 .. Len(accepted)
         /\ Len(actionQueue) \in Nat /\ DOMAIN actionQueue = 1 .. Len(actionQueue)
         /\ Len(published) \in Nat /\ DOMAIN published = 1 .. Len(published)
BY LenProperties DEF TypeOK

(* What was accepted less what is queued is a number. *)
LEMMA QueueBaseType ==
  ASSUME TypeOK
  PROVE  QueueBase \in Int
BY Lengths DEF QueueBase

(* The oldest request that waits is one of the accepted ones, or the next. *)
LEMMA FirstWaitingType ==
  ASSUME TypeOK, QueueIsLatest, DelayedIsNext
  PROVE  /\ FirstWaiting \in Nat \ {0}
         /\ FirstWaiting <= Len(accepted) + 1
<1>1. QueueBase \in Nat /\ QueueBase <= Len(accepted)
  BY Lengths DEF QueueBase, QueueIsLatest
<1>2. CASE delayed = NoRequest
  BY <1>1, <1>2, Lengths DEF FirstWaiting
<1>3. CASE delayed # NoRequest
  BY <1>1, <1>3, Lengths DEF FirstWaiting, DelayedIsNext
<1>. QED
  BY <1>2, <1>3

(* The requests that wait are the last ones accepted. *)
LEMMA WaitingIsSuffix ==
  ASSUME TypeOK, QueueIsLatest, DelayedIsNext
  PROVE  Waiting = FirstWaiting .. Len(accepted)
<1> DEFINE queued == {actionQueue[i].n : i \in DOMAIN actionQueue}
<1>1. queued = QueueBase + 1 .. Len(accepted)
  <2>1. \A i \in 1 .. Len(actionQueue) : actionQueue[i].n = QueueBase + i
    BY DEF QueueIsLatest
  <2>2. queued \subseteq QueueBase + 1 .. Len(accepted)
    BY <2>1, Lengths DEF QueueBase
  <2>3. ASSUME NEW k \in QueueBase + 1 .. Len(accepted)
        PROVE  k \in queued
    <3>1. /\ k - QueueBase \in 1 .. Len(actionQueue)
          /\ QueueBase + (k - QueueBase) = k
      BY Lengths DEF QueueBase
    <3>2. actionQueue[k - QueueBase].n = k
      BY <2>1, <3>1
    <3>. QED
      BY <3>1, <3>2, Lengths
  <2>. QED
    BY <2>2, <2>3
<1>2. CASE delayed = NoRequest
  <2>1. {delayed.n} \ {NoRequest.n} = {}
    BY <1>2
  <2>. QED
    BY <1>1, <1>2, <2>1 DEF Waiting, FirstWaiting
<1>3. CASE delayed # NoRequest
  <2>1. {delayed.n} \ {NoRequest.n} = {QueueBase}
    BY <1>3 DEF DelayedIsNext, NoRequest
  <2>2. QueueBase \in Nat /\ QueueBase <= Len(accepted)
    BY Lengths DEF QueueIsLatest, QueueBase
  <2>3. QueueBase .. Len(accepted) = {QueueBase} \cup (QueueBase + 1 .. Len(accepted))
    BY <2>2, Lengths
  <2>. QED
    BY <1>1, <1>3, <2>1, <2>3 DEF Waiting, FirstWaiting
<1>. QED
  BY <1>2, <1>3

-----------------------------------------------------------------------------
(* How the handlers move requests. *)

(* An accepted write puts its request behind all others; nothing else moves
   out of the set of waiting requests. *)
LEMMA Enqueue ==
  ASSUME TypeOK, SlotConsistent, QueueIsLatest, DelayedIsNext,
         NEW p, NEW t, queueTransition(p, t)
  PROVE  QueueIsLatest' /\ DelayedIsNext' /\ FirstWaiting' = FirstWaiting
<1> DEFINE r == [n |-> Len(accepted) + 1, transition |-> t]
           q == Append(actionQueue, r)
<1>1. /\ accepted' = Append(accepted, t)
      /\ t \in SupportedTransition
      /\ processNextAction(actionInProgress, q, delayed)
  BY DEF queueTransition
<1>2. /\ Len(accepted') = Len(accepted) + 1
      /\ \A i \in 1 .. Len(accepted) : accepted'[i] = accepted[i]
      /\ accepted'[Len(accepted) + 1] = t
  BY <1>1, AppendProperties DEF TypeOK
<1>3. r \in Request /\ r.n = Len(accepted) + 1 /\ r.transition = t
  BY <1>1, Lengths DEF Request
<1>4. CASE actionInProgress
  <2>1. actionQueue' = q /\ delayed' = delayed
    <3> HIDE DEF q
    <3>. QED
      BY <1>1, <1>4 DEF processNextAction
  <2>2. /\ Len(actionQueue') = Len(actionQueue) + 1
        /\ \A i \in 1 .. Len(actionQueue) : actionQueue'[i] = actionQueue[i]
        /\ actionQueue'[Len(actionQueue) + 1] = r
    <3> HIDE DEF r
    <3>. QED
      BY <2>1, <1>3, AppendProperties DEF TypeOK
  <2>3. QueueBase' = QueueBase
    BY <1>2, <2>2, Lengths DEF QueueBase
  <2>4. QueueIsLatest'
    <3>1. QueueBase \in Nat /\ QueueBase + Len(actionQueue) = Len(accepted)
      BY Lengths DEF QueueIsLatest, QueueBase
    <3>2. ASSUME NEW i \in 1 .. Len(actionQueue')
          PROVE  /\ actionQueue'[i].n = QueueBase + i
                 /\ actionQueue'[i].transition = accepted'[QueueBase + i]
      <4> HIDE DEF r
      <4>1. CASE i \in 1 .. Len(actionQueue)
        <5>1. QueueBase + i \in 1 .. Len(accepted)
          BY <3>1, <4>1, Lengths
        <5>. QED
          BY <4>1, <5>1, <2>2, <1>2 DEF QueueIsLatest
      <4>2. CASE i = Len(actionQueue) + 1
        <5>1. QueueBase + i = Len(accepted) + 1
          BY <3>1, <4>2, Lengths
        <5>. QED
          BY <4>2, <5>1, <2>2, <1>2, <1>3
      <4>. QED
        BY <4>1, <4>2, <2>2, Lengths
    <3>. QED
      BY <3>1, <3>2, <2>3 DEF QueueIsLatest
  <2>5. DelayedIsNext'
    <3>1. delayed # NoRequest => QueueBase \in 1 .. Len(accepted)
      <4>1. QueueBase \in Nat
        BY DEF QueueIsLatest
      <4>2. QueueBase <= Len(accepted)
        BY Lengths DEF QueueBase
      <4>. QED
        BY <4>1, <4>2, Lengths DEF DelayedIsNext
    <3>. QED
      BY <3>1, <2>1, <2>3, <1>2 DEF DelayedIsNext
  <2>. QED
    BY <2>1, <2>3, <2>4, <2>5 DEF FirstWaiting
<1>5. CASE ~actionInProgress
  <2>1. actionQueue = <<>> /\ delayed = NoRequest
    BY <1>5 DEF SlotConsistent
  <2>2. q # <<>> /\ Head(q) = r /\ Tail(q) = <<>>
    <3>1. q = <<r>>
      BY <2>1
    <3>. QED
      BY <3>1
  <2>3. actionQueue' = <<>> /\ delayed' = r
    <3> HIDE DEF q, r
    <3>. QED
      BY <1>1, <1>5, <2>2 DEF processNextAction
  <2>4. Len(actionQueue) = 0 /\ Len(actionQueue') = 0
    BY <2>1, <2>3, EmptySeq
  <2>5. /\ QueueBase = Len(accepted)
        /\ QueueBase' = Len(accepted) + 1
    BY <1>2, <2>4, Lengths DEF QueueBase
  <2>6. QueueIsLatest'
    BY <2>4, <2>5, Lengths DEF QueueIsLatest
  <2>7. DelayedIsNext'
    <3> HIDE DEF r
    <3>. QED
      BY <1>2, <1>3, <2>3, <2>5, Lengths DEF DelayedIsNext
  <2>8. delayed' # NoRequest
    <3> HIDE DEF r
    <3>. QED
      BY <1>3, <2>3, NullValues
  <2>. QED
    BY <2>1, <2>5, <2>6, <2>7, <2>8 DEF FirstWaiting
<1>. QED
  BY <1>4, <1>5 DEF TypeOK

(* A slot that falls free is handed to the next request in the queue: what was
   in it does not wait any more. *)
LEMMA Advance ==
  ASSUME TypeOK, QueueIsLatest, accepted' = accepted,
         processNextAction(FALSE, actionQueue, NoRequest)
  PROVE  QueueIsLatest' /\ DelayedIsNext' /\ FirstWaiting' = QueueBase + 1
<1>1. CASE actionQueue = <<>>
  <2>1. actionQueue' = actionQueue /\ delayed' = NoRequest
    BY <1>1 DEF processNextAction
  <2>2. QueueBase' = QueueBase
    BY <2>1 DEF QueueBase
  <2>. QED
    BY <2>1, <2>2 DEF QueueIsLatest, DelayedIsNext, FirstWaiting
<1>2. CASE actionQueue # <<>>
  <2>1. actionQueue' = Tail(actionQueue) /\ delayed' = Head(actionQueue)
    BY <1>2 DEF processNextAction
  <2>2. /\ Len(actionQueue') = Len(actionQueue) - 1
        /\ \A i \in 1 .. Len(actionQueue') : actionQueue'[i] = actionQueue[i + 1]
        /\ delayed' \in Request
    BY <1>2, <2>1, HeadTailProperties DEF TypeOK
  <2>3. Len(actionQueue) # 0
    BY <1>2, EmptySeq DEF TypeOK
  <2>4. delayed' = actionQueue[1]
    BY <2>1, <1>2 DEF TypeOK
  <2>5. QueueBase' = QueueBase + 1
    BY <2>2, Lengths DEF QueueBase
  <2>6. QueueIsLatest'
    <3>1. QueueBase \in Nat
      BY DEF QueueIsLatest
    <3>2. ASSUME NEW i \in 1 .. Len(actionQueue')
          PROVE  /\ actionQueue'[i].n = QueueBase + 1 + i
                 /\ actionQueue'[i].transition = accepted[QueueBase + 1 + i]
      <4>1. /\ i + 1 \in 1 .. Len(actionQueue)
            /\ QueueBase + (i + 1) = QueueBase + 1 + i
        BY <3>1, <2>2, Lengths
      <4>. QED
        BY <4>1, <2>2 DEF QueueIsLatest
    <3>. QED
      BY <3>1, <3>2, <2>5 DEF QueueIsLatest
  <2>7. DelayedIsNext'
    BY <2>3, <2>4, <2>5, Lengths DEF QueueIsLatest, DelayedIsNext
  <2>8. delayed' # NoRequest
    BY <2>2, NullValues
  <2>. QED
    BY <2>5, <2>6, <2>7, <2>8 DEF FirstWaiting
<1>. QED
  BY <1>1, <1>2

PublishedInv == IdsArePast /\ PublishedDiffer /\ PublishedAsAsked

(* Requests with a command have numbers in the past. *)
LEMMA PublishedArePast ==
  ASSUME TypeOK, RequestInv
  PROVE  /\ PublishedRequests \subseteq 1 .. (FirstWaiting - 1)
         /\ \A i \in 1 .. Len(published) : published[i].n \in PublishedRequests
         /\ \A i \in 1 .. Len(published) : published[i].n \in 1 .. Len(accepted)
         /\ \A i \in 1 .. Len(published) : published[i].n < FirstWaiting
<1>1. PublishedRequests \subseteq 1 .. (FirstWaiting - 1)
  BY DEF RequestInv, SettledArePast, Settled
<1>2. \A i \in 1 .. Len(published) : published[i].n \in PublishedRequests
  BY Lengths DEF PublishedRequests
<1>3. FirstWaiting \in Nat /\ FirstWaiting <= Len(accepted) + 1
  BY FirstWaitingType DEF RequestInv
<1>4. \A k \in 1 .. (FirstWaiting - 1) : k \in 1 .. Len(accepted) /\ k < FirstWaiting
  BY <1>3, Lengths
<1>. QED
  BY <1>1, <1>2, <1>4

(* Writing the delayed request's command. *)
LEMMA PublishDelayed ==
  ASSUME TypeOK, RequestInv, delayed # NoRequest,
         published' = Append(published, DelayedCommand),
         requestCounter' = requestCounter + 1,
         accepted' = accepted, boot' = boot
  PROVE  PublishedInv' /\ PublishedRequests' = PublishedRequests \cup {delayed.n}
<1>1. /\ NextId \in CommandId
      /\ NextId.boot = boot /\ NextId.seq = requestCounter + 1
      /\ DelayedCommand \in PublishedCommand
      /\ DelayedCommand.id = NextId /\ DelayedCommand.n = delayed.n
      /\ DelayedCommand.command = transitionToCommand(accepted[delayed.n])
  BY DelayedCommandType DEF DelayedCommand, NextId, RequestInv, DelayedIsNext
<1>2. /\ Len(published') = Len(published) + 1
      /\ \A i \in 1 .. Len(published) : published'[i] = published[i]
      /\ published'[Len(published) + 1] = DelayedCommand
      /\ DOMAIN published' = 1 .. Len(published')
  <2> HIDE DEF DelayedCommand
  <2>. QED
    BY <1>1, AppendProperties, LenProperties DEF TypeOK
<1>3. \A i \in 1 .. Len(published') :
        i \in 1 .. Len(published) \/ i = Len(published) + 1
  BY <1>2, Lengths
<1>4. FirstWaiting = delayed.n
  BY DEF RequestInv, DelayedIsNext, FirstWaiting
<1>5. boot \in Nat /\ requestCounter \in Nat
  BY DEF TypeOK
<1>6. \A i \in 1 .. Len(published) :
        published[i].id \in CommandId /\ published[i].id # NextId
  <2>1. \A i \in 1 .. Len(published) : published[i].id \in CommandId
    BY ElementTypes, Lengths DEF PublishedCommand
  <2>2. \A i \in 1 .. Len(published) : published[i].id # NextId
    BY <2>1, <1>1, <1>5 DEF RequestInv, IdsArePast
  <2>. QED
    BY <2>1, <2>2
<1>7. IdsArePast'
  <2>1. ASSUME NEW i \in 1 .. Len(published)
        PROVE  \/ published[i].id.boot < boot
               \/ /\ published[i].id.boot = boot
                  /\ published[i].id.seq <= requestCounter + 1
    BY <1>5, <1>6 DEF RequestInv, IdsArePast, CommandId
  <2>. QED
    BY <2>1, <1>1, <1>2, <1>3, <1>5 DEF IdsArePast
<1>8. PublishedDiffer'
  <2>1. ASSUME NEW i \in 1 .. Len(published)
        PROVE  published[i].n < delayed.n /\ published[i].id # NextId
    BY <1>4, <1>6, PublishedArePast
  <2>2. ASSUME NEW i \in 1 .. Len(published'), NEW j \in 1 .. Len(published'), i < j
        PROVE  /\ published'[i].n < published'[j].n
               /\ published'[i].id # published'[j].id
    <3>1. i \in 1 .. Len(published)
      BY <2>2, <1>2, Lengths
    <3>2. CASE j \in 1 .. Len(published)
      BY <2>2, <3>1, <3>2, <1>2 DEF RequestInv, PublishedDiffer
    <3>3. CASE j = Len(published) + 1
      BY <3>1, <3>3, <2>1, <1>1, <1>2
    <3>. QED
      BY <3>2, <3>3, <1>3
  <2>. QED
    BY <2>2 DEF PublishedDiffer
<1>9. PublishedAsAsked'
  BY <1>1, <1>2, <1>3 DEF RequestInv, PublishedAsAsked
<1>10. PublishedRequests' = PublishedRequests \cup {delayed.n}
  <2>1. PublishedRequests' = {published'[i].n : i \in 1 .. Len(published')}
    BY <1>2 DEF PublishedRequests
  <2>2. PublishedRequests = {published[i].n : i \in 1 .. Len(published)}
    BY Lengths DEF PublishedRequests
  <2>3. Len(published) + 1 \in 1 .. Len(published')
    BY <1>2, Lengths
  <2>4. 1 .. Len(published) \subseteq 1 .. Len(published')
    BY <1>2, Lengths
  <2>. QED
    BY <1>1, <1>2, <1>3, <2>1, <2>2, <2>3, <2>4
<1>. QED
  BY <1>7, <1>8, <1>9, <1>10 DEF PublishedInv

(* Settling the request in front: published, failed, or both at once. *)
LEMMA SettleDelayed ==
  ASSUME TypeOK, RequestInv, delayed # NoRequest,
         Settled' = Settled \cup {delayed.n}, FirstWaiting' = QueueBase + 1
  PROVE  SettledArePast'
<1>1. FirstWaiting = QueueBase /\ delayed.n = QueueBase /\ QueueBase \in Nat /\ QueueBase # 0
  BY DEF RequestInv, DelayedIsNext, QueueIsLatest, FirstWaiting
<1>2. 1 .. QueueBase = 1 .. (QueueBase - 1) \cup {QueueBase}
  BY <1>1
<1>. QED
  BY <1>1, <1>2 DEF RequestInv, SettledArePast

(* Requests accepted later do not matter to what was published before. *)
LEMMA PublishedKept ==
  ASSUME TypeOK, RequestInv, UNCHANGED <<published, requestCounter, boot>>,
         \A i \in 1 .. Len(accepted) : accepted'[i] = accepted[i]
  PROVE  PublishedInv' /\ PublishedRequests' = PublishedRequests
BY PublishedArePast DEF PublishedInv, RequestInv, IdsArePast, PublishedDiffer,
   PublishedAsAsked, PublishedRequests

(***************************************************************************)
(* RequestInv is an invariant (state_manager.cpp:214-341, 375-432).        *)
(***************************************************************************)
THEOREM RequestsInvariant == Spec => []RequestInv
<1>1. Init => RequestInv
  <2> SUFFICES ASSUME Init PROVE RequestInv
    OBVIOUS
  <2>1. /\ Len(accepted) = 0 /\ Len(actionQueue) = 0 /\ Len(published) = 0
        /\ DOMAIN published = {}
    BY EmptySeq DEF Init
  <2>2. QueueBase = 0
    BY <2>1 DEF QueueBase
  <2>3. delayed = NoRequest
    BY DEF Init
  <2>4. Settled = {}
    BY <2>1 DEF Init, Settled, PublishedRequests
  <2>5. 1 .. (FirstWaiting - 1) = {}
    BY <2>2, <2>3 DEF FirstWaiting
  <2>. QED
    BY <2>1, <2>2, <2>3, <2>4, <2>5
       DEF RequestInv, QueueIsLatest, DelayedIsNext, SettledArePast, IdsArePast,
           PublishedDiffer, PublishedAsAsked
<1>2. TypeOK /\ SlotConsistent /\ RequestInv /\ [Next]_vars => RequestInv'
  <2> SUFFICES ASSUME TypeOK, SlotConsistent, RequestInv, [Next]_vars
               PROVE  RequestInv'
    OBVIOUS
  <2>1. ASSUME NEW w \in SetterWrites, queueTransition(w[1], w[2])
        PROVE  RequestInv'
    <3>1. QueueIsLatest' /\ DelayedIsNext' /\ FirstWaiting' = FirstWaiting
      BY <2>1, Enqueue DEF RequestInv
    <3>2. \A i \in 1 .. Len(accepted) : accepted'[i] = accepted[i]
      BY <2>1, AppendProperties DEF TypeOK, queueTransition
    <3>3. UNCHANGED <<published, requestCounter, boot, failed, forgotten>>
      BY <2>1 DEF queueTransition, publisherVars
    <3>4. PublishedInv' /\ PublishedRequests' = PublishedRequests
      BY <3>2, <3>3, PublishedKept
    <3>5. SettledArePast'
      BY <3>1, <3>3, <3>4 DEF RequestInv, SettledArePast, Settled
    <3>. QED
      BY <3>1, <3>4, <3>5 DEF RequestInv, PublishedInv
  <2>2. CASE ExecuteHostTransition
    <3>1. /\ delayed # NoRequest /\ delayed' = NoRequest
          /\ published' = Append(published, DelayedCommand)
          /\ requestCounter' = requestCounter + 1
          /\ UNCHANGED <<actionQueue, accepted, failed, forgotten, boot>>
      BY <2>2 DEF ExecuteHostTransition, PublishSucceeds, historyVars
    <3>2. /\ QueueBase' = QueueBase /\ FirstWaiting' = QueueBase + 1
          /\ QueueIsLatest' /\ DelayedIsNext'
      BY <3>1 DEF QueueBase, FirstWaiting, RequestInv, QueueIsLatest, DelayedIsNext
    <3>3. PublishedInv' /\ PublishedRequests' = PublishedRequests \cup {delayed.n}
      BY <3>1, PublishDelayed
    <3>4. SettledArePast'
      <4>1. Settled' = Settled \cup {delayed.n}
        BY <3>1, <3>3 DEF Settled
      <4>. QED
        BY <4>1, <3>1, <3>2, SettleDelayed
    <3>. QED
      BY <3>2, <3>3, <3>4 DEF RequestInv, PublishedInv
  <2>3. CASE DropHostTransition
    <3>1. /\ delayed # NoRequest
          /\ failed' = failed \cup {delayed.n}
          /\ UNCHANGED <<accepted, forgotten, boot>>
          /\ processNextAction(FALSE, actionQueue, NoRequest)
      BY <2>3 DEF DropHostTransition
    <3>2. QueueIsLatest' /\ DelayedIsNext' /\ FirstWaiting' = QueueBase + 1
      BY <3>1, Advance DEF RequestInv
    <3>3. CASE published' = published
      <4>1. requestCounter' \in {requestCounter, requestCounter + 1}
        BY <2>3 DEF DropHostTransition, PublishFails, publisherVars
      <4>2. PublishedRequests' = PublishedRequests
        BY <3>3 DEF PublishedRequests
      <4>3. PublishedInv'
        <5>1. ASSUME NEW i \in 1 .. Len(published)
              PROVE  \/ published[i].id.boot < boot
                     \/ /\ published[i].id.boot = boot
                        /\ published[i].id.seq <= requestCounter'
          <6>1. published[i].id.seq \in Nat
            BY ElementTypes, Lengths DEF PublishedCommand, CommandId
          <6>2. requestCounter \in Nat
            BY DEF TypeOK
          <6>. QED
            BY <4>1, <6>1, <6>2 DEF RequestInv, IdsArePast
        <5>2. IdsArePast'
          BY <5>1, <3>1, <3>3 DEF IdsArePast
        <5>. QED
          BY <5>2, <3>1, <3>3 DEF PublishedInv, RequestInv, PublishedDiffer, PublishedAsAsked
      <4>4. SettledArePast'
        <5>1. Settled' = Settled \cup {delayed.n}
          BY <3>1, <4>2 DEF Settled
        <5>. QED
          BY <5>1, <3>1, <3>2, SettleDelayed
      <4>. QED
        BY <3>2, <4>3, <4>4 DEF RequestInv, PublishedInv
    <3>4. CASE published' # published
      <4>1. /\ published' = Append(published, DelayedCommand)
            /\ requestCounter' = requestCounter + 1
        BY <2>3, <3>4 DEF DropHostTransition, PublishFails, publisherVars
      <4>2. PublishedInv' /\ PublishedRequests' = PublishedRequests \cup {delayed.n}
        BY <3>1, <4>1, PublishDelayed
      <4>3. SettledArePast'
        <5>1. Settled' = Settled \cup {delayed.n}
          BY <3>1, <4>2 DEF Settled
        <5>. QED
          BY <5>1, <3>1, <3>2, SettleDelayed
      <4>. QED
        BY <3>2, <4>2, <4>3 DEF RequestInv, PublishedInv
    <3>. QED
      BY <3>3, <3>4
  <2>4. ASSUME UNCHANGED <<slotVars, published, requestCounter, boot, historyVars>>
        PROVE  RequestInv'
    <3>1. UNCHANGED <<actionQueue, delayed, accepted, failed, forgotten>>
      BY <2>4 DEF slotVars, historyVars
    <3>2. PublishedInv' /\ PublishedRequests' = PublishedRequests
      BY <2>4, <3>1, PublishedKept
    <3>3. QueueBase' = QueueBase /\ FirstWaiting' = FirstWaiting
      BY <3>1 DEF QueueBase, FirstWaiting
    <3>4. QueueIsLatest' /\ DelayedIsNext' /\ SettledArePast'
      BY <3>1, <3>2, <3>3
         DEF RequestInv, QueueIsLatest, DelayedIsNext, SettledArePast, Settled
    <3>. QED
      BY <3>2, <3>4 DEF RequestInv, PublishedInv
  <2>5. ASSUME completePendingCommand, pendingCommandId # NoId,
               UNCHANGED <<published, requestCounter, boot, historyVars>>
        PROVE  RequestInv'
    <3>1. delayed = NoRequest
      BY <2>5 DEF SlotConsistent
    <3>2. UNCHANGED <<accepted, failed, forgotten>>
      BY <2>5 DEF historyVars
    <3>3. QueueIsLatest' /\ DelayedIsNext' /\ FirstWaiting' = QueueBase + 1
      BY <2>5, <3>1, <3>2, Advance DEF completePendingCommand, RequestInv
    <3>4. PublishedInv' /\ PublishedRequests' = PublishedRequests
      BY <2>5, <3>2, PublishedKept
    <3>5. SettledArePast'
      BY <3>1, <3>2, <3>3, <3>4 DEF RequestInv, SettledArePast, Settled, FirstWaiting
    <3>. QED
      BY <3>3, <3>4, <3>5 DEF RequestInv, PublishedInv
  <2>6. CASE CommandTimerExpires
    BY <2>4, <2>6 DEF CommandTimerExpires, publisherVars
  <2>7. ASSUME NEW id \in expired, onCommandTimeout(id)
        PROVE  RequestInv'
    <3>1. id # NoId
      BY NullValues DEF TypeOK
    <3>. QED
      BY <2>4, <2>5, <2>7, <3>1 DEF onCommandTimeout, publisherVars
  <2>8. CASE handleCommandStatus
    <3>1. Head(posted) \in HostInfo \cup StatusInfo
      BY <2>8, HeadTailProperties DEF TypeOK, handleCommandStatus
    <3>2. Head(posted).id # NoId
      BY <2>8, <3>1, NullValues DEF handleCommandStatus, HostInfo, StatusInfo
    <3>. QED
      BY <2>4, <2>5, <2>8, <3>2 DEF handleCommandStatus, Concludes, publisherVars
  <2>9. CASE applyHostState
    BY <2>4, <2>9 DEF applyHostState, publisherVars
  <2>10. ASSUME NEW info \in HostRecords, onHostStateChanged(info)
         PROVE  RequestInv'
    BY <2>4, <2>10 DEF onHostStateChanged, publisherVars
  <2>11. ASSUME NEW id \in PublishedIds, NEW status \in CommandStatus,
                onCommandStatusChanged(id, status)
         PROVE  RequestInv'
    BY <2>4, <2>11 DEF onCommandStatusChanged, publisherVars
  <2>12. ASSUME NEW s \in SeedValues, Restart(s)
         PROVE  RequestInv'
    <3>1. /\ UNCHANGED <<published, accepted, failed>>
          /\ actionQueue' = <<>> /\ delayed' = NoRequest
          /\ boot' = boot + 1
          /\ forgotten' = forgotten \cup Waiting
      BY <2>12 DEF Restart
    <3>2. /\ Len(actionQueue') = 0 /\ QueueBase' = Len(accepted)
          /\ FirstWaiting' = Len(accepted) + 1
      BY <3>1, EmptySeq, Lengths DEF QueueBase, FirstWaiting
    <3>3. QueueIsLatest' /\ DelayedIsNext'
      BY <3>1, <3>2, Lengths DEF QueueIsLatest, DelayedIsNext
    <3>4. SettledArePast'
      <4>1. Settled' = Settled \cup Waiting
        BY <3>1 DEF Settled, PublishedRequests
      <4>2. Waiting = FirstWaiting .. Len(accepted)
        BY WaitingIsSuffix DEF RequestInv
      <4>3. FirstWaiting \in Nat \ {0} /\ FirstWaiting <= Len(accepted) + 1
        BY FirstWaitingType DEF RequestInv
      <4>4. 1 .. Len(accepted)
              = 1 .. (FirstWaiting - 1) \cup FirstWaiting .. Len(accepted)
        BY <4>3, Lengths
      <4>5. FirstWaiting' - 1 = Len(accepted)
        BY <3>2, Lengths
      <4>. QED
        BY <4>1, <4>2, <4>4, <4>5 DEF RequestInv, SettledArePast
    <3>5. IdsArePast'
      <4>1. boot \in Nat
        BY DEF TypeOK
      <4>2. \A i \in 1 .. Len(published) : published[i].id.boot < boot + 1
        BY <4>1, ElementTypes, Lengths DEF RequestInv, IdsArePast, PublishedCommand, CommandId
      <4>. QED
        BY <3>1, <4>2 DEF IdsArePast
    <3>6. PublishedInv'
      BY <3>1, <3>5 DEF PublishedInv, RequestInv, PublishedDiffer, PublishedAsAsked
    <3>. QED
      BY <3>3, <3>4, <3>6 DEF RequestInv, PublishedInv
  <2>13. CASE UNCHANGED vars
    BY <2>4, <2>13 DEF vars, publisherVars
  <2>. QED
    BY <2>1, <2>2, <2>3, <2>6, <2>7, <2>8, <2>9, <2>10, <2>11, <2>12, <2>13
       DEF Next, Client, Timers, ActionTimerFires, RunPosted, Environment,
           RefuseTransition
<1>. QED
  BY <1>1, <1>2, TypeCorrect, SlotIsConsistent, PTL DEF Spec

-----------------------------------------------------------------------------
(***************************************************************************)
(* No accepted request disappears silently (state_manager.cpp:214-341).    *)
(***************************************************************************)
THEOREM NoRequestForgotten == Spec => []NothingForgotten
<1>1. TypeOK /\ RequestInv => NothingForgotten
  <2> SUFFICES ASSUME TypeOK, RequestInv PROVE NothingForgotten
    OBVIOUS
  <2>1. Waiting = FirstWaiting .. Len(accepted)
    BY WaitingIsSuffix DEF RequestInv
  <2>2. PublishedRequests \cup failed \cup forgotten = 1 .. (FirstWaiting - 1)
    BY DEF RequestInv, SettledArePast, Settled
  <2>3. FirstWaiting \in Nat \ {0} /\ FirstWaiting <= Len(accepted) + 1
    BY FirstWaitingType DEF RequestInv
  <2>4. 1 .. Len(accepted)
          = FirstWaiting .. Len(accepted) \cup 1 .. (FirstWaiting - 1)
    BY <2>3, Lengths
  <2>5. FirstWaiting .. Len(accepted) \cap 1 .. (FirstWaiting - 1) = {}
    BY <2>3, Lengths
  <2>. QED
    BY <2>1, <2>2, <2>4, <2>5, Lengths DEF NothingForgotten
<1>. QED
  BY <1>1, TypeCorrect, RequestsInvariant, PTL

(***************************************************************************)
(* RACK_MANAGER_COMMAND keys are written in the order of acceptance, once  *)
(* per request, under distinct ids, each with the command asked for        *)
(* (state_manager.cpp:292-341, redis_state_publisher.cpp:157-212).         *)
(***************************************************************************)
THEOREM PublicationInOrder == Spec => []PublishedInOrder
<1>1. TypeOK /\ RequestInv => PublishedInOrder
  <2> SUFFICES ASSUME TypeOK, RequestInv PROVE PublishedInOrder
    OBVIOUS
  <2>1. \A i, j \in DOMAIN published : i < j =>
          published[i].n < published[j].n /\ published[i].id # published[j].id
    BY Lengths DEF RequestInv, PublishedDiffer
  <2>2. \A i \in DOMAIN published :
          /\ published[i].n \in DOMAIN accepted
          /\ published[i].command = transitionToCommand(accepted[published[i].n])
    BY Lengths, PublishedArePast DEF RequestInv, PublishedAsAsked
  <2>3. \A i \in DOMAIN published, n \in Waiting : published[i].n < n
    <3>1. Waiting = FirstWaiting .. Len(accepted)
      BY WaitingIsSuffix DEF RequestInv
    <3>2. \A i \in DOMAIN published : published[i].n \in 1 .. (FirstWaiting - 1)
      BY Lengths, PublishedArePast
    <3>3. FirstWaiting \in Nat
      BY FirstWaitingType DEF RequestInv
    <3>. QED
      BY <3>1, <3>2, <3>3, Lengths
  <2>. QED
    BY <2>1, <2>2, <2>3 DEF PublishedInOrder
<1>. QED
  BY <1>1, TypeCorrect, RequestsInvariant, PTL

-----------------------------------------------------------------------------
(***************************************************************************)
(* Refinement of CommandDispatch                                           *)
(***************************************************************************)
Issued == [i \in DOMAIN published |-> published[i].n]
Open == IF pendingCommandId = NoId THEN 0 ELSE published[Len(published)].n

(* A pending command is the last one written. *)
PendingIsLast ==
  pendingCommandId # NoId =>
    /\ published # <<>>
    /\ published[Len(published)].id = pendingCommandId

(* PendingIsLast holds from the start. *)
LEMMA PendingIsLastInvariant == Spec => []PendingIsLast
<1>1. Init => PendingIsLast
  BY DEF Init, PendingIsLast
<1>2. TypeOK /\ SlotConsistent /\ PendingIsLast /\ [Next]_vars => PendingIsLast'
  <2> SUFFICES ASSUME TypeOK, SlotConsistent, PendingIsLast, [Next]_vars
               PROVE  PendingIsLast'
    OBVIOUS
  <2>1. ASSUME pendingCommandId' \in {pendingCommandId, NoId},
               published' = published
        PROVE  PendingIsLast'
    BY <2>1 DEF PendingIsLast
  <2>2. ASSUME NEW w \in SetterWrites, queueTransition(w[1], w[2])
        PROVE  PendingIsLast'
    BY <2>1, <2>2 DEF queueTransition, pendingVars, publisherVars
  <2>3. CASE ExecuteHostTransition
    <3>1. /\ published' = Append(published, DelayedCommand)
          /\ pendingCommandId' = NextId
          /\ DelayedCommand \in PublishedCommand
          /\ DelayedCommand.id = NextId
      BY <2>3, DelayedCommandType
         DEF ExecuteHostTransition, PublishSucceeds, DelayedCommand
    <3>2. /\ published' # <<>>
          /\ Len(published') = Len(published) + 1
          /\ published'[Len(published) + 1] = DelayedCommand
      <4> HIDE DEF DelayedCommand
      <4>. QED
        BY <3>1, AppendProperties DEF TypeOK
    <3>. QED
      BY <3>1, <3>2 DEF PendingIsLast
  <2>4. CASE DropHostTransition
    BY <2>4 DEF DropHostTransition, pendingVars, SlotConsistent, PendingIsLast
  <2>5. CASE CommandTimerExpires
    BY <2>1, <2>5 DEF CommandTimerExpires, publisherVars
  <2>6. ASSUME NEW id \in expired, onCommandTimeout(id)
        PROVE  PendingIsLast'
    BY <2>1, <2>6 DEF onCommandTimeout, completePendingCommand, publisherVars
  <2>7. CASE handleCommandStatus
    BY <2>1, <2>7 DEF handleCommandStatus, completePendingCommand, publisherVars
  <2>8. CASE applyHostState
    BY <2>1, <2>8 DEF applyHostState, pendingVars, publisherVars
  <2>9. ASSUME NEW info \in HostRecords, onHostStateChanged(info)
        PROVE  PendingIsLast'
    BY <2>1, <2>9 DEF onHostStateChanged, pendingVars, publisherVars
  <2>10. ASSUME NEW id \in PublishedIds, NEW status \in CommandStatus,
                onCommandStatusChanged(id, status)
         PROVE  PendingIsLast'
    BY <2>1, <2>10 DEF onCommandStatusChanged, pendingVars, publisherVars
  <2>11. ASSUME NEW s \in SeedValues, Restart(s)
         PROVE  PendingIsLast'
    BY <2>1, <2>11 DEF Restart
  <2>12. CASE UNCHANGED vars
    BY <2>1, <2>12 DEF vars, pendingVars, publisherVars
  <2>. QED
    BY <2>2, <2>3, <2>4, <2>5, <2>6, <2>7, <2>8, <2>9, <2>10, <2>11, <2>12
       DEF Next, Client, Timers, ActionTimerFires, RunPosted, Environment,
           RefuseTransition
<1>. QED
  BY <1>1, <1>2, TypeCorrect, SlotIsConsistent, PTL DEF Spec

(* The abstract step of a step that writes the delayed request's command. *)
LEMMA IssueStep ==
  ASSUME TypeOK, SlotConsistent, RequestInv, delayed # NoRequest,
         published' = Append(published, DelayedCommand),
         accepted' = accepted,
         pendingCommandId' \in {NoId, NextId}
  PROVE  Dispatch!Next
<1> DEFINE n == delayed.n
<1>1. n \in 1 .. Len(accepted) /\ FirstWaiting = n
  <2>1. /\ FirstWaiting = n /\ FirstWaiting = QueueBase
        /\ QueueBase \in Nat /\ QueueBase # 0
    BY DEF RequestInv, DelayedIsNext, QueueIsLatest, FirstWaiting
  <2>2. QueueBase <= Len(accepted)
    BY Lengths DEF QueueBase
  <2>. QED
    BY <2>1, <2>2, Lengths
<1>2. Open = 0
  BY DEF Open, SlotConsistent
<1>3. \A i \in DOMAIN Issued : Issued[i] < n
  BY <1>1, PublishedArePast, Lengths DEF Issued
<1>4. /\ DelayedCommand \in PublishedCommand /\ DelayedCommand.n = n
      /\ NextId # NoId
  BY DelayedCommandType, NullValues DEF DelayedCommand
<1>5. /\ Len(published') = Len(published) + 1
      /\ \A i \in 1 .. Len(published) : published'[i] = published[i]
      /\ published'[Len(published) + 1] = DelayedCommand
      /\ DOMAIN published' = 1 .. Len(published) + 1
  <2> HIDE DEF DelayedCommand
  <2>. QED
    BY <1>4, AppendProperties, LenProperties DEF TypeOK
<1>6. Issued' = Append(Issued, n)
  <2>1. Issued \in Seq(Nat) /\ Len(Issued) = Len(published)
    <3>1. DOMAIN Issued = 1 .. Len(published)
      BY Lengths DEF Issued
    <3>2. \A i \in 1 .. Len(published) : Issued[i] \in Nat
      BY ElementTypes, Lengths DEF Issued, PublishedCommand
    <3>3. Issued \in [1 .. Len(published) -> Nat]
      BY <3>1, <3>2 DEF Issued
    <3>. QED
      BY <3>3, Lengths, IsASeq, LenProperties
  <2>2. /\ Append(Issued, n) \in Seq(Nat)
        /\ Len(Append(Issued, n)) = Len(published) + 1
        /\ \A i \in 1 .. Len(published) : Append(Issued, n)[i] = Issued[i]
        /\ Append(Issued, n)[Len(published) + 1] = n
    <3> HIDE DEF n
    <3>1. n \in Nat
      BY <1>1, Lengths
    <3>. QED
      BY <2>1, <3>1, AppendProperties
  <2>3. Append(Issued, n) = [i \in 1 .. Len(published) + 1 |-> Append(Issued, n)[i]]
    BY <2>2, LenProperties
  <2>4. ASSUME NEW i \in 1 .. Len(published) + 1
        PROVE  published'[i].n = Append(Issued, n)[i]
    <3>1. CASE i \in 1 .. Len(published)
      <4>1. Issued[i] = published[i].n
        BY <3>1, Lengths DEF Issued
      <4>. QED
        BY <3>1, <4>1, <1>5, <2>2
    <3>2. CASE i = Len(published) + 1
      BY <3>2, <1>4, <1>5, <2>2
    <3>3. i \in 1 .. Len(published) \/ i = Len(published) + 1
      BY Lengths
    <3>. QED
      BY <3>1, <3>2, <3>3
  <2>5. Issued' = [i \in 1 .. Len(published) + 1 |-> published'[i].n]
    BY <1>5 DEF Issued
  <2>. QED
    BY <2>3, <2>4, <2>5
<1>7. Open' \in {0, n}
  BY <1>4, <1>5 DEF Open
<1>. QED
  BY <1>1, <1>2, <1>3, <1>6, <1>7 DEF Dispatch!Next, Dispatch!Issue, Issued, Open

(***************************************************************************)
(* The safety half of ImplementsDispatch: commands only for accepted       *)
(* requests, in order, once, and none while another's outcome is awaited.  *)
(***************************************************************************)
THEOREM DispatchIsImplemented == Spec => Dispatch!Spec
<1>1. Init => Dispatch!Init
  <2> SUFFICES ASSUME Init PROVE Dispatch!Init
    OBVIOUS
  <2>1. Len(accepted) = 0 /\ published = <<>> /\ pendingCommandId = NoId
    BY EmptySeq DEF Init
  <2>2. Issued = <<>>
    BY <2>1 DEF Issued
  <2>. QED
    BY <2>1, <2>2 DEF Dispatch!Init, Issued
<1>2. TypeOK /\ SlotConsistent /\ RequestInv /\ PendingIsLast /\ [Next]_vars
        => [Dispatch!Next]_(Dispatch!dispatchVars)
  <2> SUFFICES ASSUME TypeOK, SlotConsistent, RequestInv, PendingIsLast, [Next]_vars
               PROVE  Dispatch!Next \/ UNCHANGED Dispatch!dispatchVars
    OBVIOUS
  <2>1. ASSUME pendingCommandId' \in {pendingCommandId, NoId},
               published' = published, accepted' = accepted
        PROVE  Dispatch!Next \/ UNCHANGED Dispatch!dispatchVars
    <3>1. CASE pendingCommandId' = pendingCommandId
      BY <2>1, <3>1 DEF Dispatch!dispatchVars
    <3>2. CASE pendingCommandId' # pendingCommandId
      <4>1. pendingCommandId # NoId /\ pendingCommandId' = NoId
        BY <2>1, <3>2
      <4>2. published[Len(published)].n # 0
        <5>1. Len(published) \in 1 .. Len(published)
          BY <4>1, EmptySeq, Lengths DEF PendingIsLast, TypeOK
        <5>. QED
          BY <5>1, ElementTypes, Lengths DEF PublishedCommand
      <4>. QED
        BY <2>1, <4>1, <4>2 DEF Dispatch!Next, Dispatch!Close
    <3>. QED
      BY <3>1, <3>2
  <2>2. ASSUME NEW w \in SetterWrites, queueTransition(w[1], w[2])
        PROVE  Dispatch!Next
    <3>1. Len(accepted') = Len(accepted) + 1
      BY <2>2, AppendProperties DEF TypeOK, queueTransition
    <3>2. UNCHANGED <<published, pendingCommandId>>
      BY <2>2 DEF queueTransition, pendingVars, publisherVars
    <3>. QED
      BY <3>1, <3>2 DEF Dispatch!Next, Dispatch!Accept
  <2>3. CASE ExecuteHostTransition
    BY <2>3, IssueStep DEF ExecuteHostTransition, PublishSucceeds, historyVars
  <2>4. CASE DropHostTransition
    <3>1. CASE published' = published
      BY <2>1, <2>4, <3>1 DEF DropHostTransition, pendingVars
    <3>2. CASE published' # published
      <4>1. published' = Append(published, DelayedCommand)
        BY <2>4, <3>2 DEF DropHostTransition, PublishFails, publisherVars
      <4>2. pendingCommandId' = NoId
        BY <2>4 DEF DropHostTransition, pendingVars, SlotConsistent
      <4>. QED
        BY <2>4, <4>1, <4>2, IssueStep DEF DropHostTransition
    <3>. QED
      BY <3>1, <3>2
  <2>5. CASE CommandTimerExpires
    BY <2>1, <2>5 DEF CommandTimerExpires, publisherVars, historyVars
  <2>6. ASSUME NEW id \in expired, onCommandTimeout(id)
        PROVE  Dispatch!Next \/ UNCHANGED Dispatch!dispatchVars
    BY <2>1, <2>6 DEF onCommandTimeout, completePendingCommand, publisherVars, historyVars
  <2>7. CASE handleCommandStatus
    BY <2>1, <2>7 DEF handleCommandStatus, completePendingCommand, publisherVars, historyVars
  <2>8. CASE applyHostState
    BY <2>1, <2>8 DEF applyHostState, pendingVars, publisherVars, historyVars
  <2>9. ASSUME NEW info \in HostRecords, onHostStateChanged(info)
        PROVE  Dispatch!Next \/ UNCHANGED Dispatch!dispatchVars
    BY <2>1, <2>9 DEF onHostStateChanged, pendingVars, publisherVars, historyVars
  <2>10. ASSUME NEW id \in PublishedIds, NEW status \in CommandStatus,
                onCommandStatusChanged(id, status)
         PROVE  Dispatch!Next \/ UNCHANGED Dispatch!dispatchVars
    BY <2>1, <2>10 DEF onCommandStatusChanged, pendingVars, publisherVars, historyVars
  <2>11. ASSUME NEW s \in SeedValues, Restart(s)
         PROVE  Dispatch!Next \/ UNCHANGED Dispatch!dispatchVars
    BY <2>1, <2>11 DEF Restart
  <2>12. CASE UNCHANGED vars
    BY <2>1, <2>12 DEF vars, pendingVars, publisherVars, historyVars
  <2>. QED
    BY <2>2, <2>3, <2>4, <2>5, <2>6, <2>7, <2>8, <2>9, <2>10, <2>11, <2>12
       DEF Next, Client, Timers, ActionTimerFires, RunPosted, Environment,
           RefuseTransition
<1>. QED
  BY <1>1, <1>2, TypeCorrect, SlotIsConsistent, RequestsInvariant,
     PendingIsLastInvariant, PTL DEF Spec, Dispatch!Spec
=============================================================================
