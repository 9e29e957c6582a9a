---------------------------- MODULE StateManager ----------------------------
(***************************************************************************)
(* StateManager of sonic-dbus-bridge (state_manager.cpp) together with the *)
(* publisher it owns (redis_state_publisher.cpp): the queue of accepted    *)
(* power requests, the single action slot, its two timers, and the mirror  *)
(* of the host state offered on D-Bus.                                     *)
(*                                                                         *)
(* Everything here runs on the bridge's one io_context thread, so an       *)
(* action is one handler run to its end.  The handlers are: a D-Bus write, *)
(* the 100 ms action timer, the 600 s command timer, and the work that     *)
(* UpdateEngine posts from the subscriber thread, in FIFO order.  The      *)
(* environment posts what it likes and the process may be restarted at any *)
(* point; module PowerControl closes the system.                           *)
(*                                                                         *)
(* A definition whose name ends in _ is a faulty variant of the one after  *)
(* it: the property that notices the fault is named with it.               *)
(***************************************************************************)
EXTENDS HostStateMapping, Naturals, Sequences, FiniteSets

CONSTANTS
  MaxQueueSize,   (* MAX_QUEUE_SIZE (10 in the code)                         *)
  SetterWrites,   (* the <<property, value>> pairs D-Bus clients write       *)
  HostRecords,    (* the <<device_power_state, device_status>> pairs of      *)
                  (* HOST_STATE|switch-host                                  *)
  MaxRequests,    (* bound: requests accepted in one behaviour               *)
  MaxPosted,      (* bound: posted handlers that have not run yet            *)
  MaxBoots        (* bound: incarnations of the process                      *)

Property == {"RequestedHostTransition", "RequestedPowerTransition"}

ASSUME StateManagerAssumption ==
  /\ MaxQueueSize \in Nat \ {0}
  /\ SetterWrites \subseteq Property \X STRING
  /\ HostRecords \subseteq STRING \X STRING
  /\ MaxRequests \in Nat
  /\ MaxPosted \in Nat
  /\ MaxBoots \in Nat \ {0}

VARIABLES
  currentHostState,          (* currentHostState_                            *)
  currentChassisPowerState,  (* currentChassisPowerState_                    *)
  signalled,       (* the values a client knows that read both properties    *)
                   (* once and then follows PropertiesChanged                *)
  lastRequested,   (* lastRequestedHostTransition_ / ..ChassisTransition_    *)
  actionQueue,     (* actionQueue_                                           *)
  actionInProgress,(* actionInProgress_                                      *)
  delayed,         (* the request captured by the armed action timer         *)
  pendingCommandId,(* pendingCommandId_                                      *)
  commandTimer,    (* the command id captured by the armed command timer     *)
  expired,         (* command ids whose timer expired, handler not yet run   *)
  posted,          (* the io_context's FIFO of work posted by UpdateEngine   *)
  publisherLink,   (* the publisher's Redis connection: "none" (connect()    *)
                   (* failed), "up", or "broken" (a context in error, which  *)
                   (* isConnected() still takes for connected)               *)
  requestCounter,  (* requestCounter_ of generateRequestId()                 *)
  boot,            (* incarnation of the process                             *)
  published,       (* the RACK_MANAGER_COMMAND keys written, in order        *)
  accepted,        (* history: the transitions accepted, in order            *)
  failed,          (* history: requests whose publication was reported failed*)
  forgotten        (* history: requests a restart lost from memory           *)

mirrorVars == <<currentHostState, currentChassisPowerState, signalled>>
slotVars == <<actionQueue, actionInProgress, delayed>>
pendingVars == <<pendingCommandId, commandTimer, expired>>
publisherVars == <<publisherLink, requestCounter, published>>
historyVars == <<accepted, failed, forgotten>>
vars == <<mirrorVars, lastRequested, slotVars, pendingVars, posted,
          publisherVars, boot, historyVars>>

-----------------------------------------------------------------------------
(***************************************************************************)
(* A request is numbered by its place in the order of acceptance.  An id   *)
(* CMD_<seconds>_<counter> is unique within an incarnation by the counter; *)
(* the seconds tell incarnations apart, a restart taking longer than one.  *)
(***************************************************************************)
Request == [n : Nat \ {0}, transition : SupportedTransition]
NoTransition == "none"   (* the empty string of the code *)
NoRequest == [n |-> 0, transition |-> NoTransition]

CommandId == [boot : Nat \ {0}, seq : Nat \ {0}]
NoId == [boot |-> 0, seq |-> 0]

HostInfo == [about : {"host"}, info : HostRecords]
StatusInfo == [about : {"command"}, id : CommandId, status : CommandStatus]
PublishedCommand == [id : CommandId, n : Nat \ {0}, command : Command]

PublishedIds == {published[i].id : i \in DOMAIN published}

-----------------------------------------------------------------------------
(***************************************************************************)
(* Construction.  connect() may fail, which is only logged; the host state *)
(* is seeded from STATE_DB, and stays Running / On when the record is      *)
(* missing or cannot be mapped.                                            *)
(***************************************************************************)
SeedValues ==
  {"Running"} \cup ({mapHostState(r[1], r[2]) : r \in HostRecords} \ {NoMapping})

initializeFromDb(hostState) ==
  /\ currentHostState = hostState
  /\ currentChassisPowerState = hostStateToChassisPowerState(hostState)
  /\ signalled = [host |-> hostState, chassis |-> hostStateToChassisPowerState(hostState)]

Init ==
  /\ \E s \in SeedValues : initializeFromDb(s)
  /\ lastRequested = [p \in Property |-> NoTransition]
  /\ actionQueue = <<>>
  /\ actionInProgress = FALSE
  /\ delayed = NoRequest
  /\ pendingCommandId = NoId
  /\ commandTimer = NoId
  /\ expired = {}
  /\ posted = <<>>
  /\ publisherLink \in {"none", "up"}
  /\ requestCounter = 0
  /\ boot = 1
  /\ published = <<>>
  /\ accepted = <<>>
  /\ failed = {}
  /\ forgotten = {}

-----------------------------------------------------------------------------
(***************************************************************************)
(* processNextAction() with actionInProgress_ = busy and actionQueue_ = q. *)
(* Arming the timer replaces an outstanding wait; the branch for an        *)
(* aborted wait is left out, SlotConsistent shows no wait is ever replaced.*)
(***************************************************************************)
processNextActionAlways_(busy, q, outstanding) ==   (* NothingForgotten *)
  \/ q = <<>> /\ actionInProgress' = busy /\ actionQueue' = q /\ delayed' = outstanding
  \/ q # <<>> /\ actionInProgress' = TRUE /\ actionQueue' = Tail(q) /\ delayed' = Head(q)

processNextActionLatest_(busy, q, outstanding) ==   (* PublishedInOrder *)
  \/ /\ busy \/ q = <<>>
     /\ actionInProgress' = busy /\ actionQueue' = q /\ delayed' = outstanding
  \/ /\ ~busy /\ q # <<>>
     /\ actionInProgress' = TRUE
     /\ actionQueue' = SubSeq(q, 1, Len(q) - 1)
     /\ delayed' = q[Len(q)]

processNextAction(busy, q, outstanding) ==
  \/ /\ busy \/ q = <<>>
     /\ actionInProgress' = busy
     /\ actionQueue' = q
     /\ delayed' = outstanding
  \/ /\ ~busy /\ q # <<>>
     /\ actionInProgress' = TRUE
     /\ actionQueue' = Tail(q)
     /\ delayed' = Head(q)

QueueFullAfter_ == Len(actionQueue) > MaxQueueSize   (* TypeOK *)
QueueFull == Len(actionQueue) >= MaxQueueSize

(* A D-Bus write that is accepted. *)
queueTransition(property, transition) ==
  /\ transition \in SupportedTransition
  /\ ~QueueFull
  /\ Len(accepted) < MaxRequests
  /\ accepted' = Append(accepted, transition)
  /\ processNextAction(actionInProgress,
                       Append(actionQueue, [n |-> Len(accepted) + 1,
                                            transition |-> transition]),
                       delayed)
  /\ lastRequested' = [lastRequested EXCEPT ![property] = transition]
  /\ UNCHANGED <<mirrorVars, pendingVars, posted, publisherVars, boot,
                 failed, forgotten>>

(* One that is answered InvalidArgs or Unavailable: it throws before anything
   is assigned. *)
RefuseTransition(transition) ==
  /\ transition \notin SupportedTransition \/ QueueFull
  /\ UNCHANGED vars

-----------------------------------------------------------------------------
(* The id generateRequestId() returns next, and the hash hmset() would write. *)
NextId == [boot |-> boot, seq |-> requestCounter + 1]
DelayedCommand == [id |-> NextId, n |-> delayed.n,
                   command |-> transitionToCommand(delayed.transition)]

PublishSucceeds ==
  /\ publisherLink = "up"
  /\ requestCounter' = requestCounter + 1
  /\ published' = Append(published, DelayedCommand)
  /\ UNCHANGED publisherLink

(***************************************************************************)
(* No connection since the start; or a context already in error; or an     *)
(* error reply; or the connection is lost during HMSET, which Redis may or *)
(* may not have executed.  Nothing ever reconnects.                        *)
(***************************************************************************)
PublishFailsAndReconnects_ ==   (* OneLiveCommand *)
  /\ requestCounter' = requestCounter + 1
  /\ publisherLink' = "up"
  /\ published' \in {published, Append(published, DelayedCommand)}

PublishFails ==
  \/ /\ publisherLink = "none"
     /\ UNCHANGED publisherVars
  \/ /\ publisherLink \in {"up", "broken"}
     /\ requestCounter' = requestCounter + 1
     /\ UNCHANGED <<publisherLink, published>>
  \/ /\ publisherLink = "up"
     /\ requestCounter' = requestCounter + 1
     /\ publisherLink' = "broken"
     /\ published' \in {published, Append(published, DelayedCommand)}

(* executeHostTransition() returns true: the slot stays busy. *)
ExecuteHostTransition ==
  /\ delayed # NoRequest
  /\ PublishSucceeds
  /\ delayed' = NoRequest
  /\ pendingCommandId' = NextId
  /\ commandTimer' = NextId
  /\ UNCHANGED <<mirrorVars, lastRequested, actionQueue, actionInProgress,
                 expired, posted, boot, historyVars>>

(* executeHostTransition() returns false: the request is dropped. *)
DropHostTransition ==
  /\ delayed # NoRequest
  /\ PublishFails
  /\ failed' = failed \cup {delayed.n}
  /\ processNextAction(FALSE, actionQueue, NoRequest)
  /\ UNCHANGED <<mirrorVars, lastRequested, pendingVars, posted, boot,
                 accepted, forgotten>>

ActionTimerFires == ExecuteHostTransition \/ DropHostTransition

-----------------------------------------------------------------------------
completePendingCommandOnly_ ==   (* SlotConsistent, EveryRequestLeaves *)
  /\ commandTimer' = NoId
  /\ pendingCommandId' = NoId
  /\ UNCHANGED slotVars

completePendingCommand ==
  /\ commandTimer' = NoId
  /\ pendingCommandId' = NoId
  /\ processNextAction(FALSE, actionQueue, delayed)

(* The 600 s are over: the handler is ready, and cannot be cancelled any more. *)
CommandTimerExpires ==
  /\ commandTimer # NoId
  /\ expired' = expired \cup {commandTimer}
  /\ commandTimer' = NoId
  /\ UNCHANGED <<mirrorVars, lastRequested, slotVars, pendingCommandId, posted,
                 publisherVars, boot, historyVars>>

onCommandTimeout(id) ==
  /\ id \in expired
  /\ expired' = expired \ {id}
  /\ IF id = pendingCommandId
       THEN completePendingCommand
       ELSE UNCHANGED <<pendingCommandId, commandTimer, slotVars>>
  /\ UNCHANGED <<mirrorVars, lastRequested, posted, publisherVars, boot,
                 historyVars>>

ConcludesAny_(report) == isTerminalCommandStatus(report.status)   (* ReleasedByOwnOutcome *)
ConcludesEarly_(report) == report.id = pendingCommandId           (* ReleasedWhenOver *)
ConcludesDone_(report) ==                                         (* OutcomeReleases *)
  report.id = pendingCommandId /\ report.status = "DONE"

(* The report ends the wait for the pending command. *)
Concludes(report) ==
  /\ report.id = pendingCommandId
  /\ isTerminalCommandStatus(report.status)

handleCommandStatus ==
  /\ posted # <<>>
  /\ Head(posted).about = "command"
  /\ posted' = Tail(posted)
  /\ IF Concludes(Head(posted))
       THEN completePendingCommand
       ELSE UNCHANGED <<pendingCommandId, commandTimer, slotVars>>
  /\ UNCHANGED <<mirrorVars, lastRequested, expired, publisherVars, boot,
                 historyVars>>

-----------------------------------------------------------------------------
updateHostStateUnsignalled_(newState) ==   (* SignalledIsCurrent *)
  /\ currentHostState' = newState
  /\ currentChassisPowerState' = hostStateToChassisPowerState(newState)
  /\ signalled' = [signalled EXCEPT !.host = newState]

(* The early return for an unchanged host state, and the signals sent. *)
updateHostState(newState) ==
  LET chassis == hostStateToChassisPowerState(newState)
  IN IF newState = currentHostState
       THEN UNCHANGED mirrorVars
       ELSE /\ currentHostState' = newState
            /\ currentChassisPowerState' = chassis
            /\ signalled' = [host |-> newState,
                             chassis |-> IF chassis = currentChassisPowerState
                                           THEN signalled.chassis ELSE chassis]

applyHostStateUnmapped_ ==   (* EventsTypeOK *)
  /\ posted # <<>>
  /\ Head(posted).about = "host"
  /\ posted' = Tail(posted)
  /\ updateHostState(mapHostState(Head(posted).info[1], Head(posted).info[2]))
  /\ UNCHANGED <<lastRequested, slotVars, pendingVars, publisherVars, boot,
                 historyVars>>

applyHostState ==
  /\ posted # <<>>
  /\ Head(posted).about = "host"
  /\ posted' = Tail(posted)
  /\ LET mapped == mapHostState(Head(posted).info[1], Head(posted).info[2])
     IN IF mapped = NoMapping THEN UNCHANGED mirrorVars
                              ELSE updateHostState(mapped)
  /\ UNCHANGED <<lastRequested, slotVars, pendingVars, publisherVars, boot,
                 historyVars>>

onHostStateChangedOnce_(info) ==   (* AnnouncedIsTold *)
  /\ posted' = IF posted = <<>> THEN <<[about |-> "host", info |-> info]>> ELSE posted
  /\ UNCHANGED <<mirrorVars, lastRequested, slotVars, pendingVars,
                 publisherVars, boot, historyVars>>

(* Called on the subscriber thread; they only post. *)
onHostStateChanged(info) ==
  /\ Len(posted) < MaxPosted
  /\ posted' = Append(posted, [about |-> "host", info |-> info])
  /\ UNCHANGED <<mirrorVars, lastRequested, slotVars, pendingVars,
                 publisherVars, boot, historyVars>>

onCommandStatusChanged(id, status) ==
  /\ Len(posted) < MaxPosted
  /\ posted' = Append(posted, [about |-> "command", id |-> id, status |-> status])
  /\ UNCHANGED <<mirrorVars, lastRequested, slotVars, pendingVars,
                 publisherVars, boot, historyVars>>

-----------------------------------------------------------------------------
(***************************************************************************)
(* The process ends, however it ends, and is constructed anew: the queue,  *)
(* the slot and the pending command are only in memory.                    *)
(***************************************************************************)
Waiting == {actionQueue[i].n : i \in DOMAIN actionQueue}
           \cup ({delayed.n} \ {NoRequest.n})

Restart(hostState) ==
  /\ boot < MaxBoots
  /\ boot' = boot + 1
  /\ forgotten' = forgotten \cup Waiting
  /\ currentHostState' = hostState
  /\ currentChassisPowerState' = hostStateToChassisPowerState(hostState)
  /\ signalled' = [host |-> hostState, chassis |-> hostStateToChassisPowerState(hostState)]
  /\ lastRequested' = [p \in Property |-> NoTransition]
  /\ actionQueue' = <<>>
  /\ actionInProgress' = FALSE
  /\ delayed' = NoRequest
  /\ pendingCommandId' = NoId
  /\ commandTimer' = NoId
  /\ expired' = {}
  /\ posted' = <<>>
  /\ publisherLink' \in {"none", "up"}
  /\ requestCounter' = 0
  /\ UNCHANGED <<published, accepted, failed>>

-----------------------------------------------------------------------------
Client == \E w \in SetterWrites : queueTransition(w[1], w[2]) \/ RefuseTransition(w[2])

Timers == ActionTimerFires \/ CommandTimerExpires \/ \E id \in expired : onCommandTimeout(id)

RunPosted == applyHostState \/ handleCommandStatus

Environment ==
  \/ \E info \in HostRecords : onHostStateChanged(info)
  \/ \E id \in PublishedIds, status \in CommandStatus : onCommandStatusChanged(id, status)
  \/ \E s \in SeedValues : Restart(s)

Next == Client \/ Timers \/ RunPosted \/ Environment

(***************************************************************************)
(* The io_context runs every ready handler and a steady_timer expires.     *)
(* Clients, Redis and bmcctld owe nothing.                                 *)
(***************************************************************************)
Fairness ==
  /\ WF_vars(ActionTimerFires)
  /\ WF_vars(CommandTimerExpires)
  /\ WF_vars(\E id \in expired : onCommandTimeout(id))
  /\ WF_vars(RunPosted)

Spec == Init /\ [][Next]_vars
FairSpec == Spec /\ Fairness

-----------------------------------------------------------------------------
(***************************************************************************)
(* Properties                                                              *)
(***************************************************************************)

TypeOK ==
  /\ currentHostState \in HostState
  /\ currentChassisPowerState \in ChassisPowerState
  /\ signalled \in [host : HostState, chassis : ChassisPowerState]
  /\ lastRequested \in [Property -> SupportedTransition \cup {NoTransition}]
  /\ actionQueue \in Seq(Request)
  /\ Len(actionQueue) <= MaxQueueSize
  /\ actionInProgress \in BOOLEAN
  /\ delayed \in Request \cup {NoRequest}
  /\ pendingCommandId \in CommandId \cup {NoId}
  /\ commandTimer \in CommandId \cup {NoId}
  /\ expired \in SUBSET CommandId
  /\ posted \in Seq(HostInfo \cup StatusInfo)
  /\ publisherLink \in {"none", "up", "broken"}
  /\ requestCounter \in Nat
  /\ boot \in Nat \ {0}
  /\ published \in Seq(PublishedCommand)
  /\ accepted \in Seq(SupportedTransition)
  /\ failed \in SUBSET (Nat \ {0})
  /\ forgotten \in SUBSET (Nat \ {0})

(***************************************************************************)
(* actionInProgress_, the action timer, pendingCommandId_ and the command  *)
(* timer are set and cleared in different handlers.  The slot is busy      *)
(* exactly while a request is delayed or a command is pending, never both; *)
(* a free slot leaves nothing queued; and a pending command always has a   *)
(* timer that will release it (state_manager.cpp:60-63, "not blocked       *)
(* forever").                                                              *)
(***************************************************************************)
SlotConsistent ==
  /\ actionInProgress <=> (delayed # NoRequest \/ pendingCommandId # NoId)
  /\ delayed = NoRequest \/ pendingCommandId = NoId
  /\ ~actionInProgress => actionQueue = <<>>
  /\ pendingCommandId # NoId =>
       commandTimer = pendingCommandId \/ pendingCommandId \in expired
  /\ commandTimer \in {NoId, pendingCommandId}

(***************************************************************************)
(* An accepted write is answered before anything is published.  It never   *)
(* disappears silently afterwards: it is queued or in the slot, or it was  *)
(* published, or its publication failed, or a restart lost it.  A request  *)
(* still waiting has not been tried before.                                *)
(***************************************************************************)
PublishedRequests == {published[i].n : i \in DOMAIN published}

NothingForgotten ==
  /\ DOMAIN accepted = Waiting \cup PublishedRequests \cup failed \cup forgotten
  /\ Waiting \cap (PublishedRequests \cup failed \cup forgotten) = {}

(***************************************************************************)
(* Commands appear in RACK_MANAGER_COMMAND in the order the requests were  *)
(* accepted over D-Bus, at most once each, under distinct ids, each with   *)
(* the command its request translates to; what still waits comes later.    *)
(***************************************************************************)
PublishedInOrder ==
  /\ \A i, j \in DOMAIN published : i < j =>
       /\ published[i].n < published[j].n
       /\ published[i].id # published[j].id
  /\ \A i \in DOMAIN published :
       /\ published[i].n \in DOMAIN accepted
       /\ published[i].command = transitionToCommand(accepted[published[i].n])
  /\ \A i \in DOMAIN published, n \in Waiting : published[i].n < n

(* A client that follows PropertiesChanged knows what a Get would return. *)
SignalledIsCurrent ==
  signalled = [host |-> currentHostState, chassis |-> currentChassisPowerState]

(***************************************************************************)
(* A pending command is let go only by its own DONE / FAILED, by its own   *)
(* timeout, or with the process: a late status or a late timeout of an     *)
(* earlier command never releases the slot of the one that follows.        *)
(***************************************************************************)
OwnOutcome ==
  \/ /\ posted # <<>> /\ posted' = Tail(posted)
     /\ Head(posted).about = "command"
     /\ Head(posted).id = pendingCommandId
     /\ isTerminalCommandStatus(Head(posted).status)
  \/ pendingCommandId \in expired \ expired'
  \/ boot' # boot

ReleasedByOwnOutcome ==
  [][pendingCommandId \notin {NoId, pendingCommandId'} => OwnOutcome]_vars

(* Every accepted request leaves the queue and the slot, even if bmcctld never
   answers and whatever is posted meanwhile. *)
EveryRequestLeaves ==
  \A n \in 1 .. MaxRequests :
    (n \in Waiting) ~> (n \notin Waiting /\ pendingCommandId = NoId)

(***************************************************************************)
(* The bridge's side of RACK_MANAGER_COMMAND implements CommandDispatch.   *)
(***************************************************************************)
Dispatch == INSTANCE CommandDispatch WITH
  count <- Len(accepted),
  issued <- [i \in DOMAIN published |-> published[i].n],
  open <- IF pendingCommandId = NoId THEN 0 ELSE published[Len(published)].n

ImplementsDispatch == Dispatch!FairSpec
=============================================================================
