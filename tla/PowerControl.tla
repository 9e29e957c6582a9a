---------------------------- MODULE PowerControl ----------------------------
(***************************************************************************)
(* Power control closed: StateManager, the STATE_DB hashes it shares with  *)
(* bmcctld, the keyspace notifications on the subscriber's connection, the *)
(* subscriber thread that turns them into posted work                      *)
(* (redis_state_subscriber.cpp, update_engine.cpp), and the order in which *)
(* BridgeApp brings these parts up (bridge_app.cpp).                       *)
(*                                                                         *)
(* The host state is read while the objects are created; the keys are      *)
(* subscribed one by one afterwards; the io_context runs last.             *)
(***************************************************************************)
EXTENDS StateManager, SequencesExt

CONSTANTS
  LeakSensors,         (* number of LIQUID_COOLING_INFO|<name> keys, which   *)
                       (* are subscribed after the two keys of interest      *)
  ConnectionsMayFail,  (* whether the bridge's connections for reading       *)
                       (* STATE_DB can be missing at the start, or be lost   *)
  MaxHostWrites        (* bound: writes of HOST_STATE by bmcctld             *)

ASSUME PowerControlAssumption ==
  /\ LeakSensors \in Nat
  /\ ConnectionsMayFail \in BOOLEAN
  /\ MaxHostWrites \in Nat

VARIABLES
  hostRecord,   (* HOST_STATE|switch-host, or NoRecord                       *)
  status,       (* the status field of each key in published                 *)
  subscribed,   (* how many of SubscribeOrder have been subscribed           *)
  stream,       (* what Redis sent on the subscriber's connection and has    *)
                (* not been read: acknowledgements and notifications         *)
  listening,    (* FALSE when subscriberLoop() has ended on an error         *)
  rereading,    (* FALSE when a hash that is read over stateDbContext_ of    *)
                (* RedisAdapter, or is read again, is not found: one of the  *)
                (* two connections for it is missing or in error             *)
  running,      (* io_.run() has been reached                                *)
  hostWrites,   (* history: number of writes of hostRecord                   *)
  missed,       (* history: the last write of hostRecord was not announced   *)
  timedOut      (* history: places in published given up after 600 s         *)

systemVars == <<hostRecord, status, subscribed, stream, listening, rereading,
                running, hostWrites, missed, timedOut>>
allVars == <<vars, systemVars>>

NoField == ""   (* what the code reads for a field that is not there *)
NoRecord == <<NoField, NoField>>

(* keysToSubscribe of startUpdateEngine(), as far as anything writes the keys *)
SubscribeOrder == <<"host", "command">> \o [i \in 1 .. LeakSensors |-> "leak"]

SubscribedTo(key) == key \in ToSet(SubSeq(SubscribeOrder, 1, subscribed))

(* A message on the connection: an acknowledgement, or hset on a key. *)
Ack == [key |-> "ack", n |-> 0]
HostChanged == [key |-> "host", n |-> 0]
CommandChanged(i) == [key |-> "command", n |-> i]

(* Redis tells the connection of an hset, if it has subscribed to the key. *)
Announced(s, message) ==
  IF listening /\ SubscribedTo(message.key) THEN Append(s, message) ELSE s

InStream(s, message) == message \in ToSet(s)

-----------------------------------------------------------------------------
(* RedisAdapter::getHostState(): nothing without the connection. *)
getHostState(connected) == IF connected THEN hostRecord ELSE NoRecord

(* What becomes of STATE_DB in connect(): initialize() goes on without it. *)
Connected == {TRUE, ~ConnectionsMayFail}

(* The host state initializeFromDb() arrives at. *)
SeedFrom(record) ==
  LET mapped == mapHostState(record[1], record[2])
  IN IF mapped = NoMapping THEN "Running" ELSE mapped

SysInit ==
  /\ hostRecord \in HostRecords \cup {NoRecord}
  /\ Init
  /\ rereading \in Connected
  /\ initializeFromDb(SeedFrom(getHostState(rereading)))
  /\ status = <<>>
  /\ subscribed = 0
  /\ stream = <<>>
  /\ listening = TRUE
  /\ running = FALSE
  /\ hostWrites = 0
  /\ missed = FALSE
  /\ timedOut = {}

(***************************************************************************)
(* One round of the loop in startMultiKey(): SUBSCRIBE, then read ONE      *)
(* reply and take it for the acknowledgement.                              *)
(***************************************************************************)
Subscribe ==
  /\ subscribed < Len(SubscribeOrder)
  /\ subscribed' = subscribed + 1
  /\ LET replies == Append(stream, Ack)
     IN /\ stream' = Tail(replies)
        /\ missed' = (missed \/ (Head(replies) = HostChanged
                                 /\ ~InStream(Tail(replies), HostChanged)))
  /\ UNCHANGED <<vars, hostRecord, status, listening, rereading, running, hostWrites,
                 timedOut>>

(* initialize() returns once everything is subscribed, and run() follows. *)
Run ==
  /\ ~running
  /\ subscribed = Len(SubscribeOrder)
  /\ running' = TRUE
  /\ UNCHANGED <<vars, hostRecord, status, subscribed, stream, listening, rereading,
                 hostWrites, missed, timedOut>>

-----------------------------------------------------------------------------
(* The handlers of StateManager, on the io_context. *)

(* Writing a command adds a PENDING hash and is announced like any hset. *)
PublishEffect ==
  IF published' = published
    THEN UNCHANGED <<status, stream>>
    ELSE /\ status' = Append(status, "PENDING")
         /\ stream' = Announced(stream, CommandChanged(Len(published')))

IoStep ==
  /\ running
  /\ Client \/ ActionTimerFires \/ CommandTimerExpires \/ RunPosted
  /\ PublishEffect
  /\ UNCHANGED <<hostRecord, subscribed, listening, rereading, running, hostWrites,
                 missed, timedOut>>

IoTimeout(id) ==
  /\ running
  /\ onCommandTimeout(id)
  /\ timedOut' = IF id = pendingCommandId
                   THEN timedOut \cup {i \in DOMAIN published : published[i].id = id}
                   ELSE timedOut
  /\ UNCHANGED <<hostRecord, status, subscribed, stream, listening, rereading,
                 running, hostWrites, missed>>

-----------------------------------------------------------------------------
(* The subscriber thread, started once all keys are subscribed. *)
SubscriberRuns == listening /\ subscribed = Len(SubscribeOrder)

(***************************************************************************)
(* One message: anything but hset is skipped; for a hash, UpdateEngine     *)
(* reads it AGAIN and posts what it finds then, once per notification (the *)
(* callbacks of the other fields return at once).  A HOST_STATE hash       *)
(* without device_power_state has no such callback.  When either read      *)
(* finds nothing the message is gone and nothing is posted: the subscriber *)
(* reads over getContext_, then UpdateEngine over the adapter's context.   *)
(***************************************************************************)
Deliver ==
  /\ SubscriberRuns
  /\ stream # <<>>
  /\ stream' = Tail(stream)
  /\ LET message == Head(stream)
     IN CASE rereading /\ message = HostChanged /\ hostRecord[1] # NoField ->
               onHostStateChanged(hostRecord)
          [] rereading /\ message.key = "command" ->
               onCommandStatusChanged(published[message.n].id, status[message.n])
          [] OTHER -> UNCHANGED vars
  /\ UNCHANGED <<hostRecord, status, subscribed, listening, rereading, running,
                 hostWrites, missed, timedOut>>

(* redisGetReply() fails: the loop ends, and nothing starts it again. *)
SubscriberFails ==
  /\ ConnectionsMayFail
  /\ SubscriberRuns
  /\ listening' = FALSE
  /\ stream' = <<>>
  /\ UNCHANGED <<vars, hostRecord, status, subscribed, rereading, running, hostWrites,
                 missed, timedOut>>

(***************************************************************************)
(* The adapter's STATE_DB connection is lost, or getContext_ of the        *)
(* subscriber is: neither is opened again, and subscriberLoop() goes on.   *)
(* One variable is enough for both: a notified hash is found only over     *)
(* both, and the seed was read before the subscriber had a connection.     *)
(***************************************************************************)
RereadingFails ==
  /\ ConnectionsMayFail
  /\ rereading
  /\ rereading' = FALSE
  /\ UNCHANGED <<vars, hostRecord, status, subscribed, stream, listening, running,
                 hostWrites, missed, timedOut>>

-----------------------------------------------------------------------------
(* bmcctld, as far as the bridge can see it. *)
WriteHostState(record) ==
  /\ hostWrites < MaxHostWrites
  /\ hostWrites' = hostWrites + 1
  /\ hostRecord' = record
  /\ stream' = Announced(stream, HostChanged)
  /\ missed' = ~(listening /\ SubscribedTo("host"))
  /\ UNCHANGED <<vars, status, subscribed, listening, rereading, running, timedOut>>

(* bmcctld may fail a command at once, or report IN_PROGRESS first. *)
ReportStatus(i, newStatus) ==
  /\ \/ status[i] = "PENDING" /\ newStatus \in {"IN_PROGRESS", "DONE", "FAILED"}
     \/ status[i] = "IN_PROGRESS" /\ isTerminalCommandStatus(newStatus)
  /\ status' = [status EXCEPT ![i] = newStatus]
  /\ stream' = Announced(stream, CommandChanged(i))
  /\ UNCHANGED <<vars, hostRecord, subscribed, listening, rereading, running,
                 hostWrites, missed, timedOut>>

RestartBridge ==
  /\ \E connected \in Connected :
       /\ rereading' = connected
       /\ Restart(SeedFrom(getHostState(connected)))
  /\ subscribed' = 0
  /\ stream' = <<>>
  /\ listening' = TRUE
  /\ running' = FALSE
  /\ missed' = FALSE
  /\ UNCHANGED <<hostRecord, status, hostWrites, timedOut>>

-----------------------------------------------------------------------------
Bmcctld ==
  \/ \E r \in HostRecords : WriteHostState(r)
  \/ \E i \in DOMAIN status, s \in CommandStatus : ReportStatus(i, s)

SysNext ==
  \/ Subscribe
  \/ Run
  \/ IoStep
  \/ \E id \in expired : IoTimeout(id)
  \/ Deliver
  \/ SubscriberFails
  \/ RereadingFails
  \/ Bmcctld
  \/ RestartBridge

(***************************************************************************)
(* The bridge's two threads run; bmcctld and the clients owe nothing.  The *)
(* command timer gets no fairness: what is promised here must not rest on  *)
(* the 600 s running out.                                                  *)
(***************************************************************************)
SysFairness ==
  /\ WF_allVars(Subscribe)
  /\ WF_allVars(Run)
  /\ WF_allVars(Deliver)
  /\ WF_allVars(IoStep /\ ActionTimerFires)
  /\ WF_allVars(IoStep /\ RunPosted)

SysSpec == SysInit /\ [][SysNext]_allVars
SysFairSpec == SysSpec /\ SysFairness

-----------------------------------------------------------------------------
(***************************************************************************)
(* Properties                                                              *)
(***************************************************************************)

SysTypeOK ==
  /\ hostRecord \in HostRecords \cup {NoRecord}
  /\ status \in Seq(CommandStatus)
  /\ Len(status) = Len(published)
  /\ subscribed \in 0 .. Len(SubscribeOrder)
  /\ \A i \in DOMAIN stream :
       stream[i] \in {Ack, HostChanged} \cup {CommandChanged(j) : j \in DOMAIN published}
  /\ listening \in BOOLEAN
  /\ rereading \in BOOLEAN
  /\ running \in BOOLEAN
  /\ hostWrites \in 0 .. MaxHostWrites
  /\ missed \in BOOLEAN
  /\ timedOut \subseteq DOMAIN published

(***************************************************************************)
(* bmcctld never has two commands of one bridge incarnation to work on,    *)
(* unless the bridge gave the earlier one up after 600 s.  That includes a *)
(* command written although the bridge was told that the write had failed. *)
(***************************************************************************)
LiveCommands ==
  {i \in DOMAIN published : /\ ~isTerminalCommandStatus(status[i])
                            /\ published[i].id.boot = boot
                            /\ i \notin timedOut}

OneLiveCommand == \A i, j \in LiveCommands : i = j

(***************************************************************************)
(* A pending command is released early only if STATE_DB says DONE or       *)
(* FAILED for it: notifications carry no value and are read late, possibly *)
(* several at once.                                                        *)
(***************************************************************************)
ReleasedWhenOver ==
  [][\A i \in DOMAIN published :
       /\ pendingCommandId = published[i].id
       /\ pendingCommandId' # pendingCommandId
       /\ boot' = boot
       => isTerminalCommandStatus(status[i]) \/ i \in timedOut']_allVars

(***************************************************************************)
(* With nothing under way any more, and no connection lost or missing,     *)
(* CurrentHostState is what HOST_STATE maps to (state_manager.hpp:35-37,   *)
(* 105).  That is what the header says; it holds only if the last write    *)
(* was announced (HostEvents: SubscribersKnow).                            *)
(***************************************************************************)
HostUnderWay ==
  \/ InStream(stream, HostChanged)
  \/ \E i \in DOMAIN posted : posted[i].about = "host"

Mirrors ==
  mapHostState(hostRecord[1], hostRecord[2]) \in {currentHostState, NoMapping}

MirrorsWhenQuiet == running /\ listening /\ rereading /\ ~HostUnderWay => Mirrors

(* An outcome that bmcctld reports for the pending command, and that is
   announced, frees the slot without the 600 s running out, unless the bridge
   cannot hear of it or cannot read it. *)
OutcomeReleases ==
  \A i \in 1 .. MaxRequests :
    (i \in DOMAIN status /\ InStream(stream, CommandChanged(i))
       /\ isTerminalCommandStatus(status[i]))
    ~> (pendingCommandId \notin {published[j].id : j \in DOMAIN published \cap {i}}
        \/ ~listening \/ ~rereading)
=============================================================================
