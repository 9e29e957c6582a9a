# TLA+ models of sonic-redfish

sonic-redfish puts OpenBMC's Redfish server (`bmcweb`) on a SONiC BMC. bmcweb
only talks D-Bus; `sonic-dbus-bridge` serves the D-Bus objects it expects from
SONiC's Redis databases, a platform file and the FRU EEPROM, and carries the
few requests that go the other way (power transitions, rack-manager alerts and
telemetry). `rmc-events` and `oem-extension` add event sources and routes to
bmcweb itself. This directory models the parts whose correctness depends on
order, concurrency, failure or limits; the rest is listed with the reason.

## Inventory

Paths are relative to `src/`; `B/` is `sonic-dbus-bridge/`.

| Component | State it keeps | Operations | What must hold |
|---|---|---|---|
| `host_state_mapping` (`B/include/host_state_mapping.hpp`) | none | translate bmcctld's vocabulary to D-Bus and back | total, within the vocabularies |
| `StateManager` (`B/src/state_manager.cpp`) | host and chassis state, last requests, action queue, busy flag, pending command id, two timers | D-Bus setters, action timer, command timer, posted host state / command status | a request is never lost silently, commands go out one at a time and in order, the slot is freed exactly by its own outcome |
| `RedisStatePublisher` (`B/src/redis_state_publisher.cpp`) | connection, request counter | `connect`, `publishHostRequest` | ids are unique; failure is reported |
| `RedisStateSubscriber` (`B/src/redis_state_subscriber.cpp`) | two connections, a thread | `startMultiKey`, `subscriberLoop`, `stop` | each announced change reaches the callback |
| `UpdateEngine` (`B/src/update_engine.cpp`) | cached leak states | `onRedisFieldChange` (subscriber thread) | D-Bus follows STATE_DB |
| `BridgeApp` (`B/src/bridge_app.cpp`) | owns everything | start-up order, `run`, `shutdown`, signals | parts exist before they are used; the end is reached |
| `RedisAdapter` (`B/src/redis_adapter.cpp`) | CONFIG_DB and STATE_DB connections | reads of the hashes, reconnect of `getRedfishClientCnames` | a failed read is told apart from an empty one |
| `InventoryModelBuilder` (`B/src/inventory_model.cpp`) | none | merge FRU, Redis and platform data; detect changes | precedence of the sources; no change missed |
| `DBusExporter` (`B/src/dbus_exporter.cpp`) | D-Bus objects, current model | create objects, update leak sensors | properties agree with the model |
| `ObjectMapperService` (`B/src/object_mapper.cpp`) | path -> interfaces | register, unregister, `GetObject`, `GetSubTree`, ... | queries answer from the registered objects |
| `UserMgr` / `Users` (`B/src/user_mgr.cpp`) | user objects | certificate common-name check | only configured names are trusted |
| `RackManagerReceiver` (`B/src/rack_manager_receiver.cpp`) | job queue, worker thread, connection, counters | `SubmitAlert`, `SubmitTelemetry`, worker loop, shutdown | accepted jobs are written in order or counted as failed; the queue is bounded |
| `FruAdapter` (`B/src/fru_adapter.cpp`) | none after loading | scan the EEPROM paths, parse TLVs | the values are those of the TLVs that lie within the lengths |
| `PlatformJsonAdapter` (`B/src/platform_json_adapter.cpp`) | none after loading | read `platform.json` | a missing or damaged file provides nothing |
| `ConfigManager` (`B/src/config_manager.cpp`) | none after loading | read a YAML file | - |
| logger (`B/include/logger.hpp`) | log file, its flag, its lock | `LOG_*`, SIGUSR1/2 handlers | lines do not block each other for ever |
| `main` (`B/src/main.cpp`) | the application | construct, initialize, run, destroy | the end is reached on every way |
| `bmcweb_activate` (`B/src/bmcweb_activate.cpp`) | - | start script | - |
| leak and host monitors (`rmc-events/src/`) | none | `PropertiesChanged` -> Redfish event | subscribers know the state |
| leak detector resources (`rmc-events/lib/leak_detection.hpp`) | none | three GET routes, two D-Bus calls each | links lead to detectors |
| `oem-extension` | none | `SubmitAlert`, `SubmitTelemetry`, a constant resource | the answer tells what became of the payload |

Outside the repository: bmcctld (executes `RACK_MANAGER_COMMAND`, writes
`HOST_STATE|switch-host`), thermalctld (leak sensors), Redis, the D-Bus daemon,
bmcweb, the rack manager.

**Interaction.** The bridge has three threads. The main thread builds everything
(`BridgeApp::initialize`) and then runs the io_context: D-Bus calls, timers and
posted work. The subscriber thread blocks in `redisGetReply`, and calls
`UpdateEngine::onRedisFieldChange`, which reads the changed hash again and posts
to the io_context (power control) or writes the D-Bus objects itself (leak
sensors). The rack-manager worker pops jobs from a queue filled by D-Bus calls.

**Hard behaviours.** Late, coalesced and missed notifications; late timeouts; a
write whose reply is lost; connections that are never re-established; a restart
with commands under way; a bounded queue; two threads on one connection; calls
without a timeout on the way to the exit; signal handlers that take locks. They
are listed line by line under `hazards` in `PROJECT.json`.

## The modules

| Module | Models | Composition |
|---|---|---|
| `HostStateMapping` | `host_state_mapping.hpp` | used by `StateManager` |
| `StateManager` | `state_manager.cpp`, `redis_state_publisher.cpp` | `INSTANCE CommandDispatch` as the promise it implements |
| `CommandDispatch` | abstract: what bmcctld may rely on about `RACK_MANAGER_COMMAND` | |
| `PowerControl` | StateManager closed with STATE_DB, bmcctld, `redis_state_subscriber.cpp`, `update_engine.cpp`, start-up order of `bridge_app.cpp` | `EXTENDS StateManager` |
| `HostEvents` | `host_state_monitor.cpp`: from `CurrentHostState` to the power events | `EXTENDS PowerControl` |
| `RackManagerReceiver` | `rack_manager_receiver.cpp` from the D-Bus call to the counters | `INSTANCE OrderedIngest` |
| `OrderedIngest` | abstract: payloads reach STATE_DB in the order of acceptance | |
| `OemRequests` | the two routes of `oem-extension` and the receiver's methods, from HTTP to the queue | |
| `SensorExtract` | `extractSensors`, the envelopes around it and its helpers: what a payload becomes in STATE_DB; adds operators only | `EXTENDS OemRequests`; fills in what `RackManagerReceiver` takes as a sequence of HSETs |
| `OemActions` | both together, from HTTP to STATE_DB | `EXTENDS SensorExtract` |
| `LeakSensors` | leak sensors from `LIQUID_COOLING_INFO` through the bridge and `rmc-events` to an event | |
| `UserAccess` | `user_mgr.cpp` with `getRedfishClientCnames` of `redis_adapter.cpp` | |
| `FruTlv` | `fru_adapter.cpp` and a reference; operators only | |
| `Inventory` | `inventory_model.cpp`, `platform_json_adapter.cpp`, the exporter's model, the inventory part of `update_engine.cpp` | `EXTENDS FruTlv` |
| `BridgeObjects` | object creation and registration in `bridge_app.cpp`, `object_mapper.cpp` | |
| `LeakRoutes` | `leak_detection.hpp`, and the links in leak events | `EXTENDS BridgeObjects` |
| `Logger` | `logger.hpp` and the SIGUSR1/2 handlers | |
| `Process` | `main.cpp`, the life of `BridgeApp`, its three threads, shutdown and destruction | `EXTENDS Logger` |
| `StateManager_proofs`, `PowerControl_proofs`, `RackManagerReceiver_proofs`, `LeakSensors_proofs`, `UserAccess_proofs`, `Inventory_proofs`, `Process_proofs` | theorems about the module of that name | `PowerControl_proofs` `EXTENDS StateManager_proofs` and covers `HostEvents`; `Process_proofs` covers `Logger` |
| `BmcwebRoutes_proofs` | theorems about the routes added to bmcweb: `BridgeObjects`, `LeakRoutes`, `OemRequests`, `SensorExtract`, `OemActions` | |
| `MC*` | values of the constants for TLC | one per checked module |

`PROJECT.json` gives, under `map`, the lines each definition stands for. A
definition whose name ends in `_` is a faulty variant of the one that follows
it; the comment names the property that notices the fault.

**StateManager.** An action is one handler of the single io_context thread, run
to its end. `queueTransition` is a D-Bus write with everything it calls: the
queue limit, the push, and `processNextAction`, which pops at once if the slot
is free. `RefuseTransition` is a write that is answered with an error.
`ActionTimerFires` is the 100 ms handler: it publishes, and its three results
(published; reported failed; failed although Redis executed the `HMSET`) free
the slot or arm the 600 s timer. `CommandTimerExpires` puts the handler in
`expired`, and `onCommandTimeout` runs it, later and perhaps after a `cancel()`.
`applyHostState` and `handleCommandStatus` run work that the subscriber thread
posted, in FIFO order. `Restart` drops the memory and keeps Redis. `accepted`,
`failed` and `forgotten` are history variables: the properties compare them with
what the code kept.

**PowerControl** adds what `StateManager` leaves to its environment: the two
hashes, the one connection with acknowledgements and notifications in the order
Redis sent them, the thread that reads them (`Deliver`), and start-up, in which
the host state is read first, the keys are subscribed one by one (`Subscribe`
takes the next message as the acknowledgement, whatever it is), and the
io_context runs last (`Run`). Two faults of connections are told apart:
`listening` is false when the subscriber's loop has ended; `rereading` is false
when a hash cannot be read, because `RedisAdapter` has no connection to STATE_DB,
or the subscriber has lost the one it reads over. Then the loop goes on and takes
notifications, and nothing is posted. A bridge that starts without STATE_DB shows
Running, and no connection is opened again until the bridge is restarted.

**HostEvents** composes `PowerControl` with bmcweb. Each step of `PowerControl`
that changes `CurrentHostState` sends a signal; bmcweb's handler maps it to an
event. bmcweb may stop and start, and reads nothing when it starts. `unheard`
is history: the present state was reached without a signal that bmcweb heard.

**RackManagerReceiver.** The D-Bus thread checks the payload and then, as a
second step, takes the mutex and queues it or drops it; the worker looks at the
queue, sleeps, drains, pipelines the writes, and reads one reply per step; Redis
answers each write with success or an error; the link may break at any point. A
condition variable that is notified while nobody sleeps is lost, as in the code.

**LeakSensors.** thermalctld writes a record field by field. The subscriber
thread takes a notification and calls back once per field of the record; each
call reads the record again over the adapter's connection and compares it with
the cache. `HandleSignal` is the handler in bmcweb.

**UserAccess.** `GetUserInfo` runs as the steps connect, `SELECT`, read, between
which the list, Redis and the connection change. Texts are sequences of
characters, since matching a wildcard is what the property is about.

**Inventory.** The EEPROM paths and `platform.json` are files of every shape
that matters; `Build` scans and parses them. Values carry the source and field they come from, so that
precedence is visible. `onRedisFieldChange` reads again, compares the fields the
code compares, and builds again from what the caches hold.

**BridgeObjects.** Each start-up step creates objects on one of the five
connections, completely or up to an exception, and registers paths. `Query` asks
the three queries of the mapper for one root.

**LeakRoutes** composes it with bmcweb. A `GET` is two D-Bus calls, the chassis
and the detectors, with the bridge's restart possible before, between and after
them; a client follows the links it was handed or asks for what it likes.

**OemRequests, SensorExtract, OemActions.** bmcweb refuses a request or forwards
it, the call may time out while it waits for the bridge, the bridge queues or
refuses, the worker takes it. A payload is a JSON document: a function from places
(the sequence of positions that leads from the root to a node) to nodes, with
objects, arrays and numbers in envelopes. `extractSensors` is the recursion of the
code, a function of its calls (the name, the place, the severity that is
inherited), and gives the list of reports that are written. The reference has no
walk: it says of a place whether it reports on a sensor, and takes the nearest
severity on the way to it and the last place in document order. In `OemActions`
the worker stores the reports one after the other.

**FruTlv.** A file is given by its TLVs, the length in its header and the number
of bytes it really holds; neither need agree with the TLVs. `parseTlv` is the
loop over bytes, `Programmed` the reference over TLVs.

**Logger, Process.** What the threads compute is left to the other modules; here
it is where they wait, what they use and whether it still exists. Each thread
has a stack of logger calls, on which a signal handler goes on top; syslog's
lock and `fileMutex` are taken in the code's order. `alive` are the members of
`BridgeApp`, destroyed in the reverse order of their declaration. Redis is up,
silent (it answers nobody) or gone.

## The runs

Twelve runs; every property of a passing run is also checked against a faulty
variant of the code that it must notice (`mutants` in `PROJECT.json`).

| Run | What it shows |
|---|---|
| `state_manager` | `SlotConsistent`: the slot is busy exactly while a request is delayed or a command pends, and a pending command always has a timer. `NothingForgotten`: an accepted request waits, was published, failed, or was lost in a restart; nothing else. `PublishedInOrder`: commands go out in the order of acceptance, once, under distinct ids. `SignalledIsCurrent`: a client that follows `PropertiesChanged` knows what a `Get` returns. `ReleasedByOwnOutcome`: late outcomes and late timeouts never release a later command. `EveryRequestLeaves` (liveness) and `ImplementsDispatch` (refinement, with its fairness). |
| `power_commands` | `OneLiveCommand`: bmcctld has at most one unfinished command of one incarnation that was not given up after 600 s, also when a write was executed and reported failed. `ReleasedWhenOver`: the slot is freed early only if STATE_DB says so. `OutcomeReleases` (liveness, without the command timer): an announced outcome frees the slot, unless a connection is missing or lost. |
| `host_mirror` | `SubscribersKnow`: with nothing under way and the last write announced, `CurrentHostState` is what the record maps to, and the last power event tells the same, unless the change happened while the bridge or bmcweb restarted; a bridge that started without STATE_DB, or lost a connection to it, is excepted until it is restarted. `AnnouncedIsTold` (liveness): an announced write gets to the subscribers. |
| `host_mirror_start` | Finding: without the assumption "announced" the mirror may be stale for ever (below). |
| `receiver` | `JobsAccounted`: the counters of two threads add up, and while the worker sleeps or after it has ended they account for every accepted job. `RecordsWhole`: a record with fields of two payloads is being written, or the job is counted as failed, or Redis refused a write. `PersistedIsStored`. `ImplementsOrderedIngest` (refinement). `EveryJobEnds` (liveness: no lost wake-up, the destructor returns with the queue drained). |
| `leak_sensors` | `MirrorsWhenAnnounced`: re-reading, the cache and the field-wise writes never leave `DetectorState` or `Functional` stale. `EventsFollowState`: the events tell the state of each readable detector. `LeakIsReported` (liveness). |
| `user_access` | `GrantsFollowPolicy`: nobody is let in whom no list readable during the call named. `OutageCostsOneCall`: one trusted client at most is turned away after an outage. |
| `inventory` | `FruAsProgrammed`: the FRU fields are those of the TLVs that start within the header's length and end within the file, up to the checksum, the last of each type; of the first readable EEPROM. `FreshWhenTouched`: a handled notification of a subscribed key brings the power state, the serial number and the host name it is for. |
| `inventory_stale` | Finding: the records themselves are not followed (below). |
| `bridge_objects` | `ExportedIsListed`: whatever part of start-up fails, what is on the bus is in the mapper. `SubTreeIsByName`: a subtree is by path names, not by string prefix. `AnswersAgree`: the three queries agree. `LinksResolve`: each link that a collection, `LeakDetection` or an event handed out leads to its collection or detector, before and after a restart, unless a call failed; a collection lists every detector on the bus. |
| `sensor_extract` | `AnswersTell`: 204 is a job, every refusal is none, only 503 leaves it open. `OnlyAFullQueueRefuses`: what bmcweb forwards is refused by a full queue and nothing else. `NearestSeverityOfTheLast`: a record holds severity, value and time of the last report on its sensor, never a mixture, and other records are not touched. |
| `process` | `CallbacksAreSafe`: no thread outlives the members and connections it uses, on every way out of `main()`. `OnlyHandlersDeadlock`: threads block each other for ever only after a signal handler interrupted a lock holder. `TermEnds` (liveness): SIGTERM, and a failed start, end the process, unless a thread waits for Redis for ever or such a deadlock happened. |

### Findings

* `host_mirror_start`: the host state is read while the objects are created and
  subscribed to later, and a notification may be read as the acknowledgement of
  a later `SUBSCRIBE`; such a write is never looked at again, while
  `state_manager.hpp` says that the state mirrors the hash.
* `inventory_stale`: `DEVICE_METADATA` and `CHASSIS_STATE` are subscribed, in
  STATE_DB; `DEVICE_METADATA|localhost` (CONFIG_DB) and `CHASSIS_STATE|chassis0`
  are read.

More disagreements between code and text are in the models, without a run.

* `bridge_app.cpp:439` and `:103` register host0 and the rack manager's object
  under `Inventory.Manager`, whose connection does not export them, while
  `object_mapper.hpp:52` speaks of the service that owns the object.
* A rebuild of the inventory passes no FRU and no platform description, so their
  values fall back to defaults although the comment says they do not change
  (`update_engine.cpp:297`).
* A `HSET` that Redis answers with an error is logged and otherwise ignored, and
  its job counts as persisted; `PersistedIsStored` therefore excepts such writes.
* `sonic_submit_alert.hpp:97` has operators tell "service unavailable" from "bad
  payload". `OnlyAFullQueueRefuses` shows that the second answer always means a
  full queue, and `AnswersTell` that the first may come with an accepted payload.
* A handler of SIGUSR1/2 takes `fileMutex` and calls `syslog()`, neither of which
  is async-signal-safe: one that interrupts its own thread in a `LOG` line
  deadlocks it. `OnlyHandlersDeadlock` shows that nothing else does.
* `jsoncpp`'s `isDouble()` holds of an integer too, so that
  28 is stored as `28.000000`, while `oem-extension/README.md:289` shows `28`.
  Values are abstract in the models.
* `bridge_app.cpp:44` names `/tmp/sonic-dbus-bridge.log`, `logger.hpp:43`
  `/var/log/sonic-dbus-bridge.log`.
* `stop()` joins a thread that waits in `redisGetReply()`: SIGTERM takes effect
  with the next notification. `TermEnds` names that wait as the one exception.

## Bounds

The cfg files give every bound; deadlock is not checked where behaviours stop at
a bound.

* `state_manager`: queue of 2 and 4 requests, which fill the slot and the queue
  and meet the limit. One posted handler at a time and every status for every id:
  order among posted handlers is FIFO and does not add cases to one handler. Two
  boots give every mix of commands of an old and a new incarnation. One kind of
  transition: requests are told apart by their number, and the proofs below hold
  for every set of writes and every value of all these bounds.
* `power_commands`: two requests are needed for one to run beside another, two
  boots and two posted handlers for coalesced notifications; connections are
  there or not at each start and may be lost at any time. HOST_STATE is not
  written: its handlers do not touch the slot.
* `host_mirror`: three writes of the record (a transitional and a final state,
  one without `device_power_state`, one that maps to nothing), three handlers
  posted at once, two keys subscribed after the two of interest, which is what
  makes notifications and acknowledgements meet, three boots, each with or without
  STATE_DB; bmcweb stops and starts without a bound. Commands are left to
  `power_commands`: they share only the order of posted handlers with the mirror,
  and `SubscribersAreTold` is proved with any number of them.
* `receiver`: a queue of 2 and 3 calls fill queue and worker; payloads with no,
  one and two records, sharing one of two fields.
* `leak_sensors`: two sensors (one cannot be exported) and two writes of one
  or two fields; a suppressed repeat needs two.
* `user_access`: four changes: removal, stop, start and ready.
* `inventory`: four writes: both records and both keys, in each order. The
  EEPROM has a type twice, one that is skipped, an empty value, and a checksum
  with a TLV behind it; the file is cut at every byte, and the header's length is
  0, 9, 255 and the one that ends before the last TLV; platform.json takes every
  shape only with no EEPROM and with the whole one; in front of it are paths that
  are absent or not an EEPROM.
* `bridge_objects`: one firmware version and one leak sensor; the roots matter. A
  life of the bridge either answers queries or serves the routes, which do not
  read what the other leaves; restarts are not bounded.
* `sensor_extract`: documents of depth four in one envelope or two, then a second
  request of another kind, mode or validity, so that a record may be overwritten;
  a queue of 1, which a second payload finds full.
* `process`: two kinds of lives: with one job, one call that asks Redis or throws
  and one change of Redis, from any of its three states; or with two log signals,
  which are needed for one handler above another and for one in each of two
  threads. Notifications are not bounded, and SIGTERM may come at any time.

## Fairness

* `StateManager`: the io_context runs every ready handler and both timers expire.
  Nothing is assumed of clients, Redis or bmcctld: `EveryRequestLeaves` rests on
  the 600 s timer, as the code does.
* `PowerControl`: start-up goes on, the subscriber thread reads, the io_context
  runs the action timer and posted work. The 600 s timer gets no fairness, so
  that `OutcomeReleases` cannot rest on it.
* `RackManagerReceiver`: both threads run, and Redis answers or the connection
  breaks; `redisGetReply` has no timeout, so nothing can be promised without it.
* `HostEvents`: the same, and bmcweb's event loop runs while bmcweb does; nobody
  owes it a restart.
* `LeakSensors`: start-up, the subscriber thread and bmcweb run.
* `Process`: the system schedules every thread (weak fairness) and hands a lock to
  each that waits for it in the end; the event loop gets to the queued SIGTERM
  whatever else arrives (strong fairness). Nothing is assumed of Redis.

## Proofs

Each theorem holds for every value of the constants that satisfies the named
assumptions of its module; all of them are evaluated by TLC on the instances
above. Bounds such as `MaxWrites` only have to be natural numbers. Every invariant named below as inductive
was first checked by TLC on the instance of its module.

| Module | Theorem | Statement |
|---|---|---|
| `StateManager_proofs` | `TypeCorrect` | `Spec => []TypeOK` |
| | `SlotIsConsistent` | `Spec => []SlotConsistent` |
| | `ReleaseIsOwn` | `Spec => ReleasedByOwnOutcome` |
| | `SignalsAreCurrent` | `Spec => []SignalledIsCurrent` |
| | `NoRequestForgotten` | `Spec => []NothingForgotten` |
| | `PublicationInOrder` | `Spec => []PublishedInOrder` |
| | `DispatchIsImplemented` | `Spec => Dispatch!Spec` |
| `PowerControl_proofs` | `ControlIsStateManager` | `SysSpec => Spec` |
| | `LiveCommandIsSingle` | `SysSpec => []OneLiveCommand` |
| | `ReleaseIsJustified` | `SysSpec => ReleasedWhenOver` |
| | `EventsTypeCorrect` | `EventsSpec => []EventsTypeOK` |
| | `SubscribersAreTold` | `EventsSpec => []SubscribersKnow` |
| `RackManagerReceiver_proofs` | `TypeCorrect` | `Spec => []TypeOK` |
| | `CountersAddUp` | `Spec => []JobsAccounted` |
| | `PersistedStays` | `Spec => []PersistedIsStored` |
| | `RecordsStayWhole` | `Spec => []RecordsWhole` |
| | `IngestIsOrdered` | `Spec => ImplementsOrderedIngest` |
| | `NoJobStaysBehind` | `Spec => []NoJobIsLeft` |
| `LeakSensors_proofs` | `LeakTypesCorrect` | `Spec => []LeakTypeOK` |
| | `LeaksAreMirrored` | `Spec => []MirrorsWhenAnnounced` |
| | `EventsTellState` | `Spec => []EventsFollowState` |
| `UserAccess_proofs` | `MatchesAsPromised` | `commonNameMatches(name, entry) <=> Names(entry, name)` |
| | `UserTypesCorrect` | `Spec => []UserTypeOK` |
| | `OutagesAreBounded` | `Spec => []OutageCostsOneCall` |
| | `GrantsAreWitnessed` | `Spec => GrantsFollowPolicy` |
| `Inventory_proofs` | `HandledIsFresh` | `Spec => []FreshWhenTouched` |
| | `ParsedAsProgrammed` | `IsEeprom(eeprom) => parseTlv(eeprom) = Programmed(eeprom)` |
| | `FruIsShown` | `Spec => []FruAsProgrammed` |
| `BmcwebRoutes_proofs` | `BusIsListed` | `RoutesSpec => []ExportedIsListed` |
| | `SubTreesAreByName` | `RoutesSpec => []SubTreeIsByName` |
| | `QueriesAgree` | `RoutesSpec => []AnswersAgree` |
| | `LinksLeadSomewhere` | `RoutesSpec => []LinksResolve` |
| | `AnswersAreTrue` | `RequestsSpec => []AnswersTell` |
| | `RefusedIsFull` | `RequestsSpec => OnlyAFullQueueRefuses` |
| | `StoringIsNoRequest` | `OemSpec => RequestsSpec` |
| | `LastReportIsStored` | `OemSpec => NearestSeverityOfTheLast` |
| `Process_proofs` | `ProcessTypesCorrect` | `Spec => []ProcessTypeOK` |
| | `OwnersHold` | `Spec => []LockInv` |
| | `DeadlocksAreHandlers` | `Spec => []OnlyHandlersDeadlock` |
| | `ThreadsAreSafe` | `Spec => []CallbacksAreSafe` |

Few of the properties are inductive as they stand. What each needs besides:

**StateManager** (`StateManagerAssumption`: a queue of at least one place, writes
on the two properties). `TypeOK` and `SlotConsistent` are inductive, the second
given the first. From "the request is somewhere" it does not follow that the one
popped next is the right one, so `RequestInv` says that requests wait
contiguously (`QueueIsLatest`, `DelayedIsNext`), that everything before has been
settled (`SettledArePast`), that the ids written are older than the next one
(`IdsArePast`), and what was published differs and is as asked. The refinement
needs that the pending command is the last one published
(`PendingIsLastInvariant`), which makes `open` of `CommandDispatch` well defined.

**PowerControl.** `ControlStep` shows that each step of the closed system is a
step of `StateManager` or a stutter, so the theorems above hold of it. For
`OneLiveCommand`, `LiveInv`: a live command is the pending one, or the last one
of all, whose `HMSET` was executed although the connection broke, after which
nothing is written; and a posted report of an end is backed by STATE_DB
(`ReportsTrue`). For `SubscribersKnow`, which says nothing while something is
under way or a connection is missing: while the bridge can listen and read, of the
host records posted the last one is the one in STATE_DB (`MirrorInv`), and of the signals sent the last one is the current state
(`EventInv`).

**RackManagerReceiver** (`ReceiverAssumption`; `WholeRecords`: a payload that
touches a record writes all the fields that its kind writes, as
`SensorExtract` does). `JobInv` places every accepted job: the queue holds the
last ones in order, the worker has the one before, those before that have an
outcome. `StoreInv` adds what STATE_DB may hold: fields of jobs that were
started, of the current one exactly what Redis executed. `RecordsWhole`,
`PersistedIsStored` and the refinement follow from the two. That no job is left
behind is a fact about the order of the worker's looks and the caller's
notifications: `RestInv` says that a worker that sleeps or has ended has an empty
queue, that it ends only after `stop_` was set, and that no call is under way
from then on.

**LeakSensors** (`LeakAssumption`). `MirrorInv` ties the cache to the objects:
only then may the bridge skip what it takes for a repeat. `FollowInv`: of several
signals of a detector the last is the right one.

**UserAccess** (`UserAssumption`: an alphabet `Char` with `*` and `.`, any names
and lists over it). `MatchesAsPromised` is about texts of every length. `CallInv`
says what the history of a call knows: the list that is readable now was noted;
an undisturbed call that was refused left no broken context behind.

**Inventory.** `FreshInv`: notifications are of subscribed keys (`ChannelInv`),
after the first rebuild the model is what the caches make of it (`ModelInv`), and
a cache agrees with its record in the fields that the code compares once no
notification is left (`CacheInv`). That agreement in the *compared* fields is
enough is a lemma about `build`. `FruAsProgrammed` compares two algorithms:
`parseTlv` goes from offset to offset over the bytes of a file that may be cut
anywhere and whose header may lie, `Programmed` selects TLVs. `ParsedAsProgrammed`
proves them equal for every file (`IsEeprom`: bytes are bytes, the two of the
length hold at most 65535): the offsets that the loop visits are the ends of the
encoded TLVs, a TLV is taken if and only if it counts, and what is assigned from
TLV `i` on is what the last TLV of each type from `i` on says.

**BridgeObjects, LeakRoutes** (`BridgeAssumption`: no id is a slash, and a root
without the slashes at its end is a path; `LeakRoutesAssumption`: no sensor has
the name of one of the two fixed resources). `RegistryInv`: the mapper holds known paths with
all their interfaces, and from the second step on the registered ones.
`RoutesInv`: links handed out, and the call under way, are of the right chassis
and of a sensor, and the last answer is what the objects on the bus made it.
`SubTreeIsByName` compares paths by the names that `NamesOf` splits them into,
`pathIsUnder` by a prefix and the character behind it. That two paths are alike
up to a slash if and only if the names are alike (`UnderIsByName`) rests on where
in a path its n-th name stands (`WhereNext`).

**OemRequests** (`OemAssumption`: any sequence of sets of requests whose bodies are
documents, any envelopes).
`AnswersInv`: the calls that the bridge has not seen differ (`CallsDiffer`), each
has an envelope and no job, and its client was told nothing or to come again
(`CallsAreOpen`): so the answer to a call can neither contradict an earlier one
nor be given twice. `OemNext` is `RequestsNext` with one conjunct more, so that
these hold of it too (`StoringIsNoRequest`).

**SensorExtract, OemActions** (`ExtractAssumption`: each name that fits a
measurement rule has one of the three sensors). `NearestSeverityOfTheLast` is about
documents of every depth and shape. `Tells` relates a list of reports to a set of
places: the last report on the sensor is what the last place says, and without a
place there is none. It holds of what a node finds in itself (`OwnTells`), of a
number in an object (`NumberTells`), and passes from two lists to their
concatenation if the places of the first are before those of the second
(`BothTell`, `AllTell`), which in document order they are (`MembersInOrder`). A call
carries the name and the severity that its place has in the reference
(`Proper`, `MemberIsProper`, from `NameOfMember` and `SeverityOfMember`); so every
call tells of the places below its own (`CallTells`), from the deepest up, and a
job of those in its envelopes (`JobTells`). `Writes` says the same of the records
while `drainOne` stores the reports (`DrainOneWrites`). That only documents with an
envelope come to the worker is `QueueInv`, for which `AnswersInv` is needed.

**Logger, Process** (`LoggerAssumption`, `ProcessAssumption`). `LockInv`: who owns
a lock has a call on its stack that took it. `LifeInv` says for each place of
`main()` which members are alive (`MembersInv`), and when the two threads may
exist (`SubscriberInv`, `WorkerInv`); the order of destruction is in it.

**A precondition the proofs found.** `SubscribersKnow` and `AnnouncedIsTold`
except a `HOST_STATE` record without `device_power_state`: a notification of
such a record is passed over (`update_engine.cpp:193`), and the mirror keeps what
it showed until a restart, which does read the record (`state_manager.cpp:105`).
The inductive step failed on it; `host_mirror` now writes such a record too.
The two also except the loss of a connection (`listening`, `rereading`).

**Only model-checked.**

* Liveness (`EveryRequestLeaves`, `OutcomeReleases`, `AnnouncedIsTold`,
  `EveryJobEnds`, `LeakIsReported`, `TermEnds`) and the fairness part of
  `ImplementsDispatch`: the prover handles neither fairness nor `ENABLED`.

**Recursive functions.** The library's induction theorems cannot be used, since
they take an operator as a parameter. What `parseTlv`, `FlattenSeq`, `NamesOf`,
`extractSensors` and `drainOne` compute is proved for every input all the same:
these are recursive functions; that one exists is shown by taking the domain for
which it does and the least place at which that would fail, and what it computes
likewise, by the least counterexample (`LeastExists`, `LoopExists`,
`FlattenExists`, `NamesExist`, `ExtractIs`, `DrainedExists`). The recursion of
`extractSensors` ends because the places of a document, being finite in number,
have a greatest length (`DepthExists`).

## What is abstracted or left out

* Ids of two incarnations differ: a restart takes longer than the second that
  the id's timestamp resolves (hazard at `redis_state_publisher.cpp:166`).
* A handler that sets a D-Bus property does so at once, and `PropertiesChanged`
  is emitted only if the value changed (sdbusplus, external). The data races of
  the exporter between the main and the subscriber thread are listed as hazards.
* When the receiver's connection breaks, any number of the pipelined writes may
  have been executed. Redis itself does not lose data. `fieldsPersisted_` counts
  replies for the log only and is left out.
* One variable, `rereading`, stands for two connections of the bridge: a notified
  hash is found only over both, and the seed is read before the subscriber opens
  its own. Redis answers a `HGETALL` of a hash with the hash; a broken connection
  is the only reason for a read that finds nothing. In `LeakSensors` the
  subscriber's connection for reading is part of `subscriber`, since losing it
  does what the end of the loop does.
* `BridgeObjects` lists paths and interfaces, not the service names behind them.
* `OemRequests`: the envelopes are one operator for bmcweb and the bridge. That
  nlohmann's and jsoncpp's parsers, and the patterns of the two, find the same
  envelopes is assumed; that each side tests for one before it goes on is checked.
* In `Inventory`, writes of the bare subscribed keys are an assumed input: no
  writer of them is in the repository.
* `OemActions`: exceptions of jsoncpp on JSON that bmcweb's parser accepts (depth,
  numbers) answer the call with an error, which is 503 for the client; they are
  left out. A `platform.json` that is JSON of an unexpected shape throws and ends
  the start, which is `SetUpFails` in `Process`.
* `FruTlv`: a TLV without value at the very end of the file takes the address
  `&data[size]` without reading it, and is taken as an empty value.
* `LeakRoutes`: the properties in a detector's answer, the decoding of D-Bus path
  names, and the branch for EIO (an empty collection): the bridge's mapper and
  the bus answer a failing call with other errors.
* `Process`: a second SIGTERM and signals after the exit, which the default
  action ends; SIGUSR1/2 restart interrupted calls (`SA_RESTART`, the default of
  `signal()`).
* The JSON and command-line parsers, property getters that return a stored
  value, text formats, the configuration, the health report, the launcher of
  bmcweb, D-Bus introspection and the vendored patches to bmcweb are not
  modelled; `PROJECT.json` gives the reason for each component.

## Plan

Done: 1. `HostStateMapping`, `StateManager`, `CommandDispatch`, with proofs;
2. `PowerControl`; 3. `RackManagerReceiver`, `OrderedIngest`; 4. `LeakSensors`;
5. `UserAccess`, `Inventory`, `BridgeObjects`, `SensorExtract`; 6. `HostEvents`,
`LeakRoutes`, `OemActions`, `FruTlv`, `Logger`, `Process`; 7. `OemRequests` and
the proofs of state and routes; 8. the safety part of what liveness rests on
(`NoJobIsLeft`; `SlotConsistent`: a request that waits has a timer or a command
before it); the recursive functions `parseTlv` and `NamesOf`; 9. documents by
places in `OemRequests` and `SensorExtract`, and the proof of what
`extractSensors` and `drainOne` leave in STATE_DB.

Left: liveness stays with the model checker, and the section above lists what is
not modelled.
