------------------------------- MODULE Process --------------------------------
(***************************************************************************)
(* The life of the sonic-dbus-bridge process: main() with BridgeApp's      *)
(* initialize(), run(), shutdown() and destructor (main.cpp,               *)
(* bridge_app.cpp), the thread of RedisStateSubscriber and its stop()      *)
(* (redis_state_subscriber.cpp), the worker of RackManagerReceiver and its *)
(* destructor (rack_manager_receiver.cpp), and the logger under all three. *)
(*                                                                         *)
(* What the threads compute is the subject of the other modules; here it   *)
(* is where they wait, what they use, and who may be gone by then.  After  *)
(* a step that logs the thread goes on when the LOG call has returned; one *)
(* call stands for the LOG lines on the way to the next place to wait.     *)
(*                                                                         *)
(* A definition whose name ends in _ is a faulty variant of the one after  *)
(* it: the property that notices the fault is named with it.               *)
(***************************************************************************)
EXTENDS Logger

CONSTANTS
  Budgets   (* bounds: what may happen in one life of the process; jobs for  *)
            (* the worker, changes of Redis, calls that ask Redis or throw,  *)
            (* log signals                                                   *)

ASSUME ProcessAssumption ==
  /\ Thread = {"main", "subscriber", "worker"}
  /\ Budgets \subseteq [jobs : Nat, redis : Nat, calls : Nat, signals : Nat]

VARIABLES
  main,         (* where main() is                                           *)
  subscriber,   (* where subscriberLoop() is                                 *)
  worker,       (* where workerLoop() is                                     *)
  terminating,  (* SIGTERM or SIGINT arrived                                 *)
  exitCode,     (* what main() is going to return: "none", "success",        *)
                (* "failure"                                                 *)
  running,      (* RedisStateSubscriber::running_                            *)
  contexts,     (* its two connections: "none", "open", "freed"              *)
  stopping,     (* RackManagerReceiver::stopping_                            *)
  jobs,         (* the length of its queue_                                  *)
  redisCtx,     (* its connection                                            *)
  alive,        (* the members of BridgeApp that exist                       *)
  redis,        (* "up", "silent": it answers nobody, or "gone": connections *)
                (* are broken, and new ones refused                          *)
  notified,     (* a keyspace notification is on its way                     *)
  budget        (* what is left of the bounds                                *)

placeVars == <<main, subscriber, worker>>
endVars == <<terminating, exitCode, alive>>
subscriberVars == <<running, contexts>>
receiverVars == <<stopping, jobs, redisCtx>>
redisVars == <<redis, notified>>

vars == <<placeVars, endVars, subscriberVars, receiverVars, redisVars, budget, loggerVars>>

(* BridgeApp's members that matter here, as they are declared: they are
   destroyed in the reverse order. *)
EngineLast_ == <<"io_", "redisSubscriber_", "updateEngine_", "rackManagerReceiver_">>   (* CallbacksAreSafe *)
Members == <<"io_", "updateEngine_", "redisSubscriber_", "rackManagerReceiver_">>

LastAlive == CHOOSE m \in alive : \A i, j \in DOMAIN Members :
               Members[i] = m /\ Members[j] \in alive => j <= i

Init ==
  /\ main = "setUp" /\ subscriber = "none" /\ worker = "none"
  /\ terminating = FALSE /\ exitCode = "none" /\ alive = {"io_"}
  /\ running = FALSE /\ contexts = "none"
  /\ stopping = FALSE /\ jobs = 0 /\ redisCtx = "none"
  /\ redis \in {"up", "silent", "gone"} /\ notified = FALSE
  /\ budget \in Budgets
  /\ LoggerInit

Quiet == UNCHANGED loggerVars
Logs(t) == Log(t) /\ UNCHANGED <<lockVars, fileVars>>
Spend(what) == budget[what] > 0 /\ budget' = [budget EXCEPT ![what] = @ - 1]

(* A command of t over an open connection, whose answer has no timeout. *)
Answered == redis # "silent"

-----------------------------------------------------------------------------
(* main(): BridgeApp::initialize(). *)

MainAt(place) == main = place /\ Idle("main")

(* The destructor of a BridgeApp that failed to start. *)
Fail ==
  /\ main' = "unwind" /\ exitCode' = "failure"
  /\ UNCHANGED <<terminating, alive>>

(* The configuration, the D-Bus names or the mapper fail. *)
SetUpFails ==
  /\ MainAt("setUp")
  /\ Fail
  /\ Logs("main")
  /\ UNCHANGED <<subscriber, worker, subscriberVars, receiverVars, redisVars>>

(* The data sources are read, with Redis or without it, and the objects are
   created. *)
SetUp ==
  /\ MainAt("setUp") /\ Answered
  /\ main' = "receiver"
  /\ alive' = alive \cup {"rackManagerReceiver_"}
  /\ Quiet
  /\ UNCHANGED <<subscriber, worker, terminating, exitCode, subscriberVars, receiverVars,
                 redisVars>>

(* RackManagerReceiver::initialize(): without its worker the bridge goes on. *)
StartReceiver ==
  /\ MainAt("receiver")
  /\ worker' \in {"none", "look"}
  /\ alive' = alive \cup {"updateEngine_", "redisSubscriber_"}
  /\ main' = "subscribe"
  /\ Quiet
  /\ UNCHANGED <<subscriber, terminating, exitCode, subscriberVars, receiverVars, redisVars>>

(* startUpdateEngine(): startMultiKey() connects twice, selects the database
   and subscribes; if it fails it frees what it opened, and that is fatal. *)
Subscribe ==
  /\ MainAt("subscribe") /\ Answered
  /\ Logs("main")
  /\ IF redis = "up"
       THEN /\ contexts' = "open" /\ running' = TRUE
            /\ subscriber' = "test"
            /\ main' = "loop"
            /\ UNCHANGED endVars
       ELSE Fail /\ UNCHANGED <<subscriber, subscriberVars>>
  /\ UNCHANGED <<worker, receiverVars, redisVars>>

-----------------------------------------------------------------------------
(* main(): the event loop, and shutdown() in it. *)

(* queueCv_.notify_one(), notify_all() *)
NotifyWorker == worker' = IF worker = "asleep" THEN "look" ELSE worker

Submit ==
  /\ MainAt("loop") /\ worker # "none"
  /\ Spend("jobs")
  /\ jobs' = jobs + 1
  /\ NotifyWorker
  /\ Logs("main")
  /\ UNCHANGED <<main, subscriber, endVars, subscriberVars, stopping, redisCtx, redisVars>>

(* A D-Bus method or a timer whose handler asks Redis: a command to publish,
   the list of users that may log in. *)
AskRedis ==
  /\ MainAt("loop")
  /\ Spend("calls")
  /\ main' = "askRedis"
  /\ Quiet
  /\ UNCHANGED <<subscriber, worker, endVars, subscriberVars, receiverVars, redisVars>>

RedisTells ==
  /\ MainAt("askRedis") /\ Answered
  /\ main' = "loop"
  /\ Quiet
  /\ UNCHANGED <<subscriber, worker, endVars, subscriberVars, receiverVars, redisVars>>

(* run() catches what a handler throws. *)
LoopFails ==
  /\ MainAt("loop")
  /\ Spend("calls")
  /\ Fail
  /\ Logs("main")
  /\ UNCHANGED <<subscriber, worker, subscriberVars, receiverVars, redisVars>>

TakeSigTerm ==
  /\ MainAt("loop") /\ terminating /\ exitCode = "none"
  /\ main' = "stop"
  /\ Quiet
  /\ UNCHANGED <<subscriber, worker, endVars, subscriberVars, receiverVars, redisVars>>

(* RedisStateSubscriber::stop(): called by shutdown() and by the destructor. *)
AfterStop == IF exitCode = "none" THEN "leaveLoop" ELSE "destroyed"

KeepRunning_ == running' = running   (* TermEnds *)
TellSubscriber == running' = FALSE

Stop ==
  /\ MainAt("stop")
  /\ IF running
       THEN TellSubscriber /\ main' = "joinSubscriber" /\ Logs("main")
       ELSE main' = AfterStop /\ Quiet /\ UNCHANGED running
  /\ UNCHANGED <<subscriber, worker, endVars, contexts, receiverVars, redisVars>>

JoinSubscriber ==
  /\ MainAt("joinSubscriber") /\ subscriber = "ended"
  /\ contexts' = "freed"
  /\ main' = AfterStop
  /\ Logs("main")
  /\ UNCHANGED <<subscriber, worker, endVars, running, receiverVars, redisVars>>

(* updateEngine_->stop() and io_.stop(): run() returns. *)
LeaveLoop ==
  /\ MainAt("leaveLoop")
  /\ exitCode' = "success"
  /\ main' = "unwind"
  /\ Quiet
  /\ UNCHANGED <<subscriber, worker, terminating, alive, subscriberVars, receiverVars, redisVars>>

-----------------------------------------------------------------------------
(* main(): BridgeApp's destructor, member by member. *)

Unwind ==
  /\ MainAt("unwind") /\ alive # {}
  /\ main' = CASE LastAlive = "rackManagerReceiver_" -> "stopWorker"
               [] LastAlive = "redisSubscriber_" -> "stop"
               [] OTHER -> "destroyed"
  /\ Quiet
  /\ UNCHANGED <<subscriber, worker, endVars, subscriberVars, receiverVars, redisVars>>

Destroyed ==
  /\ MainAt("destroyed")
  /\ alive' = alive \ {LastAlive}
  /\ main' = "unwind"
  /\ Quiet
  /\ UNCHANGED <<subscriber, worker, terminating, exitCode, subscriberVars, receiverVars, redisVars>>

StopWorker ==
  /\ MainAt("stopWorker")
  /\ stopping' = TRUE
  /\ NotifyWorker
  /\ main' = "joinWorker"
  /\ Quiet
  /\ UNCHANGED <<subscriber, endVars, subscriberVars, jobs, redisCtx, redisVars>>

JoinWorker ==
  /\ MainAt("joinWorker") /\ worker \in {"none", "ended"}
  /\ redisCtx' = IF redisCtx = "none" THEN "none" ELSE "freed"
  /\ main' = "destroyed"
  /\ Quiet
  /\ UNCHANGED <<subscriber, worker, endVars, subscriberVars, stopping, jobs, redisVars>>

Exit ==
  /\ MainAt("unwind") /\ alive = {}
  /\ main' = "exited"
  /\ Quiet
  /\ UNCHANGED <<subscriber, worker, endVars, subscriberVars, receiverVars, redisVars>>

Main ==
  \/ SetUpFails \/ SetUp \/ StartReceiver \/ Subscribe
  \/ RedisTells \/ TakeSigTerm
  \/ Stop \/ JoinSubscriber \/ LeaveLoop
  \/ Unwind \/ Destroyed \/ StopWorker \/ JoinWorker \/ Exit

-----------------------------------------------------------------------------
(* The subscriber's thread: subscriberLoop(). *)

SubscriberAt(place) == subscriber = place /\ Idle("subscriber")
SubscriberGoes(place) ==
  /\ subscriber' = place
  /\ UNCHANGED <<main, worker, endVars, subscriberVars, receiverVars, redis>>

TestRunning ==
  /\ SubscriberAt("test")
  /\ SubscriberGoes(IF running THEN "wait" ELSE "end")
  /\ Quiet
  /\ UNCHANGED notified

(* redisGetReply(): it has no timeout, and the handlers of SIGUSR1 and SIGUSR2
   do not interrupt it (SA_RESTART).  A message other than hset is skipped. *)
GetReply ==
  /\ SubscriberAt("wait") /\ notified
  /\ notified' = FALSE
  /\ \E place \in {"read", "test"} : SubscriberGoes(place)
  /\ Quiet

ReplyFails ==
  /\ SubscriberAt("wait") /\ ~notified /\ redis = "gone"
  /\ SubscriberGoes("end")
  /\ Logs("subscriber")
  /\ UNCHANGED notified

(* hgetall() over getContext_: nothing comes of it when the connection is lost
   or the key is gone. *)
ReadHash ==
  /\ SubscriberAt("read") /\ Answered
  /\ \/ redis = "up" /\ SubscriberGoes("callback")
     \/ SubscriberGoes("test")
  /\ Logs("subscriber")
  /\ UNCHANGED notified

(* updateEngine_->onRedisFieldChange(), which reads Redis over the adapter's
   connection: once per field of the hash. *)
CallBack ==
  /\ SubscriberAt("callback") /\ Answered
  /\ SubscriberGoes("test")
  /\ Logs("subscriber")
  /\ UNCHANGED notified

SubscriberEnds ==
  /\ SubscriberAt("end")
  /\ SubscriberGoes("ended")
  /\ Quiet
  /\ UNCHANGED notified

Subscriber ==
  TestRunning \/ GetReply \/ ReplyFails \/ ReadHash \/ CallBack \/ SubscriberEnds

-----------------------------------------------------------------------------
(* The receiver's thread: workerLoop() and drainOne(). *)

WorkerAt(place) == worker = place /\ Idle("worker")
WorkerGoes(place) ==
  /\ worker' = place
  /\ UNCHANGED <<main, subscriber, endVars, subscriberVars, stopping, redisVars>>

PopAnyway_ == jobs' = jobs - 1   (* ProcessTypeOK *)
PopIfAny == jobs' = IF jobs > 0 THEN jobs - 1 ELSE 0

Look ==
  /\ WorkerAt("look")
  /\ WorkerGoes(IF jobs > 0 THEN "drain" ELSE IF stopping THEN "ended" ELSE "asleep")
  /\ PopIfAny
  /\ Quiet
  /\ UNCHANGED redisCtx

(* connectRedis(), unless it is connected, or the pipeline is written. *)
Drain ==
  /\ WorkerAt("drain")
  /\ redisCtx = "none" => Answered
  /\ IF redisCtx = "none" /\ redis = "gone"
       THEN WorkerGoes("look") /\ Logs("worker") /\ UNCHANGED redisCtx
       ELSE WorkerGoes("replies") /\ Quiet /\ redisCtx' = "open"
  /\ UNCHANGED jobs

(* The replies of the pipeline; when they fail the connection is dropped. *)
ReadReplies ==
  /\ WorkerAt("replies") /\ Answered
  /\ redisCtx' = IF redis = "gone" THEN "none" ELSE "open"
  /\ WorkerGoes("look")
  /\ Logs("worker")
  /\ UNCHANGED jobs

Worker == Look \/ Drain \/ ReadReplies

-----------------------------------------------------------------------------
(* Around the process. *)

SigTerm ==
  /\ ~terminating /\ main # "exited"
  /\ terminating' = TRUE
  /\ Quiet
  /\ UNCHANGED <<placeVars, exitCode, alive, subscriberVars, receiverVars, redisVars>>

RedisChanges ==
  /\ redis # "gone"
  /\ Spend("redis")
  /\ redis' \in {"up", "silent", "gone"} \ {redis}
  /\ Quiet
  /\ UNCHANGED <<placeVars, endVars, subscriberVars, receiverVars, notified>>

Notify ==
  /\ redis = "up" /\ contexts = "open"
  /\ ~notified
  /\ notified' = TRUE
  /\ Quiet
  /\ UNCHANGED <<placeVars, endVars, subscriberVars, receiverVars, redis>>

Started(t) ==
  CASE t = "main" -> main # "exited"
    [] t = "subscriber" -> subscriber \notin {"none", "ended"}
    [] t = "worker" -> worker \notin {"none", "ended"}

LogSignals ==
  /\ Spend("signals")
  /\ \E t \in Thread, s \in Signal : Started(t) /\ HandleLogSignal(t, s)
  /\ UNCHANGED <<placeVars, endVars, subscriberVars, receiverVars, redisVars>>

LogStep(t) ==
  /\ LoggerStep(t)
  /\ UNCHANGED <<placeVars, endVars, subscriberVars, receiverVars, redisVars>>

Step(t) ==
  /\ UNCHANGED budget
  /\ \/ LogStep(t)
     \/ t = "main" /\ Main
     \/ t = "subscriber" /\ Subscriber
     \/ t = "worker" /\ Worker

(* What reaches the process from outside, or never does. *)
Outside ==
  \/ UNCHANGED budget /\ (SigTerm \/ Notify)
  \/ Submit \/ AskRedis \/ LoopFails \/ RedisChanges \/ LogSignals

Next == Outside \/ \E t \in Thread : Step(t)

(* The system schedules every thread, and gives a lock to each that waits for
   it in the end; the event loop gets to the signal that is queued for it,
   whatever else arrives.  Nothing is assumed of Redis. *)
Spec == Init /\ [][Next]_vars
FairSpec ==
  /\ Spec
  /\ \A t \in Thread : WF_vars(Step(t)) /\ SF_vars(UNCHANGED budget /\ LogStep(t))
  /\ SF_vars(UNCHANGED budget /\ TakeSigTerm)

-----------------------------------------------------------------------------
(***************************************************************************)
(* Properties                                                              *)
(***************************************************************************)

ProcessTypeOK ==
  /\ LoggerTypeOK
  /\ main \in {"setUp", "receiver", "subscribe", "loop", "askRedis", "stop",
              "joinSubscriber", "leaveLoop", "unwind", "destroyed",
              "stopWorker", "joinWorker", "exited"}
  /\ subscriber \in {"none", "test", "wait", "read", "callback", "end", "ended"}
  /\ worker \in {"none", "look", "asleep", "drain", "replies", "ended"}
  /\ terminating \in BOOLEAN /\ exitCode \in {"none", "success", "failure"}
  /\ running \in BOOLEAN /\ contexts \in {"none", "open", "freed"}
  /\ stopping \in BOOLEAN /\ jobs \in Nat
  /\ redisCtx \in {"none", "open", "freed"}
  /\ alive \subseteq {"io_", "updateEngine_", "redisSubscriber_", "rackManagerReceiver_"}
  /\ redis \in {"up", "silent", "gone"} /\ notified \in BOOLEAN
  /\ budget \in [jobs : Nat, redis : Nat, calls : Nat, signals : Nat]

(***************************************************************************)
(* Neither thread outlives what it uses, on every way out: a failed start, *)
(* a throwing handler, a signal.  The subscriber's callback captures the   *)
(* application and calls the update engine and, through it, the event      *)
(* loop; its connections are freed only when it has ended.  The worker     *)
(* needs the receiver and its connection.  No thread is left behind when   *)
(* the process exits.                                                      *)
(***************************************************************************)
CallbacksAreSafe ==
  /\ Started("subscriber") =>
       /\ contexts = "open"
       /\ {"io_", "updateEngine_", "redisSubscriber_"} \subseteq alive
  /\ Started("worker") => redisCtx # "freed" /\ "rackManagerReceiver_" \in alive
  /\ main = "exited" => ~Started("subscriber") /\ ~Started("worker")

(* A thread waits for Redis, which does not owe it an answer: a notification,
   while the connection stands, or a reply, while Redis is silent. *)
WaitsForRedis ==
  \/ SubscriberAt("wait") /\ ~notified /\ redis # "gone"
  \/ redis = "silent"

(***************************************************************************)
(* SIGTERM ends a bridge that got as far as the event loop, and so does a  *)
(* failed start: the one thing that can hold the exit up, apart from       *)
(* threads deadlocked by a log signal, is a thread that waits for Redis    *)
(* for ever.  That is stop()'s join: shutdown lasts until Redis notifies,  *)
(* answers, or goes away.                                                  *)
(***************************************************************************)
TermEnds ==
  \/ <>[]WaitsForRedis
  \/ (main # "exited" /\ (terminating \/ exitCode = "failure")) ~>
       (main = "exited" \/ Deadlocked # {})
=============================================================================
