--------------------------- MODULE Process_proofs ---------------------------
(***************************************************************************)
(* Proofs about the process and its logger: types, who may be gone when a  *)
(* thread runs, and what it takes to deadlock in the logger.               *)
(***************************************************************************)
EXTENDS Process, SequenceTheorems, TLAPS

-----------------------------------------------------------------------------
(***************************************************************************)
(* The inductive invariants                                                *)
(***************************************************************************)

(* The calls on a thread's stack. *)
CallsOf(calls) == {calls[i] : i \in DOMAIN calls}

HoldsFile(call) ==
  \/ call.at = "locked"
  \/ call.of \in Signal /\ call.at \in {"syslog", "inSyslog"}
HoldsSyslog(call) == call.at = "inSyslog"

(* Whoever owns a lock has a call on its stack that took it and has not given
   it back. *)
LockInv ==
  /\ fileMutex # NoThread => \E c \in CallsOf(stack[fileMutex]) : HoldsFile(c)
  /\ syslogLock # NoThread => \E c \in CallsOf(stack[syslogLock]) : HoldsSyslog(c)

(* The members of BridgeApp, after each step of its destructor. *)
OnlyLoop == {"io_"}
WithEngine == {"io_", "updateEngine_"}
WithSubscriber == {"io_", "updateEngine_", "redisSubscriber_"}
Complete == {"io_", "updateEngine_", "redisSubscriber_", "rackManagerReceiver_"}

(* Which members exist where main() is, and whether it is on its way out. *)
MembersInv ==
  /\ main = "setUp" => alive = OnlyLoop
  /\ main = "receiver" => alive = {"io_", "rackManagerReceiver_"}
  /\ main \in {"subscribe", "loop", "askRedis", "leaveLoop", "stopWorker", "joinWorker"}
       => alive = Complete
  /\ main \in {"stop", "joinSubscriber"}
       => alive = IF exitCode = "none" THEN Complete ELSE WithSubscriber
  /\ main = "unwind" => alive \in {Complete, WithSubscriber, WithEngine, OnlyLoop, {}}
  /\ main = "destroyed" => alive \in {Complete, WithSubscriber, WithEngine, OnlyLoop}
  /\ main = "exited" => alive = {}
  /\ main \in {"setUp", "receiver", "subscribe", "loop", "askRedis", "leaveLoop"}
       => exitCode = "none"
  /\ main \in {"unwind", "destroyed", "stopWorker", "joinWorker", "exited"}
       => exitCode # "none"

(* The subscriber's thread exists from Subscribe to JoinSubscriber, and only
   stop() waits for it once it was told to end. *)
SubscriberInv ==
  /\ main \in {"setUp", "receiver", "subscribe"} =>
       subscriber = "none" /\ ~running /\ contexts = "none"
  /\ Started("subscriber") => contexts = "open"
  /\ ~running /\ main # "joinSubscriber" => ~Started("subscriber")
  /\ main = "destroyed" /\ alive = WithSubscriber => ~Started("subscriber")
  /\ main \notin {"setUp", "receiver"} /\ "redisSubscriber_" \notin alive =>
       ~Started("subscriber")

(* The worker exists from StartReceiver to JoinWorker at the latest. *)
WorkerInv ==
  /\ main \in {"setUp", "receiver"} => worker = "none" /\ redisCtx = "none"
  /\ main = "destroyed" /\ alive = Complete => ~Started("worker")
  /\ "rackManagerReceiver_" \notin alive => ~Started("worker")
  /\ redisCtx = "freed" => ~Started("worker")

LifeInv == MembersInv /\ SubscriberInv /\ WorkerInv
-----------------------------------------------------------------------------
(***************************************************************************)
(* What the operators on stacks do                                         *)
(***************************************************************************)

Places == {"syslog", "inSyslog", "lock", "locked"}

(* The topmost call of a thread that has one. *)
LEMMA TopOfStack ==
  ASSUME stack \in [Thread -> Seq(Call)], NEW t \in Thread, ~Idle(t)
  PROVE  /\ Top(t) \in Call
         /\ Top(t) = stack[t][1]
         /\ 1 \in DOMAIN stack[t]
         /\ Top(t) \in CallsOf(stack[t])
<1>1. stack[t] \in Seq(Call) /\ stack[t] # <<>>
  BY DEF Idle
<1>2. Len(stack[t]) \in Nat \ {0} /\ DOMAIN stack[t] = 1 .. Len(stack[t])
  BY <1>1, EmptySeq, LenProperties
<1>3. 1 \in DOMAIN stack[t]
  BY <1>2
<1>4. Top(t) = stack[t][1]
  BY <1>1 DEF Top
<1>5. Top(t) \in Call
  BY <1>1, HeadTailProperties DEF Top
<1>. QED
  BY <1>3, <1>4, <1>5 DEF CallsOf

(* The topmost call goes on; the calls under it stay where they are. *)
LEMMA GotoEffect ==
  ASSUME stack \in [Thread -> Seq(Call)], NEW t \in Thread, ~Idle(t),
         NEW place \in Places, Goto(t, place)
  PROVE  /\ stack' \in [Thread -> Seq(Call)]
         /\ \A u \in Thread \ {t} : stack'[u] = stack[u]
         /\ [Top(t) EXCEPT !.at = place] \in CallsOf(stack'[t])
         /\ \A c \in CallsOf(stack[t]) : c = Top(t) \/ c \in CallsOf(stack'[t])
<1> DEFINE new == [Top(t) EXCEPT !.at = place]
<1>1. /\ Top(t) \in Call /\ Top(t) = stack[t][1]
      /\ 1 \in DOMAIN stack[t] /\ stack[t] \in Seq(Call)
  BY TopOfStack
<1>2. new \in Call
  BY <1>1 DEF Call, Places
<1>3. stack' = [stack EXCEPT ![t] = [stack[t] EXCEPT ![1] = new]]
  BY <1>1 DEF Goto
<1>4. /\ 1 \in 1 .. Len(stack[t])
      /\ DOMAIN stack[t] = 1 .. Len(stack[t])
  BY <1>1, LenProperties
<1> HIDE DEF new
<1>5. [stack[t] EXCEPT ![1] = new] \in Seq(Call)
  BY <1>1, <1>2, <1>4, ExceptSeq
<1>6. stack' \in [Thread -> Seq(Call)]
  BY <1>3, <1>5
<1>7. /\ stack'[t] = [stack[t] EXCEPT ![1] = new]
      /\ \A u \in Thread \ {t} : stack'[u] = stack[u]
  BY <1>3
<1>8. DOMAIN stack'[t] = DOMAIN stack[t] /\ stack'[t][1] = new
  BY <1>1, <1>7
<1>9. \A i \in DOMAIN stack[t] \ {1} : stack'[t][i] = stack[t][i]
  BY <1>7
<1>10. new \in CallsOf(stack'[t])
  BY <1>1, <1>8 DEF CallsOf
<1>11. \A c \in CallsOf(stack[t]) : c = Top(t) \/ c \in CallsOf(stack'[t])
  BY <1>1, <1>8, <1>9 DEF CallsOf
<1>. QED
  BY <1>6, <1>7, <1>10, <1>11 DEF new

(* The topmost call is over; the calls under it stay. *)
LEMMA ReturnEffect ==
  ASSUME stack \in [Thread -> Seq(Call)], NEW t \in Thread, ~Idle(t), Return(t)
  PROVE  /\ stack' \in [Thread -> Seq(Call)]
         /\ \A u \in Thread \ {t} : stack'[u] = stack[u]
         /\ \A c \in CallsOf(stack[t]) : c = Top(t) \/ c \in CallsOf(stack'[t])
<1>1. /\ Top(t) = stack[t][1]
      /\ stack[t] \in Seq(Call) /\ stack[t] # <<>>
  BY TopOfStack DEF Idle
<1>2. stack' = [stack EXCEPT ![t] = Tail(stack[t])]
  BY DEF Return
<1>3. /\ Tail(stack[t]) \in Seq(Call)
      /\ Len(Tail(stack[t])) = Len(stack[t]) - 1
      /\ \A i \in 1 .. Len(Tail(stack[t])) : Tail(stack[t])[i] = stack[t][i+1]
  BY <1>1, HeadTailProperties
<1>4. /\ stack' \in [Thread -> Seq(Call)]
      /\ stack'[t] = Tail(stack[t])
      /\ \A u \in Thread \ {t} : stack'[u] = stack[u]
  BY <1>2, <1>3
<1>5. ASSUME NEW c \in CallsOf(stack[t]), c # Top(t)
      PROVE  c \in CallsOf(Tail(stack[t]))
  <2>1. PICK i \in DOMAIN stack[t] : c = stack[t][i]
    BY <1>5 DEF CallsOf
  <2>2. i # 1
    BY <1>1, <1>5, <2>1
  <2>3. DOMAIN stack[t] = 1 .. Len(stack[t]) /\ Len(stack[t]) \in Nat
    BY <1>1, LenProperties
  <2>4. /\ DOMAIN Tail(stack[t]) = 1 .. Len(Tail(stack[t]))
        /\ Len(Tail(stack[t])) \in Nat
    BY <1>3, LenProperties
  <2>5. i - 1 \in 1 .. Len(Tail(stack[t])) /\ (i - 1) + 1 = i
    BY <1>3, <2>1, <2>2, <2>3
  <2>6. Tail(stack[t])[i - 1] = stack[t][i]
    BY <1>3, <2>5
  <2>. QED
    BY <2>1, <2>4, <2>5, <2>6 DEF CallsOf
<1>. QED
  BY <1>4, <1>5

(* A handler starts on top of the calls there are. *)
LEMMA PushEffect ==
  ASSUME stack \in [Thread -> Seq(Call)], NEW t \in Thread, NEW s \in Signal,
         HandleLogSignal(t, s)
  PROVE  /\ stack' \in [Thread -> Seq(Call)]
         /\ \A u \in Thread \ {t} : stack'[u] = stack[u]
         /\ CallsOf(stack[t]) \subseteq CallsOf(stack'[t])
<1> DEFINE new == [of |-> s, at |-> "lock"]
<1>1. new \in Call
  BY DEF Call
<1>2. stack' = [stack EXCEPT ![t] = <<new>> \o stack[t]]
  BY DEF HandleLogSignal
<1> HIDE DEF new
<1>3. stack[t] \in Seq(Call)
  OBVIOUS
<1>4. <<new>> \in Seq(Call) /\ Len(<<new>>) = 1
  BY <1>1
<1>5. <<new>> \o stack[t] \in Seq(Call)
  BY <1>3, <1>4, ConcatProperties
<1>6. /\ Len(<<new>> \o stack[t]) = 1 + Len(stack[t])
      /\ \A i \in 1 .. 1 + Len(stack[t]) :
           (<<new>> \o stack[t])[i] = IF i <= 1 THEN <<new>>[i] ELSE stack[t][i - 1]
  <2>1. /\ Len(<<new>> \o stack[t]) = Len(<<new>>) + Len(stack[t])
        /\ \A i \in 1 .. Len(<<new>>) + Len(stack[t]) :
             (<<new>> \o stack[t])[i] =
               IF i <= Len(<<new>>) THEN <<new>>[i] ELSE stack[t][i - Len(<<new>>)]
    BY <1>3, <1>4, ConcatProperties
  <2>. QED
    BY <1>4, <2>1
<1>7. /\ stack' \in [Thread -> Seq(Call)]
      /\ stack'[t] = <<new>> \o stack[t]
      /\ \A u \in Thread \ {t} : stack'[u] = stack[u]
  BY <1>2, <1>5
<1>8. ASSUME NEW i \in DOMAIN stack[t]
      PROVE  stack[t][i] \in CallsOf(<<new>> \o stack[t])
  <2>1. DOMAIN stack[t] = 1 .. Len(stack[t]) /\ Len(stack[t]) \in Nat
    BY <1>3, LenProperties
  <2>2. DOMAIN (<<new>> \o stack[t]) = 1 .. 1 + Len(stack[t])
    BY <1>5, <1>6, LenProperties
  <2>3. /\ i + 1 \in 1 .. 1 + Len(stack[t])
        /\ ~(i + 1 <= 1) /\ (i + 1) - 1 = i
    BY <2>1
  <2>4. (<<new>> \o stack[t])[i + 1] = stack[t][i]
    BY <1>6, <2>3
  <2>. QED
    BY <2>2, <2>3, <2>4 DEF CallsOf
<1>9. CallsOf(stack[t]) \subseteq CallsOf(<<new>> \o stack[t])
  BY <1>8 DEF CallsOf
<1>. QED
  BY <1>7, <1>9

(* A thread that does nothing else starts to log. *)
LEMMA LogEffect ==
  ASSUME stack \in [Thread -> Seq(Call)], NEW t \in Thread, Idle(t), Log(t)
  PROVE  /\ stack' \in [Thread -> Seq(Call)]
         /\ \A u \in Thread \ {t} : stack'[u] = stack[u]
         /\ CallsOf(stack[t]) = {}
<1> DEFINE new == [of |-> "LOG", at |-> "syslog"]
<1>1. new \in Call
  BY DEF Call
<1>2. stack' = [stack EXCEPT ![t] = <<new>>]
  BY DEF Log
<1> HIDE DEF new
<1>3. <<new>> \in Seq(Call)
  BY <1>1
<1>4. CallsOf(stack[t]) = {}
  BY DEF Idle, CallsOf
<1>. QED
  BY <1>2, <1>3, <1>4

(* Every step of the process that touches the logger is a step of one thread:
   it starts to log, its topmost call goes on, or a handler starts. *)
LEMMA LoggerEffect ==
  ASSUME [Next]_vars
  PROVE  \/ UNCHANGED loggerVars
         \/ \E t \in Thread : Idle(t) /\ Logs(t)
         \/ \E t \in Thread : LoggerStep(t)
         \/ \E t \in Thread, s \in Signal : HandleLogSignal(t, s)
<1>1. /\ "main" \in Thread /\ "subscriber" \in Thread /\ "worker" \in Thread
  BY ProcessAssumption
<1>2. CASE UNCHANGED vars
  BY <1>2 DEF vars
<1>3. CASE SigTerm \/ Notify \/ AskRedis \/ RedisChanges
  BY <1>3 DEF SigTerm, Notify, AskRedis, RedisChanges, Quiet
<1>4. CASE Submit \/ LoopFails
  BY <1>1, <1>4 DEF Submit, LoopFails, MainAt
<1>5. CASE LogSignals
  BY <1>5 DEF LogSignals
<1>6. ASSUME NEW t \in Thread, LogStep(t)
      PROVE  LoggerStep(t)
  BY <1>6 DEF LogStep
<1>7. CASE Main
  <2>1. CASE SetUpFails
    BY <1>1, <2>1 DEF SetUpFails, MainAt
  <2>2. CASE SetUp \/ StartReceiver \/ RedisTells \/ TakeSigTerm \/ LeaveLoop
    BY <2>2 DEF SetUp, StartReceiver, RedisTells, TakeSigTerm, LeaveLoop, Quiet
  <2>3. CASE Subscribe
    BY <1>1, <2>3 DEF Subscribe, MainAt
  <2>4. CASE Stop
    BY <1>1, <2>4 DEF Stop, MainAt, Quiet
  <2>5. CASE JoinSubscriber
    BY <1>1, <2>5 DEF JoinSubscriber, MainAt
  <2>6. CASE Unwind \/ Destroyed \/ StopWorker \/ JoinWorker \/ Exit
    BY <2>6 DEF Unwind, Destroyed, StopWorker, JoinWorker, Exit, Quiet
  <2>. QED
    BY <1>7, <2>1, <2>2, <2>3, <2>4, <2>5, <2>6 DEF Main
<1>8. CASE Subscriber
  BY <1>1, <1>8
     DEF Subscriber, TestRunning, GetReply, ReplyFails, ReadHash, CallBack,
         SubscriberEnds, SubscriberAt, Quiet
<1>9. CASE Worker
  BY <1>1, <1>9 DEF Worker, Look, Drain, ReadReplies, WorkerAt, Quiet
<1>. QED
  BY <1>2, <1>3, <1>4, <1>5, <1>6, <1>7, <1>8, <1>9 DEF Next, Outside, Step

-----------------------------------------------------------------------------
(***************************************************************************)
(* The logger                                                              *)
(***************************************************************************)

(* A step keeps the types of the logger. *)
LEMMA LoggerTypeStep ==
  ASSUME LoggerTypeOK, [Next]_vars
  PROVE  LoggerTypeOK'
<1>1. CASE UNCHANGED loggerVars
  BY <1>1 DEF LoggerTypeOK, loggerVars, lockVars, fileVars
<1>2. ASSUME NEW t \in Thread, Idle(t), Logs(t)
      PROVE  LoggerTypeOK'
  BY <1>2, LogEffect DEF LoggerTypeOK, Logs, lockVars, fileVars
<1>3. ASSUME NEW t \in Thread, NEW s \in Signal, HandleLogSignal(t, s)
      PROVE  LoggerTypeOK'
  <2>1. stack' \in [Thread -> Seq(Call)]
    BY <1>3, PushEffect DEF LoggerTypeOK
  <2>. QED
    BY <1>3, <2>1 DEF LoggerTypeOK, HandleLogSignal, lockVars, fileVars
<1>4. ASSUME NEW t \in Thread, LoggerStep(t)
      PROVE  LoggerTypeOK'
  <2>1. ~Idle(t)
    BY <1>4
       DEF LoggerStep, EnterSyslog, LeaveSyslog, LockFile, WriteToFile,
           EnableFileLogging, DisableFileLogging, IsAt
  <2>2. Return(t) \/ \E place \in Places : Goto(t, place)
    BY <1>4
       DEF LoggerStep, EnterSyslog, LeaveSyslog, LockFile, WriteToFile,
           EnableFileLogging, DisableFileLogging, Places
  <2>3. stack' \in [Thread -> Seq(Call)]
    BY <2>1, <2>2, GotoEffect, ReturnEffect DEF LoggerTypeOK
  <2>4. /\ fileMutex' \in {fileMutex, t, NoThread}
        /\ syslogLock' \in {syslogLock, t, NoThread}
    BY <1>4
       DEF LoggerStep, EnterSyslog, LeaveSyslog, LockFile, WriteToFile,
           EnableFileLogging, DisableFileLogging, Unlock
  <2>5. logFile' \in BOOLEAN /\ fileLoggingEnabled' \in BOOLEAN
    BY <1>4
       DEF LoggerTypeOK, LoggerStep, EnterSyslog, LeaveSyslog, LockFile, WriteToFile,
           EnableFileLogging, DisableFileLogging, fileVars
  <2>. QED
    BY <2>3, <2>4, <2>5 DEF LoggerTypeOK
<1>. QED
  BY <1>1, <1>2, <1>3, <1>4, LoggerEffect

(* A step keeps the owners' calls. *)
LEMMA LockStep ==
  ASSUME LoggerTypeOK, LockInv, [Next]_vars
  PROVE  LockInv'
<1>1. stack \in [Thread -> Seq(Call)] /\ fileMutex \in Thread \cup {NoThread}
      /\ syslogLock \in Thread \cup {NoThread} /\ NoThread \notin Thread
  BY LoggerAssumption DEF LoggerTypeOK
<1>2. CASE UNCHANGED loggerVars
  BY <1>2 DEF LockInv, loggerVars, lockVars
<1>3. ASSUME NEW t \in Thread, Idle(t), Logs(t)
      PROVE  LockInv'
  <2>1. /\ \A u \in Thread \ {t} : stack'[u] = stack[u]
        /\ CallsOf(stack[t]) = {}
    BY <1>1, <1>3, LogEffect DEF Logs
  <2>2. fileMutex' = fileMutex /\ syslogLock' = syslogLock
    BY <1>3 DEF Logs, lockVars
  <2>3. fileMutex # t /\ syslogLock # t
    BY <1>1, <2>1 DEF LockInv
  <2>. QED
    BY <1>1, <2>1, <2>2, <2>3 DEF LockInv
<1>4. ASSUME NEW t \in Thread, NEW s \in Signal, HandleLogSignal(t, s)
      PROVE  LockInv'
  <2>1. /\ \A u \in Thread \ {t} : stack'[u] = stack[u]
        /\ CallsOf(stack[t]) \subseteq CallsOf(stack'[t])
    BY <1>1, <1>4, PushEffect
  <2>2. \A u \in Thread : CallsOf(stack[u]) \subseteq CallsOf(stack'[u])
    BY <2>1
  <2>3. fileMutex' = fileMutex /\ syslogLock' = syslogLock
    BY <1>4 DEF HandleLogSignal, lockVars
  <2>. QED
    BY <1>1, <2>2, <2>3 DEF LockInv
<1>5. ASSUME NEW t \in Thread, LoggerStep(t)
      PROVE  LockInv'
  <2>1. ~Idle(t)
    BY <1>5
       DEF LoggerStep, EnterSyslog, LeaveSyslog, LockFile, WriteToFile,
           EnableFileLogging, DisableFileLogging, IsAt
  <2>2. Top(t) \in Call
    BY <1>1, <2>1, TopOfStack
  <2>3. ASSUME NEW place \in Places, Goto(t, place),
               fileMutex' # NoThread =>
                 \/ fileMutex' = fileMutex /\
                      (HoldsFile(Top(t)) => HoldsFile([Top(t) EXCEPT !.at = place]))
                 \/ fileMutex' = t /\ HoldsFile([Top(t) EXCEPT !.at = place]),
               syslogLock' # NoThread =>
                 \/ syslogLock' = syslogLock /\ ~HoldsSyslog(Top(t))
                 \/ syslogLock' = t /\ HoldsSyslog([Top(t) EXCEPT !.at = place])
        PROVE  LockInv'
    <3>1. /\ \A u \in Thread \ {t} : stack'[u] = stack[u]
          /\ [Top(t) EXCEPT !.at = place] \in CallsOf(stack'[t])
          /\ \A c \in CallsOf(stack[t]) : c = Top(t) \/ c \in CallsOf(stack'[t])
      BY <1>1, <2>1, <2>3, GotoEffect
    <3> DEFINE new == [Top(t) EXCEPT !.at = place]
    <3> HIDE DEF new
    <3>2. fileMutex' # NoThread => \E c \in CallsOf(stack'[fileMutex']) : HoldsFile(c)
      <4>1. CASE fileMutex' = fileMutex /\ (HoldsFile(Top(t)) => HoldsFile(new))
        BY <1>1, <3>1, <4>1 DEF LockInv, new
      <4>2. CASE fileMutex' = t /\ HoldsFile(new)
        BY <3>1, <4>2 DEF new
      <4>. QED
        BY <2>3, <4>1, <4>2 DEF new
    <3>3. syslogLock' # NoThread => \E c \in CallsOf(stack'[syslogLock']) : HoldsSyslog(c)
      <4>1. CASE syslogLock' = syslogLock /\ ~HoldsSyslog(Top(t))
        BY <1>1, <3>1, <4>1 DEF LockInv
      <4>2. CASE syslogLock' = t /\ HoldsSyslog(new)
        BY <3>1, <4>2 DEF new
      <4>. QED
        BY <2>3, <4>1, <4>2 DEF new
    <3>. QED
      BY <3>2, <3>3 DEF LockInv
  <2>4. ASSUME Return(t),
               fileMutex' # NoThread => fileMutex' = fileMutex /\ ~HoldsFile(Top(t)),
               syslogLock' # NoThread => syslogLock' = syslogLock /\ ~HoldsSyslog(Top(t))
        PROVE  LockInv'
    <3>1. /\ \A u \in Thread \ {t} : stack'[u] = stack[u]
          /\ \A c \in CallsOf(stack[t]) : c = Top(t) \/ c \in CallsOf(stack'[t])
      BY <1>1, <2>1, <2>4, ReturnEffect
    <3>2. fileMutex' # NoThread => \E c \in CallsOf(stack'[fileMutex']) : HoldsFile(c)
      BY <1>1, <2>4, <3>1 DEF LockInv
    <3>3. syslogLock' # NoThread => \E c \in CallsOf(stack'[syslogLock']) : HoldsSyslog(c)
      BY <1>1, <2>4, <3>1 DEF LockInv
    <3>. QED
      BY <3>2, <3>3 DEF LockInv
  <2>5. CASE EnterSyslog(t)
    BY <2>2, <2>3, <2>5
       DEF EnterSyslog, IsAt, Places, Call, Signal, HoldsFile, HoldsSyslog
  <2>6. CASE LeaveSyslog(t)
    BY <2>2, <2>3, <2>4, <2>6
       DEF LeaveSyslog, IsAt, Places, Call, Signal, HoldsFile, HoldsSyslog
  <2>7. CASE LockFile(t)
    BY <2>2, <2>3, <2>7
       DEF LockFile, IsAt, Places, Call, Signal, HoldsFile, HoldsSyslog
  <2>8. CASE WriteToFile(t)
    BY <2>2, <2>4, <2>8
       DEF WriteToFile, Unlock, IsAt, Call, Signal, HoldsFile, HoldsSyslog
  <2>9. CASE EnableFileLogging(t)
    BY <2>2, <2>3, <2>4, <2>9
       DEF EnableFileLogging, Unlock, IsAt, Places, Call, Signal, HoldsFile, HoldsSyslog
  <2>10. CASE DisableFileLogging(t)
    BY <2>2, <2>3, <2>4, <2>10
       DEF DisableFileLogging, Unlock, IsAt, Places, Call, Signal, HoldsFile, HoldsSyslog
  <2>. QED
    BY <1>5, <2>5, <2>6, <2>7, <2>8, <2>9, <2>10 DEF LoggerStep
<1>. QED
  BY <1>2, <1>3, <1>4, <1>5, LoggerEffect

(* In a state with the owners' calls, threads that block each other for ever
   include one whose handler interrupted a call that held a lock. *)
LEMMA LockInvSuffices ==
  ASSUME LoggerTypeOK, LockInv
  PROVE  OnlyHandlersDeadlock
<1>1. stack \in [Thread -> Seq(Call)] /\ NoThread \notin Thread
  BY LoggerAssumption DEF LoggerTypeOK
<1> SUFFICES ASSUME NEW S \in (SUBSET Thread) \ {{}},
                    \A t \in S : \E u \in S : WaitsFor(t, u),
                    \A t \in S : ~InterruptedHolder(t)
             PROVE  FALSE
  BY DEF OnlyHandlersDeadlock
<1>2. ASSUME NEW u \in S, NEW c \in CallsOf(stack[u]), HoldsLock(c)
      PROVE  c = Top(u)
  <2>1. PICK i \in DOMAIN stack[u] : c = stack[u][i]
    BY <1>2 DEF CallsOf
  <2>2. i = 1
    BY <1>2, <2>1 DEF InterruptedHolder
  <2>3. stack[u] \in Seq(Call) /\ stack[u] # <<>>
    BY <1>1, <2>1
  <2>4. Head(stack[u]) = stack[u][1]
    BY <2>3
  <2>. QED
    BY <2>1, <2>2, <2>4 DEF Top
<1>3. ASSUME NEW u \in S
      PROVE  /\ ~Idle(u) /\ Top(u) \in Call
             /\ Top(u).at \in {"lock", "syslog"}
             /\ Top(u).at = "syslog" => syslogLock \in S
  <2>1. ~Idle(u) /\ Top(u).at \in {"lock", "syslog"}
        /\ (Top(u).at = "syslog" => syslogLock \in S)
    BY <1>3 DEF WaitsFor, IsAt
  <2>. QED
    BY <1>1, <2>1, TopOfStack
<1>4. syslogLock \notin S
  <2> SUFFICES ASSUME syslogLock \in S
               PROVE  FALSE
    OBVIOUS
  <2>1. PICK c \in CallsOf(stack[syslogLock]) : HoldsSyslog(c)
    BY <1>1 DEF LockInv
  <2>2. c = Top(syslogLock) /\ c.at = "inSyslog"
    BY <1>2, <2>1 DEF HoldsSyslog, HoldsLock
  <2>. QED
    BY <1>3, <2>2
<1>5. \E t : t \in S
  OBVIOUS
<1>6. fileMutex \in S
  <2>1. PICK t : t \in S
    BY <1>5
  <2>2. PICK u \in S : WaitsFor(t, u)
    BY <2>1
  <2>. QED
    BY <1>3, <1>4, <2>1, <2>2 DEF WaitsFor, IsAt
<1>7. PICK c \in CallsOf(stack[fileMutex]) : HoldsFile(c)
  BY <1>1, <1>6 DEF LockInv
<1>8. c = Top(fileMutex)
  <2>1. HoldsLock(c)
    BY <1>7 DEF HoldsFile, HoldsLock
  <2>. QED
    BY <1>2, <1>6, <1>7, <2>1
<1>9. Top(fileMutex).at \in {"locked", "syslog", "inSyslog"}
  BY <1>7, <1>8 DEF HoldsFile
<1>. QED
  BY <1>3, <1>4, <1>6, <1>9

-----------------------------------------------------------------------------
(***************************************************************************)
(* Type correctness of the process                                         *)
(***************************************************************************)

(* A step that spends from a bound leaves the others alone. *)
LEMMA SpendType ==
  ASSUME ProcessTypeOK, NEW what \in {"jobs", "redis", "calls", "signals"}, Spend(what)
  PROVE  budget' \in [jobs : Nat, redis : Nat, calls : Nat, signals : Nat]
<1>1. budget \in [jobs : Nat, redis : Nat, calls : Nat, signals : Nat]
  BY DEF ProcessTypeOK
<1>2. budget[what] \in Nat /\ budget[what] > 0
  BY <1>1 DEF Spend
<1>3. budget[what] - 1 \in Nat
  BY <1>2
<1>4. budget' = [budget EXCEPT ![what] = budget[what] - 1]
  BY DEF Spend
<1>. QED
  BY <1>1, <1>3, <1>4

(* A step of the subscriber's thread keeps the types. *)
LEMMA SubscriberTypes ==
  ASSUME ProcessTypeOK, LoggerTypeOK', budget' = budget, notified' \in BOOLEAN,
         NEW place \in {"test", "wait", "read", "callback", "end", "ended"},
         SubscriberGoes(place)
  PROVE  ProcessTypeOK'
<1>1. subscriber' \in {"none", "test", "wait", "read", "callback", "end", "ended"}
  BY DEF SubscriberGoes
<1>. QED
  BY <1>1 DEF ProcessTypeOK, SubscriberGoes, endVars, subscriberVars, receiverVars

(* A step of the worker keeps the types. *)
LEMMA WorkerTypes ==
  ASSUME ProcessTypeOK, LoggerTypeOK', budget' = budget, jobs' \in Nat,
         redisCtx' \in {"none", "open", "freed"},
         NEW place \in {"look", "asleep", "drain", "replies", "ended"},
         WorkerGoes(place)
  PROVE  ProcessTypeOK'
<1>1. worker' \in {"none", "look", "asleep", "drain", "replies", "ended"}
  BY DEF WorkerGoes
<1>. QED
  BY <1>1 DEF ProcessTypeOK, WorkerGoes, endVars, subscriberVars, redisVars

(* A step keeps the types. *)
LEMMA ProcessTypeStep ==
  ASSUME ProcessTypeOK, [Next]_vars
  PROVE  ProcessTypeOK'
<1>1. LoggerTypeOK'
  BY LoggerTypeStep DEF ProcessTypeOK
<1>2. CASE UNCHANGED vars
  BY <1>1, <1>2
     DEF ProcessTypeOK, vars, placeVars, endVars, subscriberVars, receiverVars, redisVars
<1>3. CASE UNCHANGED budget /\ (SigTerm \/ Notify)
  <2>1. CASE SigTerm
    BY <1>1, <1>3, <2>1
       DEF ProcessTypeOK, SigTerm, placeVars, subscriberVars, receiverVars, redisVars
  <2>2. CASE Notify
    BY <1>1, <1>3, <2>2
       DEF ProcessTypeOK, Notify, placeVars, endVars, subscriberVars, receiverVars
  <2>. QED
    BY <1>3, <2>1, <2>2
<1>4. CASE Submit
  <2>1. budget' \in [jobs : Nat, redis : Nat, calls : Nat, signals : Nat]
    BY <1>4, SpendType DEF Submit
  <2>. QED
    BY <1>1, <1>4, <2>1
       DEF ProcessTypeOK, Submit, NotifyWorker, endVars, subscriberVars, redisVars
<1>5. CASE AskRedis
  <2>1. budget' \in [jobs : Nat, redis : Nat, calls : Nat, signals : Nat]
    BY <1>5, SpendType DEF AskRedis
  <2>. QED
    BY <1>1, <1>5, <2>1
       DEF ProcessTypeOK, AskRedis, endVars, subscriberVars, receiverVars, redisVars
<1>6. CASE LoopFails
  <2>1. budget' \in [jobs : Nat, redis : Nat, calls : Nat, signals : Nat]
    BY <1>6, SpendType DEF LoopFails
  <2>. QED
    BY <1>1, <1>6, <2>1
       DEF ProcessTypeOK, LoopFails, Fail, subscriberVars, receiverVars, redisVars
<1>7. CASE RedisChanges
  <2>1. budget' \in [jobs : Nat, redis : Nat, calls : Nat, signals : Nat]
    BY <1>7, SpendType DEF RedisChanges
  <2>. QED
    BY <1>1, <1>7, <2>1
       DEF ProcessTypeOK, RedisChanges, placeVars, endVars, subscriberVars, receiverVars
<1>8. CASE LogSignals
  <2>1. budget' \in [jobs : Nat, redis : Nat, calls : Nat, signals : Nat]
    BY <1>8, SpendType DEF LogSignals
  <2>. QED
    BY <1>1, <1>8, <2>1
       DEF ProcessTypeOK, LogSignals, placeVars, endVars, subscriberVars, receiverVars,
           redisVars
<1>9. ASSUME NEW t \in Thread, Step(t)
      PROVE  ProcessTypeOK'
  <2>1. budget' = budget
    BY <1>9 DEF Step
  <2>2. CASE LogStep(t)
    BY <1>1, <2>1, <2>2
       DEF ProcessTypeOK, LogStep, placeVars, endVars, subscriberVars, receiverVars,
           redisVars
  <2>3. CASE Main
    <3>1. CASE SetUpFails
      BY <1>1, <2>1, <3>1
         DEF ProcessTypeOK, SetUpFails, Fail, endVars, subscriberVars, receiverVars,
             redisVars
    <3>2. CASE SetUp
      BY <1>1, <2>1, <3>2
         DEF ProcessTypeOK, SetUp, endVars, subscriberVars, receiverVars,
             redisVars
    <3>3. CASE StartReceiver
      BY <1>1, <2>1, <3>3
         DEF ProcessTypeOK, StartReceiver, endVars, subscriberVars, receiverVars,
             redisVars
    <3>4. CASE Subscribe
      <4>1. CASE redis = "up"
        BY <1>1, <2>1, <3>4, <4>1
           DEF ProcessTypeOK, Subscribe, endVars, receiverVars, redisVars
      <4>2. CASE redis # "up"
        <5>1. /\ main' = "unwind" /\ exitCode' = "failure"
              /\ UNCHANGED <<terminating, alive, subscriber, subscriberVars, worker,
                             receiverVars, redisVars>>
          BY <3>4, <4>2 DEF Subscribe, Fail
        <5>. QED
          BY <1>1, <2>1, <5>1 DEF ProcessTypeOK, subscriberVars, receiverVars, redisVars
      <4>. QED
        BY <4>1, <4>2
    <3>5. CASE RedisTells
      BY <1>1, <2>1, <3>5
         DEF ProcessTypeOK, RedisTells, endVars, subscriberVars, receiverVars,
             redisVars
    <3>6. CASE TakeSigTerm
      BY <1>1, <2>1, <3>6
         DEF ProcessTypeOK, TakeSigTerm, endVars, subscriberVars, receiverVars,
             redisVars
    <3>7. CASE Stop
      <4>1. running' \in BOOLEAN
        BY <3>7 DEF ProcessTypeOK, Stop, TellSubscriber
      <4>2. main' \in {"joinSubscriber", "leaveLoop", "destroyed"}
        BY <3>7 DEF Stop, AfterStop
      <4>. QED
        BY <1>1, <2>1, <3>7, <4>1, <4>2
           DEF ProcessTypeOK, Stop, endVars, receiverVars, redisVars
    <3>8. CASE JoinSubscriber
      BY <1>1, <2>1, <3>8
         DEF ProcessTypeOK, JoinSubscriber, AfterStop, endVars, subscriberVars, receiverVars,
             redisVars
    <3>9. CASE LeaveLoop
      BY <1>1, <2>1, <3>9
         DEF ProcessTypeOK, LeaveLoop, endVars, subscriberVars, receiverVars,
             redisVars
    <3>10. CASE Unwind
      BY <1>1, <2>1, <3>10
         DEF ProcessTypeOK, Unwind, endVars, subscriberVars, receiverVars,
             redisVars
    <3>11. CASE Destroyed
      <4>1. alive' \subseteq alive
        BY <3>11 DEF Destroyed
      <4>. QED
        <5>1. /\ main' = "unwind"
              /\ UNCHANGED <<terminating, exitCode, subscriber, subscriberVars, worker,
                             receiverVars, redisVars>>
          BY <3>11 DEF Destroyed
        <5>. QED
          BY <1>1, <2>1, <4>1, <5>1
             DEF ProcessTypeOK, subscriberVars, receiverVars, redisVars
    <3>12. CASE StopWorker
      BY <1>1, <2>1, <3>12
         DEF ProcessTypeOK, StopWorker, NotifyWorker, endVars, subscriberVars, receiverVars,
             redisVars
    <3>13. CASE JoinWorker
      BY <1>1, <2>1, <3>13
         DEF ProcessTypeOK, JoinWorker, endVars, subscriberVars, receiverVars,
             redisVars
    <3>14. CASE Exit
      BY <1>1, <2>1, <3>14
         DEF ProcessTypeOK, Exit, endVars, subscriberVars, receiverVars,
             redisVars
    <3>. QED
      BY <2>3, <3>1, <3>2, <3>3, <3>4, <3>5, <3>6, <3>7, <3>8, <3>9, <3>10, <3>11, <3>12, <3>13, <3>14
         DEF Main
  <2>4. CASE Subscriber
    <3>1. CASE TestRunning
      BY <1>1, <2>1, <3>1, SubscriberTypes DEF ProcessTypeOK, TestRunning
    <3>2. CASE GetReply
      BY <1>1, <2>1, <3>2, SubscriberTypes DEF GetReply
    <3>3. CASE ReplyFails
      BY <1>1, <2>1, <3>3, SubscriberTypes DEF ProcessTypeOK, ReplyFails
    <3>4. CASE ReadHash
      BY <1>1, <2>1, <3>4, SubscriberTypes DEF ProcessTypeOK, ReadHash
    <3>5. CASE CallBack
      BY <1>1, <2>1, <3>5, SubscriberTypes DEF ProcessTypeOK, CallBack
    <3>6. CASE SubscriberEnds
      BY <1>1, <2>1, <3>6, SubscriberTypes DEF ProcessTypeOK, SubscriberEnds
    <3>. QED
      BY <2>4, <3>1, <3>2, <3>3, <3>4, <3>5, <3>6 DEF Subscriber
  <2>5. CASE Worker
    <3>1. CASE Look
      <4>1. jobs' \in Nat
        BY <3>1 DEF ProcessTypeOK, Look, PopIfAny
      <4>. QED
        BY <1>1, <2>1, <3>1, <4>1, WorkerTypes DEF ProcessTypeOK, Look
    <3>2. CASE Drain
      BY <1>1, <2>1, <3>2, WorkerTypes DEF ProcessTypeOK, Drain
    <3>3. CASE ReadReplies
      BY <1>1, <2>1, <3>3, WorkerTypes DEF ProcessTypeOK, ReadReplies
    <3>. QED
      BY <2>5, <3>1, <3>2, <3>3 DEF Worker
  <2>. QED
    BY <1>9, <2>2, <2>3, <2>4, <2>5 DEF Step
<1>. QED
  BY <1>2, <1>3, <1>4, <1>5, <1>6, <1>7, <1>8, <1>9 DEF Next, Outside

-----------------------------------------------------------------------------
(***************************************************************************)
(* Who is alive when a thread runs                                         *)
(***************************************************************************)

(* The destructor takes the members in the reverse order of their
   declaration. *)
LEMMA LastMember ==
  /\ alive = Complete => LastAlive = "rackManagerReceiver_"
  /\ alive = WithSubscriber => LastAlive = "redisSubscriber_"
  /\ alive = WithEngine => LastAlive = "updateEngine_"
  /\ alive = OnlyLoop => LastAlive = "io_"
<1> DEFINE IsLast(m) == \A i, j \in DOMAIN Members :
                          Members[i] = m /\ Members[j] \in alive => j <= i
<1>1. /\ DOMAIN Members = 1 .. 4
      /\ Members[1] = "io_" /\ Members[2] = "updateEngine_"
      /\ Members[3] = "redisSubscriber_" /\ Members[4] = "rackManagerReceiver_"
  BY DEF Members
<1>2. LastAlive = CHOOSE m \in alive : IsLast(m)
  BY DEF LastAlive
<1>3. ASSUME alive = Complete
      PROVE  LastAlive = "rackManagerReceiver_"
  <2>1. \A m \in alive : IsLast(m) <=> m = "rackManagerReceiver_"
    BY <1>1, <1>3 DEF Complete
  <2> HIDE DEF IsLast
  <2>. QED
    BY <1>2, <1>3, <2>1 DEF Complete
<1>4. ASSUME alive = WithSubscriber
      PROVE  LastAlive = "redisSubscriber_"
  <2>1. \A m \in alive : IsLast(m) <=> m = "redisSubscriber_"
    BY <1>1, <1>4 DEF WithSubscriber
  <2> HIDE DEF IsLast
  <2>. QED
    BY <1>2, <1>4, <2>1 DEF WithSubscriber
<1>5. ASSUME alive = WithEngine
      PROVE  LastAlive = "updateEngine_"
  <2>1. \A m \in alive : IsLast(m) <=> m = "updateEngine_"
    BY <1>1, <1>5 DEF WithEngine
  <2> HIDE DEF IsLast
  <2>. QED
    BY <1>2, <1>5, <2>1 DEF WithEngine
<1>6. ASSUME alive = OnlyLoop
      PROVE  LastAlive = "io_"
  <2>1. \A m \in alive : IsLast(m) <=> m = "io_"
    BY <1>1, <1>6 DEF OnlyLoop
  <2> HIDE DEF IsLast
  <2>. QED
    BY <1>2, <1>6, <2>1 DEF OnlyLoop
<1>. QED
  BY <1>3, <1>4, <1>5, <1>6

(* What the sets of members have to do with each other. *)
LEMMA MemberSets ==
  /\ "rackManagerReceiver_" \in Complete /\ "redisSubscriber_" \in Complete
  /\ "rackManagerReceiver_" \notin WithSubscriber /\ "redisSubscriber_" \in WithSubscriber
  /\ "rackManagerReceiver_" \notin WithEngine /\ "redisSubscriber_" \notin WithEngine
  /\ "rackManagerReceiver_" \notin OnlyLoop /\ "redisSubscriber_" \notin OnlyLoop
  /\ "updateEngine_" \in WithEngine /\ "updateEngine_" \notin OnlyLoop
  /\ "io_" \in OnlyLoop
  /\ WithSubscriber \subseteq Complete
  /\ Complete \ {"rackManagerReceiver_"} = WithSubscriber
  /\ WithSubscriber \ {"redisSubscriber_"} = WithEngine
  /\ WithEngine \ {"updateEngine_"} = OnlyLoop
  /\ OnlyLoop \ {"io_"} = {}
  /\ OnlyLoop \cup {"rackManagerReceiver_"} = {"io_", "rackManagerReceiver_"}
  /\ {"io_", "rackManagerReceiver_"} \cup {"updateEngine_", "redisSubscriber_"} = Complete
  BY DEF Complete, WithSubscriber, WithEngine, OnlyLoop

lifeVars == <<main, subscriber, worker, exitCode, alive, running, contexts, redisCtx>>

(* A step that moves none of these keeps who exists when. *)
LEMMA LifeUnchanged ==
  ASSUME LifeInv, UNCHANGED lifeVars
  PROVE  LifeInv'
  BY DEF LifeInv, MembersInv, SubscriberInv, WorkerInv, lifeVars, Started

(* A step of main() keeps who exists when. *)
LEMMA MainLife ==
  ASSUME ProcessTypeOK, LifeInv, Main
  PROVE  LifeInv'
<1>1. CASE SetUpFails
  <2>1. MembersInv'
    BY <1>1, MemberSets
       DEF LifeInv, MembersInv, SubscriberInv, WorkerInv, SetUpFails, Fail, MainAt,
           endVars, subscriberVars, receiverVars
  <2>2. SubscriberInv'
    BY <1>1, MemberSets
       DEF LifeInv, MembersInv, SubscriberInv, WorkerInv, Started, SetUpFails, Fail, MainAt,
           endVars, subscriberVars, receiverVars
  <2>3. WorkerInv'
    BY <1>1, MemberSets
       DEF LifeInv, MembersInv, SubscriberInv, WorkerInv, Started, SetUpFails, Fail, MainAt,
           endVars, subscriberVars, receiverVars
  <2>. QED
    BY <2>1, <2>2, <2>3 DEF LifeInv
<1>2. CASE SetUp
  <2>1. MembersInv'
    BY <1>2, MemberSets
       DEF LifeInv, MembersInv, SubscriberInv, WorkerInv, SetUp, MainAt,
           endVars, subscriberVars, receiverVars
  <2>2. SubscriberInv'
    BY <1>2, MemberSets
       DEF LifeInv, MembersInv, SubscriberInv, WorkerInv, Started, SetUp, MainAt,
           endVars, subscriberVars, receiverVars
  <2>3. WorkerInv'
    BY <1>2, MemberSets
       DEF LifeInv, MembersInv, SubscriberInv, WorkerInv, Started, SetUp, MainAt,
           endVars, subscriberVars, receiverVars
  <2>. QED
    BY <2>1, <2>2, <2>3 DEF LifeInv
<1>3. CASE StartReceiver
  <2>1. MembersInv'
    BY <1>3, MemberSets
       DEF LifeInv, MembersInv, SubscriberInv, WorkerInv, StartReceiver, MainAt,
           endVars, subscriberVars, receiverVars
  <2>2. SubscriberInv'
    BY <1>3, MemberSets
       DEF LifeInv, MembersInv, SubscriberInv, WorkerInv, Started, StartReceiver, MainAt,
           endVars, subscriberVars, receiverVars
  <2>3. WorkerInv'
    BY <1>3, MemberSets
       DEF LifeInv, MembersInv, SubscriberInv, WorkerInv, Started, StartReceiver, MainAt,
           endVars, subscriberVars, receiverVars
  <2>. QED
    BY <2>1, <2>2, <2>3 DEF LifeInv
<1>4. CASE Subscribe
  <2>1. MembersInv'
    BY <1>4, MemberSets
       DEF LifeInv, MembersInv, SubscriberInv, WorkerInv, Subscribe, Fail, MainAt,
           endVars, subscriberVars, receiverVars
  <2>2. SubscriberInv'
    BY <1>4, MemberSets
       DEF LifeInv, MembersInv, SubscriberInv, WorkerInv, Started, Subscribe, Fail, MainAt,
           endVars, subscriberVars, receiverVars
  <2>3. WorkerInv'
    BY <1>4, MemberSets
       DEF LifeInv, MembersInv, SubscriberInv, WorkerInv, Started, Subscribe, Fail, MainAt,
           endVars, subscriberVars, receiverVars
  <2>. QED
    BY <2>1, <2>2, <2>3 DEF LifeInv
<1>5. CASE RedisTells
  <2>1. MembersInv'
    BY <1>5, MemberSets
       DEF LifeInv, MembersInv, SubscriberInv, WorkerInv, RedisTells, MainAt,
           endVars, subscriberVars, receiverVars
  <2>2. SubscriberInv'
    BY <1>5, MemberSets
       DEF LifeInv, MembersInv, SubscriberInv, WorkerInv, Started, RedisTells, MainAt,
           endVars, subscriberVars, receiverVars
  <2>3. WorkerInv'
    BY <1>5, MemberSets
       DEF LifeInv, MembersInv, SubscriberInv, WorkerInv, Started, RedisTells, MainAt,
           endVars, subscriberVars, receiverVars
  <2>. QED
    BY <2>1, <2>2, <2>3 DEF LifeInv
<1>6. CASE TakeSigTerm
  <2>1. MembersInv'
    BY <1>6, MemberSets
       DEF LifeInv, MembersInv, SubscriberInv, WorkerInv, TakeSigTerm, MainAt,
           endVars, subscriberVars, receiverVars
  <2>2. SubscriberInv'
    BY <1>6, MemberSets
       DEF LifeInv, MembersInv, SubscriberInv, WorkerInv, Started, TakeSigTerm, MainAt,
           endVars, subscriberVars, receiverVars
  <2>3. WorkerInv'
    BY <1>6, MemberSets
       DEF LifeInv, MembersInv, SubscriberInv, WorkerInv, Started, TakeSigTerm, MainAt,
           endVars, subscriberVars, receiverVars
  <2>. QED
    BY <2>1, <2>2, <2>3 DEF LifeInv
<1>7. CASE Stop
  <2>1. MembersInv'
    BY <1>7, MemberSets
       DEF LifeInv, MembersInv, SubscriberInv, WorkerInv, Stop, TellSubscriber, AfterStop, MainAt,
           endVars, subscriberVars, receiverVars
  <2>2. SubscriberInv'
    BY <1>7, MemberSets
       DEF LifeInv, MembersInv, SubscriberInv, WorkerInv, Started, Stop, TellSubscriber, AfterStop, MainAt,
           endVars, subscriberVars, receiverVars
  <2>3. WorkerInv'
    BY <1>7, MemberSets
       DEF LifeInv, MembersInv, SubscriberInv, WorkerInv, Started, Stop, TellSubscriber, AfterStop, MainAt,
           endVars, subscriberVars, receiverVars
  <2>. QED
    BY <2>1, <2>2, <2>3 DEF LifeInv
<1>8. CASE JoinSubscriber
  <2>1. MembersInv'
    BY <1>8, MemberSets
       DEF LifeInv, MembersInv, SubscriberInv, WorkerInv, JoinSubscriber, AfterStop, MainAt,
           endVars, subscriberVars, receiverVars
  <2>2. SubscriberInv'
    BY <1>8, MemberSets
       DEF LifeInv, MembersInv, SubscriberInv, WorkerInv, Started, JoinSubscriber, AfterStop, MainAt,
           endVars, subscriberVars, receiverVars
  <2>3. WorkerInv'
    BY <1>8, MemberSets
       DEF LifeInv, MembersInv, SubscriberInv, WorkerInv, Started, JoinSubscriber, AfterStop, MainAt,
           endVars, subscriberVars, receiverVars
  <2>. QED
    BY <2>1, <2>2, <2>3 DEF LifeInv
<1>9. CASE LeaveLoop
  <2>1. MembersInv'
    BY <1>9, MemberSets
       DEF LifeInv, MembersInv, SubscriberInv, WorkerInv, LeaveLoop, MainAt,
           endVars, subscriberVars, receiverVars
  <2>2. SubscriberInv'
    BY <1>9, MemberSets
       DEF LifeInv, MembersInv, SubscriberInv, WorkerInv, Started, LeaveLoop, MainAt,
           endVars, subscriberVars, receiverVars
  <2>3. WorkerInv'
    BY <1>9, MemberSets
       DEF LifeInv, MembersInv, SubscriberInv, WorkerInv, Started, LeaveLoop, MainAt,
           endVars, subscriberVars, receiverVars
  <2>. QED
    BY <2>1, <2>2, <2>3 DEF LifeInv
<1>10. CASE Unwind
  <2>1. /\ main = "unwind" /\ alive # {}
        /\ alive \in {Complete, WithSubscriber, WithEngine, OnlyLoop}
        /\ exitCode # "none"
        /\ UNCHANGED <<subscriber, worker, exitCode, alive, running, contexts, redisCtx>>
    BY <1>10 DEF Unwind, MainAt, LifeInv, MembersInv, endVars, subscriberVars, receiverVars
  <2>2. CASE alive = Complete
    <3>1. main' = "stopWorker"
      BY <1>10, <2>2, LastMember DEF Unwind
    <3>. QED
      BY <2>1, <2>2, <3>1, MemberSets
         DEF LifeInv, MembersInv, SubscriberInv, WorkerInv, Started
  <2>3. CASE alive = WithSubscriber
    <3>1. main' = "stop"
      BY <1>10, <2>3, LastMember DEF Unwind
    <3>. QED
      BY <2>1, <2>3, <3>1, MemberSets
         DEF LifeInv, MembersInv, SubscriberInv, WorkerInv, Started
  <2>4. CASE alive \in {WithEngine, OnlyLoop}
    <3>1. main' = "destroyed"
      BY <1>10, <2>4, LastMember DEF Unwind
    <3>. QED
      BY <2>1, <2>4, <3>1, MemberSets
         DEF LifeInv, MembersInv, SubscriberInv, WorkerInv, Started
  <2>. QED
    BY <2>1, <2>2, <2>3, <2>4
<1>11. CASE Destroyed
  <2>1. /\ main = "destroyed" /\ main' = "unwind"
        /\ alive \in {Complete, WithSubscriber, WithEngine, OnlyLoop}
        /\ exitCode # "none"
        /\ UNCHANGED <<subscriber, worker, exitCode, running, contexts, redisCtx>>
    BY <1>11
       DEF Destroyed, MainAt, LifeInv, MembersInv, subscriberVars, receiverVars
  <2>2. CASE alive = Complete
    <3>1. alive' = WithSubscriber
      BY <1>11, <2>2, LastMember, MemberSets DEF Destroyed
    <3>. QED
      BY <2>1, <2>2, <3>1, MemberSets
         DEF LifeInv, MembersInv, SubscriberInv, WorkerInv, Started
  <2>3. CASE alive = WithSubscriber
    <3>1. alive' = WithEngine
      BY <1>11, <2>3, LastMember, MemberSets DEF Destroyed
    <3>. QED
      BY <2>1, <2>3, <3>1, MemberSets
         DEF LifeInv, MembersInv, SubscriberInv, WorkerInv, Started
  <2>4. CASE alive = WithEngine
    <3>1. alive' = OnlyLoop
      BY <1>11, <2>4, LastMember, MemberSets DEF Destroyed
    <3>. QED
      BY <2>1, <2>4, <3>1, MemberSets
         DEF LifeInv, MembersInv, SubscriberInv, WorkerInv, Started
  <2>5. CASE alive = OnlyLoop
    <3>1. alive' = {}
      BY <1>11, <2>5, LastMember, MemberSets DEF Destroyed
    <3>. QED
      BY <2>1, <2>5, <3>1, MemberSets
         DEF LifeInv, MembersInv, SubscriberInv, WorkerInv, Started
  <2>. QED
    BY <2>1, <2>2, <2>3, <2>4, <2>5
<1>12. CASE StopWorker
  <2>1. MembersInv'
    BY <1>12, MemberSets
       DEF LifeInv, MembersInv, SubscriberInv, WorkerInv, StopWorker, NotifyWorker, MainAt,
           endVars, subscriberVars, receiverVars
  <2>2. SubscriberInv'
    BY <1>12, MemberSets
       DEF LifeInv, MembersInv, SubscriberInv, WorkerInv, Started, StopWorker, NotifyWorker, MainAt,
           endVars, subscriberVars, receiverVars
  <2>3. WorkerInv'
    BY <1>12, MemberSets
       DEF LifeInv, MembersInv, SubscriberInv, WorkerInv, Started, StopWorker, NotifyWorker, MainAt,
           endVars, subscriberVars, receiverVars
  <2>. QED
    BY <2>1, <2>2, <2>3 DEF LifeInv
<1>13. CASE JoinWorker
  <2>1. MembersInv'
    BY <1>13, MemberSets
       DEF LifeInv, MembersInv, SubscriberInv, WorkerInv, JoinWorker, MainAt,
           endVars, subscriberVars, receiverVars
  <2>2. SubscriberInv'
    BY <1>13, MemberSets
       DEF LifeInv, MembersInv, SubscriberInv, WorkerInv, Started, JoinWorker, MainAt,
           endVars, subscriberVars, receiverVars
  <2>3. WorkerInv'
    BY <1>13, MemberSets
       DEF LifeInv, MembersInv, SubscriberInv, WorkerInv, Started, JoinWorker, MainAt,
           endVars, subscriberVars, receiverVars
  <2>. QED
    BY <2>1, <2>2, <2>3 DEF LifeInv
<1>14. CASE Exit
  <2>1. MembersInv'
    BY <1>14, MemberSets
       DEF LifeInv, MembersInv, SubscriberInv, WorkerInv, Exit, MainAt,
           endVars, subscriberVars, receiverVars
  <2>2. SubscriberInv'
    BY <1>14, MemberSets
       DEF LifeInv, MembersInv, SubscriberInv, WorkerInv, Started, Exit, MainAt,
           endVars, subscriberVars, receiverVars
  <2>3. WorkerInv'
    BY <1>14, MemberSets
       DEF LifeInv, MembersInv, SubscriberInv, WorkerInv, Started, Exit, MainAt,
           endVars, subscriberVars, receiverVars
  <2>. QED
    BY <2>1, <2>2, <2>3 DEF LifeInv
<1>. QED
  BY <1>1, <1>2, <1>3, <1>4, <1>5, <1>6, <1>7, <1>8, <1>9, <1>10, <1>11, <1>12, <1>13, <1>14 DEF Main

(* A step keeps who exists when. *)
LEMMA LifeStep ==
  ASSUME ProcessTypeOK, LifeInv, [Next]_vars
  PROVE  LifeInv'
<1>1. CASE UNCHANGED vars
  BY <1>1, LifeUnchanged
     DEF vars, lifeVars, placeVars, endVars, subscriberVars, receiverVars
<1>2. CASE SigTerm \/ Notify \/ RedisChanges \/ LogSignals
  BY <1>2, LifeUnchanged
     DEF SigTerm, Notify, RedisChanges, LogSignals, lifeVars, placeVars, endVars,
         subscriberVars, receiverVars
<1>3. CASE Submit
  <2>1. MembersInv'
    BY <1>3 DEF LifeInv, MembersInv, Submit, endVars
  <2>2. SubscriberInv'
    BY <1>3 DEF LifeInv, SubscriberInv, Submit, Started, endVars, subscriberVars
  <2>3. WorkerInv'
    BY <1>3 DEF LifeInv, WorkerInv, Submit, MainAt, NotifyWorker, Started, endVars
  <2>. QED
    BY <2>1, <2>2, <2>3 DEF LifeInv
<1>4. CASE AskRedis
  BY <1>4
     DEF AskRedis, MainAt, LifeInv, MembersInv, SubscriberInv, WorkerInv, Started,
         endVars, subscriberVars, receiverVars
<1>5. CASE LoopFails
  BY <1>5, MemberSets
     DEF LoopFails, Fail, MainAt, LifeInv, MembersInv, SubscriberInv, WorkerInv, Started,
         subscriberVars, receiverVars
<1>6. CASE \E t \in Thread : LogStep(t)
  BY <1>6, LifeUnchanged
     DEF LogStep, lifeVars, placeVars, endVars, subscriberVars, receiverVars
<1>7. CASE Main
  BY <1>7, MainLife
<1>8. CASE Subscriber
  <2>1. UNCHANGED <<main, worker, exitCode, alive, running, contexts, redisCtx>>
    BY <1>8
       DEF Subscriber, TestRunning, GetReply, ReplyFails, ReadHash, CallBack,
           SubscriberEnds, SubscriberGoes, endVars, subscriberVars, receiverVars
  <2>2. Started("subscriber")
    BY <1>8
       DEF Subscriber, TestRunning, GetReply, ReplyFails, ReadHash, CallBack,
           SubscriberEnds, SubscriberAt, Started
  <2>3. subscriber # "none"
    BY <2>2 DEF Started
  <2>. QED
    BY <2>1, <2>2, <2>3
       DEF LifeInv, MembersInv, SubscriberInv, WorkerInv, Started
<1>9. CASE Worker
  <2>1. UNCHANGED <<main, subscriber, exitCode, alive, running, contexts>>
    BY <1>9
       DEF Worker, Look, Drain, ReadReplies, WorkerGoes, endVars, subscriberVars
  <2>2. Started("worker") /\ worker # "none"
    BY <1>9 DEF Worker, Look, Drain, ReadReplies, WorkerAt, Started
  <2>3. redisCtx' # "freed"
    <3>1. redisCtx # "freed"
      BY <2>2 DEF LifeInv, WorkerInv
    <3>. QED
      BY <1>9, <3>1 DEF Worker, Look, Drain, ReadReplies
  <2>4. MembersInv' /\ SubscriberInv'
    BY <2>1 DEF LifeInv, MembersInv, SubscriberInv, Started
  <2>5. WorkerInv'
    BY <2>1, <2>2, <2>3 DEF LifeInv, WorkerInv, Started
  <2>. QED
    BY <2>4, <2>5 DEF LifeInv
<1>. QED
  BY <1>1, <1>2, <1>3, <1>4, <1>5, <1>6, <1>7, <1>8, <1>9 DEF Next, Outside, Step

(* Who exists when makes the threads safe. *)
LEMMA LifeInvSuffices ==
  ASSUME ProcessTypeOK, LifeInv
  PROVE  CallbacksAreSafe
<1>1. ASSUME Started("subscriber")
      PROVE  contexts = "open" /\ {"io_", "updateEngine_", "redisSubscriber_"} \subseteq alive
  <2>1. main \notin {"setUp", "receiver"} /\ "redisSubscriber_" \in alive
    BY <1>1 DEF LifeInv, SubscriberInv, Started
  <2>2. alive \in {Complete, WithSubscriber}
    BY <2>1, MemberSets DEF ProcessTypeOK, LifeInv, MembersInv
  <2>. QED
    BY <1>1, <2>2, MemberSets DEF LifeInv, SubscriberInv, WithSubscriber
<1>2. ASSUME Started("worker")
      PROVE  redisCtx # "freed" /\ "rackManagerReceiver_" \in alive
  BY <1>2 DEF LifeInv, WorkerInv
<1>3. ASSUME main = "exited"
      PROVE  ~Started("subscriber") /\ ~Started("worker")
  BY <1>3 DEF LifeInv, MembersInv, SubscriberInv, WorkerInv
<1>. QED
  BY <1>1, <1>2, <1>3 DEF CallbacksAreSafe

-----------------------------------------------------------------------------
(***************************************************************************)
(* The theorems                                                            *)
(***************************************************************************)

(* The invariants hold when the process starts. *)
LEMMA ProcessStarts ==
  ASSUME Init
  PROVE  ProcessTypeOK /\ LockInv /\ LifeInv
<1>1. LoggerTypeOK
  <2>1. <<>> \in Seq(Call)
    BY EmptySeq
  <2>. QED
    BY <2>1 DEF Init, LoggerInit, LoggerTypeOK
<1>2. budget \in [jobs : Nat, redis : Nat, calls : Nat, signals : Nat]
  BY ProcessAssumption DEF Init
<1>3. ProcessTypeOK
  BY <1>1, <1>2 DEF Init, ProcessTypeOK
<1>4. LockInv
  BY DEF Init, LoggerInit, LockInv
<1>5. LifeInv
  BY DEF Init, LifeInv, MembersInv, SubscriberInv, WorkerInv, OnlyLoop, Started
<1>. QED
  BY <1>3, <1>4, <1>5

(* Every variable of the process and of its logger keeps its type. *)
THEOREM ProcessTypesCorrect == Spec => []ProcessTypeOK
<1>1. Init => ProcessTypeOK
  BY ProcessStarts
<1>2. ProcessTypeOK /\ [Next]_vars => ProcessTypeOK'
  BY ProcessTypeStep
<1>. QED
  BY <1>1, <1>2, PTL DEF Spec

(* Whoever owns fileMutex or the lock in syslog() has a call that took it. *)
THEOREM OwnersHold == Spec => []LockInv
<1>1. Init => LockInv
  BY ProcessStarts
<1>2. ProcessTypeOK /\ LockInv /\ [Next]_vars => LockInv'
  BY LockStep DEF ProcessTypeOK
<1>. QED
  BY <1>1, <1>2, ProcessTypesCorrect, PTL DEF Spec

(* Threads block each other in the logger for ever only if a handler
   interrupted a call that held a lock. *)
THEOREM DeadlocksAreHandlers == Spec => []OnlyHandlersDeadlock
<1>1. ProcessTypeOK /\ LockInv => OnlyHandlersDeadlock
  BY LockInvSuffices DEF ProcessTypeOK
<1>. QED
  BY <1>1, ProcessTypesCorrect, OwnersHold, PTL

(* No thread outlives what it uses, on any way out of the process. *)
THEOREM ThreadsAreSafe == Spec => []CallbacksAreSafe
<1>1. Init => LifeInv
  BY ProcessStarts
<1>2. ProcessTypeOK /\ LifeInv /\ [Next]_vars => LifeInv'
  BY LifeStep
<1>3. ProcessTypeOK /\ LifeInv => CallbacksAreSafe
  BY LifeInvSuffices
<1>. QED
  BY <1>1, <1>2, <1>3, ProcessTypesCorrect, PTL DEF Spec
=============================================================================
