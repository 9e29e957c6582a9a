------------------------ MODULE RackManagerReceiver ------------------------
(***************************************************************************)
(* RackManagerReceiver of sonic-dbus-bridge (rack_manager_receiver.cpp):   *)
(* the D-Bus methods SubmitAlert and SubmitTelemetry on the main thread,   *)
(* the bounded queue with its condition variable, the worker thread with   *)
(* its Redis connection, the counters, and the destructor.                 *)
(*                                                                         *)
(* A payload is the sequence of HSETs the parser makes of it: a cell is a  *)
(* <<record, field>> pair, and what is stored is the payload's number.     *)
(* Module SensorExtract models the parser.                                 *)
(*                                                                         *)
(* A definition whose name ends in _ is a faulty variant of the one after  *)
(* it: the property that notices the fault is named with it.               *)
(***************************************************************************)
EXTENDS Naturals, Sequences, FiniteSets

CONSTANTS
  Cell,            (* the <<record, field>> pairs in STATE_DB                *)
  Payloads,        (* sequences of cells; a malformed payload is no one      *)
  MaxQueueDepth,   (* kMaxQueueDepth (1024 in the code)                      *)
  RedisMayRefuse,  (* whether Redis may answer a HSET with an error          *)
  MaxCalls         (* bound: D-Bus calls                                     *)

ASSUME ReceiverAssumption ==
  /\ Payloads \subseteq Seq(Cell)
  /\ MaxQueueDepth \in Nat \ {0}
  /\ RedisMayRefuse \in BOOLEAN
  /\ MaxCalls \in Nat
  /\ Cell # {}

(* Fields of SensorExtract: a payload that touches a
   record writes all the fields that payloads of its kind write to it. *)
ASSUME WholeRecords ==
  \A payload \in Payloads : \A i \in DOMAIN payload, c \in Cell :
    c[1] = payload[i][1] => \E j \in DOMAIN payload : payload[j] = c

VARIABLES
  call,       (* <<payload>> of the call that is parsed and not yet queued,  *)
              (* or <<>>                                                     *)
  queue,      (* queue_                                                      *)
  stopping,   (* stopping_                                                   *)
  worker,     (* the worker: "ready" to look at the queue, "asleep" on the   *)
              (* condition variable, "draining" a job, "reading" replies, or *)
              (* "ended"                                                     *)
  job,        (* the job popped last                                         *)
  link,       (* redisCtx_: "none", "up", or "broken"                        *)
  executed,   (* how many writes of the job Redis has answered               *)
  replied,    (* how many of the answers the worker has read                 *)
  store,      (* STATE_DB: for each cell the job that wrote it last, or 0    *)
  jobsReceived, jobsDroppedQueueFull, jobsDroppedNoRedis,
  jobsPersisted, redisCommandFailures,          (* the counters              *)
  malformed,  (* history: calls refused because of their payload             *)
  accepted,   (* history: the payloads accepted, in order                    *)
  outcome,    (* history: what became of each of them                        *)
  refused     (* history: jobs with a write that Redis refused               *)

connectionVars == <<link, executed, replied, store, refused>>
intakeVars == <<call, stopping, jobsReceived, jobsDroppedQueueFull, malformed, accepted>>
endingVars == <<jobsDroppedNoRedis, jobsPersisted, redisCommandFailures, outcome>>
vars == <<connectionVars, intakeVars, endingVars, queue, worker, job>>

Job == [n : Nat, writes : Seq(Cell)]
NoJob == [n |-> 0, writes |-> <<>>]
NoCall == <<>>
NoOutcome == "waiting"
Outcome == {NoOutcome, "persisted", "unreachable", "failed"}

Init ==
  /\ call = NoCall
  /\ queue = <<>>
  /\ stopping = FALSE
  /\ worker = "ready"
  /\ job = NoJob
  /\ link = "none"
  /\ executed = 0 /\ replied = 0
  /\ store = [c \in Cell |-> 0]
  /\ jobsReceived = 0 /\ jobsDroppedQueueFull = 0 /\ jobsDroppedNoRedis = 0
  /\ jobsPersisted = 0 /\ redisCommandFailures = 0
  /\ malformed = 0
  /\ accepted = <<>>
  /\ outcome = <<>>
  /\ refused = {}

-----------------------------------------------------------------------------
(* The D-Bus thread.  A call is counted before it is parsed; the queue is
   only touched under queueMutex_. *)

SubmitMalformed ==
  /\ call = NoCall /\ ~stopping /\ jobsReceived < MaxCalls
  /\ jobsReceived' = jobsReceived + 1
  /\ malformed' = malformed + 1
  /\ UNCHANGED <<connectionVars, call, stopping, jobsDroppedQueueFull, accepted,
                 endingVars, queue, worker, job>>

Submit(payload) ==
  /\ call = NoCall /\ ~stopping /\ jobsReceived < MaxCalls
  /\ jobsReceived' = jobsReceived + 1
  /\ call' = <<payload>>
  /\ UNCHANGED <<connectionVars, stopping, jobsDroppedQueueFull, malformed, accepted,
                 endingVars, queue, worker, job>>

Notify == worker' = IF worker = "asleep" THEN "ready" ELSE worker

QueueFullAfter_ == Len(queue) > MaxQueueDepth   (* TypeOK *)
QueueFull == Len(queue) >= MaxQueueDepth

Enqueue ==
  /\ call # NoCall /\ ~QueueFull
  /\ queue' = Append(queue, [n |-> Len(accepted) + 1, writes |-> call[1]])
  /\ Notify
  /\ call' = NoCall
  /\ accepted' = Append(accepted, call[1])
  /\ outcome' = Append(outcome, NoOutcome)
  /\ UNCHANGED <<connectionVars, stopping, jobsReceived, jobsDroppedQueueFull,
                 malformed, jobsDroppedNoRedis, jobsPersisted,
                 redisCommandFailures, job>>

DropQueueFull ==
  /\ call # NoCall /\ QueueFull
  /\ jobsDroppedQueueFull' = jobsDroppedQueueFull + 1
  /\ call' = NoCall
  /\ UNCHANGED <<connectionVars, stopping, jobsReceived, malformed, accepted,
                 endingVars, queue, worker, job>>

(* The destructor, up to join(). *)
Destroy ==
  /\ call = NoCall /\ ~stopping
  /\ stopping' = TRUE
  /\ Notify
  /\ UNCHANGED <<connectionVars, call, jobsReceived, jobsDroppedQueueFull, malformed,
                 accepted, endingVars, queue, job>>

-----------------------------------------------------------------------------
(* The worker: workerLoop() under the mutex. *)

PopLatest_ ==   (* ImplementsOrderedIngest *)
  /\ job' = queue[Len(queue)]
  /\ queue' = SubSeq(queue, 1, Len(queue) - 1)

Pop ==
  /\ job' = Head(queue)
  /\ queue' = Tail(queue)

TakeJob ==
  /\ worker = "ready" /\ queue # <<>>
  /\ Pop
  /\ worker' = "draining"
  /\ UNCHANGED <<connectionVars, intakeVars, endingVars>>

Sleep ==
  /\ worker = "ready" /\ queue = <<>> /\ ~stopping
  /\ worker' = "asleep"
  /\ UNCHANGED <<connectionVars, intakeVars, endingVars, queue, job>>

MayEnd_ == stopping   (* EveryJobEnds *)
MayEnd == stopping /\ queue = <<>>

End ==
  /\ worker = "ready" /\ MayEnd
  /\ worker' = "ended"
  /\ UNCHANGED <<connectionVars, intakeVars, endingVars, queue, job>>

-----------------------------------------------------------------------------
(* The worker: drainOne(). *)

Connect ==
  /\ worker = "draining" /\ link = "none"
  /\ link' = "up"
  /\ UNCHANGED <<executed, replied, store, refused, intakeVars, endingVars,
                 queue, worker, job>>

(* The job is over: the worker goes back to the queue. *)
Finish(result) ==
  /\ worker' = "ready"
  /\ job' = NoJob
  /\ outcome' = [outcome EXCEPT ![job.n] = result]
  /\ UNCHANGED <<intakeVars, queue>>

ConnectFails ==
  /\ worker = "draining" /\ link = "none"
  /\ jobsDroppedNoRedis' = jobsDroppedNoRedis + 1
  /\ Finish("unreachable")
  /\ UNCHANGED <<connectionVars, jobsPersisted, redisCommandFailures>>

Persisted ==
  /\ jobsPersisted' = jobsPersisted + 1
  /\ Finish("persisted")
  /\ UNCHANGED <<jobsDroppedNoRedis, redisCommandFailures>>

(* A payload without a single recognised field is stored by doing nothing. *)
PersistEmpty ==
  /\ worker = "draining" /\ link # "none" /\ job.writes = <<>>
  /\ Persisted
  /\ UNCHANGED connectionVars

Pipeline ==
  /\ worker = "draining" /\ link # "none" /\ job.writes # <<>>
  /\ worker' = "reading"
  /\ executed' = 0 /\ replied' = 0
  /\ UNCHANGED <<link, store, refused, intakeVars, endingVars, queue, job>>

AllReadButOne_(n) == n + 1 >= Len(job.writes)   (* PersistedIsStored *)
AllRead(n) == n = Len(job.writes)

ReadReply ==
  /\ worker = "reading" /\ replied < executed
  /\ replied' = replied + 1
  /\ UNCHANGED <<link, executed, store, refused>>
  /\ IF AllRead(replied')
       THEN Persisted
       ELSE UNCHANGED <<intakeVars, endingVars, queue, worker, job>>

CountNothing_ == UNCHANGED redisCommandFailures   (* JobsAccounted *)
CountFailure == redisCommandFailures' = redisCommandFailures + 1

GiveUpLoop_ ==   (* RecordsWhole *)
  /\ CountFailure
  /\ jobsPersisted' = jobsPersisted + 1
  /\ Finish("persisted")

GiveUp ==
  /\ CountFailure
  /\ UNCHANGED jobsPersisted
  /\ Finish("failed")

(* redisAppendCommand() runs out of memory, or redisGetReply() fails: the rest
   of the job is given up and the connection closed. *)
CommandFails ==
  /\ \/ worker = "draining" /\ link # "none" /\ job.writes # <<>>
     \/ worker = "reading" /\ link = "broken"
  /\ GiveUp
  /\ link' = "none"
  /\ UNCHANGED <<executed, replied, store, refused, jobsDroppedNoRedis>>

-----------------------------------------------------------------------------
(* Redis.  It answers the pipelined writes in order; when the connection is
   lost, an unknown number of them has been executed. *)

RedisExecutes ==
  /\ worker = "reading" /\ link = "up" /\ executed < Len(job.writes)
  /\ executed' = executed + 1
  /\ store' = [store EXCEPT ![job.writes[executed + 1]] = job.n]
  /\ UNCHANGED <<link, replied, refused, intakeVars, endingVars, queue, worker, job>>

RedisRefuses ==
  /\ RedisMayRefuse
  /\ worker = "reading" /\ link = "up" /\ executed < Len(job.writes)
  /\ executed' = executed + 1
  /\ refused' = refused \cup {job.n}
  /\ UNCHANGED <<link, replied, store, intakeVars, endingVars, queue, worker, job>>

LinkBreaks ==
  /\ link = "up"
  /\ link' = "broken"
  /\ UNCHANGED <<executed, replied, store, refused, intakeVars, endingVars,
                 queue, worker, job>>

-----------------------------------------------------------------------------
DBusThread ==
  \/ SubmitMalformed
  \/ \E payload \in Payloads : Submit(payload)
  \/ Enqueue
  \/ DropQueueFull
  \/ Destroy

Drain ==
  Connect \/ ConnectFails \/ PersistEmpty \/ Pipeline \/ ReadReply \/ CommandFails

Worker == TakeJob \/ Sleep \/ End \/ Drain

Redis == RedisExecutes \/ RedisRefuses

Next == DBusThread \/ Worker \/ Redis \/ LinkBreaks

(***************************************************************************)
(* Both threads run.  redisGetReply() has no timeout, so it must be        *)
(* assumed that Redis answers or the connection breaks.                    *)
(***************************************************************************)
Fairness ==
  /\ WF_vars(Enqueue \/ DropQueueFull)
  /\ WF_vars(Worker)
  /\ WF_vars(Redis)

Spec == Init /\ [][Next]_vars
FairSpec == Spec /\ Fairness

-----------------------------------------------------------------------------
(***************************************************************************)
(* Properties                                                              *)
(***************************************************************************)

TypeOK ==
  /\ call \in {NoCall} \cup {<<payload>> : payload \in Payloads}
  /\ queue \in Seq(Job)
  /\ Len(queue) <= MaxQueueDepth
  /\ stopping \in BOOLEAN
  /\ worker \in {"ready", "asleep", "draining", "reading", "ended"}
  /\ job \in Job
  /\ link \in {"none", "up", "broken"}
  /\ executed \in Nat /\ replied \in Nat
  /\ store \in [Cell -> Nat]
  /\ jobsReceived \in Nat /\ jobsDroppedQueueFull \in Nat
  /\ jobsDroppedNoRedis \in Nat /\ jobsPersisted \in Nat
  /\ redisCommandFailures \in Nat /\ malformed \in Nat
  /\ accepted \in Seq(Payloads)
  /\ outcome \in Seq(Outcome)
  /\ refused \in SUBSET Nat

(***************************************************************************)
(* The counters, written by two threads, account for every call: it was    *)
(* malformed, dropped because the queue was full, or accepted; an accepted *)
(* job waits, is in the worker's hands, or is counted exactly once.  When  *)
(* the worker sleeps, or has ended, none is left that is not counted: no   *)
(* wake-up is lost, and join() returns with the queue drained.             *)
(***************************************************************************)
InHand == IF job = NoJob THEN 0 ELSE 1

CountersBalance ==
  /\ jobsReceived = malformed + jobsDroppedQueueFull + Len(accepted)
                    + Len(call)
  /\ Len(accepted) = Len(queue) + InHand
                     + jobsPersisted + jobsDroppedNoRedis + redisCommandFailures

NoJobIsLeft ==
  worker \in {"asleep", "ended"} =>
    Len(accepted) = jobsPersisted + jobsDroppedNoRedis + redisCommandFailures

JobsAccounted == CountersBalance /\ NoJobIsLeft

(***************************************************************************)
(* A record is written field by field.  One whose fields come from         *)
(* different payloads is being written, or the last payload that touched   *)
(* it was counted as failed, or Redis refused one of its writes.           *)
(***************************************************************************)
RecordWriters(record) == {store[c] : c \in {d \in Cell : d[1] = record}}

RecordsWhole ==
  \A record \in {c[1] : c \in Cell} :
    \A n, m \in RecordWriters(record) :
      n < m => m = job.n \/ outcome[m] = "failed" \/ m \in refused

(* A job counted as persisted is in STATE_DB, or later jobs overwrote it,
   except for the writes that Redis refused. *)
PersistedIsStored ==
  \A n \in DOMAIN accepted : outcome[n] = "persisted" /\ n \notin refused =>
    \A i \in DOMAIN accepted[n] : store[accepted[n][i]] >= n

(* Every accepted job is written or counted as lost, also while the worker
   sleeps or reconnects; and the destructor's join() returns, with nothing
   accepted left behind. *)
EveryJobEnds ==
  /\ \A n \in 1 .. MaxCalls :
       (n \in DOMAIN outcome) ~> (n \in DOMAIN outcome /\ outcome[n] # NoOutcome)
  /\ stopping ~> (worker = "ended" /\ \A n \in DOMAIN outcome : outcome[n] # NoOutcome)

(* Writes reach STATE_DB in the order of acceptance. *)
Ordered == INSTANCE OrderedIngest WITH
  jobs <- [n \in DOMAIN accepted |-> {accepted[n][i] : i \in DOMAIN accepted[n]}],
  current <- LET written == {store[c] : c \in Cell}
             IN CHOOSE n \in written : \A m \in written : m <= n

ImplementsOrderedIngest == Ordered!Spec
=============================================================================
