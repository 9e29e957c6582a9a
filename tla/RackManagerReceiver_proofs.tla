---------------------- MODULE RackManagerReceiver_proofs ----------------------
(***************************************************************************)
(* Theorems about RackManagerReceiver, for every set of cells and          *)
(* payloads, every depth of the queue and every bound.                     *)
(***************************************************************************)
EXTENDS RackManagerReceiver, SequenceTheorems, TLAPS

-----------------------------------------------------------------------------
(***************************************************************************)
(* Type correctness                                                        *)
(***************************************************************************)

(* An update of a sequence, also one beyond its end, keeps its type and its
   length. *)
LEMMA ExceptKeeps ==
  ASSUME NEW S, NEW seq \in Seq(S), NEW i, NEW e \in S
  PROVE  /\ [seq EXCEPT ![i] = e] \in Seq(S)
         /\ Len([seq EXCEPT ![i] = e]) = Len(seq)
<1>1. CASE i \in 1 .. Len(seq)
  BY <1>1, ExceptSeq
<1>2. CASE i \notin 1 .. Len(seq)
  <2>1. seq \in [1 .. Len(seq) -> S]
    BY LenProperties
  <2>2. [seq EXCEPT ![i] = e] = seq
    BY <1>2, <2>1
  <2>. QED
    BY <2>2
<1>. QED
  BY <1>1, <1>2

(* What the worker leaves behind when it ends a job. *)
LEMMA FinishType ==
  ASSUME TypeOK, NEW result \in {"persisted", "unreachable", "failed"}, Finish(result)
  PROVE  /\ worker' = "ready"
         /\ job' \in Job
         /\ outcome' \in Seq(Outcome)
         /\ Len(outcome') = Len(outcome)
<1>1. outcome' = [outcome EXCEPT ![job.n] = result]
  BY DEF Finish
<1>2. result \in Outcome
  BY DEF Outcome
<1>3. /\ outcome' \in Seq(Outcome)
      /\ Len(outcome') = Len(outcome)
  <2>1. outcome \in Seq(Outcome)
    BY DEF TypeOK
  <2>. QED
    BY <1>1, <1>2, <2>1, ExceptKeeps
<1>4. job' \in Job
  BY EmptySeq DEF Finish, NoJob, Job
<1>. QED
  BY <1>3, <1>4 DEF Finish

(* A step keeps the types. *)
LEMMA TypeStep ==
  ASSUME TypeOK, [Next]_vars
  PROVE  TypeOK'
<1>1. CASE SubmitMalformed
  BY <1>1 DEF SubmitMalformed, TypeOK, connectionVars, endingVars
<1>2. ASSUME NEW payload \in Payloads, Submit(payload) PROVE TypeOK'
  BY <1>2 DEF Submit, TypeOK, connectionVars, endingVars
<1>3. CASE Enqueue
  <2> DEFINE new == [n |-> Len(accepted) + 1, writes |-> call[1]]
  <2>1. call[1] \in Payloads
    BY <1>3 DEF Enqueue, TypeOK, NoCall
  <2>2. new \in Job
    BY <2>1, ReceiverAssumption DEF TypeOK, Job
  <2>3. queue' \in Seq(Job) /\ Len(queue') <= MaxQueueDepth
    <3>1. queue' = Append(queue, new)
      BY <1>3 DEF Enqueue
    <3>2. Len(queue) + 1 <= MaxQueueDepth
      BY <1>3, ReceiverAssumption DEF Enqueue, QueueFull, TypeOK
    <3> HIDE DEF new
    <3>. QED
      BY <2>2, <3>1, <3>2, AppendProperties DEF TypeOK
  <2>4. accepted' \in Seq(Payloads)
    BY <1>3, <2>1, AppendProperties DEF Enqueue, TypeOK
  <2>5. outcome' \in Seq(Outcome)
    BY <1>3, AppendProperties DEF Enqueue, TypeOK, Outcome, NoOutcome
  <2>. QED
    BY <1>3, <2>3, <2>4, <2>5
       DEF Enqueue, Notify, TypeOK, connectionVars
<1>4. CASE DropQueueFull
  BY <1>4 DEF DropQueueFull, TypeOK, connectionVars, endingVars
<1>5. CASE Destroy
  BY <1>5 DEF Destroy, Notify, TypeOK, connectionVars, endingVars
<1>6. CASE TakeJob
  <2>1. Head(queue) \in Job /\ Tail(queue) \in Seq(Job) /\ Len(Tail(queue)) <= MaxQueueDepth
    BY <1>6, HeadTailProperties, ReceiverAssumption DEF TakeJob, TypeOK
  <2>. QED
    BY <1>6, <2>1 DEF TakeJob, Pop, TypeOK, connectionVars, intakeVars, endingVars
<1>7. CASE Sleep \/ End
  BY <1>7 DEF Sleep, End, TypeOK, connectionVars, intakeVars, endingVars
<1>8. CASE Connect \/ LinkBreaks
  BY <1>8 DEF Connect, LinkBreaks, TypeOK, intakeVars, endingVars
<1>9. CASE ConnectFails
  <2>1. Finish("unreachable")
    BY <1>9 DEF ConnectFails
  <2>2. /\ worker' = "ready" /\ job' \in Job
        /\ outcome' \in Seq(Outcome)
    BY <2>1, FinishType
  <2>3. UNCHANGED <<connectionVars, intakeVars, queue, jobsPersisted, redisCommandFailures>>
    BY <1>9 DEF ConnectFails, Finish
  <2>4. jobsDroppedNoRedis' \in Nat
    BY <1>9 DEF ConnectFails, TypeOK
  <2>. QED
    BY <2>2, <2>3, <2>4 DEF TypeOK, connectionVars, intakeVars
<1>10. CASE PersistEmpty
  <2>1. Finish("persisted")
    BY <1>10 DEF PersistEmpty, Persisted
  <2>2. /\ worker' = "ready" /\ job' \in Job
        /\ outcome' \in Seq(Outcome)
    BY <2>1, FinishType
  <2>. QED
    BY <1>10, <2>1, <2>2
       DEF PersistEmpty, Persisted, TypeOK, Finish, connectionVars, intakeVars
<1>11. CASE Pipeline
  BY <1>11 DEF Pipeline, TypeOK, intakeVars, endingVars
<1>12. CASE ReadReply
  <2>1. replied' \in Nat
    BY <1>12 DEF ReadReply, TypeOK
  <2>2. CASE Persisted
    <3>1. Finish("persisted")
      BY <2>2 DEF Persisted
    <3>2. /\ worker' = "ready" /\ job' \in Job
          /\ outcome' \in Seq(Outcome)
      BY <3>1, FinishType
    <3>. QED
      BY <1>12, <2>1, <2>2, <3>1, <3>2
         DEF ReadReply, Persisted, TypeOK, Finish, intakeVars
  <2>3. CASE UNCHANGED <<intakeVars, endingVars, queue, worker, job>>
    BY <1>12, <2>1, <2>3 DEF ReadReply, TypeOK, intakeVars, endingVars
  <2>. QED
    BY <1>12, <2>2, <2>3 DEF ReadReply
<1>13. CASE CommandFails
  <2>1. Finish("failed")
    BY <1>13 DEF CommandFails, GiveUp
  <2>2. /\ worker' = "ready" /\ job' \in Job
        /\ outcome' \in Seq(Outcome)
    BY <2>1, FinishType
  <2>. QED
    BY <1>13, <2>1, <2>2
       DEF CommandFails, GiveUp, CountFailure, TypeOK, Finish, intakeVars
<1>14. CASE RedisExecutes
  BY <1>14 DEF RedisExecutes, TypeOK, Job, intakeVars, endingVars
<1>15. CASE RedisRefuses
  <2>1. job.n \in Nat
    BY DEF TypeOK, Job
  <2>2. refused' \in SUBSET Nat
    BY <1>15, <2>1 DEF RedisRefuses, TypeOK
  <2>. QED
    BY <1>15, <2>2 DEF RedisRefuses, TypeOK, intakeVars, endingVars
<1>16. CASE UNCHANGED vars
  BY <1>16 DEF TypeOK, vars, connectionVars, intakeVars, endingVars
<1>. QED
  BY <1>1, <1>2, <1>3, <1>4, <1>5, <1>6, <1>7, <1>8, <1>9, <1>10, <1>11,
     <1>12, <1>13, <1>14, <1>15, <1>16
     DEF Next, DBusThread, Worker, Drain, Redis

(* Every variable stays in its range, the queue within kMaxQueueDepth
   (rack_manager_receiver.cpp). *)
THEOREM TypeCorrect == Spec => []TypeOK
<1>1. Init => TypeOK
  <2> SUFFICES ASSUME Init PROVE TypeOK
    OBVIOUS
  <2>1. job \in Job /\ queue \in Seq(Job) /\ Len(queue) <= MaxQueueDepth
    BY EmptySeq, ReceiverAssumption DEF Init, NoJob, Job
  <2>2. accepted \in Seq(Payloads) /\ outcome \in Seq(Outcome)
    BY EmptySeq DEF Init
  <2>. QED
    BY <2>1, <2>2 DEF Init, TypeOK
<1>2. TypeOK /\ [Next]_vars => TypeOK'
  BY TypeStep
<1>. QED
  BY <1>1, <1>2, PTL DEF Spec

-----------------------------------------------------------------------------
(***************************************************************************)
(* What is in the queue and in the worker's hands                          *)
(***************************************************************************)

(* The number of jobs that the worker has taken, and that it is done with. *)
Started == Len(accepted) - Len(queue)
Ended == Started - InHand

(***************************************************************************)
(* The queue holds the jobs accepted last, in order; the worker's job is   *)
(* the one before them.  It has an outcome when it has been ended.         *)
(***************************************************************************)
JobInv ==
  /\ Len(outcome) = Len(accepted)
  /\ Len(queue) <= Len(accepted)
  /\ \A i \in DOMAIN queue :
       queue[i].n = Started + i /\ queue[i].writes = accepted[Started + i]
  /\ worker \in {"draining", "reading"} <=> job # NoJob
  /\ job # NoJob => job.n = Started /\ Started > 0 /\ job.writes = accepted[Started]
  /\ \A n \in DOMAIN accepted : outcome[n] = NoOutcome <=> n > Ended
  /\ worker = "reading" =>
       replied <= executed /\ executed <= Len(job.writes) /\ replied < Len(job.writes)

(***************************************************************************)
(* What STATE_DB holds comes from jobs that were started: from the one in  *)
(* hand, or from one that got as far as writing.                           *)
(***************************************************************************)
WrittenBy(c, n) == \E i \in DOMAIN accepted[n] : accepted[n][i] = c

StoreInv ==
  /\ \A c \in Cell : store[c] <= Started
  /\ \A c \in Cell : store[c] # 0 =>
       WrittenBy(c, store[c]) /\ outcome[store[c]] # "unreachable"
  /\ worker = "draining" => \A c \in Cell : store[c] # Started
  /\ worker = "reading" /\ Started \notin refused =>
       \A i \in 1 .. executed : store[accepted[Started][i]] = Started
  /\ \A n \in refused : n <= Started
  /\ PersistedIsStored
  /\ \E c \in Cell : \A d \in Cell : store[d] <= store[c]

(* The numbers and domains behind these formulas. *)
LEMMA Numbers ==
  ASSUME TypeOK, JobInv
  PROVE  /\ Len(accepted) \in Nat /\ Len(queue) \in Nat
         /\ Started \in Nat /\ Started <= Len(accepted)
         /\ InHand \in {0, 1}
         /\ InHand = 1 <=> worker \in {"draining", "reading"}
         /\ worker \in {"draining", "reading"} => Started \in 1 .. Len(accepted)
         /\ DOMAIN accepted = 1 .. Len(accepted)
         /\ DOMAIN outcome = 1 .. Len(accepted)
         /\ DOMAIN queue = 1 .. Len(queue)
<1>1. /\ Len(accepted) \in Nat /\ DOMAIN accepted = 1 .. Len(accepted)
      /\ Len(queue) \in Nat /\ DOMAIN queue = 1 .. Len(queue)
      /\ DOMAIN outcome = 1 .. Len(outcome)
  BY LenProperties DEF TypeOK
<1>2. Started \in Nat /\ Started <= Len(accepted)
  BY <1>1 DEF Started, JobInv
<1>3. InHand \in {0, 1} /\ (InHand = 1 <=> job # NoJob)
  BY DEF InHand
<1>. QED
  BY <1>1, <1>2, <1>3 DEF JobInv

(* Steps that touch neither the queue nor the worker's job. *)
LEMMA JobInvKept ==
  ASSUME JobInv,
         UNCHANGED <<accepted, queue, outcome, job, executed, replied>>,
         \/ worker' = worker
         \/ {worker, worker'} \cap {"draining", "reading"} = {}
  PROVE  JobInv' /\ Started' = Started /\ InHand' = InHand
BY DEF JobInv, Started, Ended, InHand

(* The worker ends its job. *)
LEMMA FinishJob ==
  ASSUME TypeOK, JobInv, worker \in {"draining", "reading"},
         NEW result \in {"persisted", "unreachable", "failed"}, Finish(result)
  PROVE  /\ JobInv'
         /\ UNCHANGED <<accepted, queue>> /\ Started' = Started
         /\ worker' = "ready" /\ InHand' = 0 /\ InHand = 1
         /\ outcome[Started] = NoOutcome
         /\ \A n \in DOMAIN accepted :
              outcome'[n] = IF n = Started THEN result ELSE outcome[n]
<1>1. /\ UNCHANGED <<accepted, queue>> /\ Started' = Started
      /\ worker' = "ready" /\ job' = NoJob /\ InHand' = 0
  BY DEF Finish, intakeVars, Started, InHand
<1>2. /\ Started \in 1 .. Len(accepted) /\ Started \in Nat
      /\ job.n = Started /\ job # NoJob /\ InHand = 1
      /\ DOMAIN accepted = 1 .. Len(accepted)
      /\ DOMAIN outcome = 1 .. Len(accepted)
      /\ Len(accepted) \in Nat
  BY Numbers DEF JobInv
<1>3. /\ Ended = Started - 1 /\ Ended' = Started
  BY <1>1, <1>2 DEF Ended
<1>4. \A n \in DOMAIN accepted :
        outcome'[n] = IF n = Started THEN result ELSE outcome[n]
  BY <1>2 DEF Finish
<1>5. result # NoOutcome
  BY DEF NoOutcome
<1>6. \A n \in DOMAIN accepted : outcome[n] = NoOutcome <=> n > Ended
  BY DEF JobInv
<1>7. (\A n \in DOMAIN accepted : outcome[n] = NoOutcome <=> n > Ended)'
  <2> SUFFICES ASSUME NEW n \in 1 .. Len(accepted)
               PROVE  outcome'[n] = NoOutcome <=> n > Started
    BY <1>1, <1>2, <1>3
  <2>1. CASE n = Started
    BY <1>2, <1>4, <1>5, <2>1
  <2>2. CASE n # Started
    <3>1. outcome'[n] = outcome[n]
      BY <1>2, <1>4, <2>2
    <3>2. outcome[n] = NoOutcome <=> n > Started - 1
      BY <1>2, <1>3, <1>6
    <3>. QED
      BY <1>2, <2>2, <3>1, <3>2
  <2>. QED
    BY <2>1, <2>2
<1>8. Len(outcome') = Len(outcome)
  BY FinishType
<1>9. outcome[Started] = NoOutcome
  BY <1>2, <1>3, <1>6
<1>10. (\A i \in DOMAIN queue :
          queue[i].n = Started + i /\ queue[i].writes = accepted[Started + i])'
  BY <1>1 DEF JobInv
<1>11. JobInv'
  BY <1>1, <1>7, <1>8, <1>10 DEF JobInv
<1>. QED
  BY <1>1, <1>2, <1>4, <1>9, <1>11

(* An accepted job joins the end of the queue. *)
LEMMA EnqueueJob ==
  ASSUME TypeOK, JobInv, Enqueue
  PROVE  /\ JobInv'
         /\ Started' = Started /\ InHand' = InHand
         /\ Len(accepted') = Len(accepted) + 1 /\ Len(queue') = Len(queue) + 1
         /\ \A n \in DOMAIN accepted :
              accepted'[n] = accepted[n] /\ outcome'[n] = outcome[n]
         /\ outcome'[Len(accepted) + 1] = NoOutcome
<1> DEFINE new == [n |-> Len(accepted) + 1, writes |-> call[1]]
<1>1. call[1] \in Payloads
  BY DEF Enqueue, TypeOK, NoCall
<1>2. new \in Job
  BY <1>1, ReceiverAssumption DEF TypeOK, Job
<1>3. /\ queue' = Append(queue, new) /\ accepted' = Append(accepted, call[1])
      /\ outcome' = Append(outcome, NoOutcome)
      /\ UNCHANGED <<job, executed, replied>>
      /\ worker' = worker \/ {worker, worker'} \cap {"draining", "reading"} = {}
  BY DEF Enqueue, Notify, connectionVars
<1>4. /\ Len(accepted) \in Nat /\ Len(queue) \in Nat
      /\ Started \in Nat /\ Started <= Len(accepted)
      /\ DOMAIN accepted = 1 .. Len(accepted) /\ DOMAIN queue = 1 .. Len(queue)
      /\ worker \in {"draining", "reading"} => Started \in 1 .. Len(accepted)
      /\ InHand \in {0, 1}
  BY Numbers
<1>5. /\ Len(accepted') = Len(accepted) + 1
      /\ \A n \in 1 .. Len(accepted) : accepted'[n] = accepted[n]
      /\ accepted'[Len(accepted) + 1] = call[1]
      /\ DOMAIN accepted' = 1 .. Len(accepted) + 1
  <2>1. accepted \in Seq(Payloads) /\ accepted' \in Seq(Payloads)
    BY <1>1, <1>3, AppendProperties DEF TypeOK
  <2>. QED
    BY <1>1, <1>3, <2>1, AppendProperties, LenProperties
<1>6. /\ Len(queue') = Len(queue) + 1
      /\ \A i \in 1 .. Len(queue) : queue'[i] = queue[i]
      /\ queue'[Len(queue) + 1] = new
      /\ DOMAIN queue' = 1 .. Len(queue) + 1
  <2> HIDE DEF new
  <2>1. queue \in Seq(Job) /\ queue' \in Seq(Job)
    BY <1>2, <1>3, AppendProperties DEF TypeOK
  <2>. QED
    BY <1>2, <1>3, <2>1, AppendProperties, LenProperties
<1>7. /\ Len(outcome') = Len(accepted) + 1
      /\ \A n \in 1 .. Len(accepted) : outcome'[n] = outcome[n]
      /\ outcome'[Len(accepted) + 1] = NoOutcome
  <2>1. outcome \in Seq(Outcome) /\ NoOutcome \in Outcome /\ Len(outcome) = Len(accepted)
    BY DEF TypeOK, Outcome, JobInv
  <2>. QED
    BY <1>3, <2>1, AppendProperties
<1>8. Started' = Started /\ InHand' = InHand /\ Ended' = Ended
  BY <1>3, <1>4, <1>5, <1>6 DEF Started, InHand, Ended
<1>9. (\A i \in DOMAIN queue :
         queue[i].n = Started + i /\ queue[i].writes = accepted[Started + i])'
  <2> SUFFICES ASSUME NEW i \in 1 .. Len(queue) + 1
               PROVE  queue'[i].n = Started + i /\ queue'[i].writes = accepted'[Started + i]
    BY <1>6, <1>8
  <2>1. CASE i = Len(queue) + 1
    <3>1. Started + i = Len(accepted) + 1
      BY <1>4, <2>1 DEF Started
    <3>. QED
      BY <1>5, <1>6, <2>1, <3>1
  <2>2. CASE i \in 1 .. Len(queue)
    <3>1. Started + i \in 1 .. Len(accepted)
      BY <1>4, <2>2 DEF Started
    <3>2. queue[i].n = Started + i /\ queue[i].writes = accepted[Started + i]
      BY <1>4, <2>2 DEF JobInv
    <3>. QED
      BY <1>5, <1>6, <2>2, <3>1, <3>2
  <2>. QED
    BY <1>4, <2>1, <2>2
<1>10. (\A n \in DOMAIN accepted : outcome[n] = NoOutcome <=> n > Ended)'
  <2> SUFFICES ASSUME NEW n \in 1 .. Len(accepted) + 1
               PROVE  outcome'[n] = NoOutcome <=> n > Ended
    BY <1>5, <1>8
  <2>1. CASE n = Len(accepted) + 1
    BY <1>4, <1>7, <2>1 DEF Ended
  <2>2. CASE n \in 1 .. Len(accepted)
    BY <1>4, <1>7, <2>2 DEF JobInv
  <2>. QED
    BY <1>4, <2>1, <2>2
<1>11. (job # NoJob => job.n = Started /\ Started > 0 /\ job.writes = accepted[Started])'
  <2> SUFFICES ASSUME job # NoJob
               PROVE  job.n = Started /\ Started > 0 /\ job.writes = accepted'[Started]
    BY <1>3, <1>8
  <2>1. Started \in 1 .. Len(accepted)
    BY <1>4 DEF JobInv
  <2>. QED
    BY <1>5, <2>1 DEF JobInv
<1>12. /\ (worker \in {"draining", "reading"} <=> job # NoJob)'
       /\ (worker = "reading" => replied <= executed /\ executed <= Len(job.writes)
                                 /\ replied < Len(job.writes))'
  BY <1>3 DEF JobInv
<1>13. (Len(queue) <= Len(accepted))'
  BY <1>4, <1>5, <1>6 DEF JobInv
<1>. QED
  BY <1>4, <1>5, <1>6, <1>7, <1>8, <1>9, <1>10, <1>11, <1>12, <1>13 DEF JobInv

(* The worker takes the first job of the queue. *)
LEMMA TakeFirst ==
  ASSUME TypeOK, JobInv, TakeJob
  PROVE  /\ JobInv'
         /\ Started' = Started + 1 /\ InHand' = 1 /\ InHand = 0
         /\ Len(queue) = Len(queue') + 1
<1>1. /\ Len(accepted) \in Nat /\ Len(queue) \in Nat
      /\ Started \in Nat /\ Started <= Len(accepted)
      /\ DOMAIN accepted = 1 .. Len(accepted) /\ DOMAIN queue = 1 .. Len(queue)
  BY Numbers
<1>2. /\ worker = "ready" /\ queue # <<>>
      /\ job' = Head(queue) /\ queue' = Tail(queue) /\ worker' = "draining"
      /\ UNCHANGED <<accepted, outcome>>
  BY DEF TakeJob, Pop, intakeVars, endingVars
<1>3. /\ Len(queue') = Len(queue) - 1 /\ 1 \in 1 .. Len(queue)
      /\ DOMAIN queue' = 1 .. Len(queue) - 1
      /\ \A i \in 1 .. Len(queue) - 1 : queue'[i] = queue[i + 1]
      /\ job' = queue[1] /\ job' \in Job
  <2>1. queue \in Seq(Job) /\ queue # <<>>
    BY <1>2 DEF TypeOK
  <2>2. Tail(queue) \in Seq(Job)
    BY <2>1, HeadTailProperties
  <2>3. Len(queue) \in Nat \ {0}
    BY <2>1, EmptySeq
  <2>4. Head(queue) = queue[1]
    BY <2>1
  <2>. QED
    BY <1>2, <2>1, <2>2, <2>3, <2>4, HeadTailProperties, LenProperties
<1>4. /\ Started' = Started + 1 /\ Started + 1 <= Len(accepted)
      /\ job'.n = Started + 1 /\ job'.writes = accepted[Started + 1]
  BY <1>1, <1>2, <1>3 DEF Started, JobInv
<1>5. job' # NoJob /\ InHand' = 1
  BY <1>1, <1>4 DEF NoJob, InHand
<1>6. job = NoJob /\ InHand = 0
  BY <1>2 DEF JobInv, InHand
<1>7. Ended' = Ended
  BY <1>1, <1>4, <1>5, <1>6 DEF Ended
<1>8. (\A i \in DOMAIN queue :
         queue[i].n = Started + i /\ queue[i].writes = accepted[Started + i])'
  <2> SUFFICES ASSUME NEW i \in 1 .. Len(queue) - 1
               PROVE  /\ queue'[i].n = Started + 1 + i
                      /\ queue'[i].writes = accepted[Started + 1 + i]
    BY <1>2, <1>3, <1>4
  <2>1. i + 1 \in 1 .. Len(queue) /\ queue'[i] = queue[i + 1]
    BY <1>1, <1>3
  <2>2. queue[i + 1].n = Started + (i + 1) /\ queue[i + 1].writes = accepted[Started + (i + 1)]
    BY <1>1, <2>1 DEF JobInv
  <2>3. Started + (i + 1) = Started + 1 + i
    BY <1>1
  <2>. QED
    BY <2>1, <2>2, <2>3
<1>. QED
  BY <1>1, <1>2, <1>3, <1>4, <1>5, <1>6, <1>7, <1>8 DEF JobInv

-----------------------------------------------------------------------------
(* The queue, the worker's job and the outcomes agree at all times. *)
THEOREM JobsInvariant == Spec => []JobInv
<1>1. Init => JobInv
  <2> SUFFICES ASSUME Init PROVE JobInv
    OBVIOUS
  <2>1. Len(queue) = 0 /\ Len(accepted) = 0 /\ Len(outcome) = 0
    BY EmptySeq DEF Init
  <2>2. DOMAIN queue = {} /\ DOMAIN accepted = {}
    BY DEF Init
  <2>. QED
    BY <2>1, <2>2 DEF Init, JobInv
<1>2. TypeOK /\ JobInv /\ [Next]_vars => JobInv'
  <2> SUFFICES ASSUME TypeOK, JobInv, [Next]_vars PROVE JobInv'
    OBVIOUS
  <2>1. CASE SubmitMalformed \/ DropQueueFull \/ Connect \/ LinkBreaks
             \/ \E payload \in Payloads : Submit(payload)
    BY <2>1, JobInvKept
       DEF SubmitMalformed, DropQueueFull, Connect, LinkBreaks, Submit,
           connectionVars, intakeVars, endingVars
  <2>2. CASE Enqueue
    BY <2>2, EnqueueJob
  <2>3. CASE Destroy \/ Sleep \/ End
    BY <2>3, JobInvKept
       DEF Destroy, Sleep, End, Notify, connectionVars, intakeVars, endingVars
  <2>4. CASE TakeJob
    BY <2>4, TakeFirst
  <2>5. CASE ConnectFails \/ PersistEmpty \/ CommandFails
    BY <2>5, FinishJob
       DEF ConnectFails, PersistEmpty, CommandFails, Persisted, GiveUp
  <2>6. CASE Pipeline
    <3>1. Len(job.writes) \in Nat \ {0}
      BY <2>6, EmptySeq DEF Pipeline, TypeOK, Job
    <3>. QED
      BY <2>6, <3>1
         DEF Pipeline, JobInv, Started, Ended, InHand, intakeVars, endingVars
  <2>7. CASE ReadReply
    <3>1. CASE AllRead(replied')
      BY <2>7, <3>1, FinishJob DEF ReadReply, Persisted
    <3>2. CASE ~AllRead(replied')
      <4>1. /\ replied' \in Nat /\ replied' <= executed /\ executed \in Nat
            /\ executed <= Len(job.writes) /\ Len(job.writes) \in Nat
        BY <2>7, LenProperties DEF ReadReply, JobInv, TypeOK, Job
      <4>2. replied' < Len(job.writes)
        BY <3>2, <4>1 DEF AllRead
      <4>. QED
        BY <2>7, <3>2, <4>1, <4>2
           DEF ReadReply, JobInv, Started, Ended, InHand, intakeVars, endingVars
    <3>. QED
      BY <3>1, <3>2
  <2>8. CASE RedisExecutes \/ RedisRefuses
    <3>1. /\ executed' = executed + 1 /\ executed' <= Len(job.writes)
          /\ replied <= executed'
      BY <2>8, LenProperties DEF RedisExecutes, RedisRefuses, JobInv, TypeOK, Job
    <3>. QED
      BY <2>8, <3>1
         DEF RedisExecutes, RedisRefuses, JobInv, Started, Ended, InHand,
             intakeVars, endingVars
  <2>9. CASE UNCHANGED vars
    BY <2>9, JobInvKept DEF vars, connectionVars, intakeVars, endingVars
  <2>. QED
    BY <2>1, <2>2, <2>3, <2>4, <2>5, <2>6, <2>7, <2>8, <2>9
       DEF Next, DBusThread, Worker, Drain, Redis
<1>. QED
  BY <1>1, <1>2, TypeCorrect, PTL DEF Spec

-----------------------------------------------------------------------------
(***************************************************************************)
(* The counters of the two threads                                         *)
(***************************************************************************)

(* They add up at all times (rack_manager_receiver.cpp: logSummary() reports
   them). *)
THEOREM CountersBalanced == Spec => []CountersBalance
<1>1. Init => CountersBalance
  BY EmptySeq DEF Init, CountersBalance, InHand, NoCall
<1>2. TypeOK /\ JobInv /\ CountersBalance /\ [Next]_vars => CountersBalance'
  <2> SUFFICES ASSUME TypeOK, JobInv, CountersBalance, [Next]_vars PROVE CountersBalance'
    OBVIOUS
  <2> DEFINE numbers == <<jobsReceived, malformed, jobsDroppedQueueFull, jobsPersisted,
                          jobsDroppedNoRedis, redisCommandFailures>>
  <2>1. /\ jobsReceived \in Nat /\ malformed \in Nat /\ jobsDroppedQueueFull \in Nat
        /\ jobsPersisted \in Nat /\ jobsDroppedNoRedis \in Nat
        /\ redisCommandFailures \in Nat
        /\ Len(accepted) \in Nat /\ Len(queue) \in Nat /\ InHand \in Nat
        /\ Len(call) \in Nat /\ (call # NoCall => Len(call) = 1)
        /\ Len(NoCall) = 0
    <3>1. Len(call) \in Nat /\ (call # NoCall => Len(call) = 1) /\ Len(NoCall) = 0
      BY DEF TypeOK, NoCall
    <3>. QED
      BY <3>1, Numbers DEF TypeOK
  <2>a. jobsReceived = malformed + jobsDroppedQueueFull + Len(accepted) + Len(call)
    BY DEF CountersBalance
  <2>b. Len(accepted) = Len(queue) + InHand + jobsPersisted + jobsDroppedNoRedis
                        + redisCommandFailures
    BY DEF CountersBalance
  <2>2. CASE SubmitMalformed
    BY <2>1, <2>2 DEF SubmitMalformed, CountersBalance, InHand, endingVars
  <2>3. ASSUME NEW payload \in Payloads, Submit(payload) PROVE CountersBalance'
    <3>1. Len(call) = 0 /\ Len(call') = 1
      BY <2>1, <2>3 DEF Submit
    <3>. QED
      BY <2>1, <2>3, <3>1 DEF Submit, CountersBalance, InHand, endingVars
  <2>4. CASE Enqueue
    <3>1. /\ Len(call) = 1 /\ Len(call') = 0
          /\ UNCHANGED numbers
      BY <2>1, <2>4 DEF Enqueue
    <3>2. /\ Len(accepted') = Len(accepted) + 1 /\ Len(queue') = Len(queue) + 1
          /\ InHand' = InHand
      BY <2>4, EnqueueJob
    <3>a. jobsReceived = malformed + jobsDroppedQueueFull + (Len(accepted) + 1) + 0
      BY <2>1, <2>a, <3>1
    <3>3. jobsReceived' = malformed' + jobsDroppedQueueFull' + Len(accepted') + Len(call')
      BY <3>1, <3>2, <3>a
    <3>4. Len(accepted') = Len(queue') + InHand' + jobsPersisted' + jobsDroppedNoRedis'
                           + redisCommandFailures'
      BY <2>1, <2>b, <3>1, <3>2
    <3>. QED
      BY <3>3, <3>4 DEF CountersBalance
  <2>5. CASE DropQueueFull
    <3>1. Len(call) = 1 /\ Len(call') = 0
      BY <2>1, <2>5 DEF DropQueueFull
    <3>. QED
      BY <2>1, <2>5, <3>1 DEF DropQueueFull, CountersBalance, InHand, endingVars
  <2>6. CASE TakeJob
    <3>1. UNCHANGED <<numbers, accepted, call>>
      BY <2>6 DEF TakeJob, intakeVars, endingVars
    <3>2. InHand' = 1 /\ InHand = 0 /\ Len(queue) = Len(queue') + 1
      BY <2>6, TakeFirst
    <3>3. Len(queue') \in Nat
      BY <2>1, <2>6, HeadTailProperties, LenProperties DEF TakeJob, Pop, TypeOK
    <3>. QED
      BY <2>1, <3>1, <3>2, <3>3 DEF CountersBalance
  <2>7. ASSUME NEW result \in {"persisted", "unreachable", "failed"}, Finish(result),
               worker \in {"draining", "reading"},
               jobsPersisted' + jobsDroppedNoRedis' + redisCommandFailures'
                 = jobsPersisted + jobsDroppedNoRedis + redisCommandFailures + 1,
               jobsPersisted' \in Nat, jobsDroppedNoRedis' \in Nat,
               redisCommandFailures' \in Nat
        PROVE  CountersBalance'
    <3>1. InHand' = 0 /\ InHand = 1
      BY <2>7, FinishJob
    <3>2. UNCHANGED <<jobsReceived, malformed, jobsDroppedQueueFull, accepted, call, queue>>
      BY <2>7 DEF Finish, intakeVars
    <3>3. jobsReceived' = malformed' + jobsDroppedQueueFull' + Len(accepted') + Len(call')
      BY <2>1, <2>a, <3>2
    <3>a. Len(accepted) = Len(queue) + (jobsPersisted + jobsDroppedNoRedis
                                        + redisCommandFailures + 1)
      BY <2>1, <2>b, <3>1
    <3>b. Len(accepted) = Len(queue) + (jobsPersisted' + jobsDroppedNoRedis'
                                        + redisCommandFailures')
      BY <2>7, <3>a
    <3>c. Len(accepted) = Len(queue) + 0 + jobsPersisted' + jobsDroppedNoRedis'
                                        + redisCommandFailures'
      BY <2>1, <2>7, <3>b
    <3>4. Len(accepted') = Len(queue') + InHand' + jobsPersisted' + jobsDroppedNoRedis'
                           + redisCommandFailures'
      BY <3>1, <3>2, <3>c
    <3>. QED
      BY <3>3, <3>4 DEF CountersBalance
  <2>8. CASE ConnectFails
    BY <2>1, <2>7, <2>8 DEF ConnectFails
  <2>9. CASE PersistEmpty
    BY <2>1, <2>7, <2>9 DEF PersistEmpty, Persisted
  <2>10. CASE ReadReply
    <3>1. CASE AllRead(replied')
      BY <2>1, <2>7, <2>10, <3>1 DEF ReadReply, Persisted
    <3>2. CASE ~AllRead(replied')
      BY <2>10, <3>2 DEF ReadReply, CountersBalance, InHand, intakeVars, endingVars
    <3>. QED
      BY <3>1, <3>2
  <2>11. CASE CommandFails
    BY <2>1, <2>7, <2>11 DEF CommandFails, GiveUp, CountFailure
  <2>12. CASE Destroy \/ Sleep \/ End \/ Connect \/ LinkBreaks \/ Pipeline
              \/ RedisExecutes \/ RedisRefuses
    BY <2>12
       DEF Destroy, Sleep, End, Connect, LinkBreaks, Pipeline, RedisExecutes,
           RedisRefuses, CountersBalance, InHand, connectionVars, intakeVars, endingVars
  <2>13. CASE UNCHANGED vars
    BY <2>13 DEF vars, CountersBalance, InHand, intakeVars, endingVars
  <2>. QED
    BY <2>2, <2>3, <2>4, <2>5, <2>6, <2>8, <2>9, <2>10, <2>11, <2>12, <2>13
       DEF Next, DBusThread, Worker, Drain, Redis
<1>. QED
  BY <1>1, <1>2, TypeCorrect, JobsInvariant, PTL DEF Spec


(* A worker that rests has nothing to do: it looked at the queue under the mutex
   before, and is notified of a job under the same mutex; and the destructor
   waits for its end when no D-Bus call can come any more. *)
RestInv ==
  /\ worker \in {"asleep", "ended"} => queue = <<>>
  /\ worker = "ended" => stopping
  /\ stopping => call = NoCall

LEMMA RestStep ==
  ASSUME RestInv, [Next]_vars
  PROVE  RestInv'
<1>1. CASE SubmitMalformed \/ \E payload \in Payloads : Submit(payload)
  BY <1>1 DEF SubmitMalformed, Submit, RestInv, endingVars
<1>2. CASE Enqueue
  <2>1. ~stopping /\ worker # "ended" /\ call' = NoCall
    BY <1>2 DEF Enqueue, RestInv
  <2>2. worker' \notin {"asleep", "ended"}
    BY <1>2, <2>1 DEF Enqueue, Notify
  <2>. QED
    BY <2>1, <2>2 DEF RestInv
<1>3. CASE DropQueueFull \/ Destroy
  BY <1>3 DEF DropQueueFull, Destroy, Notify, RestInv, endingVars
<1>4. CASE TakeJob \/ Sleep \/ End
  BY <1>4 DEF TakeJob, Sleep, End, MayEnd, RestInv, intakeVars
<1>5. CASE Drain
  <2>1. worker' \notin {"asleep", "ended"} /\ UNCHANGED intakeVars
    BY <1>5 DEF Drain, Connect, ConnectFails, PersistEmpty, Pipeline, ReadReply, CommandFails,
                Persisted, GiveUp, Finish
  <2>. QED
    BY <2>1 DEF RestInv, intakeVars
<1>6. CASE RedisExecutes \/ RedisRefuses \/ LinkBreaks
  BY <1>6 DEF RedisExecutes, RedisRefuses, LinkBreaks, RestInv, intakeVars
<1>7. CASE UNCHANGED vars
  BY <1>7 DEF vars, intakeVars, RestInv
<1>. QED
  BY <1>1, <1>2, <1>3, <1>4, <1>5, <1>6, <1>7 DEF Next, DBusThread, Worker, Redis

(* While the worker sleeps, and when it has ended, every accepted job has been
   counted. *)
THEOREM NoJobStaysBehind == Spec => []NoJobIsLeft
<1>1. Init => RestInv
  BY DEF Init, RestInv
<1>2. RestInv /\ [Next]_vars => RestInv'
  BY RestStep
<1>3. TypeOK /\ JobInv /\ CountersBalance /\ RestInv => NoJobIsLeft
  <2> SUFFICES ASSUME TypeOK, JobInv, CountersBalance, RestInv, worker \in {"asleep", "ended"}
               PROVE  Len(accepted) = jobsPersisted + jobsDroppedNoRedis + redisCommandFailures
    BY DEF NoJobIsLeft
  <2>1. Len(queue) = 0 /\ InHand = 0
    BY DEF RestInv, JobInv, InHand
  <2>2. jobsPersisted \in Nat /\ jobsDroppedNoRedis \in Nat /\ redisCommandFailures \in Nat
    BY DEF TypeOK
  <2>3. Len(accepted) = Len(queue) + InHand + jobsPersisted + jobsDroppedNoRedis
                        + redisCommandFailures
    BY DEF CountersBalance
  <2>. QED
    BY <2>1, <2>2, <2>3
<1>. QED
  BY <1>1, <1>2, <1>3, TypeCorrect, JobsInvariant, CountersBalanced, PTL DEF Spec

(* The counters account for every call, and a worker at rest leaves none out. *)
THEOREM CountersAddUp == Spec => []JobsAccounted
<1>1. CountersBalance /\ NoJobIsLeft => JobsAccounted
  BY DEF JobsAccounted
<1>. QED
  BY <1>1, CountersBalanced, NoJobStaysBehind, PTL

-----------------------------------------------------------------------------
(***************************************************************************)
(* STATE_DB                                                                *)
(***************************************************************************)

(* Steps after which the jobs started, their outcomes and STATE_DB are what
   they were. *)
LEMMA StoreInvKept ==
  ASSUME TypeOK, JobInv, StoreInv, Started' = Started,
         UNCHANGED <<store, refused>>,
         DOMAIN accepted' \subseteq Nat, Len(accepted') >= Len(accepted),
         DOMAIN accepted' = 1 .. Len(accepted'), Len(accepted') \in Nat,
         \A n \in DOMAIN accepted :
           accepted'[n] = accepted[n] /\ outcome'[n] = outcome[n],
         \A n \in DOMAIN accepted' \ DOMAIN accepted : outcome'[n] = NoOutcome,
         worker' = "draining" => worker = "draining",
         worker' = "reading" => (worker = "reading" /\ executed' = executed) \/ executed' = 0
  PROVE  StoreInv'
<1>1. /\ Started \in Nat /\ Started <= Len(accepted)
      /\ DOMAIN accepted = 1 .. Len(accepted) /\ Len(accepted) \in Nat
      /\ worker \in {"draining", "reading"} => Started \in 1 .. Len(accepted)
      /\ store \in [Cell -> Nat]
  BY Numbers DEF TypeOK
<1>2. \A c \in Cell : store[c] \in Nat /\ store[c] <= Started
  BY <1>1 DEF StoreInv
<1>3. ASSUME NEW c \in Cell, store[c] # 0
      PROVE  WrittenBy(c, store[c])' /\ outcome'[store[c]] # "unreachable"
  <2>1. store[c] \in DOMAIN accepted
    BY <1>1, <1>2, <1>3
  <2>2. WrittenBy(c, store[c]) /\ outcome[store[c]] # "unreachable"
    BY <1>3 DEF StoreInv
  <2>. QED
    BY <2>1, <2>2 DEF WrittenBy
<1>4. PersistedIsStored'
  <2> SUFFICES ASSUME NEW n \in DOMAIN accepted', outcome'[n] = "persisted", n \notin refused,
                      NEW i \in DOMAIN accepted'[n]
               PROVE  store[accepted'[n][i]] >= n
    BY DEF PersistedIsStored
  <2>1. n \in DOMAIN accepted
    BY DEF NoOutcome
  <2>. QED
    BY <2>1 DEF StoreInv, PersistedIsStored
<1>5. (worker = "reading" /\ Started \notin refused =>
         \A i \in 1 .. executed : store[accepted[Started][i]] = Started)'
  <2> SUFFICES ASSUME worker' = "reading", Started \notin refused, NEW i \in 1 .. executed'
               PROVE  store[accepted'[Started][i]] = Started
    OBVIOUS
  <2>1. worker = "reading" /\ executed' = executed
    OBVIOUS
  <2>. QED
    BY <1>1, <2>1 DEF StoreInv
<1>. QED
  BY <1>2, <1>3, <1>4, <1>5 DEF StoreInv
(* The end of a job, which is only "unreachable" before it wrote anything, and
   only "persisted" when all it was to write is there. *)
LEMMA FinishStore ==
  ASSUME TypeOK, JobInv, StoreInv, worker \in {"draining", "reading"},
         NEW result \in {"persisted", "unreachable", "failed"}, Finish(result),
         UNCHANGED <<store, refused>>,
         result = "unreachable" => worker = "draining",
         result = "persisted" /\ Started \notin refused =>
           \A i \in DOMAIN accepted[Started] : store[accepted[Started][i]] = Started
  PROVE  StoreInv'
<1>1. /\ UNCHANGED <<accepted, queue>> /\ Started' = Started /\ worker' = "ready"
      /\ \A n \in DOMAIN accepted :
           outcome'[n] = IF n = Started THEN result ELSE outcome[n]
  BY FinishJob
<1>2. /\ Started \in Nat /\ DOMAIN accepted = 1 .. Len(accepted)
      /\ Started <= Len(accepted) /\ Len(accepted) \in Nat
      /\ store \in [Cell -> Nat]
  BY Numbers DEF TypeOK
<1>3. ASSUME NEW c \in Cell, store[c] # 0
      PROVE  WrittenBy(c, store[c])' /\ outcome'[store[c]] # "unreachable"
  <2>1. store[c] \in DOMAIN accepted
    BY <1>2, <1>3 DEF StoreInv
  <2>2. WrittenBy(c, store[c]) /\ outcome[store[c]] # "unreachable"
    BY <1>3 DEF StoreInv
  <2>3. outcome'[store[c]] # "unreachable"
    BY <1>1, <2>1, <2>2 DEF StoreInv
  <2>. QED
    BY <1>1, <2>2, <2>3 DEF WrittenBy
<1>4. PersistedIsStored'
  <2> SUFFICES ASSUME NEW n \in DOMAIN accepted, outcome'[n] = "persisted", n \notin refused,
                      NEW i \in DOMAIN accepted[n]
               PROVE  store[accepted[n][i]] >= n
    BY <1>1 DEF PersistedIsStored
  <2>1. CASE n = Started
    BY <1>1, <1>2, <2>1
  <2>2. CASE n # Started
    BY <1>1, <2>2 DEF StoreInv, PersistedIsStored
  <2>. QED
    BY <2>1, <2>2
<1>. QED
  BY <1>1, <1>2, <1>3, <1>4 DEF StoreInv

(* Redis answers one more write of the job in hand. *)
LEMMA ExecuteStore ==
  ASSUME TypeOK, JobInv, StoreInv, RedisExecutes
  PROVE  /\ StoreInv'
         /\ UNCHANGED <<accepted, outcome>> /\ Started' = Started
         /\ Started \in DOMAIN accepted
         /\ \E i \in DOMAIN accepted[Started] :
              store' = [store EXCEPT ![accepted[Started][i]] = Started]
<1> DEFINE cell == accepted[Started][executed + 1]
<1>1. /\ UNCHANGED <<accepted, outcome, queue, refused, worker>> /\ Started' = Started
      /\ worker = "reading" /\ executed' = executed + 1
      /\ executed < Len(job.writes)
      /\ store' = [store EXCEPT ![job.writes[executed + 1]] = job.n]
  BY DEF RedisExecutes, Started, intakeVars, endingVars
<1>2. /\ Started \in Nat /\ DOMAIN accepted = 1 .. Len(accepted)
      /\ Started \in 1 .. Len(accepted) /\ Len(accepted) \in Nat
      /\ job # NoJob /\ InHand = 1
      /\ job.n = Started /\ job.writes = accepted[Started]
      /\ store \in [Cell -> Nat] /\ executed \in Nat
  BY <1>1, Numbers DEF TypeOK, JobInv
<1>3. accepted[Started] \in Seq(Cell)
  <2>1. accepted \in Seq(Payloads)
    BY DEF TypeOK
  <2>. QED
    BY <1>2, <2>1, ElementOfSeq, ReceiverAssumption
<1>4. /\ Len(accepted[Started]) \in Nat
      /\ DOMAIN accepted[Started] = 1 .. Len(accepted[Started])
      /\ executed + 1 \in DOMAIN accepted[Started]
      /\ cell \in Cell
  BY <1>1, <1>2, <1>3, LenProperties, ElementOfSeq
<1>5. /\ store' \in [Cell -> Nat]
      /\ \A c \in Cell : store'[c] = IF c = cell THEN Started ELSE store[c]
  BY <1>1, <1>2, <1>4
<1>6. \A c \in Cell : store[c] \in Nat /\ store[c] <= Started /\ store[c] <= store'[c]
                     /\ store'[c] <= Started
  BY <1>2, <1>5 DEF StoreInv
<1>7. outcome[Started] = NoOutcome
  BY <1>2 DEF JobInv, Ended
<1>8. ASSUME NEW c \in Cell, store'[c] # 0
      PROVE  WrittenBy(c, store'[c]) /\ outcome[store'[c]] # "unreachable"
  <2>1. CASE c = cell
    BY <1>4, <1>5, <1>7, <2>1 DEF WrittenBy, NoOutcome
  <2>2. CASE c # cell
    BY <1>5, <1>8, <2>2 DEF StoreInv
  <2>. QED
    BY <2>1, <2>2
<1>9. PersistedIsStored'
  <2> SUFFICES ASSUME NEW n \in DOMAIN accepted, outcome[n] = "persisted", n \notin refused,
                      NEW i \in DOMAIN accepted[n]
               PROVE  store'[accepted[n][i]] >= n
    BY <1>1 DEF PersistedIsStored
  <2>1. store[accepted[n][i]] >= n
    BY DEF StoreInv, PersistedIsStored
  <2>2. accepted[n][i] \in Cell
    <3>1. accepted[n] \in Seq(Cell)
      BY <1>2, ElementOfSeq, ReceiverAssumption DEF TypeOK
    <3>. QED
      BY <3>1, ElementOfSeq, LenProperties
  <2>. QED
    BY <1>2, <1>5, <1>6, <2>1, <2>2
<1>10. Started \notin refused =>
         \A i \in 1 .. executed + 1 : store'[accepted[Started][i]] = Started
  <2> SUFFICES ASSUME Started \notin refused, NEW i \in 1 .. executed + 1
               PROVE  store'[accepted[Started][i]] = Started
    OBVIOUS
  <2>1. accepted[Started][i] \in Cell
    BY <1>2, <1>3, <1>4, ElementOfSeq
  <2>2. CASE i = executed + 1
    BY <1>5, <2>1, <2>2
  <2>3. CASE i \in 1 .. executed
    BY <1>1, <1>5, <2>1, <2>3 DEF StoreInv
  <2>. QED
    BY <1>2, <2>2, <2>3
<1>11. \E c \in Cell : \A d \in Cell : store'[d] <= store'[c]
  BY <1>4, <1>5, <1>6
<1>12. (\A c \in Cell : store[c] # 0 =>
          WrittenBy(c, store[c]) /\ outcome[store[c]] # "unreachable")'
  BY <1>1, <1>8 DEF WrittenBy
<1>13. (worker = "reading" /\ Started \notin refused =>
          \A i \in 1 .. executed : store[accepted[Started][i]] = Started)'
  BY <1>1, <1>10
<1>14. StoreInv'
  BY <1>1, <1>6, <1>9, <1>11, <1>12, <1>13 DEF StoreInv
<1>15. store' = [store EXCEPT ![cell] = Started]
  BY <1>1, <1>2
<1>. QED
  BY <1>1, <1>2, <1>4, <1>14, <1>15

(* STATE_DB holds what the jobs that were started wrote, and all of what the
   jobs counted as persisted wrote. *)
THEOREM StoreInvariant == Spec => []StoreInv
<1>1. Init => StoreInv
  <2> SUFFICES ASSUME Init PROVE StoreInv
    OBVIOUS
  <2>1. Started = 0 /\ DOMAIN accepted = {}
    BY EmptySeq DEF Init, Started
  <2>2. \A c \in Cell : store[c] = 0
    BY DEF Init
  <2>3. \E c \in Cell : \A d \in Cell : store[d] <= store[c]
    BY <2>2, ReceiverAssumption
  <2>4. worker = "ready" /\ refused = {}
    BY DEF Init
  <2>. QED
    BY <2>1, <2>2, <2>3, <2>4 DEF StoreInv, PersistedIsStored
<1>2. TypeOK /\ JobInv /\ StoreInv /\ [Next]_vars => StoreInv'
  <2> SUFFICES ASSUME TypeOK, JobInv, StoreInv, [Next]_vars PROVE StoreInv'
    OBVIOUS
  <2>1. /\ Started \in Nat /\ Started <= Len(accepted) /\ Len(accepted) \in Nat
        /\ DOMAIN accepted = 1 .. Len(accepted)
        /\ worker \in {"draining", "reading"} => Started \in 1 .. Len(accepted)
        /\ store \in [Cell -> Nat]
    BY Numbers DEF TypeOK
  <2>2. ASSUME UNCHANGED <<accepted, queue, outcome, store, refused>>,
               worker' = "draining" => worker = "draining",
               worker' = "reading" =>
                 (worker = "reading" /\ executed' = executed) \/ executed' = 0
        PROVE  StoreInv'
    <3>1. Started' = Started
      BY <2>2 DEF Started
    <3>. QED
      BY <2>1, <2>2, <3>1, StoreInvKept
  <2>3. CASE SubmitMalformed \/ DropQueueFull \/ Connect \/ LinkBreaks \/ Pipeline
             \/ \E payload \in Payloads : Submit(payload)
    BY <2>2, <2>3
       DEF SubmitMalformed, DropQueueFull, Connect, LinkBreaks, Pipeline, Submit,
           connectionVars, intakeVars, endingVars
  <2>4. CASE Destroy \/ Sleep \/ End
    BY <2>2, <2>4
       DEF Destroy, Sleep, End, Notify, connectionVars, intakeVars, endingVars
  <2>5. CASE UNCHANGED vars
    BY <2>2, <2>5 DEF vars, connectionVars, intakeVars, endingVars
  <2>6. CASE Enqueue
    <3>1. /\ JobInv' /\ Started' = Started /\ Len(accepted') = Len(accepted) + 1
          /\ \A n \in DOMAIN accepted :
               accepted'[n] = accepted[n] /\ outcome'[n] = outcome[n]
          /\ outcome'[Len(accepted) + 1] = NoOutcome
      BY <2>6, EnqueueJob
    <3>2. TypeOK'
      BY TypeStep
    <3>3. DOMAIN accepted' = 1 .. Len(accepted) + 1
      BY <3>1, <3>2, LenProperties DEF TypeOK
    <3>4. /\ UNCHANGED <<store, refused, executed>>
          /\ worker' = "draining" => worker = "draining"
          /\ worker' = "reading" => worker = "reading"
      BY <2>6 DEF Enqueue, Notify, connectionVars
    <3>5. \A n \in DOMAIN accepted' \ DOMAIN accepted : outcome'[n] = NoOutcome
      BY <2>1, <3>1, <3>3
    <3>. QED
      BY <2>1, <3>1, <3>3, <3>4, <3>5, StoreInvKept
  <2>7. CASE TakeJob
    <3>1. Started' = Started + 1
      BY <2>7, TakeFirst
    <3>2. UNCHANGED <<accepted, outcome, store, refused>> /\ worker' = "draining"
      BY <2>7 DEF TakeJob, connectionVars, intakeVars, endingVars
    <3>3. \A c \in Cell : store[c] \in Nat /\ store[c] <= Started
      BY <2>1 DEF StoreInv
    <3>4. \A c \in Cell : store[c] <= Started + 1 /\ store[c] # Started + 1
      BY <2>1, <3>3
    <3>5. \A n \in refused : n <= Started + 1
      BY <2>1 DEF StoreInv, TypeOK
    <3>6. (\A c \in Cell : store[c] # 0 =>
             WrittenBy(c, store[c]) /\ outcome[store[c]] # "unreachable")'
      BY <3>2 DEF StoreInv, WrittenBy
    <3>7. PersistedIsStored'
      BY <3>2 DEF StoreInv, PersistedIsStored
    <3>8. (\E c \in Cell : \A d \in Cell : store[d] <= store[c])'
      BY <3>2 DEF StoreInv
    <3>. QED
      BY <3>1, <3>2, <3>4, <3>5, <3>6, <3>7, <3>8 DEF StoreInv
  <2>8. CASE ConnectFails
    BY <2>8, FinishStore DEF ConnectFails, connectionVars
  <2>9. CASE PersistEmpty
    <3>1. worker = "draining" /\ Finish("persisted") /\ UNCHANGED <<store, refused>>
      BY <2>9 DEF PersistEmpty, Persisted, connectionVars
    <3>2. accepted[Started] = <<>>
      BY <2>9, <3>1 DEF PersistEmpty, JobInv
    <3>3. DOMAIN accepted[Started] = {}
      BY <3>2
    <3>. QED
      BY <3>1, <3>3, FinishStore
  <2>10. CASE ReadReply
    <3>1. CASE AllRead(replied')
      <4>1. worker = "reading" /\ Finish("persisted") /\ UNCHANGED <<store, refused>>
        BY <2>10, <3>1 DEF ReadReply, Persisted
      <4>2. job.writes = accepted[Started] /\ job.writes \in Seq(Cell)
        BY <4>1 DEF JobInv, TypeOK, Job
      <4>3. /\ Len(job.writes) \in Nat /\ DOMAIN job.writes = 1 .. Len(job.writes)
            /\ executed \in Nat /\ replied \in Nat
        BY <4>2, LenProperties DEF TypeOK
      <4>4. executed = Len(job.writes)
        BY <2>10, <3>1, <4>1, <4>3 DEF ReadReply, AllRead, JobInv
      <4>5. Started \notin refused =>
              \A i \in DOMAIN accepted[Started] : store[accepted[Started][i]] = Started
        BY <4>1, <4>2, <4>3, <4>4 DEF StoreInv
      <4>. QED
        BY <4>1, <4>5, FinishStore
    <3>2. CASE ~AllRead(replied')
      BY <2>2, <2>10, <3>2 DEF ReadReply, intakeVars, endingVars
    <3>. QED
      BY <3>1, <3>2
  <2>11. CASE CommandFails
    BY <2>11, FinishStore DEF CommandFails, GiveUp
  <2>12. CASE RedisExecutes
    BY <2>12, ExecuteStore
  <2>13. CASE RedisRefuses
    <3>1. /\ UNCHANGED <<accepted, outcome, queue, store, worker>>
          /\ worker = "reading" /\ refused' = refused \cup {job.n}
      BY <2>13 DEF RedisRefuses, intakeVars, endingVars
    <3>2. Started' = Started /\ job.n = Started
      BY <3>1 DEF Started, JobInv
    <3>3. PersistedIsStored'
      BY <3>1 DEF StoreInv, PersistedIsStored
    <3>4. \A n \in refused' : n <= Started
      BY <2>1, <3>1, <3>2 DEF StoreInv
    <3>5. (\A c \in Cell : store[c] # 0 =>
             WrittenBy(c, store[c]) /\ outcome[store[c]] # "unreachable")'
      BY <3>1 DEF StoreInv, WrittenBy
    <3>6. (\E c \in Cell : \A d \in Cell : store[d] <= store[c])'
      BY <3>1 DEF StoreInv
    <3>. QED
      BY <3>1, <3>2, <3>3, <3>4, <3>5, <3>6 DEF StoreInv
  <2>. QED
    BY <2>3, <2>4, <2>5, <2>6, <2>7, <2>8, <2>9, <2>10, <2>11, <2>12, <2>13
       DEF Next, DBusThread, Worker, Drain, Redis
<1>. QED
  BY <1>1, <1>2, TypeCorrect, JobsInvariant, PTL DEF Spec

(* A job counted as persisted is in STATE_DB or was overwritten by later jobs,
   except for the writes that Redis refused (drainOne(), jobsPersisted_). *)
THEOREM PersistedStays == Spec => []PersistedIsStored
<1>1. StoreInv => PersistedIsStored
  BY DEF StoreInv
<1>. QED
  BY <1>1, StoreInvariant, PTL

(* A record with fields of two jobs is being written, or the later of the jobs
   failed or was refused a write (drainOne() writes field by field, without a
   transaction). *)
THEOREM RecordsStayWhole == Spec => []RecordsWhole
<1>1. TypeOK /\ JobInv /\ StoreInv => RecordsWhole
  <2> SUFFICES ASSUME TypeOK, JobInv, StoreInv,
                      NEW c \in Cell, NEW d \in Cell, c[1] = d[1], store[d] < store[c],
                      store[c] # job.n, outcome[store[c]] # "failed", store[c] \notin refused
               PROVE  FALSE
    BY DEF RecordsWhole, RecordWriters
  <2> DEFINE m == store[c]
  <2>1. /\ m \in Nat /\ store[d] \in Nat /\ m # 0 /\ m <= Started /\ Started \in Nat
        /\ DOMAIN accepted = 1 .. Len(accepted) /\ DOMAIN outcome = 1 .. Len(accepted)
        /\ Started <= Len(accepted) /\ Len(accepted) \in Nat /\ m \in DOMAIN accepted
        /\ InHand \in {0, 1} /\ (InHand = 1 <=> worker \in {"draining", "reading"})
    BY Numbers DEF TypeOK, StoreInv
  <2>2. PICK i \in DOMAIN accepted[m] : accepted[m][i] = c
    BY <2>1 DEF StoreInv, WrittenBy
  <2>3. m # Started \/ InHand = 0
    BY <2>1 DEF JobInv
  <2>4. m <= Ended
    BY <2>1, <2>3 DEF Ended
  <2>5. outcome[m] # NoOutcome
    BY <2>1, <2>4 DEF JobInv, Ended
  <2>6. outcome[m] \in Outcome
    BY <2>1, ElementOfSeq DEF TypeOK, JobInv
  <2>7. outcome[m] = "persisted"
    BY <2>1, <2>5, <2>6 DEF Outcome, StoreInv
  <2>8. accepted[m] \in Payloads
    BY <2>1, ElementOfSeq DEF TypeOK
  <2>9. PICK j \in DOMAIN accepted[m] : accepted[m][j] = d
    BY <2>2, <2>8, WholeRecords
  <2>10. store[d] >= m
    BY <2>1, <2>7, <2>9 DEF StoreInv, PersistedIsStored
  <2>. QED
    BY <2>1, <2>10
<1>. QED
  BY <1>1, TypeCorrect, JobsInvariant, StoreInvariant, PTL
-----------------------------------------------------------------------------
(***************************************************************************)
(* Refinement of OrderedIngest                                             *)
(***************************************************************************)
CellsOf(payload) == {payload[i] : i \in DOMAIN payload}
JobsOf(acc) == [n \in DOMAIN acc |-> {acc[n][i] : i \in DOMAIN acc[n]}]
Greatest(db) == LET written == {db[c] : c \in Cell}
                IN CHOOSE n \in written : \A m \in written : m <= n
IngestJobs == JobsOf(accepted)
LastWriter == Greatest(store)

(* The abstract jobs are a sequence of sets of cells, one for each payload. *)
LEMMA JobsOfIsASeq ==
  ASSUME NEW acc \in Seq(Payloads)
  PROVE  /\ JobsOf(acc) \in Seq(SUBSET Cell)
         /\ Len(JobsOf(acc)) = Len(acc)
         /\ \A n \in 1 .. Len(acc) : JobsOf(acc)[n] = CellsOf(acc[n])
<1>1. Len(acc) \in Nat /\ DOMAIN acc = 1 .. Len(acc)
  BY LenProperties
<1>2. \A n \in 1 .. Len(acc) : CellsOf(acc[n]) \in SUBSET Cell
  <2> SUFFICES ASSUME NEW n \in 1 .. Len(acc), NEW i \in DOMAIN acc[n]
               PROVE  acc[n][i] \in Cell
    BY DEF CellsOf
  <2>1. acc[n] \in Seq(Cell)
    BY <1>1, ElementOfSeq, ReceiverAssumption
  <2>. QED
    BY <2>1, LenProperties, ElementOfSeq
<1>3. /\ DOMAIN JobsOf(acc) = 1 .. Len(acc)
      /\ \A n \in 1 .. Len(acc) : JobsOf(acc)[n] = CellsOf(acc[n])
  BY <1>1 DEF JobsOf, CellsOf
<1>4. JobsOf(acc) \in [1 .. Len(acc) -> SUBSET Cell]
  BY <1>1, <1>2, <1>3 DEF JobsOf
<1>5. JobsOf(acc) \in Seq(SUBSET Cell)
  BY <1>1, <1>4, SeqDef
<1>6. Len(JobsOf(acc)) = Len(acc)
  BY <1>1, <1>3, <1>5, LenProperties
<1>. QED
  BY <1>3, <1>5, <1>6

(* One more payload is one more abstract job. *)
LEMMA JobsOfAppend ==
  ASSUME NEW acc \in Seq(Payloads), NEW payload \in Payloads
  PROVE  /\ JobsOf(Append(acc, payload)) = Append(JobsOf(acc), CellsOf(payload))
         /\ CellsOf(payload) \in SUBSET Cell
<1> DEFINE longer == Append(acc, payload)
           cells == CellsOf(payload)
<1>1. /\ longer \in Seq(Payloads) /\ Len(longer) = Len(acc) + 1 /\ Len(acc) \in Nat
      /\ \A n \in 1 .. Len(acc) : longer[n] = acc[n]
      /\ longer[Len(acc) + 1] = payload
  BY AppendProperties, LenProperties
<1>2. cells \in SUBSET Cell
  <2>1. payload \in Seq(Cell)
    BY ReceiverAssumption
  <2>. QED
    BY <2>1, LenProperties, ElementOfSeq DEF CellsOf
<1> HIDE DEF longer, cells
<1>3. /\ Append(JobsOf(acc), cells) \in Seq(SUBSET Cell)
      /\ Len(Append(JobsOf(acc), cells)) = Len(acc) + 1
      /\ \A n \in 1 .. Len(acc) : Append(JobsOf(acc), cells)[n] = CellsOf(acc[n])
      /\ Append(JobsOf(acc), cells)[Len(acc) + 1] = cells
  BY <1>2, JobsOfIsASeq, AppendProperties
<1>4. /\ JobsOf(longer) \in Seq(SUBSET Cell) /\ Len(JobsOf(longer)) = Len(acc) + 1
      /\ \A n \in 1 .. Len(acc) + 1 : JobsOf(longer)[n] = CellsOf(longer[n])
  BY <1>1, JobsOfIsASeq
<1>5. \A n \in 1 .. Len(acc) + 1 : JobsOf(longer)[n] = Append(JobsOf(acc), cells)[n]
  <2> SUFFICES ASSUME NEW n \in 1 .. Len(acc) + 1
               PROVE  JobsOf(longer)[n] = Append(JobsOf(acc), cells)[n]
    OBVIOUS
  <2>0. Len(acc) \in Nat
    BY <1>1
  <2>1. CASE n = Len(acc) + 1
    BY <1>1, <1>3, <1>4, <2>1 DEF cells
  <2>2. CASE n \in 1 .. Len(acc)
    BY <1>1, <1>3, <1>4, <2>2
  <2>3. n = Len(acc) + 1 \/ n \in 1 .. Len(acc)
    BY <2>0
  <2>. QED
    BY <2>1, <2>2, <2>3
<1>6. JobsOf(longer) = Append(JobsOf(acc), cells)
  BY <1>3, <1>4, <1>5, SeqEqual
<1>. QED
  BY <1>2, <1>6 DEF longer, cells

(* The last writer is a value in STATE_DB, and none is greater. *)
LEMMA GreatestIsLast ==
  ASSUME NEW db, NEW e \in Cell, \A d \in Cell : db[d] <= db[e]
  PROVE  (\E c \in Cell : Greatest(db) = db[c]) /\ \A c \in Cell : db[c] <= Greatest(db)
<1> DEFINE written == {db[c] : c \in Cell}
<1>1. \E n \in written : \A m \in written : m <= n
  OBVIOUS
<1>2. Greatest(db) \in written /\ \A m \in written : m <= Greatest(db)
  BY <1>1 DEF Greatest
<1>. QED
  BY <1>2

(***************************************************************************)
(* Each step of the receiver is a step of OrderedIngest or changes none of *)
(* what it sees: writes reach STATE_DB in the order of acceptance, which   *)
(* is the reason for one queue and one worker.                             *)
(***************************************************************************)
THEOREM IngestIsOrdered == Spec => ImplementsOrderedIngest
<1>1. Init => Ordered!Init
  <2> SUFFICES ASSUME Init PROVE Ordered!Init
    OBVIOUS
  <2>1. IngestJobs = <<>>
    BY DEF Init, IngestJobs, JobsOf
  <2>2. store = [c \in Cell |-> 0] /\ \A c \in Cell : store[c] = 0
    BY DEF Init
  <2>3. LastWriter = 0
    <3>1. \E c \in Cell : \A d \in Cell : store[d] <= store[c]
      BY <2>2, ReceiverAssumption
    <3>. QED
      BY <2>2, <3>1, GreatestIsLast DEF LastWriter
  <2>. QED
    BY <2>1, <2>2, <2>3
       DEF Ordered!Init, IngestJobs, JobsOf, LastWriter, Greatest
<1>2. TypeOK /\ JobInv /\ StoreInv /\ StoreInv' /\ [Next]_vars
      => [Ordered!Next]_(Ordered!ingestVars)
  <2> SUFFICES ASSUME TypeOK, JobInv, StoreInv, StoreInv', [Next]_vars
               PROVE  Ordered!Next \/ UNCHANGED Ordered!ingestVars
    OBVIOUS
  <2>1. ASSUME UNCHANGED <<accepted, store>>
        PROVE  UNCHANGED Ordered!ingestVars
    BY <2>1 DEF Ordered!ingestVars
  <2>2. ASSUME Enqueue
        PROVE  Ordered!Next
    <3>1. /\ accepted' = Append(accepted, call[1]) /\ call[1] \in Payloads
          /\ UNCHANGED store /\ accepted \in Seq(Payloads)
      BY <2>2 DEF Enqueue, TypeOK, NoCall, connectionVars
    <3>2. /\ IngestJobs' = Append(IngestJobs, CellsOf(call[1]))
          /\ CellsOf(call[1]) \in SUBSET Cell
      BY <3>1, JobsOfAppend DEF IngestJobs
    <3>3. Ordered!Accept
      BY <3>1, <3>2 DEF Ordered!Accept, IngestJobs, JobsOf
    <3>. QED
      BY <3>3 DEF Ordered!Next
  <2>3. ASSUME RedisExecutes
        PROVE  Ordered!Next
    <3>1. /\ UNCHANGED accepted /\ Started' = Started /\ Started \in 1 .. Len(accepted)
          /\ accepted \in Seq(Payloads) /\ store \in [Cell -> Nat] /\ Started \in Nat
      BY <2>3, ExecuteStore, Numbers DEF TypeOK
    <3>2. /\ \A c \in Cell : store[c] <= Started
          /\ \A c \in Cell : store'[c] <= Started
      BY <3>1 DEF StoreInv
    <3>3. PICK i \in DOMAIN accepted[Started] :
            store' = [store EXCEPT ![accepted[Started][i]] = Started]
      BY <2>3, ExecuteStore
    <3> DEFINE cell == accepted[Started][i]
    <3>4. /\ Len(IngestJobs) = Len(accepted) /\ IngestJobs[Started] = CellsOf(accepted[Started])
          /\ IngestJobs \in Seq(SUBSET Cell)
      BY <3>1, JobsOfIsASeq DEF IngestJobs
    <3>5. cell \in IngestJobs[Started] /\ cell \in Cell
      <4>1. cell \in IngestJobs[Started]
        BY <3>4 DEF CellsOf
      <4>2. IngestJobs[Started] \in SUBSET Cell
        BY <3>1, <3>4, ElementOfSeq
      <4>. QED
        BY <4>1, <4>2
    <3>6. LastWriter <= Started
      BY <3>2, GreatestIsLast DEF StoreInv, LastWriter
    <3>7. LastWriter' = Started
      <4> HIDE DEF cell
      <4>1. PICK e \in Cell : \A d \in Cell : store'[d] <= store'[e]
        BY DEF StoreInv
      <4>2. /\ \E c \in Cell : LastWriter' = store'[c]
            /\ \A c \in Cell : store'[c] <= LastWriter'
        BY <4>1, GreatestIsLast DEF LastWriter
      <4>3. store' \in [Cell -> Nat] /\ store'[cell] = Started
        BY <3>1, <3>3, <3>5 DEF cell
      <4>. QED
        BY <3>1, <3>2, <3>5, <4>2, <4>3
    <3>8. PICK n \in 1 .. Len(accepted), c \in Cell : n = Started /\ c = cell
      BY <3>1, <3>5
    <3>9. Ordered!Write(n, c)
      BY <3>1, <3>3, <3>5, <3>6, <3>7, <3>8
         DEF Ordered!Write, IngestJobs, JobsOf, LastWriter, Greatest
    <3>10. n \in 1 .. Len([k \in DOMAIN accepted |->
                              {accepted[k][l] : l \in DOMAIN accepted[k]}])
      BY <3>4 DEF IngestJobs, JobsOf
    <3>. QED
      BY <3>9, <3>10 DEF Ordered!Next
  <2>4. CASE \/ SubmitMalformed \/ DropQueueFull \/ Destroy
             \/ \E payload \in Payloads : Submit(payload)
    BY <2>1, <2>4
       DEF SubmitMalformed, DropQueueFull, Destroy, Submit, connectionVars, intakeVars
  <2>5. CASE TakeJob \/ Sleep \/ End \/ Connect \/ Pipeline \/ LinkBreaks \/ RedisRefuses
    BY <2>1, <2>5
       DEF TakeJob, Sleep, End, Connect, Pipeline, LinkBreaks, RedisRefuses,
           connectionVars, intakeVars
  <2>6. CASE ConnectFails \/ PersistEmpty \/ CommandFails \/ ReadReply
    BY <2>1, <2>6
       DEF ConnectFails, PersistEmpty, CommandFails, ReadReply, Persisted, GiveUp, Finish,
           connectionVars, intakeVars
  <2>7. CASE UNCHANGED vars
    BY <2>1, <2>7 DEF vars, connectionVars, intakeVars
  <2>. QED
    BY <2>2, <2>3, <2>4, <2>5, <2>6, <2>7 DEF Next, DBusThread, Worker, Drain, Redis
<1>. QED
  BY <1>1, <1>2, TypeCorrect, JobsInvariant, StoreInvariant, PTL
     DEF Spec, ImplementsOrderedIngest, Ordered!Spec
=============================================================================
