------------------------- MODULE LeakSensors_proofs -------------------------
(***************************************************************************)
(* Theorems about LeakSensors, for every set of sensors, everything that   *)
(* thermalctld may write, and every bound.                                 *)
(***************************************************************************)
EXTENDS LeakSensors, SequenceTheorems, FiniteSetTheorems, TLAPS

-----------------------------------------------------------------------------
(* What is in a sequence once something was appended. *)
Has(seq, m) == \E i \in DOMAIN seq : seq[i] = m

LEMMA AppendHas ==
  ASSUME NEW S, NEW seq \in Seq(S), NEW e \in S
  PROVE  /\ Append(seq, e) \in Seq(S)
         /\ \A m : Has(Append(seq, e), m) <=> Has(seq, m) \/ m = e
<1>1. /\ Append(seq, e) \in Seq(S) /\ Len(seq) \in Nat
      /\ DOMAIN seq = 1 .. Len(seq) /\ DOMAIN Append(seq, e) = 1 .. Len(seq) + 1
      /\ \A i \in 1 .. Len(seq) : Append(seq, e)[i] = seq[i]
      /\ Append(seq, e)[Len(seq) + 1] = e
  BY AppendProperties, LenProperties
<1>2. /\ \A i \in 1 .. Len(seq) + 1 : i \in 1 .. Len(seq) \/ i = Len(seq) + 1
      /\ \A i \in 1 .. Len(seq) : i \in 1 .. Len(seq) + 1
      /\ Len(seq) + 1 \in 1 .. Len(seq) + 1
  BY <1>1
<1>3. ASSUME NEW m, Has(Append(seq, e), m) PROVE Has(seq, m) \/ m = e
  BY <1>1, <1>2, <1>3 DEF Has
<1>4. ASSUME NEW m, Has(seq, m) PROVE Has(Append(seq, e), m)
  BY <1>1, <1>2, <1>4 DEF Has
<1>5. Has(Append(seq, e), e)
  BY <1>1, <1>2 DEF Has
<1>. QED
  BY <1>1, <1>3, <1>4, <1>5

(* What is in a sequence whose first element is taken. *)
LEMMA TailHas ==
  ASSUME NEW S, NEW seq \in Seq(S), seq # <<>>
  PROVE  /\ Head(seq) \in S /\ Tail(seq) \in Seq(S)
         /\ \A m : Has(seq, m) <=> m = Head(seq) \/ Has(Tail(seq), m)
         /\ Has(Tail(seq), Head(seq)) <=> \E i \in 2 .. Len(seq) : seq[i] = Head(seq)
<1>1. /\ Head(seq) \in S /\ Tail(seq) \in Seq(S) /\ Len(seq) \in Nat \ {0}
      /\ DOMAIN seq = 1 .. Len(seq) /\ DOMAIN Tail(seq) = 1 .. Len(seq) - 1
      /\ Head(seq) = seq[1]
      /\ \A i \in 1 .. Len(seq) - 1 : Tail(seq)[i] = seq[i + 1]
  BY HeadTailProperties, LenProperties, EmptySeq
<1>2. /\ \A i \in 1 .. Len(seq) : i = 1 \/ i \in 2 .. Len(seq)
      /\ \A i \in 2 .. Len(seq) : i - 1 \in 1 .. Len(seq) - 1 /\ i = (i - 1) + 1
      /\ \A i \in 1 .. Len(seq) - 1 : i + 1 \in 2 .. Len(seq) /\ i + 1 \in 1 .. Len(seq)
      /\ 1 \in 1 .. Len(seq) /\ 2 .. Len(seq) \subseteq 1 .. Len(seq)
  BY <1>1
<1>3. \A m : Has(Tail(seq), m) <=> \E i \in 2 .. Len(seq) : seq[i] = m
  <2>1. ASSUME NEW m, Has(Tail(seq), m) PROVE \E i \in 2 .. Len(seq) : seq[i] = m
    BY <1>1, <1>2, <2>1 DEF Has
  <2>2. ASSUME NEW m, NEW i \in 2 .. Len(seq), seq[i] = m PROVE Has(Tail(seq), m)
    <3>1. i - 1 \in DOMAIN Tail(seq) /\ Tail(seq)[i - 1] = m
      BY <1>1, <1>2, <2>2
    <3>. QED
      BY <3>1 DEF Has
  <2>. QED
    BY <2>1, <2>2
<1>4. \A m : Has(seq, m) <=> m = seq[1] \/ \E i \in 2 .. Len(seq) : seq[i] = m
  BY <1>1, <1>2 DEF Has
<1>. QED
  BY <1>1, <1>3, <1>4

-----------------------------------------------------------------------------
(***************************************************************************)
(* Type correctness                                                        *)
(***************************************************************************)
Signal == [sensor : discovered \ Unexportable, state : DetectorState]

(* LeakTypeOK, with the types it leaves out, and the state before anything
   was read. *)
LeakTypeInv ==
  /\ DOMAIN liquid = Sensor
  /\ \A s \in Sensor : DOMAIN liquid[s] \subseteq Field
                       /\ (liquid[s] # NoRecord => DOMAIN liquid[s] # {})
  /\ phase \in {"build", "subscribe", "running"}
  /\ subscribed \subseteq discovered /\ discovered \subseteq Sensor
  /\ exported \in [discovered \ Unexportable -> Exported]
  /\ DOMAIN cachedLeakStates \subseteq subscribed
  /\ \A s \in DOMAIN cachedLeakStates : cachedLeakStates[s] \in Exported
  /\ channel \in Seq(subscribed)
  /\ fanout = Idle \/ fanout \in [sensor : subscribed, left : 1 .. Cardinality(Field)]
  /\ signals \in Seq(Signal)
  /\ lastEvent \in [Sensor -> (DetectorState \ {"Unavailable"}) \cup {NoEvent}]
  /\ lost \subseteq Sensor
  /\ phase = "build" =>
       discovered = {} /\ signals = <<>> /\ \A s \in Sensor : lastEvent[s] = NoEvent

(* What the code derives from a record is what the objects can show. *)
LEMMA DerivedType == \A record : Derived(record) \in Exported
BY DEF Derived, Exported, detectorState, functional, DetectorState

(* The number of fields of a record that exists. *)
LEMMA FieldCount ==
  ASSUME NEW F, F \subseteq Field
  PROVE  /\ Cardinality(F) \in Nat
         /\ Cardinality(F) = 0 <=> F = {}
         /\ Cardinality(F) <= Cardinality(Field)
         /\ Cardinality(Field) \in Nat
<1>1. IsFiniteSet(Field)
  <2>1. IsFiniteSet({"leaking"} \cup {"leak_status"})
    BY FS_Singleton, FS_AddElement
  <2>2. IsFiniteSet({"leaking"} \cup {"leak_status"} \cup {"leak_sensor_status"})
    BY <2>1, FS_AddElement
  <2>3. IsFiniteSet({"leaking"} \cup {"leak_status"} \cup {"leak_sensor_status"}
                    \cup {"leak_severity"})
    BY <2>2, FS_AddElement
  <2>4. Field = {"leaking"} \cup {"leak_status"} \cup {"leak_sensor_status"}
                \cup {"leak_severity"}
    BY DEF Field
  <2>. QED
    BY <2>3, <2>4
<1>. QED
  BY <1>1, FS_Subset, FS_CardinalityType, FS_EmptySet

LEMMA LeakTypeInit == Init => LeakTypeInv
<1> SUFFICES ASSUME Init PROVE LeakTypeInv
  OBVIOUS
<1>1. DOMAIN NoRecord = {}
  BY DEF NoRecord
<1>2. DOMAIN liquid = Sensor /\ \A s \in Sensor : liquid[s] \in {NoRecord} \cup Update
  BY DEF Init
<1>3. \A s \in Sensor : DOMAIN liquid[s] \subseteq Field
                        /\ (liquid[s] # NoRecord => DOMAIN liquid[s] # {})
  BY <1>1, <1>2, LeakAssumption
<1>4. exported \in [{} \ Unexportable -> Exported]
  BY DEF Init, NoRecord
<1>5. channel \in Seq({}) /\ signals \in Seq(Signal)
  BY EmptySeq DEF Init
<1>. QED
  BY <1>1, <1>2, <1>3, <1>4, <1>5 DEF Init, LeakTypeInv

(* A subscriber that learns of one sensor more keeps the types of the rest. *)
LEMMA SeqOfMore ==
  ASSUME NEW S, NEW T, S \subseteq T, NEW seq \in Seq(S)
  PROVE  seq \in Seq(T)
BY SeqMonotonic

LEMMA BuildModelType ==
  ASSUME LeakTypeInv, BuildModel
  PROVE  LeakTypeInv'
<1>1. discovered' \subseteq Sensor
  BY DEF BuildModel
<1>2. exported' \in [discovered' \ Unexportable -> Exported]
  BY DerivedType DEF BuildModel
<1>3. signals' = <<>> /\ subscribed = {}
  BY DEF BuildModel, LeakTypeInv
<1>4. signals' \in Seq(Signal')
  BY <1>3, EmptySeq
<1>5. phase' = "subscribe" /\ lost' = {} /\ subscribed' = subscribed
  BY DEF BuildModel
<1>6. UNCHANGED <<liquid, channel, fanout, cachedLeakStates, lastEvent>>
  BY DEF BuildModel, eventVars
<1>. QED
  BY <1>1, <1>2, <1>3, <1>4, <1>5, <1>6 DEF LeakTypeInv

LEMMA SubscribeType ==
  ASSUME LeakTypeInv, NEW s \in Sensor, Subscribe(s)
  PROVE  LeakTypeInv'
<1>1. s \in discovered /\ subscribed' = subscribed \cup {s} /\ phase = "subscribe"
  BY DEF Subscribe
<1>2. subscribed \subseteq subscribed' /\ channel \in Seq(subscribed')
  BY <1>1, SeqOfMore DEF LeakTypeInv
<1>3. channel' \in Seq(subscribed') /\ lost' \subseteq Sensor
  <2>1. CASE channel = <<>>
    BY <1>2, <2>1 DEF Subscribe, LeakTypeInv
  <2>2. CASE channel # <<>>
    <3>1. channel' = Tail(channel) /\ lost' \subseteq lost \cup {Head(channel)}
      BY <2>2 DEF Subscribe
    <3>2. Head(channel) \in subscribed /\ Tail(channel) \in Seq(subscribed')
      BY <1>2, <2>2, TailHas DEF LeakTypeInv
    <3>. QED
      BY <3>1, <3>2 DEF LeakTypeInv
  <2>. QED
    BY <2>1, <2>2
<1>4. UNCHANGED <<liquid, phase, discovered, exported, fanout, cachedLeakStates, signals, lastEvent>>
  BY DEF Subscribe, eventVars
<1>5. fanout = Idle \/ fanout \in [sensor : subscribed', left : 1 .. Cardinality(Field)]
  BY <1>2 DEF LeakTypeInv
<1>6. signals \in Seq(Signal')
  BY <1>4 DEF LeakTypeInv, Signal
<1>. QED
  BY <1>1, <1>2, <1>3, <1>4, <1>5, <1>6 DEF LeakTypeInv

LEMMA WriteType ==
  ASSUME LeakTypeInv, NEW s \in Sensor, NEW u \in Update, Write(s, u)
  PROVE  LeakTypeInv'
<1>1. liquid' = [liquid EXCEPT ![s] = HSet(liquid[s], u)]
  BY DEF Write
<1>2. DOMAIN HSet(liquid[s], u) = DOMAIN liquid[s] \cup DOMAIN u
  BY DEF HSet
<1>3. /\ DOMAIN liquid' = Sensor
      /\ \A t \in Sensor : DOMAIN liquid'[t] \subseteq Field
                           /\ (liquid'[t] # NoRecord => DOMAIN liquid'[t] # {})
  BY <1>1, <1>2, LeakAssumption DEF LeakTypeInv
<1>4. channel' \in Seq(subscribed) /\ lost' \subseteq Sensor
  <2>1. CASE s \in subscribed /\ subscriber = "up"
    <3>1. channel' = Append(channel, s) /\ lost' = lost \ {s}
      BY <2>1 DEF Write, Announce
    <3>2. Append(channel, s) \in Seq(subscribed)
      BY <2>1, AppendHas DEF LeakTypeInv
    <3>. QED
      BY <3>1, <3>2 DEF LeakTypeInv
  <2>2. CASE ~(s \in subscribed /\ subscriber = "up")
    BY <2>2 DEF Write, Announce, LeakTypeInv
  <2>. QED
    BY <2>1, <2>2
<1>5. UNCHANGED <<phase, discovered, subscribed, exported, fanout, cachedLeakStates,
                  signals, lastEvent>>
  BY DEF Write, startVars, eventVars
<1>. QED
  BY <1>3, <1>4, <1>5 DEF LeakTypeInv, Signal

LEMMA DeleteType ==
  ASSUME LeakTypeInv, NEW s \in Sensor, Delete(s)
  PROVE  LeakTypeInv'
<1>1. liquid' = [liquid EXCEPT ![s] = NoRecord]
  BY DEF Delete
<1>2. /\ DOMAIN liquid' = Sensor
      /\ \A t \in Sensor : DOMAIN liquid'[t] \subseteq Field
                           /\ (liquid'[t] # NoRecord => DOMAIN liquid'[t] # {})
  BY <1>1 DEF LeakTypeInv, NoRecord
<1>3. UNCHANGED <<phase, discovered, subscribed, exported, channel, fanout, cachedLeakStates,
                  signals, lastEvent, lost>>
  BY DEF Delete, startVars, eventVars
<1>. QED
  BY <1>2, <1>3 DEF LeakTypeInv, Signal

LEMMA TakeNotificationType ==
  ASSUME LeakTypeInv, TakeNotification
  PROVE  LeakTypeInv'
<1>1. channel' = Tail(channel) /\ channel # <<>>
  BY DEF TakeNotification
<1>2. Head(channel) \in subscribed /\ Tail(channel) \in Seq(subscribed)
  BY <1>1, TailHas DEF LeakTypeInv
<1> DEFINE n == Cardinality(DOMAIN liquid[Head(channel)])
<1>3. n \in Nat /\ n <= Cardinality(Field) /\ Cardinality(Field) \in Nat
  BY <1>2, FieldCount DEF LeakTypeInv
<1>4. fanout' = IF n = 0 THEN Idle ELSE [sensor |-> Head(channel), left |-> n]
  BY DEF TakeNotification
<1> HIDE DEF n
<1>5. fanout' = Idle \/ fanout' \in [sensor : subscribed, left : 1 .. Cardinality(Field)]
  BY <1>2, <1>3, <1>4
<1>6. UNCHANGED <<liquid, phase, discovered, subscribed, exported, cachedLeakStates,
                  signals, lastEvent, lost>>
  BY DEF TakeNotification, redisVars, startVars, eventVars
<1>. QED
  BY <1>1, <1>2, <1>5, <1>6 DEF LeakTypeInv, Signal

(* What one call of onRedisFieldChange() may do to the objects and the signals. *)
LEMMA CallbackStep ==
  ASSUME LeakTypeInv, Callback
  PROVE  /\ fanout.sensor \in subscribed
         /\ phase # "build"
         /\ \/ UNCHANGED <<cachedLeakStates, exported, signals>>
            \/ LET s == fanout.sensor
                   new == Derived(liquid[s])
               IN /\ adapter = "up" /\ liquid[s] # NoRecord
                  /\ Remember(s, new)
                  /\ updateLeakSensorState(s, new)
<1>1. fanout # Idle /\ onLeakFieldChange(fanout.sensor)
  BY DEF Callback
<1>2. fanout.sensor \in subscribed
  BY <1>1 DEF LeakTypeInv
<1>3. phase # "build"
  BY <1>2 DEF LeakTypeInv
<1>. QED
  BY <1>1, <1>2, <1>3 DEF onLeakFieldChange

LEMMA CallbackType ==
  ASSUME LeakTypeInv, Callback
  PROVE  LeakTypeInv'
<1> DEFINE s == fanout.sensor
           new == Derived(liquid[s])
<1>1. fanout \in [sensor : subscribed, left : 1 .. Cardinality(Field)] /\ s \in subscribed
  BY DEF Callback, LeakTypeInv
<1>2. fanout' = Idle \/ fanout' \in [sensor : subscribed, left : 1 .. Cardinality(Field)]
  <2>1. Cardinality(Field) \in Nat
    BY FieldCount
  <2>2. CASE fanout.left = 1
    BY <2>2 DEF Callback
  <2>3. CASE fanout.left # 1
    <3>1. fanout' = [fanout EXCEPT !.left = fanout.left - 1]
      BY <2>3 DEF Callback
    <3>2. fanout.left - 1 \in 1 .. Cardinality(Field)
      BY <1>1, <2>1, <2>3
    <3>. QED
      BY <1>1, <3>1, <3>2
  <2>. QED
    BY <2>2, <2>3
<1>3. UNCHANGED <<liquid, phase, discovered, subscribed, channel, lastEvent, lost>>
  BY DEF Callback, redisVars, startVars, eventVars
<1>4. phase # "build" /\ s \in Sensor
  BY <1>1 DEF LeakTypeInv
<1>5. CASE UNCHANGED <<cachedLeakStates, exported, signals>>
  BY <1>2, <1>3, <1>5 DEF LeakTypeInv, Signal
<1>6. CASE Remember(s, new) /\ updateLeakSensorState(s, new)
  <2>1. new \in Exported
    BY DerivedType
  <2> HIDE DEF new
  <2>2. /\ DOMAIN cachedLeakStates' = DOMAIN cachedLeakStates \cup {s}
        /\ \A t \in DOMAIN cachedLeakStates' : cachedLeakStates'[t] \in Exported
    BY <1>6, <2>1 DEF Remember, LeakTypeInv
  <2>3. exported' \in [discovered \ Unexportable -> Exported]
    BY <1>6, <2>1 DEF updateLeakSensorState, LeakTypeInv
  <2>4. signals' \in Seq(Signal)
    <3>1. CASE s \in DOMAIN exported
      <4>1. [sensor |-> s, state |-> new.state] \in Signal
        BY <2>1, <3>1 DEF Signal, Exported, LeakTypeInv
      <4>2. Append(signals, [sensor |-> s, state |-> new.state]) \in Seq(Signal)
        BY <4>1, AppendHas DEF LeakTypeInv
      <4>. QED
        BY <1>6, <3>1, <4>2 DEF updateLeakSensorState, LeakTypeInv
    <3>2. CASE s \notin DOMAIN exported
      BY <1>6, <3>2 DEF updateLeakSensorState, LeakTypeInv
    <3>. QED
      BY <3>1, <3>2
  <2>. QED
    BY <1>1, <1>2, <1>3, <1>4, <2>2, <2>3, <2>4 DEF LeakTypeInv, Signal
<1>. QED
  BY <1>5, <1>6, CallbackStep

LEMMA HandleSignalType ==
  ASSUME LeakTypeInv, HandleSignal
  PROVE  LeakTypeInv'
<1>1. /\ signals # <<>> /\ signals \in Seq(Signal) /\ signals' = Tail(signals)
      /\ phase # "build"
  BY DEF HandleSignal, LeakTypeInv
<1>2. Head(signals) \in Signal /\ Tail(signals) \in Seq(Signal)
  BY <1>1, TailHas
<1>3. lastEvent' \in [Sensor -> (DetectorState \ {"Unavailable"}) \cup {NoEvent}]
  BY <1>2 DEF HandleSignal, HasEvent, Signal, DetectorState, LeakTypeInv
<1>4. UNCHANGED <<liquid, phase, discovered, subscribed, exported, channel, fanout,
                  cachedLeakStates, lost>>
  BY DEF HandleSignal, redisVars, startVars
<1>. QED
  BY <1>1, <1>2, <1>3, <1>4 DEF LeakTypeInv, Signal

LEMMA SubscriberEndsType ==
  ASSUME LeakTypeInv, SubscriberEnds
  PROVE  LeakTypeInv'
<1>1. channel \in Seq(subscribed) /\ subscribed \subseteq Sensor
  BY DEF LeakTypeInv
<1>2. {channel[i] : i \in DOMAIN channel} \subseteq Sensor
  BY <1>1, ElementOfSeq, LenProperties
<1>3. channel' \in Seq(subscribed) /\ lost' \subseteq Sensor
  BY <1>2, EmptySeq DEF SubscriberEnds, LeakTypeInv
<1>4. UNCHANGED <<liquid, phase, discovered, subscribed, exported, fanout,
                  cachedLeakStates, signals, lastEvent>>
  BY DEF SubscriberEnds, startVars, eventVars
<1>. QED
  BY <1>3, <1>4 DEF LeakTypeInv, Signal

LEMMA LeakTypeStep ==
  ASSUME LeakTypeInv, [Next]_vars
  PROVE  LeakTypeInv'
<1>1. CASE Run
  BY <1>1 DEF Run, redisVars, eventVars, LeakTypeInv, Signal
<1>2. CASE AdapterBreaks
  BY <1>2 DEF AdapterBreaks, redisVars, startVars, eventVars, LeakTypeInv, Signal
<1>3. CASE UNCHANGED vars
  BY <1>3 DEF vars, redisVars, startVars, eventVars, LeakTypeInv, Signal
<1>. QED
  BY <1>1, <1>2, <1>3, BuildModelType, SubscribeType, WriteType, DeleteType,
     TakeNotificationType, CallbackType, HandleSignalType, SubscriberEndsType
     DEF Next, Startup, Thermalctld, SubscriberThread

(***************************************************************************)
(* LeakTypeOK: every variable of the leak sensors' way stays in its range; *)
(* only sensors that exist are subscribed, cached and announced, and no    *)
(* event names a state that has none.                                      *)
(***************************************************************************)
THEOREM LeakTypesCorrect == Spec => []LeakTypeOK
<1>1. LeakTypeInv => LeakTypeOK
  BY DEF LeakTypeInv, LeakTypeOK
<1>2. LeakTypeInv /\ [Next]_vars => LeakTypeInv'
  BY LeakTypeStep
<1>. QED
  BY <1>1, <1>2, LeakTypeInit, PTL DEF Spec

-----------------------------------------------------------------------------
(***************************************************************************)
(* The mirror                                                              *)
(***************************************************************************)

(* Nothing that could change what the object of s shows is under way. *)
Settled(s) ==
  /\ subscriber = "up" /\ adapter = "up"
  /\ (fanout = Idle \/ fanout.sensor # s) /\ ~Has(channel, s)
  /\ s \notin lost /\ liquid[s] # NoRecord

(***************************************************************************)
(* What was cached is what the object shows, so that a state taken for a   *)
(* repeat is one that it shows already; and what is settled is shown, also *)
(* before the event loop runs.                                             *)
(***************************************************************************)
MirrorInv ==
  \A s \in DOMAIN exported :
    /\ s \in DOMAIN cachedLeakStates => exported[s] = cachedLeakStates[s]
    /\ Settled(s) => exported[s] = Derived(liquid[s])

(* A step that changes neither the objects nor the cache, and settles nothing. *)
LEMMA MirrorKept ==
  ASSUME MirrorInv, UNCHANGED <<exported, cachedLeakStates>>,
         \A s \in DOMAIN exported : Settled(s)' => Settled(s) /\ liquid'[s] = liquid[s]
  PROVE  MirrorInv'
BY DEF MirrorInv

LEMMA MirrorStep ==
  ASSUME LeakTypeInv, MirrorInv, [Next]_vars
  PROVE  MirrorInv'
<1>1. /\ channel \in Seq(subscribed) /\ subscribed \subseteq Sensor /\ DOMAIN liquid = Sensor
      /\ DOMAIN exported = discovered \ Unexportable /\ discovered \subseteq Sensor
  BY DEF LeakTypeInv
<1>2. CASE BuildModel
  <2>1. subscribed = {} /\ DOMAIN cachedLeakStates = {}
    BY <1>2 DEF BuildModel, LeakTypeInv
  <2>2. \A s \in DOMAIN exported' : exported'[s] = Derived(liquid[s])
    BY <1>2 DEF BuildModel
  <2>3. UNCHANGED <<cachedLeakStates, liquid>>
    BY <1>2 DEF BuildModel
  <2>. QED
    BY <2>1, <2>2, <2>3 DEF MirrorInv
<1>3. ASSUME NEW s \in Sensor, Subscribe(s) PROVE MirrorInv'
  <2>1. UNCHANGED <<exported, cachedLeakStates, liquid, subscriber, adapter, fanout>>
    BY <1>3 DEF Subscribe, linkVars
  <2>2. ASSUME NEW t \in DOMAIN exported, Settled(t)' PROVE Settled(t)
    <3>1. CASE channel = <<>>
      BY <1>3, <2>1, <2>2, <3>1 DEF Subscribe, Settled
    <3>2. CASE channel # <<>>
      <4>1. /\ channel' = Tail(channel)
            /\ lost' = IF \E i \in 2 .. Len(channel) : channel[i] = Head(channel)
                         THEN lost ELSE lost \cup {Head(channel)}
        BY <1>3, <3>2 DEF Subscribe
      <4>2. /\ Has(channel, t) => t = Head(channel) \/ Has(Tail(channel), t)
            /\ Has(Tail(channel), Head(channel))
                 <=> \E i \in 2 .. Len(channel) : channel[i] = Head(channel)
        BY <1>1, <3>2, TailHas
      <4>. QED
        BY <2>1, <2>2, <4>1, <4>2 DEF Settled
    <3>. QED
      BY <3>1, <3>2
  <2>. QED
    BY <2>1, <2>2, MirrorKept
<1>4. CASE Run
  BY <1>4, MirrorKept DEF Run, Settled, Has, redisVars, linkVars
<1>5. ASSUME NEW s \in Sensor, NEW u \in Update, Write(s, u) PROVE MirrorInv'
  <2>1. /\ UNCHANGED <<exported, cachedLeakStates, subscriber, adapter, fanout>>
        /\ liquid' = [liquid EXCEPT ![s] = HSet(liquid[s], u)] /\ Announce(s)
    BY <1>5 DEF Write, linkVars
  <2>2. CASE s \in subscribed /\ subscriber = "up"
    <3>1. channel' = Append(channel, s) /\ lost' = lost \ {s}
      BY <2>1, <2>2 DEF Announce
    <3>2. \A m : Has(channel', m) <=> Has(channel, m) \/ m = s
      BY <1>1, <2>2, <3>1, AppendHas
    <3>3. ASSUME NEW t \in DOMAIN exported, Settled(t)'
          PROVE  Settled(t) /\ liquid'[t] = liquid[t]
      <4>1. t # s
        BY <3>2, <3>3 DEF Settled
      <4>. QED
        BY <1>1, <2>1, <3>1, <3>2, <3>3, <4>1 DEF Settled
    <3>. QED
      BY <2>1, <3>3, MirrorKept
  <2>3. CASE ~(s \in subscribed /\ subscriber = "up")
    <3>1. channel' = channel /\ lost' = lost \cup {s}
      BY <2>1, <2>3 DEF Announce
    <3>2. ASSUME NEW t \in DOMAIN exported, Settled(t)'
          PROVE  Settled(t) /\ liquid'[t] = liquid[t]
      <4>1. t # s
        BY <3>1, <3>2 DEF Settled
      <4>. QED
        BY <1>1, <2>1, <3>1, <3>2, <4>1 DEF Settled
    <3>. QED
      BY <2>1, <3>2, MirrorKept
  <2>. QED
    BY <2>2, <2>3
<1>6. ASSUME NEW s \in Sensor, Delete(s) PROVE MirrorInv'
  <2>1. /\ UNCHANGED <<exported, cachedLeakStates, subscriber, adapter, fanout, channel, lost>>
        /\ liquid' = [liquid EXCEPT ![s] = NoRecord]
    BY <1>6 DEF Delete, linkVars
  <2>2. ASSUME NEW t \in DOMAIN exported, Settled(t)'
        PROVE  Settled(t) /\ liquid'[t] = liquid[t]
    BY <1>1, <2>1, <2>2 DEF Settled
  <2>. QED
    BY <2>1, <2>2, MirrorKept
<1>7. CASE TakeNotification
  <2>1. /\ UNCHANGED <<exported, cachedLeakStates, subscriber, adapter, lost, liquid>>
        /\ channel # <<>> /\ channel' = Tail(channel) /\ fanout = Idle
    BY <1>7 DEF TakeNotification, linkVars, redisVars
  <2> DEFINE h == Head(channel)
             n == Cardinality(DOMAIN liquid[h])
  <2>2. h \in subscribed /\ \A m : Has(channel, m) <=> m = h \/ Has(Tail(channel), m)
    BY <1>1, <2>1, TailHas
  <2>3. liquid[h] # NoRecord => n # 0
    BY <1>1, <2>2, FieldCount DEF LeakTypeInv
  <2>4. fanout' = IF n = 0 THEN Idle ELSE [sensor |-> h, left |-> n]
    BY <1>7 DEF TakeNotification
  <2> HIDE DEF h, n
  <2>5. ASSUME NEW t \in DOMAIN exported, Settled(t)' PROVE Settled(t)
    <3>1. CASE n = 0
      <4>1. liquid[t] # NoRecord /\ fanout' = fanout
        BY <2>1, <2>4, <2>5, <3>1 DEF Settled
      <4>2. t # h
        BY <2>3, <3>1, <4>1
      <4>. QED
        BY <2>1, <2>2, <2>5, <4>1, <4>2 DEF Settled
    <3>2. CASE n # 0
      <4>1. fanout'.sensor = h /\ fanout' # Idle
        <5>1. fanout'.left # 0
          BY <2>4, <3>2
        <5>. QED
          BY <2>4, <3>2, <5>1 DEF Idle
      <4>2. t # h
        BY <2>5, <4>1 DEF Settled
      <4>. QED
        BY <2>1, <2>2, <2>5, <4>2 DEF Settled
    <3>. QED
      BY <3>1, <3>2
  <2>6. \A t \in DOMAIN exported : Settled(t)' => Settled(t) /\ liquid'[t] = liquid[t]
    BY <2>1, <2>5
  <2>. QED
    BY <2>1, <2>6, MirrorKept
<1>8. CASE Callback
  <2>1. PICK h : h = fanout.sensor
    OBVIOUS
  <2>2. PICK new : new = Derived(liquid[h])
    OBVIOUS
  <2>3. /\ fanout # Idle
        /\ UNCHANGED <<liquid, subscriber, adapter, lost, channel>>
        /\ onLeakFieldChange(h)
    BY <1>8, <2>1 DEF Callback, redisVars, linkVars
  <2>4. ASSUME NEW t, t # h, Settled(t)' PROVE Settled(t)
    BY <2>1, <2>3, <2>4 DEF Settled
  <2>5. Settled(h)' => adapter = "up" /\ liquid[h] # NoRecord
    BY <2>3 DEF Settled
  <2>6. CASE adapter = "up" /\ liquid[h] # NoRecord /\ IsNew(h, new)
    <3>1. Remember(h, new) /\ updateLeakSensorState(h, new)
      BY <2>3, <2>6, <2>2 DEF onLeakFieldChange
    <3>2. /\ DOMAIN exported' = DOMAIN exported
          /\ h \in DOMAIN exported => exported'[h] = new
          /\ \A t \in DOMAIN exported : t # h => exported'[t] = exported[t]
      BY <1>1, <3>1 DEF updateLeakSensorState
    <3>3. /\ cachedLeakStates'[h] = new
          /\ \A t : t # h => (t \in DOMAIN cachedLeakStates' <=> t \in DOMAIN cachedLeakStates)
          /\ \A t \in DOMAIN cachedLeakStates : t # h =>
                cachedLeakStates'[t] = cachedLeakStates[t]
      BY <3>1 DEF Remember
    <3>4. ASSUME NEW t \in DOMAIN exported', t # h
          PROVE  /\ t \in DOMAIN cachedLeakStates' => exported'[t] = cachedLeakStates'[t]
                 /\ Settled(t)' => exported'[t] = Derived(liquid'[t])
      BY <2>3, <2>4, <3>2, <3>3, <3>4 DEF MirrorInv
    <3>5. new = Derived(liquid'[h])
      BY <2>3, <2>2
    <3>. QED
      BY <3>2, <3>3, <3>4, <3>5 DEF MirrorInv
  <2>7. CASE ~(adapter = "up" /\ liquid[h] # NoRecord /\ IsNew(h, new))
    <3>1. UNCHANGED <<exported, cachedLeakStates>>
      BY <2>3, <2>7, <2>2 DEF onLeakFieldChange
    <3>2. Settled(h)' => h \in DOMAIN cachedLeakStates /\ cachedLeakStates[h] = new
      BY <2>5, <2>7 DEF IsNew
    <3>3. h \in DOMAIN exported /\ Settled(h)' => exported'[h] = Derived(liquid'[h])
      BY <2>3, <2>2, <3>1, <3>2 DEF MirrorInv
    <3>4. ASSUME NEW t \in DOMAIN exported', t # h
          PROVE  Settled(t)' => exported'[t] = Derived(liquid'[t])
      BY <2>3, <2>4, <3>1, <3>4 DEF MirrorInv
    <3>5. \A t \in DOMAIN exported' :
            t \in DOMAIN cachedLeakStates' => exported'[t] = cachedLeakStates'[t]
      BY <3>1 DEF MirrorInv
    <3>. QED
      BY <3>1, <3>3, <3>4, <3>5 DEF MirrorInv
  <2>. QED
    BY <2>6, <2>7
<1>9. CASE HandleSignal
  BY <1>9, MirrorKept DEF HandleSignal, Settled, Has, redisVars, linkVars
<1>10. CASE SubscriberEnds
  BY <1>10 DEF SubscriberEnds, MirrorInv, Settled
<1>11. CASE AdapterBreaks
  BY <1>11 DEF AdapterBreaks, MirrorInv, Settled
<1>12. CASE UNCHANGED vars
  BY <1>12, MirrorKept DEF vars, Settled, Has, redisVars, linkVars
<1>. QED
  BY <1>2, <1>3, <1>4, <1>5, <1>6, <1>7, <1>8, <1>9, <1>10, <1>11, <1>12
     DEF Next, Startup, Thermalctld, SubscriberThread

(***************************************************************************)
(* MirrorsWhenAnnounced: once every announced write is handled, DetectorState *)
(* and Functional show the record as it is now, whatever the sizes of the  *)
(* records and the order of the notifications.  Only with the cache tied   *)
(* to the objects (MirrorInv) may the bridge skip what it takes for a      *)
(* repeat.                                                                 *)
(***************************************************************************)
THEOREM LeaksAreMirrored == Spec => []MirrorsWhenAnnounced
<1>1. Init => MirrorInv
  BY DEF Init, NoRecord, MirrorInv
<1>2. LeakTypeInv /\ MirrorInv /\ [Next]_vars => MirrorInv' /\ LeakTypeInv'
  BY MirrorStep, LeakTypeStep
<1>3. MirrorInv => MirrorsWhenAnnounced
  BY DEF MirrorInv, MirrorsWhenAnnounced, Settled, UnderWay, Has
<1>. QED
  BY <1>1, <1>2, <1>3, LeakTypeInit, PTL DEF Spec

-----------------------------------------------------------------------------
(***************************************************************************)
(* The events                                                              *)
(***************************************************************************)

(* The k-th signal is the last one of its sensor. *)
IsLast(seq, k) == \A l \in DOMAIN seq : l > k => seq[l].sensor # seq[k].sensor

NoneOf(seq, s) == \A k \in DOMAIN seq : seq[k].sensor # s

(* The signals that are last ones once another was sent. *)
LEMMA AppendLast ==
  ASSUME NEW S, NEW seq \in Seq(S), NEW e \in S
  PROVE  /\ \A k \in DOMAIN Append(seq, e) : IsLast(Append(seq, e), k) =>
              \/ Append(seq, e)[k] = e
              \/ /\ k \in DOMAIN seq /\ IsLast(seq, k) /\ Append(seq, e)[k] = seq[k]
                 /\ seq[k].sensor # e.sensor
         /\ \A s : NoneOf(Append(seq, e), s) => NoneOf(seq, s) /\ e.sensor # s
<1> DEFINE longer == Append(seq, e)
<1>1. /\ Len(seq) \in Nat
      /\ DOMAIN seq = 1 .. Len(seq) /\ DOMAIN longer = 1 .. Len(seq) + 1
      /\ \A i \in 1 .. Len(seq) : longer[i] = seq[i]
      /\ longer[Len(seq) + 1] = e
  BY AppendProperties, LenProperties
<1> HIDE DEF longer
<1>2. /\ \A i \in 1 .. Len(seq) + 1 : i \in 1 .. Len(seq) \/ i = Len(seq) + 1
      /\ \A i \in 1 .. Len(seq) : i \in 1 .. Len(seq) + 1 /\ Len(seq) + 1 > i
      /\ Len(seq) + 1 \in 1 .. Len(seq) + 1
  BY <1>1
<1>3. ASSUME NEW k \in DOMAIN longer, IsLast(longer, k), k # Len(seq) + 1
      PROVE  /\ k \in DOMAIN seq /\ IsLast(seq, k) /\ longer[k] = seq[k]
             /\ seq[k].sensor # e.sensor
  <2>1. k \in DOMAIN seq /\ longer[k] = seq[k]
    BY <1>1, <1>2, <1>3
  <2>2. longer[Len(seq) + 1].sensor # longer[k].sensor
    BY <1>1, <1>2, <1>3, <2>1 DEF IsLast
  <2>3. IsLast(seq, k)
    BY <1>1, <1>2, <1>3, <2>1 DEF IsLast
  <2>. QED
    BY <1>1, <2>1, <2>2, <2>3
<1>4. ASSUME NEW s, NoneOf(longer, s) PROVE NoneOf(seq, s) /\ e.sensor # s
  BY <1>1, <1>2, <1>4 DEF NoneOf
<1>. QED
  BY <1>1, <1>3, <1>4 DEF longer

(* The signals that were last ones before the first was taken. *)
LEMMA TailLast ==
  ASSUME NEW S, NEW seq \in Seq(S), seq # <<>>
  PROVE  /\ \A k \in DOMAIN Tail(seq) : IsLast(Tail(seq), k) =>
              \E j \in DOMAIN seq : IsLast(seq, j) /\ Tail(seq)[k] = seq[j]
         /\ \A s : NoneOf(Tail(seq), s) =>
              \/ Head(seq).sensor # s /\ NoneOf(seq, s)
              \/ \E j \in DOMAIN seq :
                   Head(seq).sensor = s /\ IsLast(seq, j) /\ seq[j] = Head(seq)
<1> DEFINE rest == Tail(seq)
<1>1. /\ Len(seq) \in Nat \ {0} /\ DOMAIN seq = 1 .. Len(seq)
      /\ DOMAIN rest = 1 .. Len(seq) - 1 /\ Head(seq) = seq[1]
      /\ \A i \in 1 .. Len(seq) - 1 : rest[i] = seq[i + 1]
  BY HeadTailProperties, LenProperties, EmptySeq
<1> HIDE DEF rest
<1>2. /\ 1 \in 1 .. Len(seq)
      /\ \A i \in 1 .. Len(seq) - 1 : i + 1 \in 1 .. Len(seq)
      /\ \A i \in 1 .. Len(seq) : i # 1 => i - 1 \in 1 .. Len(seq) - 1 /\ (i - 1) + 1 = i
      /\ \A i \in 1 .. Len(seq), k \in 1 .. Len(seq) - 1 : i > k + 1 => i - 1 > k /\ i # 1
  BY <1>1
<1>3. ASSUME NEW k \in DOMAIN rest, IsLast(rest, k)
      PROVE  k + 1 \in DOMAIN seq /\ IsLast(seq, k + 1) /\ rest[k] = seq[k + 1]
  <2>1. k + 1 \in DOMAIN seq /\ rest[k] = seq[k + 1]
    BY <1>1, <1>2
  <2>2. ASSUME NEW l \in DOMAIN seq, l > k + 1 PROVE seq[l].sensor # seq[k + 1].sensor
    <3>1. l - 1 \in DOMAIN rest /\ rest[l - 1] = seq[l] /\ l - 1 > k
      BY <1>1, <1>2, <2>2
    <3>. QED
      BY <1>3, <2>1, <3>1 DEF IsLast
  <2>. QED
    BY <2>1, <2>2 DEF IsLast
<1>4. ASSUME NEW s, NoneOf(rest, s)
      PROVE  \/ Head(seq).sensor # s /\ NoneOf(seq, s)
             \/ Head(seq).sensor = s /\ IsLast(seq, 1) /\ seq[1] = Head(seq)
  <2>1. ASSUME NEW l \in DOMAIN seq, l # 1 PROVE seq[l].sensor # s
    <3>1. l - 1 \in DOMAIN rest /\ rest[l - 1] = seq[l]
      BY <1>1, <1>2, <2>1
    <3>. QED
      BY <1>4, <3>1 DEF NoneOf
  <2>2. CASE Head(seq).sensor = s
    BY <1>1, <1>2, <2>1, <2>2 DEF IsLast
  <2>3. CASE Head(seq).sensor # s
    BY <1>1, <2>1, <2>3 DEF NoneOf
  <2>. QED
    BY <2>2, <2>3
<1>. QED
  BY <1>1, <1>2, <1>3, <1>4 DEF rest

(* The last event of a sensor tells the state its object shows. *)
EventTells(s) ==
  \/ exported[s].state = "Unavailable"
  \/ lastEvent[s] = exported[s].state
  \/ lastEvent[s] = NoEvent /\ exported[s].state = initially[s]

(***************************************************************************)
(* The last signal of a sensor that is on its way tells the state its      *)
(* object shows; if none is, the last event does.                          *)
(***************************************************************************)
FollowInv ==
  \A s \in DOMAIN exported :
    /\ \A k \in DOMAIN signals :
         signals[k].sensor = s /\ IsLast(signals, k) => signals[k].state = exported[s].state
    /\ NoneOf(signals, s) => EventTells(s)

LEMMA FollowStep ==
  ASSUME LeakTypeInv, FollowInv, [Next]_vars
  PROVE  FollowInv'
<1>1. /\ signals \in Seq(Signal) /\ DOMAIN exported = discovered \ Unexportable
      /\ discovered \subseteq Sensor /\ DOMAIN lastEvent = Sensor
      /\ \A s \in DOMAIN exported : exported[s] \in Exported
  BY DEF LeakTypeInv
<1>2. CASE UNCHANGED <<exported, signals, lastEvent, initially>>
  BY <1>2 DEF FollowInv, IsLast, NoneOf, EventTells
<1>3. CASE BuildModel
  <2>1. signals' = <<>> /\ \A s \in Sensor : lastEvent'[s] = NoEvent
    BY <1>3 DEF BuildModel, eventVars, LeakTypeInv
  <2>2. /\ DOMAIN exported' \subseteq Sensor
        /\ \A s \in DOMAIN exported' : exported'[s].state = initially'[s]
    BY <1>3 DEF BuildModel, Derived
  <2>3. DOMAIN signals' = {}
    BY <2>1, EmptySeq, LenProperties
  <2>. QED
    BY <2>1, <2>2, <2>3 DEF FollowInv, EventTells
<1>4. CASE Callback
  <2>1. lastEvent' = lastEvent /\ initially' = initially
    BY <1>4 DEF Callback, eventVars, startVars
  <2>2. CASE UNCHANGED <<cachedLeakStates, exported, signals>>
    BY <1>2, <2>1, <2>2
  <2>3. ASSUME NEW h, NEW new, new \in Exported, updateLeakSensorState(h, new)
        PROVE  FollowInv'
    <3>1. CASE h \notin DOMAIN exported \/ exported[h].state = new.state
      <4>1. signals' = signals
        BY <2>3, <3>1 DEF updateLeakSensorState
      <4>2. /\ DOMAIN exported' = DOMAIN exported
            /\ \A s \in DOMAIN exported : exported'[s].state = exported[s].state
        BY <1>1, <2>3, <3>1 DEF updateLeakSensorState
      <4>. QED
        BY <2>1, <4>1, <4>2 DEF FollowInv, IsLast, NoneOf, EventTells
    <3>2. CASE h \in DOMAIN exported /\ exported[h].state # new.state
      <4> DEFINE e == [sensor |-> h, state |-> new.state]
      <4>1. e \in Signal /\ e.sensor = h /\ e.state = new.state
        BY <1>1, <2>3, <3>2 DEF Signal, Exported
      <4>2. signals' = Append(signals, e)
        BY <2>3, <3>2 DEF updateLeakSensorState
      <4>3. /\ DOMAIN exported' = DOMAIN exported /\ exported'[h] = new
            /\ \A s \in DOMAIN exported : s # h => exported'[s] = exported[s]
        BY <1>1, <2>3, <3>2 DEF updateLeakSensorState
      <4> HIDE DEF e
      <4>4. ASSUME NEW s \in DOMAIN exported', NEW k \in DOMAIN signals',
                   signals'[k].sensor = s, IsLast(signals', k)
            PROVE  signals'[k].state = exported'[s].state
        <5>1. \/ signals'[k] = e
              \/ /\ k \in DOMAIN signals /\ IsLast(signals, k) /\ signals'[k] = signals[k]
                 /\ signals[k].sensor # h
          BY <1>1, <4>1, <4>2, <4>4, AppendLast
        <5>. QED
          BY <4>1, <4>3, <4>4, <5>1 DEF FollowInv
      <4>5. ASSUME NEW s \in DOMAIN exported', NoneOf(signals', s)
            PROVE  EventTells(s)'
        <5>1. NoneOf(signals, s) /\ s # h
          BY <1>1, <4>1, <4>2, <4>5, AppendLast
        <5>. QED
          BY <2>1, <4>3, <4>5, <5>1 DEF FollowInv, EventTells
      <4>. QED
        BY <4>4, <4>5 DEF FollowInv, NoneOf
    <3>. QED
      BY <3>1, <3>2
  <2>. QED
    BY <1>4, <2>2, <2>3, CallbackStep, DerivedType
<1>5. CASE HandleSignal
  <2>1. /\ signals # <<>> /\ signals' = Tail(signals)
        /\ UNCHANGED <<exported, initially>>
        /\ lastEvent' = IF HasEvent(Head(signals).state)
                          THEN [lastEvent EXCEPT ![Head(signals).sensor] = Head(signals).state]
                          ELSE lastEvent
    BY <1>5 DEF HandleSignal, startVars
  <2>2. Head(signals) \in Signal
    BY <1>1, <2>1, TailHas
  <2>3. Head(signals).sensor \in Sensor /\ Head(signals).state \in DetectorState
    BY <1>1, <2>2 DEF Signal
  <2>4. ASSUME NEW s \in DOMAIN exported', NEW k \in DOMAIN signals',
               signals'[k].sensor = s, IsLast(signals', k)
        PROVE  signals'[k].state = exported'[s].state
    <3>1. PICK j \in DOMAIN signals : IsLast(signals, j) /\ signals'[k] = signals[j]
      BY <1>1, <2>1, <2>4, TailLast
    <3>. QED
      BY <2>1, <2>4, <3>1 DEF FollowInv
  <2>5. ASSUME NEW s \in DOMAIN exported', NoneOf(signals', s)
        PROVE  EventTells(s)'
    <3>1. CASE Head(signals).sensor # s /\ NoneOf(signals, s)
      <4>1. EventTells(s)
        BY <2>1, <3>1 DEF FollowInv
      <4>2. lastEvent'[s] = lastEvent[s]
        BY <1>1, <2>1, <3>1
      <4>. QED
        BY <2>1, <4>1, <4>2 DEF EventTells
    <3>2. CASE \E j \in DOMAIN signals :
                 Head(signals).sensor = s /\ IsLast(signals, j) /\ signals[j] = Head(signals)
      <4>1. Head(signals).sensor = s /\ Head(signals).state = exported[s].state
        BY <2>1, <3>2 DEF FollowInv
      <4>2. CASE HasEvent(Head(signals).state)
        <5>1. lastEvent'[s] = Head(signals).state
          BY <1>1, <2>1, <2>3, <4>1, <4>2
        <5>. QED
          BY <2>1, <4>1, <5>1 DEF EventTells
      <4>3. CASE ~HasEvent(Head(signals).state)
        <5>1. Head(signals).state = "Unavailable"
          BY <2>3, <4>3 DEF HasEvent, DetectorState
        <5>. QED
          BY <2>1, <4>1, <5>1 DEF EventTells
      <4>. QED
        BY <4>2, <4>3
    <3>. QED
      BY <1>1, <2>1, <2>5, <3>1, <3>2, TailLast
  <2>. QED
    BY <2>4, <2>5 DEF FollowInv, NoneOf
<1>6. CASE Run \/ TakeNotification \/ SubscriberEnds \/ AdapterBreaks \/ UNCHANGED vars
  BY <1>2, <1>6
     DEF Run, TakeNotification, SubscriberEnds, AdapterBreaks, vars, startVars, eventVars
<1>7. ASSUME NEW s \in Sensor, Subscribe(s) \/ Delete(s) PROVE FollowInv'
  BY <1>2, <1>7 DEF Subscribe, Delete, startVars, eventVars
<1>8. ASSUME NEW s \in Sensor, NEW u \in Update, Write(s, u) PROVE FollowInv'
  BY <1>2, <1>8 DEF Write, startVars, eventVars
<1>. QED
  BY <1>3, <1>4, <1>5, <1>6, <1>7, <1>8
     DEF Next, Startup, Thermalctld, SubscriberThread

(***************************************************************************)
(* EventsFollowState: a client that only listens knows the state of every  *)
(* readable detector.  The property speaks of sensors without signals on   *)
(* their way; what carries it over the others is that the last of several  *)
(* signals is the one that is right (FollowInv).                           *)
(***************************************************************************)
THEOREM EventsTellState == Spec => []EventsFollowState
<1>1. Init => FollowInv
  BY DEF Init, NoRecord, FollowInv
<1>2. LeakTypeInv /\ FollowInv /\ [Next]_vars => FollowInv' /\ LeakTypeInv'
  BY FollowStep, LeakTypeStep
<1>3. FollowInv => EventsFollowState
  BY DEF FollowInv, EventsFollowState, EventTells, NoneOf
<1>. QED
  BY <1>1, <1>2, <1>3, LeakTypeInit, PTL DEF Spec
=============================================================================
