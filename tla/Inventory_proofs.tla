--------------------------- MODULE Inventory_proofs ---------------------------
(***************************************************************************)
(* Proofs about Inventory, for any records, EEPROMs and files: what D-Bus  *)
(* shows after a notification was handled, and what it shows of an EEPROM  *)
(* before.  That parseTlv() is right of every file is shown by induction   *)
(* over its TLVs, from the last one that counts to the first.              *)
(***************************************************************************)
EXTENDS Inventory, SequenceTheorems, WellFoundedInduction, TLAPS

-----------------------------------------------------------------------------
(***************************************************************************)
(* The inductive invariant                                                 *)
(***************************************************************************)

(* Notifications are of the keys subscribed, and only once they are. *)
ChannelInv ==
  /\ channel \in Seq(Key)
  /\ phase # "running" => /\ channel = <<>> /\ touched = {}
                          /\ cachedMetadata = <<>> /\ cachedState = <<>>

(* After the first rebuild the model is what the caches make of it. *)
ModelInv ==
  cachedMetadata # <<>> \/ cachedState # <<>> =>
    model = build(None, Cached(cachedMetadata), None, Cached(cachedState))

(* A key that was written after its record, and of which no notification is
   left, has a cache that agrees with the record wherever the two are
   compared. *)
CacheInv ==
  /\ "CHASSIS_STATE" \in touched \ Range(channel) =>
       /\ cachedState # <<>>
       /\ ValueIn(record.chassis, "power_state") = ValueIn(cachedState[1], "power_state")
  /\ "DEVICE_METADATA" \in touched \ Range(channel) =>
       /\ cachedMetadata # <<>>
       /\ \A f \in Compared :
            ValueIn(record.metadata, f) = ValueIn(cachedMetadata[1], f)

FreshInv == ChannelInv /\ ModelInv /\ CacheInv

-----------------------------------------------------------------------------
(***************************************************************************)
(* What the builder makes of equal values                                  *)
(***************************************************************************)

(* Fields that agree on a value. *)
LEMMA SameValue ==
  ASSUME NEW a, NEW b, NEW f, ValueIn(a, f) = ValueIn(b, f)
  PROVE  /\ f \in DOMAIN a <=> f \in DOMAIN b
         /\ f \in DOMAIN a => a[f] = b[f]
<1>1. CASE f \in DOMAIN a
  <2>1. ValueIn(a, f) = <<a[f]>> /\ ValueIn(b, f) # <<>>
    BY <1>1 DEF ValueIn
  <2>2. f \in DOMAIN b /\ ValueIn(b, f) = <<b[f]>>
    BY <2>1 DEF ValueIn
  <2>3. <<a[f]>> = <<b[f]>>
    BY <2>1, <2>2
  <2>4. a[f] = b[f]
    BY <2>3
  <2>. QED
    BY <1>1, <2>2, <2>4
<1>2. CASE f \notin DOMAIN a
  <2>1. ValueIn(b, f) = <<>>
    BY <1>2 DEF ValueIn
  <2>2. f \notin DOMAIN b
    BY <2>1 DEF ValueIn
  <2>. QED
    BY <1>2, <2>2
<1>. QED
  BY <1>1, <1>2

(* The first candidate, if it is there, is picked. *)
LEMMA PickFirst ==
  ASSUME NEW candidates, NEW n \in Nat \ {0}, DOMAIN candidates = 1 .. n, NEW sources,
         candidates[1][2] \in DOMAIN sources[candidates[1][1]]
  PROVE  Pick(candidates, sources) =
           [value |-> sources[candidates[1][1]][candidates[1][2]],
            source |-> candidates[1][1]]
<1> DEFINE Present == {i \in DOMAIN candidates :
                         candidates[i][2] \in DOMAIN sources[candidates[i][1]]}
           best == CHOOSE i \in Present : \A j \in Present : i <= j
<1>1. 1 \in Present /\ \A j \in Present : 1 <= j /\ j \in Nat
  OBVIOUS
<1>2. best = 1
  BY <1>1
<1>3. Present # {}
  BY <1>1
<1> HIDE DEF Present, best
<1>4. Pick(candidates, sources) =
        [value |-> sources[candidates[best][1]][candidates[best][2]],
         source |-> candidates[best][1]]
  BY <1>3 DEF Pick, Present, best
<1>. QED
  BY <1>2, <1>4

(* The default, if no candidate is there. *)
LEMMA PickNone ==
  ASSUME NEW candidates, NEW sources,
         \A i \in DOMAIN candidates :
           candidates[i][2] \notin DOMAIN sources[candidates[i][1]]
  PROVE  Pick(candidates, sources) = [value |-> "default", source |-> "default"]
<1>1. {i \in DOMAIN candidates :
         candidates[i][2] \in DOMAIN sources[candidates[i][1]]} = {}
  OBVIOUS
<1>. QED
  BY <1>1 DEF Pick

(* Records that agree on the host name are shown with the same one. *)
LEMMA SameHostname ==
  ASSUME NEW fru, NEW a, NEW b, NEW platform, NEW c, NEW d,
         ValueIn(a, "hostname") = ValueIn(b, "hostname")
  PROVE  build(fru, a, platform, c).system.hostname
           = build(fru, b, platform, d).system.hostname
<1> DEFINE candidates == <<<<"redis", "hostname">>>>
           sources(m) == [redis |-> m, fru |-> fru, platform |-> platform]
<1>1. ASSUME NEW m, NEW chassis
      PROVE  build(fru, m, platform, chassis).system.hostname
               = Pick(candidates, sources(m))
  <2>1. build(fru, m, platform, chassis).system
          = [f \in DOMAIN SystemPrecedence |-> Pick(SystemPrecedence[f], sources(m))]
    BY DEF build
  <2>2. "hostname" \in DOMAIN SystemPrecedence /\ SystemPrecedence["hostname"] = candidates
    BY DEF SystemPrecedence
  <2> HIDE DEF sources, candidates
  <2>. QED
    BY <2>1, <2>2
<1>2. ASSUME NEW m
      PROVE  Pick(candidates, sources(m)) =
               IF "hostname" \in DOMAIN m THEN [value |-> m["hostname"], source |-> "redis"]
               ELSE [value |-> "default", source |-> "default"]
  <2>1. DOMAIN candidates = 1 .. 1 /\ 1 \in Nat \ {0}
        /\ candidates[1][1] = "redis" /\ candidates[1][2] = "hostname"
    OBVIOUS
  <2>2. sources(m)["redis"] = m
    OBVIOUS
  <2> HIDE DEF sources, candidates
  <2>3. CASE "hostname" \in DOMAIN m
    BY <2>1, <2>2, <2>3, PickFirst
  <2>4. CASE "hostname" \notin DOMAIN m
    <3>1. \A i \in DOMAIN candidates :
            candidates[i][2] \notin DOMAIN sources(m)[candidates[i][1]]
      BY <2>1, <2>2, <2>4
    <3>. QED
      BY <2>4, <3>1, PickNone
  <2>. QED
    BY <2>3, <2>4
<1> HIDE DEF sources, candidates
<1>. QED
  BY <1>1, <1>2, SameValue

(* Records that agree on the serial number, and have one, are shown with it. *)
LEMMA SameSerialNumber ==
  ASSUME NEW fru, NEW a, NEW b, NEW platform, NEW c, NEW d,
         ValueIn(a, "serial_number") = ValueIn(b, "serial_number"),
         "serial_number" \in DOMAIN a
  PROVE  build(fru, a, platform, c).chassis.serialNumber
           = build(fru, b, platform, d).chassis.serialNumber
<1> DEFINE candidates == <<<<"redis", "serial_number">>, <<"fru", "serialNumber">>>>
           sources(m) == [redis |-> m, fru |-> fru, platform |-> platform]
<1>1. ASSUME NEW m, NEW chassis
      PROVE  build(fru, m, platform, chassis).chassis.serialNumber
               = Pick(candidates, sources(m))
  <2>1. build(fru, m, platform, chassis).chassis
          = [f \in DOMAIN ChassisPrecedence |-> Pick(ChassisPrecedence[f], sources(m))]
    BY DEF build
  <2>2. /\ "serialNumber" \in DOMAIN ChassisPrecedence
        /\ ChassisPrecedence["serialNumber"] = candidates
    BY DEF ChassisPrecedence
  <2> HIDE DEF sources, candidates
  <2>. QED
    BY <2>1, <2>2
<1>2. ASSUME NEW m, "serial_number" \in DOMAIN m
      PROVE  Pick(candidates, sources(m)) =
               [value |-> m["serial_number"], source |-> "redis"]
  <2>1. DOMAIN candidates = 1 .. 2 /\ 2 \in Nat \ {0}
        /\ candidates[1][1] = "redis" /\ candidates[1][2] = "serial_number"
    OBVIOUS
  <2>2. sources(m)["redis"] = m
    OBVIOUS
  <2> HIDE DEF sources, candidates
  <2>. QED
    BY <1>2, <2>1, <2>2, PickFirst
<1> HIDE DEF sources, candidates
<1>. QED
  BY <1>1, <1>2, SameValue

(* Records that agree on the power state are shown with the same one. *)
LEMMA SamePower ==
  ASSUME NEW a, NEW b, ValueIn(a, "power_state") = ValueIn(b, "power_state")
  PROVE  PowerState(a) = PowerState(b)
  BY SameValue DEF PowerState

(* With the caches in order D-Bus shows the record. *)
LEMMA FreshInvSuffices ==
  ASSUME FreshInv
  PROVE  FreshWhenTouched
<1>1. ASSUME Handled("CHASSIS_STATE")
      PROVE  model.power = PowerState(record.chassis)
  <2>1. /\ cachedState # <<>>
        /\ ValueIn(record.chassis, "power_state") = ValueIn(cachedState[1], "power_state")
    BY <1>1 DEF Handled, FreshInv, CacheInv
  <2>2. model.power = PowerState(cachedState[1])
    BY <2>1 DEF FreshInv, ModelInv, build, Cached
  <2>. QED
    BY <2>1, <2>2, SamePower
<1>2. ASSUME Handled("DEVICE_METADATA")
      PROVE  LET now == build(None, record.metadata, None, None)
             IN /\ model.system.hostname = now.system.hostname
                /\ "serial_number" \in DOMAIN record.metadata =>
                     model.chassis.serialNumber = now.chassis.serialNumber
  <2>1. /\ cachedMetadata # <<>>
        /\ \A f \in Compared :
             ValueIn(record.metadata, f) = ValueIn(cachedMetadata[1], f)
    BY <1>2 DEF Handled, FreshInv, CacheInv
  <2>2. model = build(None, cachedMetadata[1], None, Cached(cachedState))
    BY <2>1 DEF FreshInv, ModelInv, Cached
  <2>3. /\ ValueIn(record.metadata, "hostname") = ValueIn(cachedMetadata[1], "hostname")
        /\ ValueIn(record.metadata, "serial_number")
             = ValueIn(cachedMetadata[1], "serial_number")
    BY <2>1 DEF Compared
  <2>. QED
    BY <2>2, <2>3, SameHostname, SameSerialNumber
<1>. QED
  BY <1>1, <1>2 DEF FreshWhenTouched

-----------------------------------------------------------------------------
(***************************************************************************)
(* The steps                                                               *)
(***************************************************************************)

(* What is on its way when a notification is taken, or comes. *)
LEMMA TakenFrom ==
  ASSUME channel \in Seq(Key), channel # <<>>
  PROVE  /\ Head(channel) \in Key /\ Tail(channel) \in Seq(Key)
         /\ Range(channel) \subseteq Range(Tail(channel)) \cup {Head(channel)}
<1>1. /\ Head(channel) \in Key /\ Tail(channel) \in Seq(Key)
      /\ Len(Tail(channel)) = Len(channel) - 1
      /\ \A i \in 1 .. Len(Tail(channel)) : Tail(channel)[i] = channel[i + 1]
  BY HeadTailProperties
<1>2. /\ DOMAIN channel = 1 .. Len(channel) /\ Len(channel) \in Nat
      /\ Head(channel) = channel[1]
  BY LenProperties
<1>3. DOMAIN Tail(channel) = 1 .. Len(Tail(channel)) /\ Len(Tail(channel)) \in Nat
  BY <1>1, LenProperties
<1>4. ASSUME NEW i \in DOMAIN channel, i # 1
      PROVE  channel[i] \in Range(Tail(channel))
  <2>1. i - 1 \in 1 .. Len(Tail(channel)) /\ (i - 1) + 1 = i
    BY <1>1, <1>2, <1>4
  <2>2. Tail(channel)[i - 1] = channel[i]
    BY <1>1, <2>1
  <2>. QED
    BY <1>3, <2>1, <2>2 DEF Range
<1>. QED
  BY <1>1, <1>2, <1>4 DEF Range

(* A notification on its way. *)
LEMMA PutInto ==
  ASSUME channel \in Seq(Key), NEW k \in Key
  PROVE  /\ Append(channel, k) \in Seq(Key)
         /\ Range(channel) \cup {k} \subseteq Range(Append(channel, k))
<1>1. /\ Append(channel, k) \in Seq(Key)
      /\ Len(Append(channel, k)) = Len(channel) + 1
      /\ \A i \in 1 .. Len(channel) : Append(channel, k)[i] = channel[i]
      /\ Append(channel, k)[Len(channel) + 1] = k
  BY AppendProperties
<1>2. DOMAIN channel = 1 .. Len(channel) /\ Len(channel) \in Nat
  BY LenProperties
<1>3. DOMAIN Append(channel, k) = 1 .. Len(channel) + 1
  BY <1>1, LenProperties
<1>. QED
  BY <1>1, <1>2, <1>3 DEF Range

(* A notification is handled. *)
LEMMA HandlingKeeps ==
  ASSUME FreshInv, onRedisFieldChange
  PROVE  FreshInv'
<1> DEFINE key == Head(channel)
           fields == Read(key)
<1>1. /\ phase = "running" /\ phase' = "running" /\ channel # <<>> /\ channel \in Seq(Key)
      /\ channel' = Tail(channel) /\ UNCHANGED <<record, link>>
  BY DEF onRedisFieldChange, FreshInv, ChannelInv
<1>2. /\ key \in Key /\ channel' \in Seq(Key)
      /\ Range(channel) \subseteq Range(channel') \cup {key}
  BY <1>1, TakenFrom
<1>3. /\ IF key = "DEVICE_METADATA" /\ MetadataChanged(fields)
           THEN cachedMetadata' = <<fields>> ELSE UNCHANGED cachedMetadata
      /\ IF key = "CHASSIS_STATE" /\ ChassisChanged(fields)
           THEN cachedState' = <<fields>> ELSE UNCHANGED cachedState
      /\ IF <<cachedMetadata, cachedState>>' # <<cachedMetadata, cachedState>>
           THEN Rebuild ELSE UNCHANGED model
      /\ touched' = IF link[LinkOf[key]] = "up" THEN touched ELSE touched \ {key}
  BY DEF onRedisFieldChange
<1>4. ChannelInv'
  BY <1>1, <1>2 DEF ChannelInv
<1>5. ModelInv'
  <2>1. CASE <<cachedMetadata, cachedState>>' # <<cachedMetadata, cachedState>>
    BY <1>3, <2>1 DEF Rebuild, ModelInv, Cached
  <2>2. CASE <<cachedMetadata, cachedState>>' = <<cachedMetadata, cachedState>>
    <3>1. UNCHANGED <<cachedMetadata, cachedState, model>>
      BY <1>3, <2>2
    <3>. QED
      BY <3>1 DEF FreshInv, ModelInv, Cached
  <2>. QED
    BY <2>1, <2>2
<1>6. CASE key \notin touched'
  <2>1. touched' \subseteq touched
    BY <1>3
  <2>2. ASSUME NEW k \in touched' \ Range(channel')
        PROVE  k \in touched \ Range(channel) /\ k # key
    BY <1>2, <1>6, <2>1
  <2>3. key # "CHASSIS_STATE" => UNCHANGED cachedState
    BY <1>3
  <2>4. key # "DEVICE_METADATA" => UNCHANGED cachedMetadata
    BY <1>3
  <2> HIDE DEF key, fields
  <2>5. CacheInv'
    BY <1>1, <2>2, <2>3, <2>4 DEF FreshInv, CacheInv
  <2>. QED
    BY <1>4, <1>5, <2>5 DEF FreshInv
<1>7. CASE key \in touched'
  <2>1. link[LinkOf[key]] = "up" /\ touched' = touched
    BY <1>3, <1>7
  <2>2. fields = record[RecordOf[key]]
    BY <2>1 DEF Read
  <2> HIDE DEF fields
  <2>3. CASE key = "CHASSIS_STATE"
    <3>1. fields = record.chassis
      BY <2>2, <2>3 DEF RecordOf
    <3>2. cachedMetadata' = cachedMetadata
      BY <1>3, <2>3
    <3>3. /\ cachedState' # <<>>
          /\ ValueIn(fields, "power_state") = ValueIn(cachedState'[1], "power_state")
      <4>1. CASE ChassisChanged(fields)
        BY <1>3, <2>3, <4>1
      <4>2. CASE ~ChassisChanged(fields)
        BY <1>3, <2>3, <4>2 DEF ChassisChanged
      <4>. QED
        BY <4>1, <4>2
    <3>4. "DEVICE_METADATA" \in touched' \ Range(channel') =>
            "DEVICE_METADATA" \in touched \ Range(channel)
      BY <1>2, <2>1, <2>3
    <3>5. CacheInv'
      <4> HIDE DEF key
      <4>. QED
        BY <1>1, <3>1, <3>2, <3>3, <3>4 DEF FreshInv, CacheInv
    <3>. QED
      BY <1>4, <1>5, <3>5 DEF FreshInv
  <2>4. CASE key = "DEVICE_METADATA"
    <3>1. fields = record.metadata
      BY <2>2, <2>4 DEF RecordOf
    <3>2. cachedState' = cachedState
      BY <1>3, <2>4
    <3>3. /\ cachedMetadata' # <<>>
          /\ \A f \in Compared : ValueIn(fields, f) = ValueIn(cachedMetadata'[1], f)
      <4>1. CASE MetadataChanged(fields)
        <5>1. cachedMetadata' = <<fields>>
          BY <1>3, <2>4, <4>1
        <5>2. cachedMetadata' # <<>> /\ cachedMetadata'[1] = fields
          BY <5>1
        <5>. QED
          BY <5>2
      <4>2. CASE ~MetadataChanged(fields)
        BY <1>3, <2>4, <4>2 DEF MetadataChanged
      <4>. QED
        BY <4>1, <4>2
    <3>4. "CHASSIS_STATE" \in touched' \ Range(channel') =>
            "CHASSIS_STATE" \in touched \ Range(channel)
      BY <1>2, <2>1, <2>4
    <3>5. CacheInv'
      <4> HIDE DEF key
      <4>. QED
        BY <1>1, <3>1, <3>2, <3>3, <3>4 DEF FreshInv, CacheInv
    <3>. QED
      BY <1>4, <1>5, <3>5 DEF FreshInv
  <2>. QED
    BY <1>2, <2>3, <2>4 DEF Key
<1>. QED
  BY <1>6, <1>7

(* Every step keeps the caches in order. *)
LEMMA FreshStep ==
  ASSUME FreshInv, [Next]_vars
  PROVE  FreshInv'
<1>1. CASE onRedisFieldChange
  BY <1>1, HandlingKeeps
<1>2. CASE Build
  BY <1>2 DEF Build, FreshInv, ChannelInv, ModelInv, CacheInv
<1>3. CASE Subscribe
  <2>1. ChannelInv'
    BY <1>3 DEF Subscribe, FreshInv, ChannelInv
  <2>2. UNCHANGED <<model, cachedMetadata, cachedState>>
    BY <1>3 DEF Subscribe
  <2>3. ModelInv'
    BY <2>2 DEF FreshInv, ModelInv, Cached
  <2>4. CacheInv'
    BY <1>3 DEF Subscribe, FreshInv, CacheInv
  <2>. QED
    BY <2>1, <2>3, <2>4 DEF FreshInv
<1>4. CASE WriteMetadata
  <2>1. /\ UNCHANGED <<phase, model, cachedMetadata, cachedState, channel>>
        /\ touched' = touched \ {"DEVICE_METADATA"}
    BY <1>4 DEF WriteMetadata
  <2>2. record'.chassis = record.chassis
    BY <1>4 DEF WriteMetadata
  <2>3. ChannelInv' /\ ModelInv'
    BY <2>1 DEF FreshInv, ChannelInv, ModelInv, Cached
  <2>4. CacheInv'
    BY <2>1, <2>2 DEF FreshInv, CacheInv
  <2>. QED
    BY <2>3, <2>4 DEF FreshInv
<1>5. CASE WriteChassis
  <2>1. /\ UNCHANGED <<phase, model, cachedMetadata, cachedState, channel>>
        /\ touched' = touched \ {"CHASSIS_STATE"}
    BY <1>5 DEF WriteChassis
  <2>2. record'.metadata = record.metadata
    BY <1>5 DEF WriteChassis
  <2>3. ChannelInv' /\ ModelInv'
    BY <2>1 DEF FreshInv, ChannelInv, ModelInv, Cached
  <2>4. CacheInv'
    BY <2>1, <2>2 DEF FreshInv, CacheInv
  <2>. QED
    BY <2>3, <2>4 DEF FreshInv
<1>6. CASE TouchKey
  <2>1. PICK k \in Key : channel' = Append(channel, k) /\ touched' = touched \cup {k}
    BY <1>6 DEF TouchKey
  <2>2. /\ phase = "running"
        /\ UNCHANGED <<record, phase, model, cachedMetadata, cachedState>>
    BY <1>6 DEF TouchKey
  <2>3. channel' \in Seq(Key) /\ Range(channel) \cup {k} \subseteq Range(channel')
    BY <2>1, PutInto DEF FreshInv, ChannelInv
  <2>4. touched' \ Range(channel') \subseteq touched \ Range(channel)
    BY <2>1, <2>3
  <2>5. ChannelInv' /\ ModelInv'
    BY <2>2, <2>3 DEF FreshInv, ChannelInv, ModelInv, Cached
  <2>6. CacheInv'
    BY <2>2, <2>4 DEF FreshInv, CacheInv
  <2>. QED
    BY <2>5, <2>6 DEF FreshInv
<1>7. CASE ConnectionBreaks \/ Reconnect \/ UNCHANGED vars
  <2>1. UNCHANGED <<record, phase, model, cachedMetadata, cachedState, channel, touched>>
    BY <1>7 DEF ConnectionBreaks, Reconnect, vars
  <2>2. ChannelInv' /\ ModelInv'
    BY <2>1 DEF FreshInv, ChannelInv, ModelInv, Cached
  <2>3. CacheInv'
    BY <2>1 DEF FreshInv, CacheInv
  <2>. QED
    BY <2>2, <2>3 DEF FreshInv
<1>. QED
  BY <1>1, <1>2, <1>3, <1>4, <1>5, <1>6, <1>7 DEF Next

-----------------------------------------------------------------------------
(* When the subscribed key was written after the record and its notification
   was handled over a working connection, D-Bus shows the record, whatever was
   read before, and however often connections broke. *)
THEOREM HandledIsFresh == Spec => []FreshWhenTouched
<1>1. Init => FreshInv
  <2> SUFFICES ASSUME Init PROVE FreshInv
    OBVIOUS
  <2>1. /\ channel = <<>> /\ touched = {} /\ cachedMetadata = <<>> /\ cachedState = <<>>
    BY DEF Init
  <2>2. <<>> \in Seq(Key)
    BY EmptySeq
  <2>. QED
    BY <2>1, <2>2 DEF FreshInv, ChannelInv, ModelInv, CacheInv
<1>2. FreshInv /\ [Next]_vars => FreshInv'
  BY FreshStep
<1>3. FreshInv => FreshWhenTouched
  BY FreshInvSuffices
<1>. QED
  BY <1>1, <1>2, <1>3, PTL DEF Spec

-----------------------------------------------------------------------------
(***************************************************************************)
(* Induction over numbers                                                  *)
(***************************************************************************)

(* A set of numbers has a least one. *)
LEMMA LeastExists ==
  ASSUME NEW T, T \subseteq Nat, T # {}
  PROVE  \E x \in T : \A y \in T : x <= y
<1>1. PICK x \in T : \A y \in T : <<y, x>> \notin OpToRel(<, Nat)
  BY NatLessThanWellFounded, WFMin
<1>2. \A y \in T : ~(y < x)
  BY <1>1 DEF OpToRel
<1>. QED
  BY <1>2

(* What holds at 0 and passes to the next number holds up to n. *)
LEMMA UpTo ==
  ASSUME NEW n \in Nat, NEW T, 0 \in T,
         \A k \in 0 .. n : k \in T /\ k < n => k + 1 \in T
  PROVE  0 .. n \subseteq T
<1> DEFINE F == {k \in 0 .. n : k \notin T}
<1> SUFFICES ASSUME F # {} PROVE FALSE
  OBVIOUS
<1>1. F \subseteq Nat
  OBVIOUS
<1>2. PICK k \in F : \A y \in F : k <= y
  BY <1>1, LeastExists
<1>3. k - 1 \in 0 .. n /\ k - 1 < n /\ k # 0
  BY <1>2
<1>4. k - 1 \in T
  BY <1>2, <1>3
<1>5. (k - 1) + 1 \in T
  BY <1>3, <1>4
<1>. QED
  BY <1>2, <1>3, <1>5

(* What holds at n and passes to the number before holds down to 0. *)
LEMMA DownFrom ==
  ASSUME NEW n \in Nat, NEW T, n \in T,
         \A k \in 0 .. n : k + 1 \in T /\ k < n => k \in T
  PROVE  0 .. n \subseteq T
<1> DEFINE U == {k \in Nat : n - k \in T}
<1>1. 0 \in U
  OBVIOUS
<1>2. ASSUME NEW k \in 0 .. n, k \in U, k < n
      PROVE  k + 1 \in U
  <2>1. (n - (k + 1)) + 1 \in T /\ n - (k + 1) \in 0 .. n /\ n - (k + 1) < n
    <3>1. (n - (k + 1)) + 1 = n - k
      BY <1>2
    <3>. QED
      BY <1>2, <3>1
  <2>. QED
    BY <2>1, <1>2
<1> HIDE DEF U
<1>3. 0 .. n \subseteq U
  BY <1>1, <1>2, UpTo
<1>4. ASSUME NEW k \in 0 .. n
      PROVE  k \in T
  <2>1. n - k \in U
    BY <1>3
  <2>2. n - (n - k) = k
    OBVIOUS
  <2>. QED
    BY <2>1, <2>2 DEF U
<1>. QED
  BY <1>4

-----------------------------------------------------------------------------
(***************************************************************************)
(* Flattening a sequence of sequences                                      *)
(***************************************************************************)

(* The function that FlattenSeq builds. *)
Flattened(seqs, f) ==
  f = [i \in 1 .. Len(seqs) |-> IF i = 1 THEN seqs[i] ELSE f[i - 1] \o seqs[i]]

(* There is one: the recursion goes down to the first element. *)
LEMMA FlattenExists ==
  ASSUME NEW seqs, Len(seqs) \in Nat
  PROVE  \E f : Flattened(seqs, f)
<1> DEFINE Upto(k) == \E f : f = [i \in 1 .. k |-> IF i = 1 THEN seqs[i] ELSE f[i - 1] \o seqs[i]]
           T == {k \in Nat : Upto(k)}
<1>1. 0 \in T
  <2>1. [i \in 1 .. 0 |-> 0] = [i \in 1 .. 0 |-> IF i = 1 THEN seqs[i] ELSE [j \in 1 .. 0 |-> 0][i - 1] \o seqs[i]]
    OBVIOUS
  <2>. QED
    BY <2>1
<1>2. ASSUME NEW k \in 0 .. Len(seqs), k \in T
      PROVE  k + 1 \in T
  <2>1. PICK f : f = [i \in 1 .. k |-> IF i = 1 THEN seqs[i] ELSE f[i - 1] \o seqs[i]]
    BY <1>2
  <2> DEFINE g == [i \in 1 .. k + 1 |-> IF i = k + 1 THEN IF i = 1 THEN seqs[i] ELSE f[k] \o seqs[i]
                                         ELSE f[i]]
  <2>2. ASSUME NEW i \in 1 .. k + 1
        PROVE  g[i] = IF i = 1 THEN seqs[i] ELSE g[i - 1] \o seqs[i]
    <3>1. CASE i = k + 1
      <4>1. i # 1 => g[i - 1] = f[k]
        BY <3>1
      <4>. QED
        BY <3>1, <4>1
    <3>2. CASE i # k + 1
      <4>1. i \in 1 .. k /\ g[i] = f[i]
        BY <3>2
      <4>2. i # 1 => g[i - 1] = f[i - 1]
        BY <4>1
      <4>3. f[i] = IF i = 1 THEN seqs[i] ELSE f[i - 1] \o seqs[i]
        BY <2>1, <4>1
      <4>. QED
        BY <4>1, <4>2, <4>3
    <3>. QED
      BY <3>1, <3>2
  <2>3. DOMAIN g = 1 .. k + 1 /\ g = [i \in DOMAIN g |-> g[i]]
    OBVIOUS
  <2> HIDE DEF g
  <2>4. g = [i \in 1 .. k + 1 |-> IF i = 1 THEN seqs[i] ELSE g[i - 1] \o seqs[i]]
    BY <2>2, <2>3
  <2> DEFINE R(h) == h = [i \in 1 .. k + 1 |-> IF i = 1 THEN seqs[i] ELSE h[i - 1] \o seqs[i]]
  <2>5. R(g)
    BY <2>4
  <2> HIDE DEF R
  <2>6. \E h : R(h)
    BY <2>5
  <2>7. Upto(k + 1)
    BY <2>6 DEF R
  <2> HIDE DEF Upto
  <2>. QED
    BY <2>7
<1> HIDE DEF T
<1>3. 0 .. Len(seqs) \subseteq T
  BY <1>1, <1>2, UpTo
<1>4. Upto(Len(seqs))
  <2> HIDE DEF Upto
  <2>. QED
    BY <1>3 DEF T
<1>. QED
  BY <1>4 DEF Flattened

(* So FlattenSeq() gives its last value. *)
LEMMA FlattenIs ==
  ASSUME NEW seqs, Len(seqs) \in Nat \ {0}
  PROVE  \E f : Flattened(seqs, f) /\ FlattenSeq(seqs) = f[Len(seqs)]
<1> DEFINE f == CHOOSE g : Flattened(seqs, g)
<1>1. Flattened(seqs, f)
  BY FlattenExists
<1>2. FlattenSeq(seqs) = f[Len(seqs)]
  BY DEF FlattenSeq, Flattened
<1>. QED
  BY <1>1, <1>2

(* What was flattened so far does not depend on what comes next. *)
LEMMA FlattenAgree ==
  ASSUME NEW s, NEW t, Len(s) \in Nat, Len(t) \in Nat, Len(s) <= Len(t),
         \A i \in 1 .. Len(s) : s[i] = t[i],
         NEW f, Flattened(s, f), NEW g, Flattened(t, g)
  PROVE  \A i \in 1 .. Len(s) : f[i] = g[i]
<1> DEFINE T == {k \in Nat : k = 0 \/ f[k] = g[k]}
<1>1. 0 \in T
  OBVIOUS
<1>2. ASSUME NEW k \in 0 .. Len(s), k \in T, k < Len(s)
      PROVE  k + 1 \in T
  <2>1. k + 1 \in 1 .. Len(s) /\ k + 1 \in 1 .. Len(t) /\ (k + 1) - 1 = k
    BY <1>2
  <2>2. /\ f[k + 1] = IF k + 1 = 1 THEN s[k + 1] ELSE f[k] \o s[k + 1]
        /\ g[k + 1] = IF k + 1 = 1 THEN t[k + 1] ELSE g[k] \o t[k + 1]
    BY <2>1 DEF Flattened
  <2>3. s[k + 1] = t[k + 1]
    BY <2>1
  <2>4. f[k + 1] = g[k + 1]
    BY <1>2, <2>2, <2>3
  <2>. QED
    BY <2>4
<1> HIDE DEF T
<1>3. 0 .. Len(s) \subseteq T
  BY <1>1, <1>2, UpTo
<1>. QED
  BY <1>3 DEF T

-----------------------------------------------------------------------------
(***************************************************************************)
(* What an EEPROM holds                                                    *)
(***************************************************************************)

(* A TLV, its bytes, and the bytes of the first k. *)
Tlv == [type : Byte, value : Seq(Byte)]
Piece(tlv) == <<tlv.type, Len(tlv.value)>> \o tlv.value
Written(tlvs, k) == Encode(SubSeq(tlvs, 1, k))

(* The bytes of a TLV. *)
LEMMA PieceIs ==
  ASSUME NEW tlv \in Tlv, Len(tlv.value) \in Byte
  PROVE  /\ Piece(tlv) \in Seq(Byte)
         /\ Len(Piece(tlv)) = 2 + Len(tlv.value)
         /\ Piece(tlv)[1] = tlv.type /\ Piece(tlv)[2] = Len(tlv.value)
         /\ \A i \in 1 .. Len(tlv.value) : Piece(tlv)[2 + i] = tlv.value[i]
<1>1. tlv.type \in Byte /\ tlv.value \in Seq(Byte)
  BY DEF Tlv
<1> DEFINE h == <<tlv.type, Len(tlv.value)>>
<1>2. h \in Seq(Byte) /\ Len(h) = 2 /\ h[1] = tlv.type /\ h[2] = Len(tlv.value)
  BY <1>1
<1>3. Len(tlv.value) \in Nat
  BY DEF Byte
<1> HIDE DEF h
<1>4. /\ h \o tlv.value \in Seq(Byte)
      /\ Len(h \o tlv.value) = 2 + Len(tlv.value)
      /\ \A i \in 1 .. 2 + Len(tlv.value) : (h \o tlv.value)[i] =
            IF i <= 2 THEN h[i] ELSE tlv.value[i - 2]
  <2>1. /\ h \o tlv.value \in Seq(Byte)
        /\ Len(h \o tlv.value) = Len(h) + Len(tlv.value)
        /\ \A i \in 1 .. Len(h) + Len(tlv.value) : (h \o tlv.value)[i] =
              IF i <= Len(h) THEN h[i] ELSE tlv.value[i - Len(h)]
    BY <1>1, <1>2, ConcatProperties
  <2>. QED
    BY <1>2, <2>1
<1>5. Piece(tlv) = h \o tlv.value
  BY DEF Piece, h
<1>6. ASSUME NEW i \in 1 .. Len(tlv.value)
      PROVE  Piece(tlv)[2 + i] = tlv.value[i]
  <2>1. 2 + i \in 1 .. 2 + Len(tlv.value) /\ ~(2 + i <= 2) /\ (2 + i) - 2 = i
    BY <1>3
  <2>. QED
    BY <1>4, <1>5, <2>1
<1>. QED
  BY <1>2, <1>3, <1>4, <1>5, <1>6

(* What is written with one TLV more. *)
LEMMA WrittenStep ==
  ASSUME NEW tlvs \in Seq(Tlv), NEW k \in 0 .. Len(tlvs), k < Len(tlvs),
         Written(tlvs, k) \in Seq(Byte), Len(tlvs[k + 1].value) \in Byte
  PROVE  Written(tlvs, k + 1) = Written(tlvs, k) \o Piece(tlvs[k + 1])
<1> DEFINE a == SubSeq(tlvs, 1, k)
           b == SubSeq(tlvs, 1, k + 1)
           s == [i \in DOMAIN a |-> Piece(a[i])]
           t == [i \in DOMAIN b |-> Piece(b[i])]
<1>0. Len(tlvs) \in Nat /\ k \in Int /\ k + 1 \in Int /\ k + 1 \in 1 .. Len(tlvs)
      /\ \A i \in 1 .. Len(tlvs) : tlvs[i] \in Tlv
  BY LenProperties, ElementOfSeq
<1>1. a \in Seq(Tlv) /\ Len(a) = k /\ \A i \in 1 .. k : a[i] = tlvs[i]
  <2>1. \A i \in 1 .. k : tlvs[i] \in Tlv
    BY <1>0
  <2>2. /\ a \in Seq(Tlv) /\ Len(a) = IF 1 <= k THEN k - 1 + 1 ELSE 0
        /\ \A i \in 1 .. k - 1 + 1 : a[i] = tlvs[1 + i - 1]
    BY <1>0, <2>1, SubSeqProperties
  <2> HIDE DEF a
  <2>. QED
    BY <1>0, <2>2
<1>2. b \in Seq(Tlv) /\ Len(b) = k + 1 /\ \A i \in 1 .. k + 1 : b[i] = tlvs[i]
  <2>1. \A i \in 1 .. k + 1 : tlvs[i] \in Tlv
    BY <1>0
  <2>2. /\ b \in Seq(Tlv) /\ Len(b) = IF 1 <= k + 1 THEN (k + 1) - 1 + 1 ELSE 0
        /\ \A i \in 1 .. (k + 1) - 1 + 1 : b[i] = tlvs[1 + i - 1]
    BY <1>0, <2>1, SubSeqProperties
  <2> HIDE DEF b
  <2>. QED
    BY <1>0, <2>2
<1>3. DOMAIN a = 1 .. k /\ DOMAIN b = 1 .. k + 1
  BY <1>1, <1>2, LenProperties
<1>4. Written(tlvs, k) = FlattenSeq(s) /\ Written(tlvs, k + 1) = FlattenSeq(t)
  BY DEF Written, Encode, Piece
<1> HIDE DEF a, b
<1>5. Len(s) = k /\ Len(t) = k + 1 /\ \A i \in 1 .. k : s[i] = t[i]
  BY <1>0, <1>1, <1>2, <1>3
<1>6. t[k + 1] = Piece(tlvs[k + 1])
  BY <1>0, <1>2, <1>3
<1> HIDE DEF s, t
<1>7. PICK g : Flattened(t, g) /\ FlattenSeq(t) = g[k + 1]
  <2>1. Len(t) \in Nat \ {0}
    BY <1>0, <1>5
  <2>. QED
    BY <1>5, <2>1, FlattenIs
<1>8. g[k + 1] = IF k + 1 = 1 THEN t[k + 1] ELSE g[k] \o t[k + 1]
  <2>1. k + 1 \in 1 .. Len(t) /\ (k + 1) - 1 = k
    BY <1>0, <1>5
  <2>. QED
    BY <1>7, <2>1 DEF Flattened
<1>9. CASE k = 0
  <2>1. Written(tlvs, k) = <<>>
    <3>1. Len(Written(tlvs, k)) = 0
      <4>1. Len(s) = 0
        BY <1>5, <1>9
      <4>. QED
        BY <1>4, <4>1 DEF FlattenSeq
    <3>. QED
      BY <3>1, EmptySeq
  <2>2. Piece(tlvs[k + 1]) \in Seq(Byte)
    BY <1>0, PieceIs
  <2>3. <<>> \o Piece(tlvs[k + 1]) = Piece(tlvs[k + 1])
    BY <2>2, ConcatEmptySeq
  <2>4. k + 1 = 1
    BY <1>9
  <2>5. Written(tlvs, k + 1) = Piece(tlvs[k + 1])
    BY <1>4, <1>6, <1>7, <1>8, <2>4
  <2>. QED
    BY <2>1, <2>3, <2>5
<1>10. CASE k # 0
  <2>1. PICK f : Flattened(s, f) /\ FlattenSeq(s) = f[k]
    <3>1. Len(s) \in Nat \ {0}
      BY <1>0, <1>5, <1>10
    <3>. QED
      BY <1>5, <3>1, FlattenIs
  <2>2. f[k] = g[k]
    <3>1. Len(s) \in Nat /\ Len(t) \in Nat /\ Len(s) <= Len(t) /\ k \in 1 .. Len(s)
      BY <1>5, <1>10
    <3>2. \A i \in 1 .. Len(s) : s[i] = t[i]
      BY <1>5
    <3>. QED
      BY <1>7, <2>1, <3>1, <3>2, FlattenAgree
  <2>3. k + 1 # 1
    BY <1>10
  <2>. QED
    BY <1>4, <1>6, <1>7, <1>8, <2>1, <2>2, <2>3
<1>. QED
  BY <1>9, <1>10

(* What is written TLV by TLV, and in the end. *)
LEMMA WrittenAreBytes ==
  ASSUME NEW e, IsEeprom(e)
  PROVE  /\ e.tlvs \in Seq(Tlv) /\ Len(e.tlvs) \in Nat
         /\ \A k \in 0 .. Len(e.tlvs) : Written(e.tlvs, k) \in Seq(Byte)
         /\ Len(Written(e.tlvs, 0)) = 0
         /\ \A k \in 0 .. Len(e.tlvs) : k < Len(e.tlvs) =>
              /\ Piece(e.tlvs[k + 1]) \in Seq(Byte)
              /\ Written(e.tlvs, k + 1) = Written(e.tlvs, k) \o Piece(e.tlvs[k + 1])
         /\ Written(e.tlvs, Len(e.tlvs)) = Encode(e.tlvs)
<1> DEFINE tlvs == e.tlvs
           n == Len(tlvs)
           T == {k \in Nat : k <= n => Written(tlvs, k) \in Seq(Byte)}
<1>1. tlvs \in Seq(Tlv) /\ n \in Nat /\ DOMAIN tlvs = 1 .. n
  <2>1. tlvs \in Seq(Tlv)
    BY DEF IsEeprom, Tlv
  <2>. QED
    BY <2>1, LenProperties
<1>2. \A i \in 1 .. n : tlvs[i] \in Tlv /\ Len(tlvs[i].value) \in Byte
  <2>1. \A i \in 1 .. n : tlvs[i] \in Tlv
    BY <1>1, ElementOfSeq
  <2>2. \A i \in DOMAIN tlvs : Len(tlvs[i].value) \in Byte
    BY DEF IsEeprom
  <2>. QED
    BY <1>1, <2>1, <2>2
<1>3. \A i \in 1 .. n : Piece(tlvs[i]) \in Seq(Byte)
  BY <1>2, PieceIs
<1>4. Written(tlvs, 0) = <<>> /\ <<>> \in Seq(Byte) /\ Len(<<>>) = 0
  <2>1. SubSeq(tlvs, 1, 0) = <<>>
    BY SubSeqEmpty
  <2>2. Len([i \in DOMAIN <<>> |-> <<(<<>>)[i].type, Len((<<>>)[i].value)>> \o (<<>>)[i].value]) = 0
    OBVIOUS
  <2> DEFINE s == [i \in DOMAIN <<>> |-> <<(<<>>)[i].type, Len((<<>>)[i].value)>> \o (<<>>)[i].value]
  <2>3. Written(tlvs, 0) = FlattenSeq(s)
    BY <2>1 DEF Written, Encode
  <2>4. s = <<>>
    OBVIOUS
  <2> HIDE DEF s
  <2>5. FlattenSeq(s) = <<>>
    BY <2>4 DEF FlattenSeq
  <2>. QED
    BY <2>3, <2>5, EmptySeq
<1>5. 0 \in T
  BY <1>4
<1>6. ASSUME NEW k \in 0 .. n, k \in T, k < n
      PROVE  /\ Written(tlvs, k + 1) = Written(tlvs, k) \o Piece(tlvs[k + 1])
             /\ k + 1 \in T
  <2>1. k + 1 \in 1 .. n /\ Written(tlvs, k) \in Seq(Byte)
    BY <1>1, <1>6
  <2>2. Len(tlvs[k + 1].value) \in Byte /\ Piece(tlvs[k + 1]) \in Seq(Byte)
    BY <1>2, <1>3, <2>1
  <2> HIDE DEF n, tlvs
  <2>3. Written(tlvs, k + 1) = Written(tlvs, k) \o Piece(tlvs[k + 1])
    BY <1>1, <1>6, <2>1, <2>2, WrittenStep DEF n
  <2>4. Written(tlvs, k + 1) \in Seq(Byte)
    BY <2>1, <2>2, <2>3, ConcatProperties
  <2>. QED
    BY <2>3, <2>4
<1> HIDE DEF T
<1>7. 0 .. n \subseteq T
  BY <1>1, <1>5, <1>6, UpTo
<1>8. SubSeq(tlvs, 1, n) = tlvs
  BY <1>1, SubSeqFull
<1>9. Written(tlvs, n) = Encode(tlvs)
  BY <1>8 DEF Written
<1>10. \A k \in 0 .. n : k < n => k + 1 \in 1 .. n
  BY <1>1
<1>11. \A k \in 0 .. n : Written(tlvs, k) \in Seq(Byte)
  BY <1>7 DEF T
<1>. QED
  BY <1>1, <1>3, <1>4, <1>6, <1>7, <1>9, <1>10, <1>11

(* Where the TLVs are. *)
LEMMA Layout ==
  ASSUME NEW e, IsEeprom(e)
  PROVE  /\ Encode(e.tlvs) \in Seq(Byte)
         /\ \A k \in 0 .. Len(e.tlvs) :
              /\ Len(Written(e.tlvs, k)) \in 0 .. Len(Encode(e.tlvs))
              /\ \A i \in 1 .. Len(Written(e.tlvs, k)) :
                   Encode(e.tlvs)[i] = Written(e.tlvs, k)[i]
<1> DEFINE n == Len(e.tlvs)
           W(k) == Written(e.tlvs, k)
           all == Encode(e.tlvs)
           T == {k \in Nat : /\ Len(W(k)) <= Len(all)
                             /\ \A i \in 1 .. Len(W(k)) : all[i] = W(k)[i]}
<1>1. /\ n \in Nat /\ W(n) = all /\ \A k \in 0 .. n : W(k) \in Seq(Byte)
      /\ \A k \in 0 .. n : k < n =>
           /\ Piece(e.tlvs[k + 1]) \in Seq(Byte)
           /\ W(k + 1) = W(k) \o Piece(e.tlvs[k + 1])
  BY WrittenAreBytes
<1>2. \A k \in 0 .. n : Len(W(k)) \in Nat
  BY <1>1, LenProperties
<1> HIDE DEF n, W, all
<1>3. n \in T
  BY <1>1, <1>2
<1>4. ASSUME NEW k \in 0 .. n, k + 1 \in T, k < n
      PROVE  k \in T
  <2>1. /\ Len(W(k + 1)) = Len(W(k)) + Len(Piece(e.tlvs[k + 1]))
        /\ \A i \in 1 .. Len(W(k)) + Len(Piece(e.tlvs[k + 1])) :
             W(k + 1)[i] = IF i <= Len(W(k)) THEN W(k)[i] ELSE Piece(e.tlvs[k + 1])[i - Len(W(k))]
    BY <1>1, <1>4, ConcatProperties
  <2>2. Len(Piece(e.tlvs[k + 1])) \in Nat /\ Len(W(k)) \in Nat /\ Len(W(k + 1)) \in Nat
        /\ Len(all) \in Nat
    BY <1>1, <1>2, <1>4, LenProperties
  <2>3. Len(W(k + 1)) <= Len(all)
        /\ \A i \in 1 .. Len(W(k + 1)) : all[i] = W(k + 1)[i]
    BY <1>4
  <2>4. Len(W(k)) <= Len(all)
    BY <2>1, <2>2, <2>3
  <2>5. ASSUME NEW i \in 1 .. Len(W(k))
        PROVE  all[i] = W(k)[i]
    <3>1. i \in 1 .. Len(W(k + 1)) /\ i <= Len(W(k))
      BY <2>1, <2>2
    <3>. QED
      BY <2>1, <2>3, <3>1
  <2>. QED
    BY <2>4, <2>5
<1> HIDE DEF T
<1>5. 0 .. n \subseteq T
  BY <1>1, <1>3, <1>4, DownFrom
<1>6. all \in Seq(Byte) /\ Len(all) \in Nat
  BY <1>1, <1>2
<1>7. ASSUME NEW k \in 0 .. n
      PROVE  /\ Len(W(k)) \in 0 .. Len(all)
             /\ \A i \in 1 .. Len(W(k)) : all[i] = W(k)[i]
  BY <1>2, <1>5, <1>6 DEF T
<1>. QED
  BY <1>6, <1>7 DEF n, W, all

(* The bytes of the next TLV, and how far it reaches. *)
LEMMA NextTlv ==
  ASSUME NEW e, IsEeprom(e), NEW k \in 0 .. Len(e.tlvs), k < Len(e.tlvs)
  PROVE  LET tlv == e.tlvs[k + 1]
             end == Len(Written(e.tlvs, k))
         IN /\ tlv.type \in Byte /\ tlv.value \in Seq(Byte) /\ Len(tlv.value) \in Nat
            /\ Len(Written(e.tlvs, k + 1)) = end + 2 + Len(tlv.value)
            /\ Encode(e.tlvs)[end + 1] = tlv.type
            /\ Encode(e.tlvs)[end + 2] = Len(tlv.value)
            /\ \A i \in 1 .. Len(tlv.value) : Encode(e.tlvs)[end + 2 + i] = tlv.value[i]
<1> DEFINE tlv == e.tlvs[k + 1]
           end == Len(Written(e.tlvs, k))
           W(j) == Written(e.tlvs, j)
           all == Encode(e.tlvs)
<1>1. /\ e.tlvs \in Seq(Tlv) /\ Len(e.tlvs) \in Nat /\ W(k) \in Seq(Byte)
      /\ Piece(tlv) \in Seq(Byte) /\ W(k + 1) = W(k) \o Piece(tlv)
  BY WrittenAreBytes
<1>2. tlv \in Tlv /\ Len(tlv.value) \in Byte
  <2>1. k + 1 \in 1 .. Len(e.tlvs)
    BY <1>1
  <2>2. k + 1 \in DOMAIN e.tlvs
    BY <1>1, <2>1, LenProperties
  <2>3. \A i \in DOMAIN e.tlvs : Len(e.tlvs[i].value) \in Byte
    BY DEF IsEeprom
  <2>4. tlv \in Tlv
    BY <1>1, <2>1, ElementOfSeq
  <2>. QED
    BY <2>2, <2>3, <2>4
<1>3. tlv.type \in Byte /\ tlv.value \in Seq(Byte) /\ Len(tlv.value) \in Nat
  <2> HIDE DEF tlv
  <2>1. tlv.type \in Byte /\ tlv.value \in Seq(Byte)
    BY <1>2 DEF Tlv
  <2>. QED
    BY <2>1, LenProperties
<1>4. /\ Len(Piece(tlv)) = 2 + Len(tlv.value)
      /\ Piece(tlv)[1] = tlv.type /\ Piece(tlv)[2] = Len(tlv.value)
      /\ \A i \in 1 .. Len(tlv.value) : Piece(tlv)[2 + i] = tlv.value[i]
  BY <1>2, PieceIs
<1>5. /\ Len(W(k + 1)) \in 0 .. Len(all)
      /\ \A i \in 1 .. Len(W(k + 1)) : all[i] = W(k + 1)[i]
  <2>1. k + 1 \in 0 .. Len(e.tlvs)
    BY <1>1
  <2>. QED
    BY <2>1, Layout
<1>6. end = Len(W(k)) /\ end \in Nat
  BY <1>1, LenProperties
<1> HIDE DEF tlv, end, W, all
<1>7. /\ Len(W(k + 1)) = end + Len(Piece(tlv))
      /\ \A i \in 1 .. end + Len(Piece(tlv)) :
           W(k + 1)[i] = IF i <= end THEN W(k)[i] ELSE Piece(tlv)[i - end]
  BY <1>1, <1>6, ConcatProperties
<1>8. ASSUME NEW i \in 1 .. 2 + Len(tlv.value)
      PROVE  all[end + i] = Piece(tlv)[i]
  <2>1. end + i \in 1 .. end + Len(Piece(tlv)) /\ ~(end + i <= end) /\ (end + i) - end = i
    BY <1>3, <1>4, <1>6
  <2>. QED
    BY <1>5, <1>7, <2>1
<1>9. /\ 1 \in 1 .. 2 + Len(tlv.value) /\ 2 \in 1 .. 2 + Len(tlv.value)
      /\ \A i \in 1 .. Len(tlv.value) : 2 + i \in 1 .. 2 + Len(tlv.value)
                                       /\ end + (2 + i) = end + 2 + i
  BY <1>3, <1>6
<1>10. Len(W(k + 1)) = end + 2 + Len(tlv.value)
  <2>1. \A a, l \in Nat : a + (2 + l) = a + 2 + l
    OBVIOUS
  <2>2. Len(W(k + 1)) = end + (2 + Len(tlv.value))
    BY <1>4, <1>7
  <2>. QED
    BY <1>3, <1>6, <2>1, <2>2
<1>11. ASSUME NEW i \in 1 .. Len(tlv.value)
       PROVE  all[end + 2 + i] = tlv.value[i]
  BY <1>4, <1>8, <1>9
<1>12. all[end + 1] = tlv.type /\ all[end + 2] = Len(tlv.value)
  BY <1>4, <1>8, <1>9
<1>. QED
  BY <1>3, <1>10, <1>11, <1>12 DEF W, end, all, tlv

(* What the file holds. *)
LEMMA BodyIs ==
  ASSUME NEW e, IsEeprom(e)
  PROVE  /\ e.kept \in Nat /\ e.kept <= Len(Encode(e.tlvs)) /\ Len(Encode(e.tlvs)) \in Nat
         /\ Len(Body(e)) = e.kept /\ Size(e) = HeaderSize + e.kept
         /\ \A i \in 1 .. e.kept : Body(e)[i] = Encode(e.tlvs)[i] /\ Body(e)[i] \in Byte
<1> DEFINE all == Encode(e.tlvs)
           kept == e.kept
<1>1. all \in Seq(Byte) /\ Len(all) \in Nat
  BY Layout, LenProperties
<1>2. kept \in 0 .. Len(all)
  BY DEF IsEeprom
<1>3. kept \in Nat /\ kept <= Len(all)
  BY <1>1, <1>2
<1> HIDE DEF all, kept
<1>4. \A i \in 1 .. kept : all[i] \in Byte
  BY <1>1, <1>3, ElementOfSeq
<1>5. /\ Len(SubSeq(all, 1, kept)) = IF 1 <= kept THEN kept - 1 + 1 ELSE 0
      /\ \A i \in 1 .. kept - 1 + 1 : SubSeq(all, 1, kept)[i] = all[1 + i - 1]
  BY <1>3, <1>4, SubSeqProperties
<1>6. /\ Len(SubSeq(all, 1, kept)) = kept
      /\ \A i \in 1 .. kept : SubSeq(all, 1, kept)[i] = all[i]
  BY <1>3, <1>5
<1>7. Body(e) = SubSeq(all, 1, kept)
  BY DEF Body, all, kept
<1>8. Size(e) = HeaderSize + kept
  BY <1>6, <1>7 DEF Size
<1>. QED
  BY <1>1, <1>3, <1>4, <1>6, <1>7, <1>8 DEF all, kept

(* A TLV that is taken leads on, within the file. *)
LEMMA EndOfForward ==
  ASSUME NEW e, IsEeprom(e), NEW o \in HeaderSize .. Size(e), ~Stops(e, o)
  PROVE  EndOf(e, o) \in Nat /\ o < EndOf(e, o) /\ EndOf(e, o) <= Size(e)
<1>1. /\ o + 2 <= Size(e) /\ EndOf(e, o) = o + 2 + Data(e, o + 1)
      /\ ~(EndOf(e, o) > Size(e)) /\ ~(o + 2 > Size(e))
  <2>1. HeaderSize \in Nat /\ Size(e) \in Nat
    BY BodyIs DEF HeaderSize
  <2>. QED
    BY <2>1 DEF Stops, PastEndOf, EndOf
<1>2. e.kept \in Nat /\ Size(e) = HeaderSize + e.kept /\ HeaderSize \in Nat
  BY BodyIs DEF HeaderSize
<1>3. (o + 1) - HeaderSize + 1 \in 1 .. e.kept
  BY <1>1, <1>2
<1>4. Data(e, o + 1) \in Nat
  <2>1. Body(e)[(o + 1) - HeaderSize + 1] \in Byte
    BY <1>3, BodyIs
  <2>2. Byte \subseteq Nat
    BY DEF Byte
  <2>. QED
    BY <2>1, <2>2 DEF Data
<1>. QED
  BY <1>1, <1>2, <1>4

-----------------------------------------------------------------------------
(***************************************************************************)
(* What parseTlv() makes of it                                             *)
(***************************************************************************)

(* The function that the loop computes. *)
Loops(e, k, f) ==
  f = [o \in k .. Size(e) |-> IF Stops(e, o) THEN <<>> ELSE Overwrite(Taken(e, o), f[EndOf(e, o)])]

(* There is one: the recursion goes up to the end of the file. *)
LEMMA LoopExists ==
  ASSUME NEW e, IsEeprom(e)
  PROVE  \E f : Loops(e, HeaderSize, f)
<1> DEFINE Upto(k) == \E f : Loops(e, HeaderSize + k, f)
           T == {k \in Nat : Upto(k)}
<1>0. e.kept \in Nat /\ Size(e) = HeaderSize + e.kept /\ HeaderSize \in Nat
  BY BodyIs DEF HeaderSize
<1>1. e.kept \in T
  <2>1. \A o \in Size(e) .. Size(e) : o = Size(e) /\ Stops(e, o)
    BY <1>0 DEF Stops
  <2> DEFINE g == [o \in Size(e) .. Size(e) |-> <<>>]
  <2>2. Loops(e, HeaderSize + e.kept, g)
    BY <1>0, <2>1 DEF Loops
  <2> HIDE DEF g
  <2>3. Upto(e.kept)
    BY <2>2
  <2> HIDE DEF Upto
  <2>. QED
    BY <1>0, <2>3
<1>2. ASSUME NEW k \in 0 .. e.kept, k + 1 \in T, k < e.kept
      PROVE  k \in T
  <2>1. PICK f : Loops(e, HeaderSize + (k + 1), f)
    BY <1>2
  <2> DEFINE m == HeaderSize + k
             g == [o \in m .. Size(e) |->
                    IF o = m THEN IF Stops(e, o) THEN <<>> ELSE Overwrite(Taken(e, o), f[EndOf(e, o)])
                    ELSE f[o]]
  <2>2. m \in Nat /\ m < Size(e) /\ HeaderSize + (k + 1) = m + 1 /\ HeaderSize <= m
        /\ Size(e) \in Nat
    BY <1>0, <1>2
  <2> HIDE DEF m
  <2>3. f = [o \in m + 1 .. Size(e) |-> IF Stops(e, o) THEN <<>> ELSE Overwrite(Taken(e, o), f[EndOf(e, o)])]
    BY <2>1, <2>2 DEF Loops
  <2>4. ASSUME NEW o \in m .. Size(e)
        PROVE  g[o] = IF Stops(e, o) THEN <<>> ELSE Overwrite(Taken(e, o), g[EndOf(e, o)])
    <3>1. CASE Stops(e, o)
      <4>1. o # m => f[o] = <<>>
        BY <2>2, <2>3, <3>1
      <4>. QED
        BY <3>1, <4>1
    <3>2. CASE ~Stops(e, o)
      <4>1. EndOf(e, o) \in Nat /\ o < EndOf(e, o) /\ EndOf(e, o) <= Size(e)
        <5>1. o \in HeaderSize .. Size(e)
          BY <1>0, <2>2
        <5>. QED
          BY <3>2, <5>1, EndOfForward
      <4>2. g[EndOf(e, o)] = f[EndOf(e, o)]
        BY <2>2, <4>1
      <4>3. o # m => f[o] = Overwrite(Taken(e, o), f[EndOf(e, o)])
        BY <2>2, <2>3, <3>2
      <4>. QED
        BY <3>2, <4>2, <4>3
    <3>. QED
      BY <3>1, <3>2
  <2>5. DOMAIN g = m .. Size(e) /\ g = [o \in DOMAIN g |-> g[o]]
    OBVIOUS
  <2> HIDE DEF g
  <2>6. g = [o \in m .. Size(e) |-> IF Stops(e, o) THEN <<>> ELSE Overwrite(Taken(e, o), g[EndOf(e, o)])]
    BY <2>4, <2>5
  <2>7. Loops(e, HeaderSize + k, g)
    BY <2>6 DEF Loops, m
  <2>8. Upto(k)
    BY <2>7
  <2> HIDE DEF Upto
  <2>. QED
    BY <2>8
<1> HIDE DEF T
<1>3. 0 .. e.kept \subseteq T
  BY <1>0, <1>1, <1>2, DownFrom
<1>4. Upto(0)
  <2> HIDE DEF Upto
  <2>. QED
    BY <1>0, <1>3 DEF T
<1>5. HeaderSize + 0 = HeaderSize
  BY <1>0
<1>. QED
  BY <1>4, <1>5

(* So the loop computes it. *)
LEMMA LoopIs ==
  ASSUME NEW e, IsEeprom(e)
  PROVE  Loops(e, HeaderSize, loop(e))
  BY LoopExists DEF loop, Loops

(* The offset of the k + 1st TLV. *)
Offset(e, k) == HeaderSize + Len(Written(e.tlvs, k))

(* Later TLVs are further on. *)
LEMMA OffsetsGrow ==
  ASSUME NEW e, IsEeprom(e), NEW k \in 0 .. Len(e.tlvs)
  PROVE  \A j \in 0 .. k : Len(Written(e.tlvs, j)) <= Len(Written(e.tlvs, k))
<1> DEFINE n == Len(e.tlvs)
           W(i) == Len(Written(e.tlvs, i))
           T == {i \in Nat : i <= n => \A j \in 0 .. i : W(j) <= W(i)}
<1>1. n \in Nat /\ \A i \in 0 .. n : W(i) \in Nat
  BY WrittenAreBytes, LenProperties
<1>2. \A i \in 0 .. n : i < n => W(i + 1) >= W(i)
  <2>1. ASSUME NEW i \in 0 .. n, i < n
        PROVE  W(i + 1) >= W(i)
    <3>1. W(i + 1) = W(i) + 2 + Len(e.tlvs[i + 1].value) /\ Len(e.tlvs[i + 1].value) \in Nat
      BY <2>1, NextTlv
    <3> HIDE DEF W
    <3>. QED
      BY <1>1, <3>1
  <2>. QED
    BY <2>1
<1> HIDE DEF n, W
<1>3. 0 \in T
  BY <1>1
<1>4. ASSUME NEW i \in 0 .. n, i \in T, i < n
      PROVE  i + 1 \in T
  <2>1. ASSUME NEW j \in 0 .. i + 1
        PROVE  W(j) <= W(i + 1)
    <3>1. i + 1 \in 0 .. n /\ W(i) \in Nat /\ W(i + 1) \in Nat /\ W(i + 1) >= W(i)
      BY <1>1, <1>2, <1>4
    <3>2. CASE j = i + 1
      BY <3>1, <3>2
    <3>3. CASE j # i + 1
      <4>1. j \in 0 .. i /\ j \in 0 .. n /\ W(j) <= W(i) /\ W(j) \in Nat
        BY <1>1, <1>4, <3>3
      <4>. QED
        BY <3>1, <4>1
    <3>. QED
      BY <3>2, <3>3
  <2>. QED
    BY <2>1
<1> HIDE DEF T
<1>5. 0 .. n \subseteq T
  BY <1>1, <1>3, <1>4, UpTo
<1>. QED
  BY <1>1, <1>5 DEF T, n, W

(* TLVs that count follow each other. *)
LEMMA CountsDown ==
  ASSUME NEW e, IsEeprom(e), NEW j \in 1 .. Len(e.tlvs), Counts(e, j), NEW i \in 1 .. j
  PROVE  Counts(e, i)
<1>1. Len(e.tlvs) \in Nat /\ e.kept \in Nat /\ e.totalLen \in Nat
      /\ \A k \in 0 .. Len(e.tlvs) : Len(Written(e.tlvs, k)) \in Nat
  BY WrittenAreBytes, BodyIs, LenProperties DEF IsEeprom, TwoBytes
<1>2. /\ Len(Written(e.tlvs, j - 1)) < e.totalLen /\ Len(Written(e.tlvs, j)) <= e.kept
      /\ \A k \in 1 .. j : e.tlvs[k].type # CRC32
  BY DEF Counts, Written
<1>3. j \in 0 .. Len(e.tlvs) /\ j - 1 \in 0 .. Len(e.tlvs) /\ i \in 0 .. j /\ i - 1 \in 0 .. j - 1
      /\ i \in 0 .. Len(e.tlvs) /\ i - 1 \in 0 .. Len(e.tlvs)
  BY <1>1
<1>4. /\ Len(Written(e.tlvs, i)) <= Len(Written(e.tlvs, j))
      /\ Len(Written(e.tlvs, i - 1)) <= Len(Written(e.tlvs, j - 1))
  BY <1>3, OffsetsGrow
<1>5. Len(Written(e.tlvs, i - 1)) < e.totalLen /\ Len(Written(e.tlvs, i)) <= e.kept
  BY <1>1, <1>2, <1>3, <1>4
<1>6. \A k \in 1 .. i : e.tlvs[k].type # CRC32
  BY <1>2
<1>. QED
  BY <1>5, <1>6 DEF Counts, Written

(* Up to the k-th TLV all count. *)
Reached(e, k) == k = 0 \/ Counts(e, k)

(* The offset is then in the file, and no checksum came. *)
LEMMA ReachedIs ==
  ASSUME NEW e, IsEeprom(e), NEW k \in 0 .. Len(e.tlvs), Reached(e, k)
  PROVE  /\ Len(Written(e.tlvs, k)) <= e.kept
         /\ Offset(e, k) \in HeaderSize .. Size(e)
         /\ \A j \in 1 .. k : e.tlvs[j].type # CRC32
<1>1. Len(Written(e.tlvs, k)) \in Nat /\ e.kept \in Nat
      /\ Size(e) = HeaderSize + e.kept /\ HeaderSize \in Nat
  BY WrittenAreBytes, BodyIs, LenProperties DEF HeaderSize
<1>2. Len(Written(e.tlvs, k)) <= e.kept
  BY <1>1, WrittenAreBytes DEF Reached, Counts, Written
<1>3. \A j \in 1 .. k : e.tlvs[j].type # CRC32
  BY DEF Reached, Counts
<1>. QED
  BY <1>1, <1>2, <1>3 DEF Offset

(* The loop takes the next TLV exactly if it counts. *)
LEMMA LoopStep ==
  ASSUME NEW e, IsEeprom(e), NEW k \in 0 .. Len(e.tlvs), Reached(e, k), k < Len(e.tlvs)
  PROVE  /\ Stops(e, Offset(e, k)) <=> ~Counts(e, k + 1)
         /\ Counts(e, k + 1) =>
              /\ EndOf(e, Offset(e, k)) = Offset(e, k + 1)
              /\ Taken(e, Offset(e, k)) = Assign(e.tlvs[k + 1].type, e.tlvs[k + 1].value)
<1> DEFINE o == Offset(e, k)
           end == Len(Written(e.tlvs, k))
           next == Len(Written(e.tlvs, k + 1))
           tlv == e.tlvs[k + 1]
           l == Len(tlv.value)
           H == HeaderSize
<1>1. /\ end \in Nat /\ H \in Nat /\ Size(e) = H + e.kept /\ e.kept \in Nat /\ o = H + end
      /\ end <= e.kept /\ Len(Body(e)) = e.kept
      /\ \A i \in 1 .. e.kept : Body(e)[i] = Encode(e.tlvs)[i]
  BY WrittenAreBytes, BodyIs, ReachedIs, LenProperties DEF HeaderSize, Offset
<1>2. e.totalLen \in Nat
  BY DEF IsEeprom, TwoBytes
<1>3. /\ tlv.type \in Byte /\ tlv.value \in Seq(Byte) /\ l \in Nat
      /\ next = end + 2 + l
      /\ Encode(e.tlvs)[end + 1] = tlv.type
      /\ Encode(e.tlvs)[end + 2] = l
      /\ \A i \in 1 .. l : Encode(e.tlvs)[end + 2 + i] = tlv.value[i]
  BY NextTlv
<1>4. Counts(e, k + 1) <=> end < e.totalLen /\ next <= e.kept /\ tlv.type # CRC32
  <2>1. Counts(e, k + 1) <=> /\ Len(Written(e.tlvs, (k + 1) - 1)) < e.totalLen
                             /\ next <= e.kept
                             /\ \A j \in 1 .. k + 1 : e.tlvs[j].type # CRC32
    BY DEF Counts, Written
  <2>2. (k + 1) - 1 = k /\ k + 1 \in 1 .. k + 1
        /\ \A j \in 1 .. k + 1 : j \in 1 .. k \/ j = k + 1
    OBVIOUS
  <2>3. \A j \in 1 .. k : e.tlvs[j].type # CRC32
    BY ReachedIs
  <2>4. (\A j \in 1 .. k + 1 : e.tlvs[j].type # CRC32) <=> tlv.type # CRC32
    BY <2>2, <2>3
  <2>. QED
    BY <2>1, <2>2, <2>4
<1> HIDE DEF o, end, next, tlv, l, H
<1>5. end + 2 <= e.kept => Data(e, o) = tlv.type /\ Data(e, o + 1) = l
  <2>1. /\ o - H + 1 = end + 1 /\ (o + 1) - H + 1 = end + 2
        /\ end + 2 <= e.kept => end + 1 \in 1 .. e.kept /\ end + 2 \in 1 .. e.kept
    BY <1>1
  <2>. QED
    BY <1>1, <1>3, <2>1 DEF Data, H
<1>6. end + 2 <= e.kept => EndOf(e, o) = H + next
  BY <1>1, <1>3, <1>5 DEF EndOf
<1>7. Stops(e, o) <=> \/ end >= e.kept \/ end >= e.totalLen \/ end + 2 > e.kept
                      \/ EndOf(e, o) > Size(e) \/ Data(e, o) = CRC32
  <2>1. /\ o >= Size(e) <=> end >= e.kept
        /\ o >= H + e.totalLen <=> end >= e.totalLen
        /\ o + 2 > Size(e) <=> end + 2 > e.kept
    BY <1>1, <1>2
  <2>. QED
    BY <2>1 DEF Stops, PastEndOf, H
<1>8. Stops(e, o) <=> ~Counts(e, k + 1)
  <2>1. CASE end + 2 > e.kept
    BY <1>1, <1>3, <1>4, <1>7, <2>1
  <2>2. CASE ~(end + 2 > e.kept)
    <3>1. end + 2 <= e.kept
      BY <1>1, <2>2
    <3>2. Data(e, o) = tlv.type /\ EndOf(e, o) = H + next
      BY <1>5, <1>6, <3>1
    <3>3. EndOf(e, o) > Size(e) <=> ~(next <= e.kept)
      BY <1>1, <1>3, <3>2
    <3>4. ~(end >= e.kept) /\ (end >= e.totalLen <=> ~(end < e.totalLen))
      BY <1>1, <1>2, <3>1
    <3>. QED
      BY <1>4, <1>7, <2>2, <3>2, <3>3, <3>4
  <2>. QED
    BY <2>1, <2>2
<1>9. ASSUME Counts(e, k + 1)
      PROVE  /\ EndOf(e, o) = H + next
             /\ Taken(e, o) = Assign(tlv.type, tlv.value)
  <2>1. end + 2 <= e.kept /\ next <= e.kept
    BY <1>1, <1>3, <1>4, <1>9
  <2>2. Data(e, o) = tlv.type /\ EndOf(e, o) = H + next
    BY <1>5, <1>6, <2>1
  <2> DEFINE v == SubSeq(Body(e), o + 2 - HeaderSize + 1, EndOf(e, o) - HeaderSize)
  <2>3. /\ o + 2 - HeaderSize + 1 = end + 3 /\ EndOf(e, o) - HeaderSize = next
        /\ end + 3 \in Int /\ next \in Int /\ next - (end + 3) + 1 = l
    BY <1>1, <1>3, <2>2 DEF H
  <2>4. ASSUME NEW i \in end + 3 .. next
        PROVE  Body(e)[i] = tlv.value[i - (end + 2)]
    <3>1. i \in 1 .. e.kept /\ i - (end + 2) \in 1 .. l /\ end + 2 + (i - (end + 2)) = i
      BY <1>1, <1>3, <2>1
    <3>. QED
      BY <1>1, <1>3, <3>1
  <2>5. \A i \in end + 3 .. next : Body(e)[i] \in Byte
    <3>1. \A i \in end + 3 .. next : i - (end + 2) \in 1 .. l
      BY <1>1, <1>3
    <3>2. \A i \in 1 .. l : tlv.value[i] \in Byte
      BY <1>3, ElementOfSeq DEF l
    <3>. QED
      BY <2>4, <3>1, <3>2
  <2>6. /\ v \in Seq(Byte) /\ Len(v) = IF end + 3 <= next THEN next - (end + 3) + 1 ELSE 0
        /\ \A i \in 1 .. next - (end + 3) + 1 : v[i] = Body(e)[end + 3 + i - 1]
    BY <2>3, <2>5, SubSeqProperties
  <2> HIDE DEF v
  <2>7. Len(v) = l
    BY <1>1, <1>3, <2>3, <2>6
  <2>8. ASSUME NEW i \in 1 .. l
        PROVE  v[i] = tlv.value[i]
    <3>1. end + 3 + i - 1 \in end + 3 .. next /\ (end + 3 + i - 1) - (end + 2) = i
      BY <1>1, <1>3
    <3>. QED
      BY <2>3, <2>4, <2>6, <3>1
  <2>9. v = tlv.value
    BY <1>3, <2>6, <2>7, <2>8, SeqEqual DEF l
  <2>. QED
    BY <2>2, <2>9 DEF Taken, v
<1>. QED
  BY <1>8, <1>9 DEF o, end, next, tlv, H, Offset


(* The places behind the k-th TLV that set a field and count. *)
PlacesFrom(e, k, f) == {j \in DOMAIN e.tlvs :
                          k < j /\ Counts(e, j) /\ e.tlvs[j].type = TypeOf[f]}

(* From there on the loop assigns the last value of each field. *)
Assigned(e, k) ==
  LET g == loop(e)[Offset(e, k)]
  IN /\ g = [f \in {f \in DOMAIN TypeOf : PlacesFrom(e, k, f) # {}} |-> g[f]]
     /\ \A f \in DOMAIN TypeOf : \A j \in PlacesFrom(e, k, f) :
          (\A i \in PlacesFrom(e, k, f) : i <= j) => g[f] = Text(e.tlvs[j].value)

(* A TLV that counts is assigned unless a later one overwrites it. *)
LEMMA AssignedStep ==
  ASSUME NEW e, IsEeprom(e), NEW k \in 0 .. Len(e.tlvs), Reached(e, k),
         k < Len(e.tlvs), Counts(e, k + 1), Assigned(e, k + 1)
  PROVE  Assigned(e, k)
<1> DEFINE g == loop(e)[Offset(e, k)]
           later == loop(e)[Offset(e, k + 1)]
           tlv == e.tlvs[k + 1]
           set == Assign(tlv.type, tlv.value)
<1>1. g = Overwrite(set, later)
  <2>1. /\ ~Stops(e, Offset(e, k)) /\ EndOf(e, Offset(e, k)) = Offset(e, k + 1)
        /\ Taken(e, Offset(e, k)) = set
    BY LoopStep
  <2>2. Offset(e, k) \in HeaderSize .. Size(e)
    BY ReachedIs
  <2>3. g = IF Stops(e, Offset(e, k)) THEN <<>>
            ELSE Overwrite(Taken(e, Offset(e, k)), loop(e)[EndOf(e, Offset(e, k))])
    BY <2>2, LoopIs DEF Loops
  <2>. QED
    BY <2>1, <2>3
<1>2. /\ DOMAIN set = {f \in DOMAIN TypeOf : TypeOf[f] = tlv.type}
      /\ \A f \in DOMAIN set : set[f] = Text(tlv.value)
  BY DEF Assign
<1>3. /\ DOMAIN later = {f \in DOMAIN TypeOf : PlacesFrom(e, k + 1, f) # {}}
      /\ \A f \in DOMAIN TypeOf : \A j \in PlacesFrom(e, k + 1, f) :
          (\A i \in PlacesFrom(e, k + 1, f) : i <= j) => later[f] = Text(e.tlvs[j].value)
  BY DEF Assigned
<1>4. /\ DOMAIN e.tlvs = 1 .. Len(e.tlvs) /\ Len(e.tlvs) \in Nat
      /\ k + 1 \in DOMAIN e.tlvs /\ \A j \in DOMAIN e.tlvs : k < j <=> j = k + 1 \/ k + 1 < j
  <2>1. DOMAIN e.tlvs = 1 .. Len(e.tlvs) /\ Len(e.tlvs) \in Nat
    BY WrittenAreBytes, LenProperties
  <2>. QED
    BY <2>1
<1>5. \A f \in DOMAIN TypeOf :
        PlacesFrom(e, k, f) = PlacesFrom(e, k + 1, f)
                                \cup (IF TypeOf[f] = tlv.type THEN {k + 1} ELSE {})
  BY <1>4 DEF PlacesFrom
<1> HIDE DEF g, later, set
<1>6. /\ DOMAIN g = DOMAIN set \cup DOMAIN later
      /\ \A f \in DOMAIN g : g[f] = IF f \in DOMAIN later THEN later[f] ELSE set[f]
      /\ g = [f \in DOMAIN g |-> g[f]]
  BY <1>1 DEF Overwrite
<1>7. DOMAIN g = {f \in DOMAIN TypeOf : PlacesFrom(e, k, f) # {}}
  BY <1>2, <1>3, <1>5, <1>6
<1>8. ASSUME NEW f \in DOMAIN TypeOf, NEW j \in PlacesFrom(e, k, f),
             \A i \in PlacesFrom(e, k, f) : i <= j
      PROVE  g[f] = Text(e.tlvs[j].value)
  <2>1. CASE f \in DOMAIN later
    <3>1. PICK i \in PlacesFrom(e, k + 1, f) : TRUE
      BY <1>3, <2>1
    <3>2. i \in PlacesFrom(e, k, f) /\ i \in DOMAIN e.tlvs /\ k + 1 < i /\ i <= j
          /\ j \in DOMAIN e.tlvs
      BY <1>5, <1>8, <3>1 DEF PlacesFrom
    <3>3. j # k + 1
      BY <1>4, <3>2
    <3>4. j \in PlacesFrom(e, k + 1, f)
      BY <1>5, <1>8, <3>3
    <3>5. \A m \in PlacesFrom(e, k + 1, f) : m <= j
      BY <1>5, <1>8
    <3>6. later[f] = Text(e.tlvs[j].value)
      BY <1>3, <1>8, <3>4, <3>5
    <3>. QED
      BY <1>6, <2>1, <3>6
  <2>2. CASE f \notin DOMAIN later
    <3>1. PlacesFrom(e, k + 1, f) = {}
      BY <1>3, <2>2
    <3>2. j = k + 1 /\ TypeOf[f] = tlv.type
      BY <1>5, <1>8, <3>1
    <3>3. f \in DOMAIN set /\ f \in DOMAIN g
      BY <1>2, <1>6, <3>2
    <3>. QED
      BY <1>2, <1>6, <2>2, <3>2, <3>3
  <2>. QED
    BY <2>1, <2>2
<1>9. g = [f \in {f \in DOMAIN TypeOf : PlacesFrom(e, k, f) # {}} |-> g[f]]
  BY <1>6, <1>7
<1>. QED
  BY <1>8, <1>9 DEF Assigned, g

(* Where no further TLV counts, nothing is assigned. *)
LEMMA AssignedAtEnd ==
  ASSUME NEW e, IsEeprom(e), NEW k \in 0 .. Len(e.tlvs), Reached(e, k),
         k = Len(e.tlvs) \/ ~Counts(e, k + 1)
  PROVE  Assigned(e, k)
<1>1. /\ Len(e.tlvs) \in Nat /\ DOMAIN e.tlvs = 1 .. Len(e.tlvs)
  BY WrittenAreBytes, LenProperties
<1>2. Stops(e, Offset(e, k))
  <2>1. CASE k = Len(e.tlvs)
    <3>1. /\ Len(Written(e.tlvs, k)) = Len(Encode(e.tlvs)) /\ e.kept \in Nat
          /\ e.kept <= Len(Encode(e.tlvs)) /\ Len(Encode(e.tlvs)) \in Nat
          /\ Size(e) = HeaderSize + e.kept /\ HeaderSize \in Nat
      BY <2>1, WrittenAreBytes, BodyIs DEF HeaderSize
    <3>2. Offset(e, k) >= Size(e)
      BY <3>1 DEF Offset
    <3>. QED
      BY <3>2 DEF Stops
  <2>2. CASE k < Len(e.tlvs) /\ ~Counts(e, k + 1)
    BY <2>2, LoopStep
  <2>. QED
    BY <1>1, <2>1, <2>2
<1>3. loop(e)[Offset(e, k)] = <<>>
  <2>1. Offset(e, k) \in HeaderSize .. Size(e)
    BY ReachedIs
  <2>. QED
    BY <1>2, <2>1, LoopIs DEF Loops
<1>4. \A f \in DOMAIN TypeOf : PlacesFrom(e, k, f) = {}
  <2> SUFFICES ASSUME NEW f \in DOMAIN TypeOf, NEW j \in PlacesFrom(e, k, f)
               PROVE  FALSE
    OBVIOUS
  <2>1. j \in 1 .. Len(e.tlvs) /\ k < j /\ Counts(e, j)
    BY <1>1 DEF PlacesFrom
  <2>2. k + 1 \in 1 .. j /\ k # Len(e.tlvs)
    BY <1>1, <2>1
  <2>. QED
    BY <2>1, <2>2, CountsDown
<1> DEFINE g == loop(e)[Offset(e, k)]
<1>5. g = [f \in {f \in DOMAIN TypeOf : PlacesFrom(e, k, f) # {}} |-> g[f]]
  <2>1. {f \in DOMAIN TypeOf : PlacesFrom(e, k, f) # {}} = {}
    BY <1>4
  <2> HIDE DEF g
  <2>2. g = [f \in {} |-> g[f]]
    BY <1>3 DEF g
  <2>. QED
    BY <2>1, <2>2
<1>. QED
  BY <1>4, <1>5 DEF Assigned

(* Wherever the file ends, and wherever its length says it ends, parseTlv()
   finds in it the last value of each field that counts. *)
THEOREM ParsedAsProgrammed ==
  ASSUME NEW e, IsEeprom(e)
  PROVE  parseTlv(e) = Programmed(e)
<1> DEFINE n == Len(e.tlvs)
           T == {k \in Nat : k <= n /\ Reached(e, k) => Assigned(e, k)}
<1>1. n \in Nat /\ DOMAIN e.tlvs = 1 .. n
  BY WrittenAreBytes, LenProperties
<1>2. n \in T
  <2>1. n \in 0 .. Len(e.tlvs)
    BY <1>1
  <2>. QED
    BY <1>1, <2>1, AssignedAtEnd
<1>3. ASSUME NEW k \in 0 .. n, k + 1 \in T, k < n
      PROVE  k \in T
  <2> SUFFICES ASSUME Reached(e, k) PROVE Assigned(e, k)
    BY <1>1, <1>3
  <2>1. CASE Counts(e, k + 1)
    <3>1. k + 1 \in 0 .. n /\ k + 1 <= n /\ Reached(e, k + 1)
      BY <1>1, <1>3, <2>1 DEF Reached
    <3>2. Assigned(e, k + 1)
      BY <1>3, <3>1
    <3>. QED
      BY <1>3, <2>1, <3>2, AssignedStep
  <2>2. CASE ~Counts(e, k + 1)
    BY <1>3, <2>2, AssignedAtEnd
  <2>. QED
    BY <2>1, <2>2
<1> HIDE DEF T
<1>4. 0 .. n \subseteq T
  BY <1>1, <1>2, <1>3, DownFrom
<1>5. Assigned(e, 0)
  BY <1>1, <1>4 DEF T, Reached
<1>6. Offset(e, 0) = HeaderSize
  BY WrittenAreBytes DEF Offset, HeaderSize
<1> DEFINE Places(f) == {i \in DOMAIN e.tlvs : Counts(e, i) /\ e.tlvs[i].type = TypeOf[f]}
           Latest(f) == CHOOSE i \in Places(f) : \A j \in Places(f) : j <= i
<1>7. ASSUME NEW f \in DOMAIN TypeOf
      PROVE  PlacesFrom(e, 0, f) = Places(f)
  BY <1>1 DEF PlacesFrom
<1>8. ASSUME NEW f \in DOMAIN TypeOf, Places(f) # {}
      PROVE  Latest(f) \in Places(f) /\ \A j \in Places(f) : j <= Latest(f)
  <2> DEFINE U == {n - i : i \in Places(f)}
  <2>1. U \subseteq Nat /\ U # {}
    <3>1. \A i \in Places(f) : n - i \in Nat
      BY <1>1
    <3> HIDE DEF Places
    <3>. QED
      BY <1>8, <3>1
  <2>2. PICK u \in U : \A v \in U : u <= v
    BY <2>1, LeastExists
  <2>3. PICK i \in Places(f) : u = n - i
    BY <2>2
  <2>4. Places(f) \subseteq 1 .. n
    BY <1>1
  <2>5. \A j \in Places(f) : n - i <= n - j
    BY <2>2, <2>3
  <2> HIDE DEF Places
  <2>6. \A j \in Places(f) : j <= i
    BY <1>1, <2>3, <2>4, <2>5
  <2>. QED
    BY <2>3, <2>6
<1> DEFINE g == loop(e)[HeaderSize]
<1>9. /\ g = [f \in {f \in DOMAIN TypeOf : PlacesFrom(e, 0, f) # {}} |-> g[f]]
      /\ \A f \in DOMAIN TypeOf : \A j \in PlacesFrom(e, 0, f) :
           (\A i \in PlacesFrom(e, 0, f) : i <= j) => g[f] = Text(e.tlvs[j].value)
  BY <1>5, <1>6 DEF Assigned
<1>10. Programmed(e) = [f \in {f \in DOMAIN TypeOf : Places(f) # {}} |->
                          Text(e.tlvs[Latest(f)].value)]
  BY DEF Programmed
<1>11. parseTlv(e) = g
  BY DEF parseTlv
<1> HIDE DEF g, Places, Latest
<1>12. {f \in DOMAIN TypeOf : PlacesFrom(e, 0, f) # {}} = {f \in DOMAIN TypeOf : Places(f) # {}}
  BY <1>7
<1>13. ASSUME NEW f \in {f \in DOMAIN TypeOf : Places(f) # {}}
       PROVE  g[f] = Text(e.tlvs[Latest(f)].value)
  BY <1>7, <1>8, <1>9, <1>13
<1>. QED
  BY <1>9, <1>10, <1>11, <1>12, <1>13

-----------------------------------------------------------------------------
(***************************************************************************)
(* What D-Bus shows of it                                                  *)
(***************************************************************************)

(* Candidates of which only the first is of the FRU. *)
LEMMA PickOther ==
  ASSUME NEW candidates, NEW n \in Nat, DOMAIN candidates = 1 .. n, NEW sources,
         candidates[1][2] \notin DOMAIN sources[candidates[1][1]],
         \A i \in 2 .. n : candidates[i][1] # "fru"
  PROVE  Pick(candidates, sources).source # "fru"
<1> DEFINE Present == {i \in DOMAIN candidates :
                         candidates[i][2] \in DOMAIN sources[candidates[i][1]]}
           best == CHOOSE i \in Present : \A j \in Present : i <= j
<1>1. CASE Present = {}
  <2>1. Pick(candidates, sources) = [value |-> "default", source |-> "default"]
    BY <1>1, PickNone
  <2>. QED
    BY <2>1
<1>2. CASE Present # {}
  <2>1. Present \subseteq Nat /\ 1 \notin Present
    OBVIOUS
  <2>2. \E i \in Present : \A j \in Present : i <= j
    BY <1>2, <2>1, LeastExists
  <2>3. best \in Present
    BY <2>2
  <2>4. best \in 2 .. n
    <3>1. Present \subseteq 1 .. n /\ \A i \in 1 .. n : i # 1 => i \in 2 .. n
      OBVIOUS
    <3> HIDE DEF Present, best
    <3>. QED
      BY <2>1, <2>3, <3>1
  <2> HIDE DEF best
  <2>5. Pick(candidates, sources) =
          [value |-> sources[candidates[best][1]][candidates[best][2]],
           source |-> candidates[best][1]]
    BY <1>2 DEF Pick, best
  <2>. QED
    BY <2>4, <2>5
<1>. QED
  BY <1>1, <1>2

(* A field of the system is of the FRU if that has it. *)
LEMMA SystemField ==
  ASSUME NEW fru, NEW m, NEW p, NEW c, NEW f \in {"serialNumber", "manufacturer", "model"}
  PROVE  IF f \in DOMAIN fru
           THEN build(fru, m, p, c).system[f] = [value |-> fru[f], source |-> "fru"]
           ELSE build(fru, m, p, c).system[f].source # "fru"
<1> DEFINE candidates == SystemPrecedence[f]
           sources == [redis |-> m, fru |-> fru, platform |-> p]
<1>1. build(fru, m, p, c).system[f] = Pick(candidates, sources)
  <2>1. build(fru, m, p, c).system
          = [g \in DOMAIN SystemPrecedence |-> Pick(SystemPrecedence[g], sources)]
    BY DEF build
  <2>2. f \in DOMAIN SystemPrecedence
    BY DEF SystemPrecedence
  <2> HIDE DEF sources
  <2>. QED
    BY <2>1, <2>2
<1>2. /\ candidates[1][1] = "fru" /\ candidates[1][2] = f
      /\ DOMAIN candidates = 1 .. 2 /\ candidates[2][1] = "redis" /\ 2 \in Nat
  BY DEF SystemPrecedence
<1>3. sources["fru"] = fru
  OBVIOUS
<1> HIDE DEF candidates, sources
<1>4. CASE f \in DOMAIN fru
  <2>1. 2 \in Nat \ {0}
    OBVIOUS
  <2>2. candidates[1][2] \in DOMAIN sources[candidates[1][1]]
    BY <1>2, <1>3, <1>4
  <2>3. Pick(candidates, sources) = [value |-> sources[candidates[1][1]][candidates[1][2]],
                                     source |-> candidates[1][1]]
    BY <1>2, <2>1, <2>2, PickFirst
  <2>. QED
    BY <1>1, <1>2, <1>3, <1>4, <2>3
<1>5. CASE f \notin DOMAIN fru
  <2>1. candidates[1][2] \notin DOMAIN sources[candidates[1][1]]
    BY <1>2, <1>3, <1>5
  <2>2. \A i \in 2 .. 2 : candidates[i][1] # "fru"
    BY <1>2
  <2>3. Pick(candidates, sources).source # "fru"
    BY <1>2, <2>1, <2>2, PickOther
  <2>. QED
    BY <1>1, <1>5, <2>3
<1>. QED
  BY <1>4, <1>5

(* The first EEPROM that can be read is parsed. *)
LEMMA FirstIsLoaded ==
  ASSUME NEW paths, paths \in Seq(Range(paths)), \A e \in Range(paths) : IsEeprom(e)
  PROVE  LET readable == {i \in DOMAIN paths : Readable(paths[i])}
             first == CHOOSE i \in readable : \A j \in readable : i <= j
         IN scanAndLoad(paths) = IF readable = {} THEN <<>> ELSE Programmed(paths[first])
<1> DEFINE readable == {i \in DOMAIN paths : Readable(paths[i])}
           first == CHOOSE i \in readable : \A j \in readable : i <= j
           found == SelectInSeq(paths, Readable)
<1>1. DOMAIN paths = 1 .. Len(paths) /\ Len(paths) \in Nat
  BY LenProperties
<1>2. readable = {i \in 1 .. Len(paths) : Readable(paths[i])}
  BY <1>1
<1>3. found = IF readable # {} THEN Min(readable) ELSE 0
  BY <1>2 DEF SelectInSeq
<1>4. Min(readable) = first
  BY DEF Min
<1>5. CASE readable = {}
  BY <1>3, <1>5 DEF scanAndLoad
<1>6. CASE readable # {}
  <2>1. readable \subseteq Nat /\ 0 \notin readable
    BY <1>1
  <2>2. \E i \in readable : \A j \in readable : i <= j
    BY <1>6, <2>1, LeastExists
  <2>3. first \in readable
    BY <2>2
  <2>4. first \in DOMAIN paths /\ first # 0
    BY <2>1, <2>3
  <2> HIDE DEF readable, first
  <2>5. IsEeprom(paths[first])
    BY <2>4 DEF Range
  <2>6. parseTlv(paths[first]) = Programmed(paths[first])
    BY <2>5, ParsedAsProgrammed
  <2>7. found = first
    BY <1>3, <1>4, <1>6
  <2>8. scanAndLoad(paths) = parseTlv(paths[first])
    BY <2>4, <2>7 DEF scanAndLoad
  <2>. QED
    BY <1>6, <2>6, <2>8 DEF readable, first
<1>. QED
  BY <1>5, <1>6

(* Until the first rebuild the model is the one that was built at the start. *)
FruInv ==
  /\ files \in Files
  /\ phase # "build" /\ cachedMetadata = <<>> /\ cachedState = <<>> =>
       \E m, p, c : model = build(scanAndLoad(files.eeproms), m, p, c)

(* So D-Bus shows what the EEPROM was programmed with. *)
LEMMA FruInvSuffices ==
  ASSUME FruInv
  PROVE  FruAsProgrammed
<1> SUFFICES ASSUME phase # "build", cachedMetadata = <<>>, cachedState = <<>>
             PROVE  LET readable == {i \in DOMAIN files.eeproms : Readable(files.eeproms[i])}
                        first == CHOOSE i \in readable : \A j \in readable : i <= j
                        fields == IF readable = {} THEN None ELSE Programmed(files.eeproms[first])
                    IN \A f \in {"serialNumber", "manufacturer", "model"} :
                         IF f \in DOMAIN fields
                           THEN model.system[f] = [value |-> fields[f], source |-> "fru"]
                           ELSE model.system[f].source # "fru"
  BY DEF FruAsProgrammed
<1> DEFINE paths == files.eeproms
           readable == {i \in DOMAIN paths : Readable(paths[i])}
           first == CHOOSE i \in readable : \A j \in readable : i <= j
           fields == IF readable = {} THEN None ELSE Programmed(paths[first])
           fru == scanAndLoad(paths)
<1>1. paths \in Seq(Range(paths)) /\ \A e \in Range(paths) : IsEeprom(e)
  BY InventoryAssumption DEF FruInv
<1>2. fru = IF readable = {} THEN <<>> ELSE Programmed(paths[first])
  BY <1>1, FirstIsLoaded
<1> HIDE DEF readable, first
<1>3. DOMAIN fields = DOMAIN fru /\ \A f \in DOMAIN fru : fields[f] = fru[f]
  BY <1>2 DEF None
<1>4. PICK m, p, c : model = build(fru, m, p, c)
  BY DEF FruInv
<1> HIDE DEF fields, fru, paths
<1>5. ASSUME NEW f \in {"serialNumber", "manufacturer", "model"}
      PROVE  IF f \in DOMAIN fields
               THEN model.system[f] = [value |-> fields[f], source |-> "fru"]
               ELSE model.system[f].source # "fru"
  <2>1. IF f \in DOMAIN fru
          THEN build(fru, m, p, c).system[f] = [value |-> fru[f], source |-> "fru"]
          ELSE build(fru, m, p, c).system[f].source # "fru"
    BY SystemField
  <2>2. model.system[f] = build(fru, m, p, c).system[f]
    BY <1>4
  <2>3. CASE f \in DOMAIN fru
    BY <1>3, <2>1, <2>2, <2>3
  <2>4. CASE f \notin DOMAIN fru
    BY <1>3, <2>1, <2>2, <2>4
  <2>. QED
    BY <2>3, <2>4
<1>. QED
  BY <1>5 DEF fields, readable, first, paths

(* Every step keeps the model until a rebuild, which fills a cache. *)
LEMMA FruStep ==
  ASSUME FruInv, [Next]_vars
  PROVE  FruInv'
<1>1. CASE Build
  BY <1>1 DEF Build, FruInv
<1>2. CASE Subscribe
  BY <1>2 DEF Subscribe, FruInv
<1>3. CASE onRedisFieldChange
  <2>1. UNCHANGED <<files, phase>> /\ phase = "running"
    BY <1>3 DEF onRedisFieldChange
  <2>2. ASSUME cachedMetadata' = <<>>, cachedState' = <<>>
        PROVE  UNCHANGED <<cachedMetadata, cachedState, model>>
    <3>1. cachedMetadata' = cachedMetadata /\ cachedState' = cachedState
      BY <1>3, <2>2 DEF onRedisFieldChange
    <3>. QED
      BY <1>3, <3>1 DEF onRedisFieldChange
  <2>. QED
    BY <2>1, <2>2 DEF FruInv
<1>4. CASE \/ WriteMetadata \/ WriteChassis \/ TouchKey \/ ConnectionBreaks \/ Reconnect
           \/ UNCHANGED vars
  <2>1. UNCHANGED <<files, phase, model, cachedMetadata, cachedState>>
    BY <1>4 DEF WriteMetadata, WriteChassis, TouchKey, ConnectionBreaks, Reconnect, vars
  <2>. QED
    BY <2>1 DEF FruInv
<1>. QED
  BY <1>1, <1>2, <1>3, <1>4 DEF Next

(* Until the first rebuild, D-Bus shows what the first readable EEPROM was
   programmed with. *)
THEOREM FruIsShown == Spec => []FruAsProgrammed
<1>1. Init => FruInv
  BY DEF Init, FruInv
<1>2. FruInv /\ [Next]_vars => FruInv'
  BY FruStep
<1>3. FruInv => FruAsProgrammed
  BY FruInvSuffices
<1>. QED
  BY <1>1, <1>2, <1>3, PTL DEF Spec
=============================================================================
