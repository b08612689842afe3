--------------------------- MODULE ValueMapProofs ---------------------------
(***************************************************************************)
(* Theorems about ValueMap and PrecomputedSum for any threads, attribute    *)
(* sets, orders, values and bounds and any cardinality limit.              *)
(*                                                                         *)
(* None of the properties is inductive alone.  That nothing is lost needs  *)
(* the trackers of different sets to be different (OneTrackerPerSet) and   *)
(* the map that was swapped out to be empty between collections (Phases);  *)
(* that the limit holds needs the overflow tracker to come only at the     *)
(* limit, and sets without a tracker to be absent under every order.       *)
(* ObservedInv, at the end, is the invariant of an observable counter.     *)
(***************************************************************************)
EXTENDS PrecomputedSum, FiniteSetTheorems, TLAPS

IsKeyMap(map) == DOMAIN map \subseteq Key /\ map \in [DOMAIN map -> Key]

TypeOK ==
    /\ temporality \in {"Delta", "Cumulative"} /\ aggregator \in {"Increment", "Assign"}
    /\ IsKeyMap(trackers) /\ IsKeyMap(taken)
    /\ value \in [Key -> Nat] /\ takenValue \in [Key -> Nat]
    /\ count \in Nat /\ hasNoAttributeValue \in BOOLEAN /\ noAttributeValue \in Nat
    /\ mPc \in [Measurers -> {"idle", "flag", "write"}]
    /\ mKey \in [Measurers -> Key] /\ mValue \in [Measurers -> Nat]
    /\ mDone \in [Measurers -> Nat] /\ mMark \in [Measurers -> Nat]
    /\ cPc \in {"idle", "noAttributes", "trackers", "visit"} /\ cSeen \subseteq Key
    /\ point \in [Stream -> Nat \cup {NoPoint}] /\ previous \in [Stream -> Nat \cup {NoPoint}]
    /\ total \in [Stream -> Nat] /\ measured \in [Stream -> Nat]
    /\ returned \in [Stream -> Nat] /\ due \in [Stream -> Nat]

(* What each thread and each phase of a collection has in its hands. *)
Phases ==
    /\ \A m \in Measurers : mPc[m] = "write" => mKey[m] \in GivenKey
    /\ cPc # "visit" => taken = EmptyMap /\ cSeen = {}
    /\ temporality = "Cumulative" => taken = EmptyMap /\ \A s \in Stream : total[s] = 0

Structure == TypeOK /\ Phases /\ OneTrackerPerSet

-----------------------------------------------------------------------------
(* Facts about keys *)

LEMMA KeyFacts ==
    ASSUME NEW k \in Key
    PROVE  /\ k[1] \in Stream /\ k[1] # NoAttributes
           /\ Sorted(k) \in Key /\ Sorted(k)[1] = k[1] /\ Sorted(Sorted(k)) = Sorted(k)
           /\ k[1] = Overflow <=> k = OverflowKey
           /\ k \in GivenKey <=> k # OverflowKey
BY ValueMapAssumption
   DEF ValueMapAssumption, Key, GivenKey, OverflowKey, Sorted, Stream

LEMMA OverflowFacts ==
    /\ OverflowKey \in Key /\ OverflowKey[1] = Overflow /\ Sorted(OverflowKey) = OverflowKey
    /\ Overflow \in Stream /\ NoAttributes \in Stream
    /\ \A k \in GivenKey : k \in Key
BY DEF Key, OverflowKey, Sorted, Stream

(* The stream without attributes has no key. *)
LEMMA NoKeyWithoutAttributes == \A k \in Key : k # <<NoAttributes, 0>>
BY ValueMapAssumption DEF ValueMapAssumption, Key, GivenKey, OverflowKey

LEMMA MapFacts == IsKeyMap(EmptyMap) /\ OneTracker(EmptyMap) /\ Trackers(EmptyMap) = {}
BY OverflowFacts DEF IsKeyMap, EmptyMap, OneTracker, Trackers

(* Two keys with a tracker share it exactly if they are of one set. *)
LEMMA SameSetSameTracker ==
    ASSUME NEW map, IsKeyMap(map), OneTracker(map), NEW j \in DOMAIN map, NEW k \in DOMAIN map
    PROVE  map[j] = map[k] <=> j[1] = k[1]
<1>1. map[j][1] = j[1] /\ map[k][1] = k[1]
  BY DEF OneTracker
<1>2. map[j] = map[Sorted(j)] /\ map[k] = map[Sorted(k)]
  BY DEF OneTracker
<1>3. j[1] = k[1] => Sorted(j) = Sorted(k)
  BY DEF Sorted
<1> QED
  BY <1>1, <1>2, <1>3

-----------------------------------------------------------------------------
(* A measurement's effect on the map *)

(* The tracker of a known set is in the map, under the sorted key too. *)
LEMMA LookupFacts ==
    ASSUME Structure, NEW k \in Key, Known(k)
    PROVE  /\ Sorted(k) \in DOMAIN trackers /\ Lookup(k) = trackers[Sorted(k)]
           /\ Lookup(k) \in Key /\ Lookup(k)[1] = k[1]
<1>1. IsKeyMap(trackers) /\ OneTracker(trackers)
  BY DEF Structure, TypeOK, OneTrackerPerSet
<1>2. Sorted(k) \in DOMAIN trackers
  BY <1>1 DEF Known, OneTracker
<1>3. Lookup(k) = trackers[Sorted(k)]
  BY <1>1, <1>2 DEF Lookup, OneTracker
<1>4. trackers[Sorted(k)] \in Key /\ trackers[Sorted(k)][1] = Sorted(k)[1]
  BY <1>1, <1>2 DEF IsKeyMap, OneTracker
<1> QED
  BY <1>2, <1>3, <1>4, KeyFacts

(* An inserted set has one tracker, the others keep theirs. *)
LEMMA InsertFacts ==
    ASSUME Structure, NEW k \in Key, ~Known(k)
    PROVE  /\ DOMAIN Insert(k) = DOMAIN trackers \cup {k, Sorted(k)}
           /\ IsKeyMap(Insert(k)) /\ OneTracker(Insert(k))
           /\ \A j \in DOMAIN trackers : j[1] # k[1] /\ Insert(k)[j] = trackers[j]
           /\ Insert(k)[k] = k /\ Insert(k)[Sorted(k)] = k
<1> DEFINE map == Insert(k)
<1>1. IsKeyMap(trackers) /\ OneTracker(trackers)
  BY DEF Structure, TypeOK, OneTrackerPerSet
<1>2. k \notin DOMAIN trackers /\ Sorted(k) \notin DOMAIN trackers
  BY DEF Known
<1>3. Sorted(k) \in Key /\ Sorted(k)[1] = k[1] /\ Sorted(Sorted(k)) = Sorted(k)
  BY KeyFacts
<1>4. /\ DOMAIN map = DOMAIN trackers \cup {k, Sorted(k)}
      /\ map[k] = k /\ map[Sorted(k)] = k
      /\ \A j \in DOMAIN trackers : map[j] = trackers[j]
  BY <1>2 DEF Insert
<1>5. IsKeyMap(map)
  BY <1>1, <1>3 DEF IsKeyMap, Insert
<1>6. ASSUME NEW j \in DOMAIN trackers PROVE j[1] # k[1]
  <2>1. Sorted(j) \in DOMAIN trackers
    BY <1>1 DEF OneTracker
  <2> QED
    BY <2>1, <1>2 DEF Sorted
<1>7. ASSUME NEW j \in DOMAIN map
      PROVE  /\ Sorted(j) \in DOMAIN map /\ map[j] = map[Sorted(j)]
             /\ map[j] \in DOMAIN map /\ map[j][1] = j[1]
  <2>1. CASE j \in DOMAIN trackers
    <3>1. Sorted(j) \in DOMAIN trackers /\ trackers[j] = trackers[Sorted(j)]
          /\ trackers[j] \in DOMAIN trackers /\ trackers[j][1] = j[1]
      BY <1>1, <2>1 DEF OneTracker
    <3> QED
      BY <1>4, <2>1, <3>1
  <2>2. CASE j \in {k, Sorted(k)}
    BY <1>3, <1>4, <2>2
  <2> QED
    BY <1>4, <2>1, <2>2
<1>8. OneTracker(map)
  BY <1>7 DEF OneTracker
<1> QED
  BY <1>4, <1>5, <1>6, <1>8

(* Types of what a measurement writes. *)
LEMMA UpdatedType ==
    ASSUME TypeOK, NEW v \in Nat, NEW x \in Nat PROVE Updated(v, x) \in Nat
BY DEF Updated

LEMMA RecordType ==
    ASSUME TypeOK, NEW k \in Key, NEW x \in Nat, Record(k, x)
    PROVE  measured' \in [Stream -> Nat] /\ returned' \in [Stream -> Nat]
<1>1. StreamOf(k) \in Stream
  BY KeyFacts, OverflowFacts DEF StreamOf
<1>2. measured' = [measured EXCEPT ![StreamOf(k)] = @ + x]
  BY DEF Record
<1>3. measured' \in [Stream -> Nat]
  BY <1>1, <1>2 DEF TypeOK
<1>4. returned' = [returned EXCEPT ![StreamOf(k)] = measured'[StreamOf(k)]]
  BY DEF Record
<1> QED
  BY <1>1, <1>3, <1>4 DEF TypeOK

LEMMA UpdateTrackerType ==
    ASSUME Structure, NEW k \in Key, NEW x \in Nat, Known(k), UpdateTracker(k, x)
    PROVE  IsKeyMap(trackers') /\ OneTracker(trackers') /\ value' \in [Key -> Nat]
<1>1. Lookup(k) \in Key
  BY LookupFacts
<1>2. Updated(value[Lookup(k)], x) \in Nat
  BY <1>1, UpdatedType DEF Structure, TypeOK
<1> QED
  BY <1>1, <1>2 DEF UpdateTracker, Structure, TypeOK, OneTrackerPerSet

LEMMA AddTrackerType ==
    ASSUME Structure, NEW k \in Key, NEW x \in Nat, ~Known(k), AddTracker(k, x)
    PROVE  IsKeyMap(trackers') /\ OneTracker(trackers') /\ value' \in [Key -> Nat]
<1>1. Updated(0, x) \in Nat
  BY UpdatedType DEF Structure
<1> QED
  BY <1>1, InsertFacts DEF AddTracker, Structure, TypeOK

LEMMA UpdateOrInsertType ==
    ASSUME Structure, NEW k \in Key, NEW x \in Nat, UpdateOrInsert(k, x)
    PROVE  /\ IsKeyMap(trackers') /\ OneTracker(trackers') /\ value' \in [Key -> Nat]
           /\ count' \in Nat /\ Record(k, x)
<1> USE OverflowFacts
<1>1. Record(k, x)
  BY DEF UpdateOrInsert
<1>2. count' \in Nat
  BY DEF UpdateOrInsert, Structure, TypeOK
<1> QED
  BY <1>1, <1>2, UpdateTrackerType, AddTrackerType DEF UpdateOrInsert

-----------------------------------------------------------------------------
(* Types, phases and the shape of the maps survive every step. *)

LEMMA ValuesType == Values \subseteq Nat
BY ValueMapAssumption DEF ValueMapAssumption

LEMMA StructureInit == Init => Structure
<1> SUFFICES ASSUME Init PROVE Structure
  OBVIOUS
<1>1. TypeOK
  BY ValueMapAssumption, OverflowFacts, MapFacts DEF ValueMapAssumption, Init, TypeOK, NoValues
<1>2. Phases
  BY DEF Init, Phases
<1>3. OneTrackerPerSet
  BY MapFacts DEF Init, OneTrackerPerSet
<1> QED
  BY <1>1, <1>2, <1>3 DEF Structure

LEMMA MeasureKeepsStructure ==
    ASSUME Structure, NEW m \in Measurers, Measure(m), UNCHANGED streamVars PROVE Structure'
<1> USE ValuesType, OverflowFacts
<1>1. ASSUME NEW x \in Values, MeasureNoAttributes(m, x) PROVE Structure'
  <2>1. Updated(noAttributeValue, x) \in Nat
    BY UpdatedType DEF Structure, TypeOK
  <2>2. measured' \in [Stream -> Nat]
    BY <1>1 DEF MeasureNoAttributes, Structure, TypeOK
  <2>3. mMark' \in [Measurers -> Nat]
    BY <1>1, <2>2 DEF MeasureNoAttributes, Structure, TypeOK
  <2>4. mDone' \in [Measurers -> Nat]
    BY <1>1 DEF MeasureNoAttributes, Begin, Structure, TypeOK
  <2> QED
    BY <1>1, <2>1, <2>2, <2>3, <2>4 DEF MeasureNoAttributes, Structure, TypeOK, Phases,
       OneTrackerPerSet, mapVars, collectorVars, pointVars, streamVars
<1>2. ASSUME NEW x \in Values, NEW k \in GivenKey, MeasureFound(m, k, x) PROVE Structure'
  <2>1. IsKeyMap(trackers') /\ OneTracker(trackers') /\ value' \in [Key -> Nat]
    BY <1>2, UpdateTrackerType DEF MeasureFound
  <2>2. measured' \in [Stream -> Nat] /\ returned' \in [Stream -> Nat]
    BY <1>2, RecordType DEF MeasureFound, Structure
  <2>3. mDone' \in [Measurers -> Nat]
    BY <1>2 DEF MeasureFound, Begin, Structure, TypeOK
  <2> QED
    BY <1>2, <2>1, <2>2, <2>3 DEF MeasureFound, Structure, TypeOK, Phases,
       OneTrackerPerSet, noAttributeVars, collectorVars, pointVars, streamVars
<1>3. ASSUME NEW x \in Values, NEW k \in GivenKey, MeasureMissed(m, k, x) PROVE Structure'
  <2>1. mDone' \in [Measurers -> Nat]
    BY <1>3 DEF MeasureMissed, Begin, Structure, TypeOK
  <2>2. mKey' \in [Measurers -> Key]
    BY <1>3 DEF MeasureMissed, Structure, TypeOK
  <2> QED
    BY <1>3, <2>1, <2>2 DEF MeasureMissed, Structure, TypeOK, Phases, OneTrackerPerSet, mapVars,
       noAttributeVars, collectorVars, pointVars, historyVars, streamVars
<1>4. CASE StoreFlag(m)
  BY <1>4 DEF StoreFlag, Structure, TypeOK, Phases, OneTrackerPerSet, mapVars, collectorVars,
     pointVars, streamVars
<1>5. CASE MeasureUnderWriteLock(m)
  <2>1. mKey[m] \in Key /\ mValue[m] \in Nat /\ UpdateOrInsert(mKey[m], mValue[m])
    BY <1>5 DEF MeasureUnderWriteLock, Structure, TypeOK
  <2>2. /\ IsKeyMap(trackers') /\ OneTracker(trackers') /\ value' \in [Key -> Nat]
        /\ count' \in Nat /\ Record(mKey[m], mValue[m])
    BY <2>1, UpdateOrInsertType
  <2>3. measured' \in [Stream -> Nat] /\ returned' \in [Stream -> Nat]
    BY <2>1, <2>2, RecordType DEF Structure
  <2> QED
    BY <1>5, <2>2, <2>3 DEF MeasureUnderWriteLock, Structure, TypeOK, Phases, OneTrackerPerSet,
       noAttributeVars, collectorVars, pointVars, streamVars
<1> QED
  BY <1>1, <1>2, <1>3, <1>4, <1>5 DEF Measure

LEMMA PushType ==
    ASSUME TypeOK, NEW s \in Stream, NEW v \in Nat, Push(s, v), UNCHANGED streamVars
    PROVE  /\ point' \in [Stream -> Nat \cup {NoPoint}]
           /\ previous' \in [Stream -> Nat \cup {NoPoint}] /\ total' \in [Stream -> Nat]
           /\ temporality = "Cumulative" => total' = total
BY DEF Push, TypeOK

LEMMA CollectKeepsStructure ==
    ASSUME Structure, Collect, UNCHANGED streamVars PROVE Structure'
<1> USE OverflowFacts
<1>1. CASE BeginCollect
  BY <1>1 DEF BeginCollect, FlagAfterCollect, Structure, TypeOK, Phases, OneTrackerPerSet, mapVars,
     measurerVars, streamVars
<1>2. CASE CollectNoAttributes
  <2>1. /\ point' \in [Stream -> Nat \cup {NoPoint}]
        /\ previous' \in [Stream -> Nat \cup {NoPoint}] /\ total' \in [Stream -> Nat]
        /\ temporality = "Cumulative" => total' = total
    BY <1>2, PushType DEF CollectNoAttributes, Structure, TypeOK
  <2> QED
    BY <1>2, <2>1 DEF CollectNoAttributes, Structure, TypeOK, Phases, OneTrackerPerSet, mapVars,
       measurerVars, historyVars, streamVars
<1>3. CASE SwapTrackers
  BY <1>3, MapFacts DEF SwapTrackers, NoValues, Structure, TypeOK, Phases, OneTrackerPerSet,
     noAttributeVars, measurerVars, pointVars, historyVars, streamVars
<1>4. CASE LockTrackers
  BY <1>4 DEF LockTrackers, Structure, TypeOK, Phases, OneTrackerPerSet, mapVars,
     noAttributeVars, measurerVars, pointVars, historyVars, streamVars
<1>5. ASSUME NEW t \in Key, VisitTracker(t) PROVE Structure'
  <2>1. VisitedValue[t] \in Nat /\ t[1] \in Stream
    BY KeyFacts DEF VisitedValue, Structure, TypeOK
  <2>2. /\ point' \in [Stream -> Nat \cup {NoPoint}]
        /\ previous' \in [Stream -> Nat \cup {NoPoint}] /\ total' \in [Stream -> Nat]
        /\ temporality = "Cumulative" => total' = total
    BY <1>5, <2>1, PushType DEF VisitTracker, Structure
  <2> QED
    BY <1>5, <2>2 DEF VisitTracker, Structure, TypeOK, Phases, OneTrackerPerSet, mapVars,
       noAttributeVars, measurerVars, historyVars, streamVars
<1>6. CASE FinishCollect
  BY <1>6, MapFacts DEF FinishCollect, NoValues, Structure, TypeOK, Phases, OneTrackerPerSet,
     noAttributeVars, measurerVars, pointVars, historyVars, streamVars
<1> QED
  BY <1>1, <1>2, <1>3, <1>4, <1>5, <1>6 DEF Collect

LEMMA StructureStep ==
    ASSUME Structure, [Next]_vars PROVE Structure'
<1>1. CASE UNCHANGED vars
  BY <1>1 DEF vars, streamVars, mapVars, noAttributeVars, measurerVars, collectorVars, pointVars,
     historyVars, Structure, TypeOK, Phases, OneTrackerPerSet
<1> QED
  BY <1>1, MeasureKeepsStructure, CollectKeepsStructure DEF Next, Finished

-----------------------------------------------------------------------------
(* Every measurement is accounted for. *)

LEMMA HeldType ==
    ASSUME Structure, NEW s \in Stream PROVE Held(s) \in Nat /\ InCollection(s) \in Nat
BY DEF Held, InCollection, Structure, TypeOK, IsKeyMap

(* Only the tracker of the set that was measured has another value. *)
LEMMA UpdateHeld ==
    ASSUME Structure, aggregator = "Increment", NEW k \in Key, NEW x \in Nat, Known(k),
           UpdateTracker(k, x), noAttributeValue' = noAttributeValue, NEW s \in Stream
    PROVE  Held(s)' = Held(s) + (IF s = k[1] THEN x ELSE 0)
<1>1. /\ Sorted(k) = <<k[1], 0>> /\ Sorted(k) \in DOMAIN trackers
      /\ Lookup(k) = trackers[Sorted(k)] /\ Lookup(k) \in Key
  BY LookupFacts DEF Sorted
<1>2. /\ trackers' = trackers
      /\ value' = [value EXCEPT ![Lookup(k)] = value[Lookup(k)] + x]
  BY DEF UpdateTracker, Updated
<1>3. value \in [Key -> Nat] /\ noAttributeValue \in Nat /\ IsKeyMap(trackers)
      /\ OneTracker(trackers)
  BY DEF Structure, TypeOK, OneTrackerPerSet
<1>4. k[1] # NoAttributes
  BY KeyFacts
<1>5. CASE s = NoAttributes
  BY <1>3, <1>4, <1>5 DEF Held
<1>6. CASE s # NoAttributes /\ <<s, 0>> \notin DOMAIN trackers
  BY <1>1, <1>2, <1>6 DEF Held
<1>7. CASE s # NoAttributes /\ <<s, 0>> \in DOMAIN trackers
  <2>1. trackers[<<s, 0>>] = Lookup(k) <=> s = k[1]
    BY <1>1, <1>3, <1>7, SameSetSameTracker
  <2>2. trackers[<<s, 0>>] \in Key
    BY <1>3, <1>7 DEF IsKeyMap
  <2>3. value'[trackers[<<s, 0>>]] = value[trackers[<<s, 0>>]] + (IF s = k[1] THEN x ELSE 0)
    BY <1>1, <1>2, <1>3, <2>1, <2>2
  <2> QED
    BY <1>2, <1>7, <2>3 DEF Held
<1> QED
  BY <1>5, <1>6, <1>7

LEMMA AddHeld ==
    ASSUME Structure, aggregator = "Increment", NEW k \in Key, NEW x \in Nat, ~Known(k),
           AddTracker(k, x), noAttributeValue' = noAttributeValue, NEW s \in Stream
    PROVE  Held(s)' = Held(s) + (IF s = k[1] THEN x ELSE 0)
<1>1. /\ trackers' = Insert(k) /\ value' = [value EXCEPT ![k] = x]
  BY DEF AddTracker, Updated
<1>2. value \in [Key -> Nat] /\ noAttributeValue \in Nat /\ IsKeyMap(trackers)
      /\ OneTracker(trackers)
  BY DEF Structure, TypeOK, OneTrackerPerSet
<1>3. /\ DOMAIN trackers' = DOMAIN trackers \cup {k, Sorted(k)}
      /\ \A j \in DOMAIN trackers : j[1] # k[1] /\ trackers'[j] = trackers[j]
      /\ trackers'[Sorted(k)] = k /\ Sorted(k) = <<k[1], 0>>
  BY <1>1, InsertFacts DEF Sorted
<1>4. k[1] # NoAttributes
  BY KeyFacts
<1>5. CASE s = NoAttributes
  BY <1>2, <1>4, <1>5 DEF Held
<1>6. CASE s = k[1]
  <2>1. <<s, 0>> \notin DOMAIN trackers
    BY <1>3, <1>6
  <2> QED
    BY <1>1, <1>2, <1>3, <1>4, <1>6, <2>1 DEF Held
<1>7. CASE s # NoAttributes /\ s # k[1] /\ <<s, 0>> \in DOMAIN trackers
  <2>1. trackers[<<s, 0>>] \in Key /\ trackers[<<s, 0>>][1] = s
    BY <1>2, <1>7 DEF IsKeyMap, OneTracker
  <2>2. trackers[<<s, 0>>] # k
    BY <1>7, <2>1
  <2>3. value'[trackers'[<<s, 0>>]] = value[trackers[<<s, 0>>]]
    BY <1>1, <1>2, <1>3, <1>7, <2>1, <2>2
  <2> QED
    BY <1>2, <1>3, <1>7, <2>1, <2>3 DEF Held
<1>8. CASE s # NoAttributes /\ s # k[1] /\ <<s, 0>> \notin DOMAIN trackers
  <2>1. <<s, 0>> # k
    BY <1>8
  <2> QED
    BY <1>3, <1>8, <2>1 DEF Held
<1> QED
  BY <1>5, <1>6, <1>7, <1>8

(* The history follows where the measurement went. *)
LEMMA RecordMeasured ==
    ASSUME TypeOK, NEW k \in Key, NEW x \in Nat, Record(k, x), NEW s \in Stream
    PROVE  /\ measured'[s] = measured[s] + (IF s = StreamOf(k) THEN x ELSE 0)
           /\ returned'[s] = IF s = StreamOf(k) THEN measured'[s] ELSE returned[s]
<1>1. StreamOf(k) \in Stream
  BY KeyFacts, OverflowFacts DEF StreamOf
<1>2. measured' = [measured EXCEPT ![StreamOf(k)] = @ + x]
      /\ returned' = [returned EXCEPT ![StreamOf(k)] = measured'[StreamOf(k)]]
  BY DEF Record
<1> QED
  BY <1>1, <1>2 DEF TypeOK

LEMMA UpdateOrInsertHeld ==
    ASSUME Structure, aggregator = "Increment", NEW k \in GivenKey, NEW x \in Nat,
           UpdateOrInsert(k, x), noAttributeValue' = noAttributeValue, NEW s \in Stream
    PROVE  Held(s)' = Held(s) + (IF s = StreamOf(k) THEN x ELSE 0)
<1> USE OverflowFacts
<1>1. CASE Known(k)
  BY <1>1, UpdateHeld DEF UpdateOrInsert, StreamOf
<1>2. CASE ~Known(k) /\ UnderLimit
  BY <1>2, AddHeld DEF UpdateOrInsert, StreamOf
<1>3. CASE ~Known(k) /\ ~UnderLimit
  <2>1. StreamOf(k) = Overflow
    BY <1>3 DEF StreamOf
  <2>2. CASE Known(OverflowKey)
    BY <1>3, <2>1, <2>2, UpdateHeld DEF UpdateOrInsert
  <2>3. CASE ~Known(OverflowKey)
    BY <1>3, <2>1, <2>3, AddHeld DEF UpdateOrInsert
  <2> QED
    BY <2>2, <2>3
<1> QED
  BY <1>1, <1>2, <1>3

AccountedFor(s) == measured[s] = Held(s) + InCollection(s) + total[s]

LEMMA AccountedStep ==
    ASSUME Structure, Accounted, [Next]_vars PROVE Accounted'
<1> USE ValuesType, OverflowFacts
<1> SUFFICES ASSUME aggregator = "Increment", aggregator' = aggregator,
                    temporality' = temporality, NEW s \in Stream
             PROVE  AccountedFor(s)'
  <2>1. UNCHANGED streamVars
    BY DEF Next, vars
  <2> QED
    BY <2>1 DEF Accounted, AccountedFor, streamVars, Stream
<1>0. /\ measured[s] = Held(s) + InCollection(s) + total[s] /\ Held(s) \in Nat
      /\ InCollection(s) \in Nat /\ total[s] \in Nat /\ measured[s] \in Nat
  BY HeldType DEF Accounted, Structure, TypeOK
<1>a. ASSUME UNCHANGED <<taken, takenValue, cSeen>> PROVE InCollection(s)' = InCollection(s)
  BY <1>a DEF InCollection
<1>b. ASSUME UNCHANGED <<trackers, value, noAttributeValue>> PROVE Held(s)' = Held(s)
  BY <1>b DEF Held
<1>1. ASSUME NEW m \in Measurers, NEW x \in Values, MeasureNoAttributes(m, x)
      PROVE AccountedFor(s)'
  <2>1. InCollection(s)' = InCollection(s) /\ total' = total
    BY <1>1, <1>a DEF MeasureNoAttributes, mapVars, collectorVars, pointVars
  <2>2. CASE s = NoAttributes
    <3>1. Held(s)' = Held(s) + x /\ measured'[s] = measured[s] + x
      BY <1>1, <2>2 DEF MeasureNoAttributes, Held, Updated, Structure, TypeOK
    <3> QED
      BY <1>0, <2>1, <3>1 DEF AccountedFor
  <2>3. CASE s # NoAttributes
    <3>1. Held(s)' = Held(s) /\ measured'[s] = measured[s]
      BY <1>1, <2>3 DEF MeasureNoAttributes, Held, mapVars, Structure, TypeOK
    <3> QED
      BY <1>0, <2>1, <3>1 DEF AccountedFor
  <2> QED
    BY <2>2, <2>3
<1>2. ASSUME NEW m \in Measurers, NEW x \in Values, NEW k \in GivenKey, MeasureFound(m, k, x)
      PROVE AccountedFor(s)'
  <2>1. InCollection(s)' = InCollection(s) /\ total' = total
    BY <1>2, <1>a DEF MeasureFound, collectorVars, pointVars
  <2>2. Held(s)' = Held(s) + (IF s = k[1] THEN x ELSE 0)
    BY <1>2, UpdateHeld DEF MeasureFound, noAttributeVars
  <2>3. measured'[s] = measured[s] + (IF s = k[1] THEN x ELSE 0)
    BY <1>2, RecordMeasured DEF MeasureFound, StreamOf, Structure
  <2>4. x \in Nat
    OBVIOUS
  <2>5. CASE s = k[1]
    BY <1>0, <2>1, <2>2, <2>3, <2>4, <2>5 DEF AccountedFor
  <2>6. CASE s # k[1]
    BY <1>0, <2>1, <2>2, <2>3, <2>6 DEF AccountedFor
  <2> QED
    BY <2>5, <2>6
<1>3. ASSUME NEW m \in Measurers, NEW x \in Values, NEW k \in GivenKey, MeasureMissed(m, k, x)
      PROVE AccountedFor(s)'
  BY <1>0, <1>3, <1>a, <1>b DEF MeasureMissed, mapVars, noAttributeVars, collectorVars, pointVars,
     historyVars, AccountedFor
<1>4. ASSUME NEW m \in Measurers, StoreFlag(m) PROVE AccountedFor(s)'
  BY <1>0, <1>4, <1>a, <1>b DEF StoreFlag, mapVars, collectorVars, pointVars, AccountedFor
<1>5. ASSUME NEW m \in Measurers, MeasureUnderWriteLock(m) PROVE AccountedFor(s)'
  <2>1. /\ mKey[m] \in GivenKey /\ mValue[m] \in Nat /\ UpdateOrInsert(mKey[m], mValue[m])
        /\ noAttributeValue' = noAttributeValue
    BY <1>5 DEF MeasureUnderWriteLock, noAttributeVars, Structure, TypeOK, Phases
  <2>2. Held(s)' = Held(s) + (IF s = StreamOf(mKey[m]) THEN mValue[m] ELSE 0)
    BY <2>1, UpdateOrInsertHeld
  <2>3. measured'[s] = measured[s] + (IF s = StreamOf(mKey[m]) THEN mValue[m] ELSE 0)
    BY <2>1, UpdateOrInsertType, RecordMeasured DEF Structure
  <2>4. InCollection(s)' = InCollection(s) /\ total' = total
    BY <1>5, <1>a DEF MeasureUnderWriteLock, collectorVars, pointVars
  <2> QED
    BY <1>0, <2>1, <2>2, <2>3, <2>4 DEF AccountedFor
<1>6. CASE BeginCollect
  BY <1>0, <1>6, <1>a, <1>b DEF BeginCollect, mapVars, AccountedFor
<1>7. CASE CollectNoAttributes
  <2>1. InCollection(s)' = InCollection(s) /\ measured' = measured
    BY <1>7, <1>a DEF CollectNoAttributes, mapVars, historyVars
  <2>2. noAttributeValue \in Nat /\ total \in [Stream -> Nat]
    BY DEF Structure, TypeOK
  <2>3. Push(NoAttributes, noAttributeValue)
    BY <1>7 DEF CollectNoAttributes
  <2>4. CASE temporality = "Delta" /\ s = NoAttributes
    <3>1. Held(s)' = 0 /\ Held(s) = noAttributeValue
      BY <1>7, <2>4 DEF CollectNoAttributes, Held
    <3>2. total'[s] = total[s] + noAttributeValue
      BY <2>2, <2>3, <2>4 DEF Push
    <3> QED
      BY <1>0, <2>1, <2>2, <3>1, <3>2 DEF AccountedFor
  <2>5. CASE temporality # "Delta" \/ s # NoAttributes
    <3>1. Held(s)' = Held(s) /\ total'[s] = total[s]
      BY <1>7, <2>2, <2>3, <2>5 DEF CollectNoAttributes, Push, Held, mapVars
    <3> QED
      BY <1>0, <2>1, <3>1 DEF AccountedFor
  <2> QED
    BY <2>4, <2>5
<1>8. CASE SwapTrackers
  <2>1. taken = EmptyMap /\ cSeen = {} /\ cSeen' = {}
    BY <1>8 DEF SwapTrackers, Structure, Phases
  <2>2. InCollection(s) = 0
    BY <2>1 DEF InCollection, EmptyMap
  <2>3. UNCHANGED <<total, measured, noAttributeValue>>
    BY <1>8 DEF SwapTrackers, noAttributeVars, pointVars, historyVars
  <2>4. CASE s = NoAttributes
    <3>1. \A map : IsKeyMap(map) => <<s, 0>> \notin DOMAIN map
      BY <2>4, NoKeyWithoutAttributes DEF IsKeyMap
    <3>2. InCollection(s)' = 0
      BY <1>8, <3>1 DEF SwapTrackers, InCollection, Structure, TypeOK
    <3>3. Held(s)' = Held(s)
      BY <2>3, <2>4 DEF Held
    <3> QED
      BY <1>0, <2>2, <2>3, <3>2, <3>3 DEF AccountedFor
  <2>5. CASE s # NoAttributes
    <3>1. Held(s)' = 0
      BY <1>8, <2>5 DEF SwapTrackers, Held, EmptyMap
    <3>2. InCollection(s)' = Held(s)
      BY <1>8, <2>1, <2>5 DEF SwapTrackers, Held, InCollection
    <3> QED
      BY <1>0, <2>2, <2>3, <3>1, <3>2 DEF AccountedFor
  <2> QED
    BY <2>4, <2>5
<1>9. CASE LockTrackers
  BY <1>0, <1>9, <1>a, <1>b DEF LockTrackers, mapVars, noAttributeVars, collectorVars, pointVars,
     historyVars, AccountedFor
<1>10. ASSUME NEW t \in Key, VisitTracker(t) PROVE AccountedFor(s)'
  <2>1. Held(s)' = Held(s) /\ measured' = measured
    BY <1>10, <1>b DEF VisitTracker, mapVars, noAttributeVars, historyVars
  <2>2. UNCHANGED <<taken, takenValue>> /\ cSeen' = cSeen \cup {t}
    BY <1>10 DEF VisitTracker, mapVars
  <2>3. CASE temporality = "Cumulative"
    <3>1. InCollection(s) = 0 /\ InCollection(s)' = 0
      BY <2>2, <2>3 DEF InCollection, EmptyMap, Structure, Phases
    <3>2. total' = total
      BY <1>10, <2>3 DEF VisitTracker, Push
    <3> QED
      BY <1>0, <2>1, <3>1, <3>2 DEF AccountedFor
  <2>4. CASE temporality = "Delta"
    <3>0. IsKeyMap(taken) /\ OneTracker(taken) /\ takenValue \in [Key -> Nat]
      BY DEF Structure, TypeOK, OneTrackerPerSet
    <3>1. PICK k \in DOMAIN taken : t = taken[k] /\ t \notin cSeen
      BY <1>10, <2>4 DEF VisitTracker, Visited, Trackers
    <3>2. /\ k \in Key /\ t[1] = k[1] /\ Sorted(k) \in DOMAIN taken /\ taken[Sorted(k)] = t
          /\ Sorted(k) = <<t[1], 0>>
      BY <3>0, <3>1 DEF OneTracker, IsKeyMap, Sorted
    <3>3. total' = [total EXCEPT ![t[1]] = @ + takenValue[t]]
      BY <1>10, <2>4 DEF VisitTracker, Push, VisitedValue
    <3>4. CASE s = t[1]
      <4>1. InCollection(s) = takenValue[t]
        BY <3>1, <3>2, <3>4 DEF InCollection
      <4>2. InCollection(s)' = 0
        BY <2>2, <3>2, <3>4 DEF InCollection
      <4>3. total'[s] = total[s] + takenValue[t]
        BY <3>3, <3>4 DEF Structure, TypeOK
      <4> QED
        BY <1>0, <2>1, <3>0, <4>1, <4>2, <4>3 DEF AccountedFor
    <3>5. CASE s # t[1]
      <4>1. total'[s] = total[s]
        BY <3>3, <3>5 DEF Structure, TypeOK
      <4>2. <<s, 0>> \in DOMAIN taken => taken[<<s, 0>>] # t
        BY <3>0, <3>5 DEF OneTracker
      <4>3. InCollection(s)' = InCollection(s)
        BY <2>2, <4>2 DEF InCollection
      <4> QED
        BY <1>0, <2>1, <4>1, <4>3 DEF AccountedFor
    <3> QED
      BY <3>4, <3>5
  <2> QED
    BY <2>3, <2>4 DEF Structure, TypeOK
<1>11. CASE FinishCollect
  <2>1. UNCHANGED <<total, measured>> /\ Held(s)' = Held(s)
    BY <1>11, <1>b DEF FinishCollect, noAttributeVars, pointVars, historyVars
  <2>2. InCollection(s)' = 0
    BY <1>11 DEF FinishCollect, InCollection, EmptyMap
  <2>3. InCollection(s) = 0
    <3>1. CASE temporality = "Delta"
      BY <1>11, <3>1 DEF FinishCollect, InCollection, Visited, Trackers
    <3>2. CASE temporality = "Cumulative"
      BY <3>2 DEF InCollection, EmptyMap, Structure, Phases
    <3> QED
      BY <3>1, <3>2 DEF Structure, TypeOK
  <2> QED
    BY <1>0, <2>1, <2>2, <2>3 DEF AccountedFor
<1>12. CASE UNCHANGED vars
  BY <1>0, <1>12, <1>a, <1>b DEF vars, mapVars, noAttributeVars, collectorVars, pointVars,
     historyVars, AccountedFor
<1> QED
  BY <1>1, <1>2, <1>3, <1>4, <1>5, <1>6, <1>7, <1>8, <1>9, <1>10, <1>11, <1>12
     DEF Next, Measure, Collect, Finished

-----------------------------------------------------------------------------
(* The cardinality limit *)

CapInv == IsFiniteSet(OwnSets) /\ CardinalityCapped

LEMMA CapUnchanged == CapInv /\ UNCHANGED <<trackers, count>> => CapInv'
BY DEF CapInv, CardinalityCapped, OwnSets

LEMMA CapInit == Init => CapInv
<1> SUFFICES ASSUME Init PROVE CapInv
  OBVIOUS
<1>1. OwnSets = {} /\ OverflowKey \notin DOMAIN trackers /\ count = 0
  BY DEF Init, EmptyMap, OwnSets
<1> QED
  BY <1>1, FS_EmptySet, ValueMapAssumption DEF CapInv, CardinalityCapped, ValueMapAssumption

(* A new set takes one place. *)
LEMMA CapAddSet ==
    ASSUME Structure, CapInv, NEW k \in GivenKey, NEW x \in Nat, ~Known(k), UnderLimit,
           AddTracker(k, x), count' = count + 1
    PROVE  CapInv'
<1>1. /\ DOMAIN trackers' = DOMAIN trackers \cup {k, Sorted(k)}
      /\ \A j \in DOMAIN trackers : j[1] # k[1]
  BY InsertFacts, OverflowFacts DEF AddTracker
<1>2. /\ k[1] # Overflow /\ Sorted(k)[1] = k[1] /\ k # OverflowKey /\ Sorted(k) # OverflowKey
      /\ OverflowKey[1] = Overflow
  BY KeyFacts, OverflowFacts
<1>3. OwnSets' = OwnSets \cup {k[1]} /\ k[1] \notin OwnSets
  BY <1>1, <1>2 DEF OwnSets
<1>4. IsFiniteSet(OwnSets') /\ Cardinality(OwnSets') = Cardinality(OwnSets) + 1
  BY <1>3, FS_AddElement DEF CapInv
<1>5. count \in Nat /\ count < CardinalityLimit /\ CardinalityLimit \in Nat
  BY ValueMapAssumption DEF Structure, TypeOK, UnderLimit, ValueMapAssumption
<1>6. OverflowKey \notin DOMAIN trackers'
  BY <1>1, <1>2, <1>5 DEF CapInv, CardinalityCapped
<1> QED
  BY <1>4, <1>5, <1>6 DEF CapInv, CardinalityCapped

(* The overflow tracker takes none, and there is none before the limit. *)
LEMMA CapAddOverflow ==
    ASSUME Structure, CapInv, NEW x \in Nat, ~Known(OverflowKey), ~UnderLimit,
           AddTracker(OverflowKey, x), count' = count
    PROVE  CapInv'
<1>1. DOMAIN trackers' = DOMAIN trackers \cup {OverflowKey}
  <2>1. trackers' = Insert(OverflowKey)
    BY DEF AddTracker
  <2>2. DOMAIN Insert(OverflowKey) = DOMAIN trackers \cup {OverflowKey, Sorted(OverflowKey)}
    BY InsertFacts, OverflowFacts
  <2> QED
    BY <2>1, <2>2, OverflowFacts
<1>2. OwnSets' = OwnSets
  BY <1>1, OverflowFacts DEF OwnSets
<1>3. count = CardinalityLimit
  BY ValueMapAssumption
     DEF CapInv, CardinalityCapped, Structure, TypeOK, UnderLimit, ValueMapAssumption
<1> QED
  BY <1>2, <1>3 DEF CapInv, CardinalityCapped

LEMMA CapStep ==
    ASSUME Structure, CapInv, [Next]_vars PROVE CapInv'
<1> USE ValuesType
<1>1. ASSUME NEW m \in Measurers, Measure(m) PROVE CapInv'
  <2>1. CASE MeasureUnderWriteLock(m)
    <3>1. /\ mKey[m] \in GivenKey /\ mValue[m] \in Nat
          /\ UpdateOrInsert(mKey[m], mValue[m])
      BY <2>1 DEF MeasureUnderWriteLock, Structure, TypeOK, Phases
    <3> QED
      BY <3>1, CapAddSet, CapAddOverflow, CapUnchanged DEF UpdateOrInsert, UpdateTracker
  <2>2. CASE ~MeasureUnderWriteLock(m)
    <3>1. UNCHANGED <<trackers, count>>
      BY <1>1, <2>2 DEF Measure, MeasureNoAttributes, MeasureFound, MeasureMissed, StoreFlag,
         UpdateTracker, mapVars
    <3> QED
      BY <3>1, CapUnchanged
  <2> QED
    BY <2>1, <2>2
<1>2. CASE SwapTrackers
  <2>1. OwnSets' = {} /\ OverflowKey \notin DOMAIN trackers' /\ count' = 0
    BY <1>2 DEF SwapTrackers, EmptyMap, OwnSets
  <2> QED
    BY <2>1, FS_EmptySet, ValueMapAssumption DEF CapInv, CardinalityCapped, ValueMapAssumption
<1>3. CASE Collect /\ ~SwapTrackers
  <2>1. UNCHANGED <<trackers, count>>
    BY <1>3 DEF Collect, BeginCollect, CollectNoAttributes, LockTrackers, VisitTracker,
       FinishCollect, mapVars
  <2> QED
    BY <2>1, CapUnchanged
<1>4. CASE UNCHANGED vars
  BY <1>4, CapUnchanged DEF vars, mapVars
<1> QED
  BY <1>1, <1>2, <1>3, <1>4 DEF Next, Finished

-----------------------------------------------------------------------------
(* What has returned has been measured. *)

Bounded ==
    /\ \A s \in Stream : due[s] <= returned[s] /\ returned[s] <= measured[s]
    /\ \A m \in Measurers : mMark[m] <= measured[NoAttributes]

(* What a measurement leaves alone, and in which direction the rest goes. *)
LEMMA MeasureFrame ==
    ASSUME Structure, NEW m \in Measurers, Measure(m)
    PROVE  /\ UNCHANGED <<taken, takenValue, collectorVars, pointVars, due>>
           /\ DOMAIN trackers \subseteq DOMAIN trackers'
           /\ ReadLocked => trackers' = trackers
           /\ hasNoAttributeValue => hasNoAttributeValue'
           /\ hasNoAttributeValue' \/ returned'[NoAttributes] = returned[NoAttributes]
<1> USE ValuesType, OverflowFacts
<1>1. ASSUME NEW k \in Key, NEW x \in Nat, Record(k, x)
      PROVE returned'[NoAttributes] = returned[NoAttributes]
  <2>1. StreamOf(k) # NoAttributes
    BY KeyFacts, ValueMapAssumption DEF StreamOf, ValueMapAssumption
  <2> QED
    BY <1>1, <2>1, RecordMeasured DEF Structure
<1>2. ASSUME NEW x \in Values, MeasureNoAttributes(m, x)
      PROVE UNCHANGED <<trackers, hasNoAttributeValue, returned, taken, takenValue, collectorVars,
                        pointVars, due>>
  BY <1>2 DEF MeasureNoAttributes, mapVars
<1>3. ASSUME NEW x \in Values, NEW k \in GivenKey, MeasureFound(m, k, x)
      PROVE /\ UNCHANGED <<trackers, hasNoAttributeValue, taken, takenValue, collectorVars,
                           pointVars, due>>
            /\ returned'[NoAttributes] = returned[NoAttributes]
  BY <1>1, <1>3 DEF MeasureFound, UpdateTracker, noAttributeVars
<1>4. ASSUME NEW x \in Values, NEW k \in GivenKey, MeasureMissed(m, k, x)
      PROVE UNCHANGED <<trackers, hasNoAttributeValue, returned, taken, takenValue, collectorVars,
                        pointVars, due>>
  BY <1>4 DEF MeasureMissed, mapVars, noAttributeVars, historyVars
<1>5. CASE StoreFlag(m)
  BY <1>5 DEF StoreFlag, mapVars
<1>6. CASE MeasureUnderWriteLock(m)
  <2>1. mKey[m] \in Key /\ mValue[m] \in Nat /\ UpdateOrInsert(mKey[m], mValue[m])
    BY <1>6 DEF MeasureUnderWriteLock, Structure, TypeOK
  <2>2. returned'[NoAttributes] = returned[NoAttributes]
    BY <1>1, <2>1, UpdateOrInsertType
  <2>3. DOMAIN trackers \subseteq DOMAIN trackers'
    BY <2>1 DEF UpdateOrInsert, UpdateTracker, AddTracker, Insert
  <2> QED
    BY <1>6, <2>2, <2>3 DEF MeasureUnderWriteLock, noAttributeVars
<1> QED
  BY <1>2, <1>3, <1>4, <1>5, <1>6 DEF Measure

LEMMA BoundedStep ==
    ASSUME Structure, Structure', Bounded, [Next]_vars
    PROVE  Bounded' /\ \A s \in Stream : measured[s] <= measured'[s]
<1> USE ValuesType, OverflowFacts
<1>1. /\ measured \in [Stream -> Nat] /\ returned \in [Stream -> Nat] /\ due \in [Stream -> Nat]
      /\ mMark \in [Measurers -> Nat]
  BY DEF Structure, TypeOK
<1>2. ASSUME UNCHANGED <<measured, returned, due, mMark>>
      PROVE Bounded' /\ \A s \in Stream : measured[s] <= measured'[s]
  BY <1>1, <1>2 DEF Bounded
<1>3. ASSUME NEW m \in Measurers, NEW x \in Values, MeasureNoAttributes(m, x)
      PROVE Bounded' /\ \A s \in Stream : measured[s] <= measured'[s]
  BY <1>1, <1>3 DEF MeasureNoAttributes, Bounded
<1>4. ASSUME NEW k \in Key, NEW x \in Nat, Record(k, x), UNCHANGED <<mMark, due>>
      PROVE Bounded' /\ \A s \in Stream : measured[s] <= measured'[s]
  <2>1. ASSUME NEW s \in Stream
        PROVE  /\ measured[s] <= measured'[s] /\ measured'[s] \in Nat
               /\ due'[s] <= returned'[s] /\ returned'[s] <= measured'[s]
    <3>1. /\ measured'[s] = measured[s] + (IF s = StreamOf(k) THEN x ELSE 0)
          /\ returned'[s] = IF s = StreamOf(k) THEN measured'[s] ELSE returned[s]
      BY <1>4, RecordMeasured DEF Structure
    <3>2. due[s] <= returned[s] /\ returned[s] <= measured[s]
      BY DEF Bounded
    <3>3. CASE s = StreamOf(k)
      BY <1>1, <1>4, <3>1, <3>2, <3>3
    <3>4. CASE s # StreamOf(k)
      BY <1>1, <1>4, <3>1, <3>2, <3>4
    <3> QED
      BY <3>3, <3>4
  <2>2. ASSUME NEW m \in Measurers PROVE mMark'[m] <= measured'[NoAttributes]
    BY <1>1, <1>4, <2>1 DEF Bounded
  <2> QED
    BY <2>1, <2>2 DEF Bounded, Stream
<1>5. ASSUME NEW m \in Measurers, StoreFlag(m)
      PROVE Bounded' /\ \A s \in Stream : measured[s] <= measured'[s]
  BY <1>1, <1>5 DEF StoreFlag, Bounded
<1>6. ASSUME NEW m \in Measurers, Measure(m)
      PROVE Bounded' /\ \A s \in Stream : measured[s] <= measured'[s]
  <2>1. ASSUME NEW x \in Values, NEW k \in GivenKey, MeasureFound(m, k, x)
        PROVE Bounded' /\ \A s \in Stream : measured[s] <= measured'[s]
    BY <1>4, <2>1 DEF MeasureFound
  <2>2. CASE MeasureUnderWriteLock(m)
    <3>1. mKey[m] \in Key /\ mValue[m] \in Nat /\ UpdateOrInsert(mKey[m], mValue[m])
      BY <2>2 DEF MeasureUnderWriteLock, Structure, TypeOK
    <3> QED
      BY <1>4, <2>2, <3>1, UpdateOrInsertType DEF MeasureUnderWriteLock
  <2>3. ASSUME NEW x \in Values, NEW k \in GivenKey, MeasureMissed(m, k, x)
        PROVE Bounded' /\ \A s \in Stream : measured[s] <= measured'[s]
    BY <1>2, <2>3 DEF MeasureMissed, historyVars
  <2> QED
    BY <1>3, <1>5, <1>6, <2>1, <2>2, <2>3 DEF Measure
<1>7. CASE BeginCollect
  BY <1>1, <1>7 DEF BeginCollect, measurerVars, Bounded
<1>8. CASE Collect /\ ~BeginCollect
  BY <1>2, <1>8 DEF Collect, CollectNoAttributes, SwapTrackers, LockTrackers, VisitTracker,
     FinishCollect, measurerVars, historyVars
<1>9. CASE UNCHANGED vars
  BY <1>2, <1>9 DEF vars, measurerVars, historyVars
<1> QED
  BY <1>6, <1>7, <1>8, <1>9 DEF Next, Finished

-----------------------------------------------------------------------------
(* Collections of a sum are complete.                                      *)

Counting == aggregator = "Increment"

(* Delta: what was due is in the total or in the map that was taken; with   *)
(* the flag down everything returned without attributes is in the total.    *)
DeltaCovered ==
    Counting /\ temporality = "Delta" =>
        /\ \A s \in Stream :
              /\ cPc = "idle" => due[s] <= total[s]
              /\ cPc = "visit" => due[s] <= InCollection(s) + total[s]
        /\ cPc = "trackers" => due[NoAttributes] <= total[NoAttributes]
        /\ ~hasNoAttributeValue /\ cPc # "noAttributes" =>
              returned[NoAttributes] <= total[NoAttributes]

(* Cumulative: whether a stream exists and this collection has read it.     *)
Exists(s) ==
    IF s = NoAttributes THEN hasNoAttributeValue ELSE <<s, 0>> \in DOMAIN trackers
Read(s) ==
    IF s = NoAttributes THEN cPc \in {"trackers", "visit"}
    ELSE cPc = "visit" /\ <<s, 0>> \in DOMAIN trackers /\ trackers[<<s, 0>>] \in cSeen
Covered(s) ==
    /\ point[s] = NoPoint => due[s] = 0 /\ previous[s] = NoPoint
    /\ point[s] # NoPoint => due[s] <= point[s]
    /\ point[s] # NoPoint /\ previous[s] # NoPoint => previous[s] <= point[s]
CumulativeCovered ==
    Counting /\ temporality = "Cumulative" =>
        /\ \A s \in Stream :
              /\ cPc = "idle" \/ Read(s) => Covered(s)
              /\ point[s] # NoPoint => Exists(s) /\ point[s] <= measured[s]
              /\ previous[s] # NoPoint => Exists(s) /\ previous[s] <= measured[s]
        /\ ~hasNoAttributeValue => returned[NoAttributes] = 0
        /\ cPc = "noAttributes" => hasNoAttributeValue

LEMMA NoAttributesNotTaken == Structure => InCollection(NoAttributes) = 0
BY NoKeyWithoutAttributes DEF Structure, TypeOK, IsKeyMap, InCollection

(* A collecting step moves points, it does not lose any.                    *)
LEMMA DeltaStep ==
    ASSUME Structure, Structure', Accounted, Accounted', Bounded, DeltaCovered, [Next]_vars
    PROVE  DeltaCovered'
<1> SUFFICES ASSUME aggregator = "Increment", temporality = "Delta", UNCHANGED streamVars
             PROVE  DeltaCovered'
  BY DEF DeltaCovered, Counting, Next, vars, streamVars
<1>0. /\ aggregator' = "Increment" /\ temporality' = "Delta"
  BY DEF streamVars
<1>1. ASSUME NEW s \in Stream
      PROVE  /\ measured[s] = Held(s) + InCollection(s) + total[s]
             /\ measured'[s] = Held(s)' + InCollection(s)' + total'[s]
             /\ Held(s) \in Nat /\ InCollection(s) \in Nat /\ total[s] \in Nat
             /\ Held(s)' \in Nat /\ InCollection(s)' \in Nat /\ total'[s] \in Nat
             /\ due[s] \in Nat /\ returned[s] \in Nat /\ measured[s] \in Nat
             /\ due[s] <= returned[s] /\ returned[s] <= measured[s]
  <2>1. Held(s)' \in Nat /\ InCollection(s)' \in Nat
    BY DEF Held, InCollection, Structure, TypeOK, IsKeyMap, Stream
  <2> QED
    BY <1>0, <2>1, HeldType DEF Accounted, Bounded, Structure, TypeOK, Stream
<1>2. NoAttributes \in Stream /\ InCollection(NoAttributes) = 0 /\ InCollection(NoAttributes)' = 0
  <2>1. InCollection(NoAttributes)' = 0
    BY NoKeyWithoutAttributes DEF Structure, TypeOK, IsKeyMap, InCollection, Key, GivenKey
  <2> QED
    BY <2>1, OverflowFacts, NoAttributesNotTaken
<1>3. ASSUME NEW m \in Measurers, Measure(m) PROVE DeltaCovered'
  <2>1. /\ UNCHANGED <<taken, takenValue, cSeen, cPc, total, due>>
        /\ hasNoAttributeValue => hasNoAttributeValue'
        /\ hasNoAttributeValue' \/ returned'[NoAttributes] = returned[NoAttributes]
    BY <1>3, MeasureFrame DEF collectorVars, pointVars
  <2>2. \A s : InCollection(s)' = InCollection(s)
    BY <2>1 DEF InCollection
  <2> QED
    BY <2>1, <2>2 DEF DeltaCovered, Counting, Stream
<1>4. CASE BeginCollect
  <2>1. /\ due' = returned /\ returned' = returned /\ total' = total /\ cPc = "idle"
        /\ cPc' = IF hasNoAttributeValue THEN "noAttributes" ELSE "trackers"
    BY <1>4 DEF BeginCollect
  <2>2. ~hasNoAttributeValue => returned[NoAttributes] <= total[NoAttributes]
    BY <2>1 DEF DeltaCovered, Counting
  <2> QED
    BY <2>1, <2>2 DEF DeltaCovered
<1>5. CASE CollectNoAttributes
  <2>1. /\ cPc' = "trackers" /\ UNCHANGED <<measured, returned, due>> /\ noAttributeValue' = 0
    BY <1>5 DEF CollectNoAttributes, historyVars
  <2>2. Held(NoAttributes)' = 0
    BY <2>1 DEF Held
  <2>3. total'[NoAttributes] = measured[NoAttributes]
    BY <1>1, <1>2, <2>1, <2>2
  <2>4. due[NoAttributes] <= total'[NoAttributes] /\ returned[NoAttributes] <= total'[NoAttributes]
    BY <1>1, <1>2, <2>3
  <2> QED
    BY <2>1, <2>4 DEF DeltaCovered
<1>6. CASE SwapTrackers
  <2>1. /\ cPc = "trackers" /\ cPc' = "visit"
        /\ UNCHANGED <<measured, returned, due, total, hasNoAttributeValue, noAttributeValue>>
        /\ trackers' = EmptyMap
    BY <1>6 DEF SwapTrackers, noAttributeVars, pointVars, historyVars
  <2>2. ASSUME NEW s \in Stream PROVE due[s] <= InCollection(s)' + total'[s]
    <3>1. CASE s = NoAttributes
      BY <1>1, <1>2, <2>1, <3>1, <1>0 DEF DeltaCovered, Counting
    <3>2. CASE s # NoAttributes
      <4>1. Held(s)' = 0
        BY <2>1, <3>2 DEF Held, EmptyMap
      <4> QED
        BY <1>1, <2>1, <4>1
    <3> QED
      BY <3>1, <3>2
  <2> QED
    BY <2>1, <2>2 DEF DeltaCovered, Counting, Stream
<1>7. CASE LockTrackers
  BY <1>7 DEF LockTrackers
<1>8. ASSUME NEW t \in Key, VisitTracker(t) PROVE DeltaCovered'
  <2>1. /\ cPc = "visit" /\ cPc' = "visit"
        /\ UNCHANGED <<measured, returned, due, hasNoAttributeValue, noAttributeValue, trackers,
                       value>>
    BY <1>8 DEF VisitTracker, noAttributeVars, mapVars, historyVars
  <2>2. ASSUME NEW s \in Stream
        PROVE InCollection(s)' + total'[s] = InCollection(s) + total[s]
    <3>1. Held(s)' = Held(s)
      BY <2>1 DEF Held
    <3> QED
      BY <1>1, <2>1, <3>1
  <2>3. total'[NoAttributes] = total[NoAttributes]
    BY <1>1, <1>2, <2>2
  <2> QED
    BY <2>1, <2>2, <2>3 DEF DeltaCovered, Counting, Stream
<1>9. CASE FinishCollect
  <2>1. /\ cPc = "visit" /\ cPc' = "idle" /\ taken' = EmptyMap
        /\ UNCHANGED <<measured, returned, due, hasNoAttributeValue, noAttributeValue, trackers,
                       value, total>>
    BY <1>9 DEF FinishCollect, noAttributeVars, pointVars, historyVars
  <2>2. ASSUME NEW s \in Stream PROVE due[s] <= total[s]
    <3>1. Held(s)' = Held(s) /\ InCollection(s)' = 0
      BY <2>1 DEF Held, InCollection, EmptyMap
    <3>2. InCollection(s) = 0
      BY <1>1, <2>1, <3>1
    <3>3. due[s] <= InCollection(s) + total[s]
      BY <2>1 DEF DeltaCovered, Counting
    <3> QED
      BY <1>1, <3>2, <3>3
  <2> QED
    BY <2>1, <2>2 DEF DeltaCovered, Counting, Stream
<1>10. CASE UNCHANGED vars
  <2>1. \A s : InCollection(s)' = InCollection(s)
    BY <1>10 DEF InCollection, vars, mapVars, collectorVars
  <2> QED
    BY <1>10, <2>1 DEF DeltaCovered, Counting, Stream, vars, streamVars, noAttributeVars,
       collectorVars, pointVars, historyVars
<1> QED
  BY <1>3, <1>4, <1>5, <1>6, <1>7, <1>8, <1>9, <1>10 DEF Next, Collect, Finished

(* Cumulative: what exists stays, and grows.                                *)
LEMMA CumulativeStep ==
    ASSUME Structure, Structure', Accounted, Bounded, Bounded', CumulativeCovered,
           \A s \in Stream : measured[s] <= measured'[s], [Next]_vars
    PROVE  CumulativeCovered'
<1> SUFFICES ASSUME aggregator = "Increment", temporality = "Cumulative", UNCHANGED streamVars
             PROVE  CumulativeCovered'
  BY DEF CumulativeCovered, Counting, Next, vars, streamVars
<1>0. /\ aggregator' = "Increment" /\ temporality' = "Cumulative"
  BY DEF streamVars
<1>1. ASSUME NEW s \in Stream
      PROVE  /\ measured[s] = Held(s) /\ measured[s] \in Nat /\ measured'[s] \in Nat
             /\ point[s] \in Nat \cup {NoPoint} /\ previous[s] \in Nat \cup {NoPoint}
             /\ due[s] \in Nat /\ returned[s] \in Nat
             /\ due[s] <= returned[s] /\ returned[s] <= measured[s]
             /\ measured[s] <= measured'[s]
  <2>1. InCollection(s) = 0 /\ total[s] = 0
    BY DEF InCollection, EmptyMap, Structure, Phases
  <2> QED
    BY <2>1, HeldType DEF Accounted, Bounded, Structure, TypeOK, Stream
<1>2. /\ \A s \in Stream :
            /\ cPc = "idle" \/ Read(s) => Covered(s)
            /\ point[s] # NoPoint => Exists(s) /\ point[s] <= measured[s]
            /\ previous[s] # NoPoint => Exists(s) /\ previous[s] <= measured[s]
      /\ ~hasNoAttributeValue => returned[NoAttributes] = 0
      /\ cPc = "noAttributes" => hasNoAttributeValue
  BY DEF CumulativeCovered, Counting
<1>3. NoAttributes \in Stream /\ NoPoint \notin Nat
  BY OverflowFacts, ValueMapAssumption DEF ValueMapAssumption
(* A step that leaves the points alone and takes nothing away. *)
<1>4. ASSUME UNCHANGED <<point, previous, due>>,
             \A s \in Stream : Exists(s) => Exists(s)',
             \A s \in Stream : cPc' = "idle" \/ Read(s)' => Covered(s),
             ~hasNoAttributeValue' => returned'[NoAttributes] = 0,
             cPc' = "noAttributes" => hasNoAttributeValue'
      PROVE  CumulativeCovered'
  <2>1. \A s : Covered(s)' <=> Covered(s)
    BY <1>4 DEF Covered
  <2>2. ASSUME NEW s \in Stream
        PROVE  /\ point'[s] # NoPoint => Exists(s)' /\ point'[s] <= measured'[s]
               /\ previous'[s] # NoPoint => Exists(s)' /\ previous'[s] <= measured'[s]
    BY <1>1, <1>2, <1>4
  <2> QED
    BY <1>4, <2>1, <2>2 DEF CumulativeCovered, Stream
<1>5. ASSUME NEW m \in Measurers, Measure(m) PROVE CumulativeCovered'
  <2>1. /\ UNCHANGED <<point, previous, due, cSeen, cPc>>
        /\ DOMAIN trackers \subseteq DOMAIN trackers'
        /\ cPc = "visit" => trackers' = trackers
        /\ hasNoAttributeValue => hasNoAttributeValue'
        /\ hasNoAttributeValue' \/ returned'[NoAttributes] = returned[NoAttributes]
    BY <1>5, MeasureFrame DEF collectorVars, pointVars, ReadLocked
  <2>2. \A s \in Stream : Exists(s) => Exists(s)'
    BY <2>1 DEF Exists
  <2>3. \A s \in Stream : cPc' = "idle" \/ Read(s)' => Covered(s)
    BY <1>2, <2>1 DEF Read
  <2> QED
    BY <1>2, <1>4, <2>1, <2>2, <2>3
<1>6. CASE BeginCollect
  <2>1. /\ cPc = "idle" /\ due' = returned /\ UNCHANGED <<trackers, measured, returned>>
        /\ cPc' = IF hasNoAttributeValue THEN "noAttributes" ELSE "trackers"
        /\ hasNoAttributeValue' = hasNoAttributeValue
        /\ point' = [s \in Stream |-> NoPoint] /\ previous' = point
    BY <1>6, <1>0 DEF BeginCollect, FlagAfterCollect, mapVars, Structure, TypeOK
  <2>2. \A s \in Stream : Exists(s)' <=> Exists(s)
    BY <2>1 DEF Exists
  <2>3. ASSUME NEW s \in Stream, Read(s)' PROVE Covered(s)'
    <3>1. s = NoAttributes /\ ~hasNoAttributeValue
      BY <2>1, <2>3 DEF Read
    <3>2. point[s] = NoPoint /\ returned[s] = 0
      BY <1>2, <3>1 DEF Exists
    <3> QED
      BY <2>1, <3>2 DEF Covered
  <2>4. ASSUME NEW s \in Stream
        PROVE  /\ point'[s] # NoPoint => Exists(s)' /\ point'[s] <= measured'[s]
               /\ previous'[s] # NoPoint => Exists(s)' /\ previous'[s] <= measured'[s]
    BY <1>2, <2>1, <2>2
  <2> QED
    BY <1>2, <2>1, <2>3, <2>4 DEF CumulativeCovered, Stream
(* A stream that is read now has all that was measured for it. *)
<1>7. ASSUME NEW r \in Stream, Exists(r), point' = [point EXCEPT ![r] = measured[r]],
             UNCHANGED <<previous, due, measured, returned, hasNoAttributeValue, trackers>>,
             cPc' \notin {"idle", "noAttributes"},
             \A s \in Stream : s # r => (Read(s)' <=> Read(s))
      PROVE  CumulativeCovered'
  <2>1. \A s \in Stream : Exists(s)' <=> Exists(s)
    BY <1>7 DEF Exists
  <2>2. /\ point'[r] = measured[r] /\ measured[r] # NoPoint
        /\ \A s \in Stream : s # r => point'[s] = point[s]
    BY <1>1, <1>3, <1>7 DEF Structure, TypeOK
  <2>3. ASSUME NEW s \in Stream, Read(s)' PROVE Covered(s)'
    <3>1. CASE s = r
      <4>1. due[s] <= measured[s] /\ (previous[s] # NoPoint => previous[s] <= measured[s])
        BY <1>1, <1>2
      <4> QED
        BY <1>7, <2>2, <3>1, <4>1 DEF Covered
    <3>2. CASE s # r
      BY <1>2, <1>7, <2>2, <2>3, <3>2 DEF Covered
    <3> QED
      BY <3>1, <3>2
  <2>4. ASSUME NEW s \in Stream
        PROVE  /\ point'[s] # NoPoint => Exists(s)' /\ point'[s] <= measured'[s]
               /\ previous'[s] # NoPoint => Exists(s)' /\ previous'[s] <= measured'[s]
    <3>1. CASE s = r
      BY <1>1, <1>2, <1>7, <2>1, <2>2, <3>1
    <3>2. CASE s # r
      BY <1>2, <1>7, <2>1, <2>2, <3>2
    <3> QED
      BY <3>1, <3>2
  <2> QED
    BY <1>2, <1>7, <2>3, <2>4 DEF CumulativeCovered, Stream
<1>8. CASE CollectNoAttributes
  <2>1. /\ cPc = "noAttributes" /\ cPc' = "trackers"
        /\ point' = [point EXCEPT ![NoAttributes] = noAttributeValue]
        /\ UNCHANGED <<previous, due, measured, returned, hasNoAttributeValue, trackers>>
    BY <1>8 DEF CollectNoAttributes, Push, mapVars, historyVars
  <2>2. measured[NoAttributes] = noAttributeValue
    BY <1>1, <1>3 DEF Held
  <2>3. Exists(NoAttributes)
    BY <1>2, <2>1 DEF Exists
  <2>4. \A s \in Stream : s # NoAttributes => (Read(s)' <=> Read(s))
    BY <2>1 DEF Read
  <2> QED
    BY <1>3, <1>7, <2>1, <2>2, <2>3, <2>4
<1>9. CASE SwapTrackers
  BY <1>9 DEF SwapTrackers
<1>10. CASE LockTrackers
  <2>1. /\ cPc = "trackers" /\ cPc' = "visit" /\ cSeen = {}
        /\ UNCHANGED <<point, previous, due, returned, hasNoAttributeValue, trackers, cSeen>>
    BY <1>10 DEF LockTrackers, mapVars, noAttributeVars, pointVars, historyVars, Structure, Phases
  <2>2. \A s \in Stream : Exists(s) => Exists(s)'
    BY <2>1 DEF Exists
  <2>3. \A s \in Stream : Read(s)' => Read(s)
    BY <2>1 DEF Read
  <2> QED
    BY <1>2, <1>4, <2>1, <2>2, <2>3
<1>11. ASSUME NEW t \in Key, VisitTracker(t) PROVE CumulativeCovered'
  <2>1. /\ cPc = "visit" /\ cPc' = "visit" /\ cSeen' = cSeen \cup {t}
        /\ t \in Trackers(trackers)
        /\ point' = [point EXCEPT ![t[1]] = value[t]]
        /\ UNCHANGED <<previous, due, measured, returned, hasNoAttributeValue, trackers>>
    BY <1>11 DEF VisitTracker, Push, Visited, VisitedValue, mapVars, noAttributeVars, historyVars
  <2>2. IsKeyMap(trackers) /\ OneTracker(trackers)
    BY DEF Structure, TypeOK, OneTrackerPerSet
  <2>3. PICK k \in DOMAIN trackers : t = trackers[k]
    BY <2>1 DEF Trackers
  <2>4. /\ k \in Key /\ t[1] = k[1] /\ Sorted(k) \in DOMAIN trackers /\ trackers[Sorted(k)] = t
        /\ Sorted(k) = <<t[1], 0>>
    BY <2>2, <2>3 DEF OneTracker, IsKeyMap, Sorted
  <2>5. t[1] \in Stream /\ t[1] # NoAttributes
    BY <2>4, KeyFacts
  <2>6. measured[t[1]] = value[t] /\ Exists(t[1])
    BY <1>1, <2>4, <2>5 DEF Held, Exists
  <2>7. ASSUME NEW s \in Stream, s # t[1] PROVE Read(s)' <=> Read(s)
    <3>1. <<s, 0>> \in DOMAIN trackers => trackers[<<s, 0>>] # t
      BY <2>2, <2>7 DEF OneTracker
    <3> QED
      BY <2>1, <3>1 DEF Read
  <2> QED
    BY <1>7, <2>1, <2>5, <2>6, <2>7
<1>12. CASE FinishCollect
  <2>1. /\ cPc = "visit" /\ cPc' = "idle" /\ Trackers(trackers) \subseteq cSeen
        /\ UNCHANGED <<point, previous, due, returned, hasNoAttributeValue, trackers>>
    BY <1>12 DEF FinishCollect, Visited, noAttributeVars, pointVars, historyVars
  <2>2. ASSUME NEW s \in Stream PROVE Covered(s)
    <3>1. CASE Read(s)
      BY <1>2, <3>1
    <3>2. CASE ~Read(s)
      <4>1. s # NoAttributes /\ <<s, 0>> \notin DOMAIN trackers
        BY <2>1, <3>2 DEF Read, Trackers
      <4>2. ~Exists(s) /\ measured[s] = 0
        BY <1>1, <4>1 DEF Exists, Held
      <4> QED
        BY <1>1, <1>2, <4>2 DEF Covered
    <3> QED
      BY <3>1, <3>2
  <2>3. \A s \in Stream : Exists(s) => Exists(s)'
    BY <2>1 DEF Exists
  <2> QED
    BY <1>2, <1>4, <2>1, <2>2, <2>3
<1>13. CASE UNCHANGED vars
  <2>1. UNCHANGED <<point, previous, due, returned, hasNoAttributeValue, trackers, cPc, cSeen>>
    BY <1>13 DEF vars, mapVars, noAttributeVars, collectorVars, pointVars, historyVars
  <2>2. \A s \in Stream : (Exists(s) => Exists(s)') /\ (Read(s)' => Read(s))
    BY <2>1 DEF Exists, Read
  <2> QED
    BY <1>2, <1>4, <2>1, <2>2
<1> QED
  BY <1>5, <1>6, <1>8, <1>9, <1>10, <1>11, <1>12, <1>13 DEF Next, Collect, Finished

-----------------------------------------------------------------------------
(* The inductive invariant and what follows from it *)

IndInv ==
    /\ Structure /\ CapInv /\ Accounted /\ Bounded /\ DeltaCovered /\ CumulativeCovered

LEMMA IndInvInit == Init => IndInv
<1> SUFFICES ASSUME Init PROVE IndInv
  OBVIOUS
<1>1. Structure /\ CapInv
  BY StructureInit, CapInit
<1>2. Accounted
  BY DEF Init, Accounted, Held, InCollection, EmptyMap
<1>3. Bounded
  BY OverflowFacts DEF Init, Bounded
<1>4. DeltaCovered
  BY OverflowFacts DEF Init, DeltaCovered, InCollection, EmptyMap
<1>5. CumulativeCovered
  BY OverflowFacts DEF Init, CumulativeCovered, Covered
<1> QED
  BY <1>1, <1>2, <1>3, <1>4, <1>5 DEF IndInv

LEMMA IndInvStep ==
    ASSUME IndInv, [Next]_vars PROVE IndInv'
<1>1. Structure' /\ CapInv'
  BY StructureStep, CapStep DEF IndInv
<1>2. Accounted'
  BY AccountedStep DEF IndInv
<1>3. Bounded' /\ \A s \in Stream : measured[s] <= measured'[s]
  BY <1>1, BoundedStep DEF IndInv
<1> QED
  BY <1>1, <1>2, <1>3, DeltaStep, CumulativeStep DEF IndInv

LEMMA Inductive == Spec => []IndInv
<1>1. Init => IndInv
  BY IndInvInit
<1>2. IndInv /\ [Next]_vars => IndInv'
  BY IndInvStep
<1> QED
  BY <1>1, <1>2, PTL DEF Spec

(* Types, for any threads and attribute sets.                               *)
THEOREM TypeCorrect == Spec => []TypeOK
<1>1. IndInv => TypeOK
  BY DEF IndInv, Structure
<1> QED
  BY <1>1, Inductive, PTL

(* However threads race to insert a set, in whatever orders: one tracker.   *)
THEOREM SetsHaveOneTracker == Spec => []OneTrackerPerSet
<1>1. IndInv => OneTrackerPerSet
  BY DEF IndInv, Structure
<1> QED
  BY <1>1, Inductive, PTL

(* No measurement is lost, doubled or counted for the wrong set, whatever   *)
(* races with a collection.                                                 *)
THEOREM NothingLost == Spec => []Accounted
<1>1. IndInv => Accounted
  BY DEF IndInv
<1> QED
  BY <1>1, Inductive, PTL

(* The limit holds however many threads insert at it.                       *)
THEOREM LimitHolds == Spec => []CardinalityCapped
<1>1. IndInv => CardinalityCapped
  BY DEF IndInv, CapInv
<1> QED
  BY <1>1, Inductive, PTL

(* A collection has everything whose call returned before it began.         *)
THEOREM CollectionsAreComplete == Spec => []CollectionComplete
<1>1. IndInv => CollectionComplete
  <2> SUFFICES ASSUME IndInv, aggregator = "Increment", cPc = "idle", NEW s \in Stream
               PROVE  Reported(s) >= due[s]
    BY DEF CollectionComplete
  <2>1. /\ total[s] \in Nat /\ due[s] \in Nat /\ point[s] \in Nat \cup {NoPoint}
        /\ temporality \in {"Delta", "Cumulative"}
    BY DEF IndInv, Structure, TypeOK
  <2>2. CASE temporality = "Delta"
    BY <2>1, <2>2 DEF IndInv, DeltaCovered, Counting, Reported
  <2>3. CASE temporality = "Cumulative"
    <3>1. Covered(s)
      BY <2>3 DEF IndInv, CumulativeCovered, Counting
    <3> QED
      BY <2>1, <2>3, <3>1 DEF Covered, Reported
  <2> QED
    BY <2>1, <2>2, <2>3
<1> QED
  BY <1>1, Inductive, PTL

(* The cumulative points of a sum only grow.                                *)
THEOREM PointsOnlyGrow == Spec => []CumulativeMonotone
<1>1. IndInv => CumulativeMonotone
  <2> SUFFICES ASSUME IndInv, temporality = "Cumulative", aggregator = "Increment", cPc = "idle",
                      NEW s \in Stream, previous[s] # NoPoint
               PROVE  point[s] # NoPoint /\ point[s] >= previous[s]
    BY DEF CumulativeMonotone
  <2>1. Covered(s)
    BY DEF IndInv, CumulativeCovered, Counting
  <2>2. point[s] \in Nat \cup {NoPoint} /\ previous[s] \in Nat \cup {NoPoint}
    BY DEF IndInv, Structure, TypeOK
  <2> QED
    BY <2>1, <2>2 DEF Covered
<1> QED
  BY <1>1, Inductive, PTL

-----------------------------------------------------------------------------
(* The observable counter (PrecomputedSum), when callbacks give attributes  *)
(* in their sorted order                                                    *)

(* A tracker is then found under one key, holds what was observed of its    *)
(* set in this cycle, and `reported` has what its point stood for.          *)
OneKeyEach == \A k \in DOMAIN trackers : k \in Key /\ Sorted(k) = k /\ trackers[k] = k
HoldsObserved ==
    \A s \in AttributeSets : <<s, 0>> \in DOMAIN trackers => value[<<s, 0>>] = observed[s]
ReportedOwn ==
    temporality = "Delta" =>
        \A s \in AttributeSets :
            lastOwn[s] = IF <<s, 0>> \in DOMAIN reported THEN reported[<<s, 0>>] ELSE 0
ObservedInv ==
    /\ aggregator = "Assign" /\ cDone \in Nat
    /\ DOMAIN observed = AttributeSets /\ observed = [s \in AttributeSets |-> observed[s]]
    /\ value = [k \in Key |-> value[k]]
    /\ OneKeyEach /\ HoldsObserved /\ ReportedOwn

(* The key of an attribute set in sorted order.                             *)
LEMMA OwnKey ==
    ASSUME NEW s \in AttributeSets
    PROVE  /\ <<s, 0>> \in Key /\ Sorted(<<s, 0>>) = <<s, 0>>
           /\ <<s, 0>> # OverflowKey
BY ValueMapAssumption DEF ValueMapAssumption, Key, GivenKey, OverflowKey, Sorted

(* What an update and an insertion under a sorted key do.                   *)
LEMMA SortedUpdate ==
    ASSUME ObservedInv, NEW k \in Key, Sorted(k) = k, NEW x,
           \/ Known(k) /\ UpdateTracker(k, x)
           \/ ~Known(k) /\ AddTracker(k, x)
    PROVE  /\ value' = [value EXCEPT ![k] = x] /\ value' = [j \in Key |-> value'[j]]
           /\ DOMAIN trackers' = DOMAIN trackers \cup {k}
           /\ OneKeyEach'
<1>1. aggregator = "Assign" BY DEF ObservedInv
<1>2. CASE Known(k) /\ UpdateTracker(k, x)
  <2>1. k \in DOMAIN trackers /\ Lookup(k) = k
    BY <1>2 DEF Known, Lookup, ObservedInv, OneKeyEach
  <2>2. trackers' = trackers /\ value' = [value EXCEPT ![k] = x]
    BY <1>1, <1>2, <2>1 DEF UpdateTracker, Updated
  <2> QED BY <2>1, <2>2 DEF ObservedInv, OneKeyEach
<1>3. CASE ~Known(k) /\ AddTracker(k, x)
  <2>1. trackers' = [j \in DOMAIN trackers \cup {k} |-> IF j = k THEN k ELSE trackers[j]]
    <3>1. {k, Sorted(k)} = {k} OBVIOUS
    <3> QED BY <1>3, <3>1 DEF AddTracker, Insert
  <2>2. value' = [value EXCEPT ![k] = x] BY <1>1, <1>3 DEF AddTracker, Updated
  <2> QED BY <2>1, <2>2 DEF ObservedInv, OneKeyEach
<1> QED BY <1>2, <1>3

(* An observation leaves in the tracker what was observed.                  *)
LEMMA ObserveKeeps ==
    ASSUME ObservedInv, NEW s \in AttributeSets, NEW x, Observe(<<s, 0>>, x)
    PROVE  ObservedInv'
<1> DEFINE k == <<s, 0>>
<1>1. /\ UNCHANGED <<temporality, aggregator, reported, lastOwn, cDone>>
      /\ observed' = [observed EXCEPT ![s] = x]
  BY DEF Observe, idleVars, streamVars
<1>2. DOMAIN observed' = AttributeSets /\ observed' = [r \in AttributeSets |-> observed'[r]]
  BY <1>1 DEF ObservedInv
<1>3. ReportedOwn' BY <1>1 DEF ObservedInv, ReportedOwn
<1>4. CASE (Known(k) /\ UpdateTracker(k, x)) \/ (~Known(k) /\ AddTracker(k, x))
  <2>1. /\ value' = [value EXCEPT ![k] = x] /\ value' = [j \in Key |-> value'[j]]
        /\ DOMAIN trackers' = DOMAIN trackers \cup {k} /\ OneKeyEach'
    BY <1>4, OwnKey, SortedUpdate
  <2>2. ASSUME NEW r \in AttributeSets, <<r, 0>> \in DOMAIN trackers'
        PROVE  value'[<<r, 0>>] = observed'[r]
    <3>1. CASE r = s BY <1>1, <2>1, <3>1, OwnKey DEF ObservedInv
    <3>2. CASE r # s
      <4>1. <<r, 0>> # k /\ <<r, 0>> \in Key BY <3>2, OwnKey
      <4>2. value'[<<r, 0>>] = value[<<r, 0>>] /\ <<r, 0>> \in DOMAIN trackers
        BY <2>1, <2>2, <4>1 DEF ObservedInv
      <4> QED BY <1>1, <3>2, <4>2 DEF ObservedInv, HoldsObserved
    <3> QED BY <3>1, <3>2
  <2> QED BY <1>1, <1>2, <1>3, <2>1, <2>2 DEF ObservedInv, HoldsObserved
<1>5. CASE /\ ~Known(k)
           /\ \/ Known(OverflowKey) /\ UpdateTracker(OverflowKey, x)
              \/ ~Known(OverflowKey) /\ AddTracker(OverflowKey, x)
  <2>1. /\ value' = [value EXCEPT ![OverflowKey] = x] /\ value' = [j \in Key |-> value'[j]]
        /\ DOMAIN trackers' = DOMAIN trackers \cup {OverflowKey} /\ OneKeyEach'
    BY <1>5, OverflowFacts, SortedUpdate
  <2>2. ASSUME NEW r \in AttributeSets, <<r, 0>> \in DOMAIN trackers'
        PROVE  value'[<<r, 0>>] = observed'[r]
    <3>1. <<r, 0>> # OverflowKey /\ <<r, 0>> \in Key BY OwnKey
    <3>2. <<r, 0>> \in DOMAIN trackers BY <2>1, <2>2, <3>1
    <3>3. r # s BY <1>5, <3>2 DEF Known
    <3>4. value'[<<r, 0>>] = value[<<r, 0>>] BY <2>1, <3>1 DEF ObservedInv
    <3> QED BY <1>1, <3>2, <3>3, <3>4 DEF ObservedInv, HoldsObserved
  <2> QED BY <1>1, <1>2, <1>3, <2>1, <2>2 DEF ObservedInv, HoldsObserved
<1>6. \/ Known(k) /\ UpdateTracker(k, x)
      \/ ~Known(k) /\ AddTracker(k, x)
      \/ /\ ~Known(k)
         /\ IF Known(OverflowKey) THEN UpdateTracker(OverflowKey, x)
                                 ELSE AddTracker(OverflowKey, x)
  <2> HIDE DEF k
  <2>1. Observe(k, x) BY DEF k
  <2> QED BY <2>1 DEF Observe
<1> HIDE DEF k
<1> QED BY <1>4, <1>5, <1>6

(* A collection labels each tracker with its only key.                      *)
LEMMA CollectObservedFacts ==
    ASSUME ObservedInv, CollectObserved
    PROVE  /\ temporality = "Delta" => reported' = [k \in DOMAIN trackers |-> value[k]]
           /\ \A s \in AttributeSets :
                 <<s, 0>> \in DOMAIN trackers =>
                    point'[s] = value[<<s, 0>>] -
                                  (IF temporality = "Delta" /\ <<s, 0>> \in DOMAIN reported
                                   THEN reported[<<s, 0>>] ELSE 0)
<1>1. PICK label \in [Trackers(trackers) -> DOMAIN trackers] :
         /\ \A t \in DOMAIN label : trackers[label[t]] = t
         /\ LET labels == {label[t] : t \in DOMAIN label}
                values == [k \in labels |-> value[trackers[k]]]
                before == [k \in labels |->
                                IF temporality = "Delta" /\ k \in DOMAIN reported
                                THEN reported[k] ELSE 0]
            IN /\ point' = [s \in Stream |->
                               IF \E k \in labels : k[1] = s
                               THEN LET k == CHOOSE k \in labels : k[1] = s
                                    IN values[k] - before[k]
                               ELSE NoPoint]
               /\ reported' = IF temporality = "Delta" THEN NewReported(labels, values)
                              ELSE reported
  BY DEF CollectObserved
<1> DEFINE labels == {label[t] : t \in DOMAIN label}
           values == [k \in labels |-> value[trackers[k]]]
           before == [k \in labels |->
                        IF temporality = "Delta" /\ k \in DOMAIN reported THEN reported[k] ELSE 0]
<1>2. \A k \in DOMAIN trackers : trackers[k] = k /\ k \in Key /\ Sorted(k) = k
  BY DEF ObservedInv, OneKeyEach
<1>3. Trackers(trackers) = DOMAIN trackers BY <1>2 DEF Trackers
<1>4. \A t \in DOMAIN trackers : label[t] = t BY <1>1, <1>2, <1>3
<1>5. labels = DOMAIN trackers BY <1>1, <1>3, <1>4
<1>6. temporality = "Delta" => reported' = [k \in DOMAIN trackers |-> value[k]]
  <2>1. temporality = "Delta" => reported' = NewReported(labels, values) BY <1>1
  <2>2. NewReported(labels, values) = [k \in DOMAIN trackers |-> value[k]]
    BY <1>2, <1>5 DEF NewReported
  <2> QED BY <2>1, <2>2
<1>7. ASSUME NEW s \in AttributeSets, <<s, 0>> \in DOMAIN trackers
      PROVE  point'[s] = value[<<s, 0>>] -
                            (IF temporality = "Delta" /\ <<s, 0>> \in DOMAIN reported
                             THEN reported[<<s, 0>>] ELSE 0)
  <2> DEFINE own == CHOOSE k \in labels : k[1] = s
  <2>1. s \in Stream BY DEF Stream
  <2>2. <<s, 0>> \in labels BY <1>5, <1>7
  <2>3. \A k \in labels : k[1] = s => k = <<s, 0>>
    BY <1>2, <1>5 DEF Sorted
  <2>4. own = <<s, 0>> BY <2>2, <2>3
  <2>5. point'[s] = values[own] - before[own] BY <1>1, <2>1, <2>2
  <2>6. values[<<s, 0>>] = value[<<s, 0>>] BY <1>2, <1>7, <2>2
  <2>7. before[<<s, 0>>] = IF temporality = "Delta" /\ <<s, 0>> \in DOMAIN reported
                           THEN reported[<<s, 0>>] ELSE 0
    BY <2>2
  <2> HIDE DEF own, values, before, labels
  <2> QED BY <2>4, <2>5, <2>6, <2>7
<1> QED BY <1>6, <1>7

(* A collection starts the next cycle.                                      *)
LEMMA CollectObservedKeeps ==
    ASSUME ObservedInv, CollectObserved PROVE ObservedInv'
<1>1. /\ UNCHANGED <<temporality, aggregator>> /\ cDone' = cDone + 1
      /\ trackers' = EmptyMap /\ value' = NoValues
      /\ observed' = [s \in AttributeSets |-> 0]
      /\ lastOwn' = [s \in AttributeSets |-> IF <<s, 0>> \in DOMAIN trackers THEN observed[s] ELSE 0]
  BY DEF CollectObserved, idleVars, streamVars
<1>2. temporality = "Delta" => reported' = [k \in DOMAIN trackers |-> value[k]]
  BY CollectObservedFacts
<1>3. ReportedOwn' BY <1>1, <1>2 DEF ObservedInv, ReportedOwn, HoldsObserved
<1>4. DOMAIN trackers' = {} BY <1>1 DEF EmptyMap
<1> QED BY <1>1, <1>3, <1>4 DEF ObservedInv, OneKeyEach, HoldsObserved, NoValues

(* Every step of an observable counter keeps what its points stand for.     *)
LEMMA ObservedStep ==
    ASSUME ObservedOrders \subseteq {0}, ObservedInv, [ObservableNext]_<<vars, observableVars>>
    PROVE  ObservedInv'
<1>1. ASSUME NEW s \in AttributeSets, NEW o \in ObservedOrders, NEW x \in ObservedValues,
             Observe(<<s, o>>, x)
      PROVE  ObservedInv'
  <2>1. o = 0 OBVIOUS
  <2> QED BY <1>1, <2>1, ObserveKeeps
<1>2. CASE UNCHANGED <<vars, observableVars>>
  BY <1>2 DEF vars, observableVars, streamVars, mapVars, collectorVars, ObservedInv, OneKeyEach, HoldsObserved,
              ReportedOwn
<1> QED BY <1>1, <1>2, CollectObservedKeeps DEF ObservableNext, ObservableFinished

(* "only the delta since last export is exported": when callbacks give the  *)
(* attributes in sorted order, the point of a set is what was observed less *)
(* what its point stood for one cycle before, at and beyond the limit.      *)
THEOREM DeltaIsExact ==
    ASSUME ObservedOrders \subseteq {0} PROVE ObservableSpec => DeltaSinceLastExport
<1>1. ObservableInit => ObservedInv
  BY DEF ObservableInit, Init, ObservedInv, OneKeyEach, HoldsObserved, ReportedOwn, EmptyMap, NoValues
<1>2. ObservedInv /\ [ObservableNext]_<<vars, observableVars>> => ObservedInv'
  BY ObservedStep
<1>3. ObservedInv /\ [ObservableNext]_<<vars, observableVars>> =>
      [temporality = "Delta" /\ cDone' > cDone =>
          \A s \in AttributeSets :
              observed[s] > 0 /\ <<s, 0>> \in DOMAIN trackers
                  => point'[s] = observed[s] - lastOwn[s]]_<<vars, observableVars>>
  <2> SUFFICES ASSUME ObservedInv, ObservableNext, temporality = "Delta", cDone' > cDone,
                      NEW s \in AttributeSets, <<s, 0>> \in DOMAIN trackers
               PROVE  point'[s] = observed[s] - lastOwn[s]
    OBVIOUS
  <2>1. CollectObserved
    <3>1. ASSUME NEW k, NEW x, Observe(k, x) PROVE FALSE
      <4>1. cDone' = cDone BY <3>1 DEF Observe
      <4> QED BY <4>1, cDone' > cDone DEF ObservedInv
    <3>2. cDone' # cDone BY DEF ObservedInv
    <3>3. ~ObservableFinished
      BY <3>2 DEF ObservableFinished, vars, collectorVars
    <3> QED BY <3>1, <3>3 DEF ObservableNext
  <2> QED BY <2>1, CollectObservedFacts DEF ObservedInv, HoldsObserved, ReportedOwn
<1> QED BY <1>1, <1>2, <1>3, PTL DEF ObservableSpec, DeltaSinceLastExport
=============================================================================
