------------------------------ MODULE ValueMap ------------------------------
(***************************************************************************)
(* The storage of an instrument's aggregate                                *)
(* (opentelemetry-sdk/src/metrics/internal/mod.rs): one tracker per        *)
(* attribute set behind a RwLock, a tracker of its own for measurements    *)
(* without attributes, a cardinality limit and an overflow tracker.        *)
(*                                                                         *)
(* Any thread measures; one thread at a time collects (the pipeline's      *)
(* mutex is held during produce).  A section under the RwLock is a step,   *)
(* except the read-only iteration of a cumulative collection, during which *)
(* other readers update trackers.  An atomic operation outside of the lock *)
(* is a step of its own.  Locks are never poisoned.                        *)
(*                                                                         *)
(* A key <<s, o>> is attribute set s with its attributes in order o, 0     *)
(* being the sorted order; a tracker is named by the key that created it.  *)
(*                                                                         *)
(* A definition marked as a slip is not part of the model: it is a wrong   *)
(* form of the definition after it, which the properties must reject.      *)
(***************************************************************************)
EXTENDS Naturals, FiniteSets

CONSTANTS
    Measurers,              \* threads that measure
    AttributeSets,          \* non-empty attribute sets with distinct keys
    Orders,                 \* orders in which the attributes are given
    CardinalityLimit,       \* distinct attribute sets of one metric stream
    Values,                 \* measured values
    Aggregators,            \* the aggregators looked at
    MeasurementsPerThread,  \* bound
    Collections,            \* bound
    NoAttributes,           \* the stream of measurements without attributes
    Overflow,               \* the stream {otel.metric.overflow = true}
    NoPoint                 \* a stream without a data point so far

ValueMapAssumption ==
    /\ 0 \in Orders /\ Aggregators \subseteq {"Increment", "Assign"}
    /\ CardinalityLimit \in Nat \ {0}
    /\ Values \subseteq Nat \ {0}
    /\ MeasurementsPerThread \in Nat /\ Collections \in Nat
    /\ NoAttributes # Overflow
    /\ NoAttributes \notin AttributeSets /\ Overflow \notin AttributeSets
    /\ NoPoint \notin Nat
ASSUME ValueMapAssumption

VARIABLES
    temporality, aggregator, \* "Increment" (Sum) or "Assign" (LastValue), once and for all
    trackers, value,         \* the map under the RwLock and the trackers' values
    taken, takenValue,       \* trackers_for_collect: the map swapped out
    count,                   \* AtomicUsize
    hasNoAttributeValue,     \* AtomicBool
    noAttributeValue,        \* value of no_attribute_tracker
    mPc, mKey, mValue, mDone, \* measurer: step, key and value, calls made
    mMark,                   \* history: `measured` after the measurer's update
    cPc, cSeen, cDone,       \* collector: step, trackers visited, collections made
    point,                   \* data point of each stream in this collection
    previous,                \* history: those of the collection before (cumulative)
    total,                   \* sum of the data points of each stream (delta)
    measured,                \* history: sum of the updates of each stream
    returned,                \* history: that sum after the latest update whose call returned
    due                      \* history: `returned` when the collection began

streamVars == <<temporality, aggregator>>
mapVars == <<trackers, value, taken, takenValue, count>>
noAttributeVars == <<hasNoAttributeValue, noAttributeValue>>
measurerVars == <<mPc, mKey, mValue, mDone, mMark>>
collectorVars == <<cPc, cSeen, cDone>>
pointVars == <<point, previous, total>>
historyVars == <<measured, returned, due>>
vars == <<streamVars, mapVars, noAttributeVars, measurerVars, collectorVars, pointVars, historyVars>>

-----------------------------------------------------------------------------
Stream == AttributeSets \cup {NoAttributes, Overflow}
OverflowKey == <<Overflow, 0>>
GivenKey == AttributeSets \X Orders
Key == GivenKey \cup {OverflowKey}
KeyMap == UNION {[D -> Key] : D \in SUBSET Key}

(* sort_and_dedup *)
SortedUnsorted(k) == k
Sorted(k) == <<k[1], 0>>

EmptyMap == [k \in {} |-> OverflowKey]
NoValues == [k \in Key |-> 0]
Trackers(map) == {map[k] : k \in DOMAIN map}

(* Aggregator::update *)
Updated(old, x) == IF aggregator = "Increment" THEN old + x ELSE x

(* trackers.get in the given order, then in the sorted order *)
Known(k) == k \in DOMAIN trackers \/ Sorted(k) \in DOMAIN trackers
Lookup(k) == IF k \in DOMAIN trackers THEN trackers[k] ELSE trackers[Sorted(k)]
UnderLimit == count < CardinalityLimit

(* Slip: only the given order is stored. *)
InsertGivenOrder(k) ==
    [j \in DOMAIN trackers \cup {k} |-> IF j = k THEN k ELSE trackers[j]]
Insert(k) ==
    [j \in DOMAIN trackers \cup {k, Sorted(k)} |->
        IF j \in {k, Sorted(k)} THEN k ELSE trackers[j]]

Init ==
    /\ temporality \in {"Delta", "Cumulative"} /\ aggregator \in Aggregators
    /\ trackers = EmptyMap /\ value = NoValues
    /\ taken = EmptyMap /\ takenValue = NoValues
    /\ count = 0 /\ hasNoAttributeValue = FALSE /\ noAttributeValue = 0
    /\ mPc = [m \in Measurers |-> "idle"] /\ mKey = [m \in Measurers |-> OverflowKey]
    /\ mValue = [m \in Measurers |-> 0] /\ mDone = [m \in Measurers |-> 0]
    /\ mMark = [m \in Measurers |-> 0]
    /\ cPc = "idle" /\ cSeen = {} /\ cDone = 0
    /\ point = [s \in Stream |-> NoPoint] /\ previous = point /\ total = [s \in Stream |-> 0]
    /\ measured = [s \in Stream |-> 0] /\ returned = [s \in Stream |-> 0]
    /\ due = [s \in Stream |-> 0]

-----------------------------------------------------------------------------
(* measure, run by thread m *)

Begin(m) ==
    /\ mPc[m] = "idle"
    /\ mDone[m] < MeasurementsPerThread
    /\ mDone' = [mDone EXCEPT ![m] = @ + 1]

(* no_attribute_tracker.update *)
MeasureNoAttributes(m, x) ==
    /\ Begin(m)
    /\ noAttributeValue' = Updated(noAttributeValue, x)
    /\ measured' = [measured EXCEPT ![NoAttributes] = @ + x]
    /\ mPc' = [mPc EXCEPT ![m] = "flag"]
    /\ mMark' = [mMark EXCEPT ![m] = measured'[NoAttributes]]
    /\ UNCHANGED <<mapVars, hasNoAttributeValue, mKey, mValue, collectorVars, pointVars,
                   returned, due>>

(* Slip: stored by the first call only. *)
StoreFlagOnlyOnce(m) ==
    /\ mPc[m] = "flag"
    /\ hasNoAttributeValue' = (hasNoAttributeValue \/ returned[NoAttributes] = 0)
    /\ returned' = [returned EXCEPT ![NoAttributes] = IF @ < mMark[m] THEN mMark[m] ELSE @]
    /\ mPc' = [mPc EXCEPT ![m] = "idle"]
    /\ mMark' = [mMark EXCEPT ![m] = 0]
    /\ UNCHANGED <<mapVars, noAttributeValue, mKey, mValue, mDone, collectorVars, pointVars,
                   measured, due>>
(* has_no_attribute_value.store(true) *)
StoreFlag(m) ==
    /\ mPc[m] = "flag"
    /\ hasNoAttributeValue' = TRUE
    /\ returned' = [returned EXCEPT ![NoAttributes] = IF @ < mMark[m] THEN mMark[m] ELSE @]
    /\ mPc' = [mPc EXCEPT ![m] = "idle"]
    /\ mMark' = [mMark EXCEPT ![m] = 0]
    /\ UNCHANGED <<mapVars, noAttributeValue, mKey, mValue, mDone, collectorVars, pointVars,
                   measured, due>>

(* A tracker that is there is updated; a new one starts with the value. *)
UpdateTracker(k, x) ==
    /\ value' = [value EXCEPT ![Lookup(k)] = Updated(@, x)]
    /\ UNCHANGED trackers
AddTracker(k, x) ==
    /\ value' = [value EXCEPT ![k] = Updated(0, x)]
    /\ trackers' = Insert(k)

(* Where a measurement belongs. *)
StreamOf(k) == IF Known(k) \/ UnderLimit THEN k[1] ELSE Overflow

(* History: the call that returns with this step measured x. *)
Record(k, x) ==
    LET s == StreamOf(k) IN
    /\ measured' = [measured EXCEPT ![s] = @ + x]
    /\ returned' = [returned EXCEPT ![s] = measured'[s]]

(* Under the read lock a tracker is found and updated. *)
MeasureFound(m, k, x) ==
    /\ Begin(m)
    /\ Known(k)
    /\ UpdateTracker(k, x)
    /\ Record(k, x)
    /\ UNCHANGED <<taken, takenValue, count, noAttributeVars, mPc, mKey, mValue, mMark,
                   collectorVars, pointVars, due>>

(* Under the read lock there is none: the lock is given up. *)
MeasureMissed(m, k, x) ==
    /\ Begin(m)
    /\ ~Known(k)
    /\ mPc' = [mPc EXCEPT ![m] = "write"]
    /\ mKey' = [mKey EXCEPT ![m] = k]
    /\ mValue' = [mValue EXCEPT ![m] = x]
    /\ UNCHANGED <<mapVars, noAttributeVars, mMark, collectorVars, pointVars, historyVars>>

(* Slip: no second look under the write lock. *)
InsertWithoutRecheck(k, x) ==
    \/ /\ UnderLimit
       /\ AddTracker(k, x) /\ count' = count + 1 /\ Record(k, x)
    \/ /\ ~UnderLimit /\ Known(OverflowKey)
       /\ UpdateTracker(OverflowKey, x) /\ UNCHANGED count /\ Record(k, x)
    \/ /\ ~UnderLimit /\ ~Known(OverflowKey)
       /\ AddTracker(OverflowKey, x) /\ UNCHANGED count /\ Record(k, x)
(* The write section: a tracker that is there by now, a new one, or the     *)
(* overflow tracker.                                                        *)
UpdateOrInsert(k, x) ==
    \/ /\ Known(k)
       /\ UpdateTracker(k, x) /\ UNCHANGED count /\ Record(k, x)
    \/ /\ ~Known(k) /\ UnderLimit
       /\ AddTracker(k, x) /\ count' = count + 1 /\ Record(k, x)
    \/ /\ ~Known(k) /\ ~UnderLimit /\ Known(OverflowKey)
       /\ UpdateTracker(OverflowKey, x) /\ UNCHANGED count /\ Record(k, x)
    \/ /\ ~Known(k) /\ ~UnderLimit /\ ~Known(OverflowKey)
       /\ AddTracker(OverflowKey, x) /\ UNCHANGED count /\ Record(k, x)

(* The write section waits for the read lock of a cumulative collection. *)
ReadLocked == temporality = "Cumulative" /\ cPc = "visit"
MeasureUnderWriteLock(m) ==
    /\ mPc[m] = "write"
    /\ ~ReadLocked
    /\ UpdateOrInsert(mKey[m], mValue[m])
    /\ mPc' = [mPc EXCEPT ![m] = "idle"]
    /\ mKey' = [mKey EXCEPT ![m] = OverflowKey]
    /\ mValue' = [mValue EXCEPT ![m] = 0]
    /\ UNCHANGED <<taken, takenValue, noAttributeVars, mDone, mMark, collectorVars, pointVars, due>>

Measure(m) ==
    \/ \E x \in Values :
          \/ MeasureNoAttributes(m, x)
          \/ \E k \in GivenKey : MeasureFound(m, k, x) \/ MeasureMissed(m, k, x)
    \/ StoreFlag(m)
    \/ MeasureUnderWriteLock(m)

-----------------------------------------------------------------------------
(* collect_and_reset (delta) and collect_readonly (cumulative) *)

Push(s, v) ==
    /\ point' = [point EXCEPT ![s] = v]
    /\ total' = IF temporality = "Delta" THEN [total EXCEPT ![s] = @ + v] ELSE total
    /\ UNCHANGED previous

(* has_no_attribute_value is swapped with false, or only loaded. *)
FlagAfterCollect == temporality = "Cumulative" /\ hasNoAttributeValue

(* prepare_data clears the data points of the collection before. *)
BeginCollect ==
    /\ cPc = "idle" /\ cDone < Collections
    /\ cDone' = cDone + 1
    /\ due' = returned
    /\ cPc' = IF hasNoAttributeValue THEN "noAttributes" ELSE "trackers"
    /\ hasNoAttributeValue' = FlagAfterCollect
    /\ point' = [s \in Stream |-> NoPoint]
    /\ previous' = IF temporality = "Cumulative" THEN point ELSE previous
    /\ UNCHANGED <<mapVars, noAttributeValue, measurerVars, cSeen, total, measured, returned>>

(* Slip: reset for either temporality. *)
CollectNoAttributesResetting ==
    /\ cPc = "noAttributes"
    /\ Push(NoAttributes, noAttributeValue)
    /\ noAttributeValue' = 0
    /\ cPc' = "trackers"
    /\ UNCHANGED <<mapVars, hasNoAttributeValue, measurerVars, cSeen, cDone, historyVars>>

(* The point without attributes: clone_and_reset, or a read of the value. *)
CollectNoAttributes ==
    /\ cPc = "noAttributes"
    /\ Push(NoAttributes, noAttributeValue)
    /\ noAttributeValue' = IF temporality = "Delta" THEN 0 ELSE noAttributeValue
    /\ cPc' = "trackers"
    /\ UNCHANGED <<mapVars, hasNoAttributeValue, measurerVars, cSeen, cDone, historyVars>>

(* Slip: count is not reset. *)
SwapTrackersKeepingCount ==
    /\ cPc = "trackers" /\ temporality = "Delta"
    /\ taken' = trackers /\ takenValue' = value
    /\ trackers' = EmptyMap /\ value' = NoValues /\ UNCHANGED count
    /\ cPc' = "visit"
    /\ UNCHANGED <<noAttributeVars, measurerVars, cSeen, cDone, pointVars, historyVars>>

(* Delta, under the write lock: the map is swapped with an empty one. *)
SwapTrackers ==
    /\ cPc = "trackers" /\ temporality = "Delta"
    /\ taken' = trackers /\ takenValue' = value
    /\ trackers' = EmptyMap /\ value' = NoValues /\ count' = 0
    /\ cPc' = "visit"
    /\ UNCHANGED <<noAttributeVars, measurerVars, cSeen, cDone, pointVars, historyVars>>

(* Cumulative: the read lock is taken for the whole iteration. *)
LockTrackers ==
    /\ cPc = "trackers" /\ temporality = "Cumulative"
    /\ cPc' = "visit"
    /\ UNCHANGED <<mapVars, noAttributeVars, measurerVars, cSeen, cDone, pointVars, historyVars>>

Visited == IF temporality = "Delta" THEN taken ELSE trackers
VisitedValue == IF temporality = "Delta" THEN takenValue ELSE value

(* Every tracker becomes one data point, under either of its keys. *)
VisitTracker(t) ==
    /\ cPc = "visit"
    /\ t \in Trackers(Visited) \ cSeen
    /\ Push(t[1], VisitedValue[t])
    /\ cSeen' = cSeen \cup {t}
    /\ UNCHANGED <<mapVars, noAttributeVars, measurerVars, cPc, cDone, historyVars>>

FinishCollect ==
    /\ cPc = "visit"
    /\ Trackers(Visited) \subseteq cSeen
    /\ cSeen' = {}
    /\ taken' = EmptyMap /\ takenValue' = NoValues
    /\ cPc' = "idle"
    /\ UNCHANGED <<trackers, value, count, noAttributeVars, measurerVars, cDone, pointVars,
                   historyVars>>

Collect ==
    \/ BeginCollect \/ CollectNoAttributes \/ SwapTrackers \/ LockTrackers
    \/ \E t \in Key : VisitTracker(t)
    \/ FinishCollect

(* Every thread has made its calls. *)
Finished ==
    /\ \A m \in Measurers : mPc[m] = "idle" /\ mDone[m] = MeasurementsPerThread
    /\ cPc = "idle" /\ cDone = Collections
    /\ UNCHANGED vars

Next ==
    /\ (\E m \in Measurers : Measure(m)) \/ Collect \/ Finished
    /\ UNCHANGED streamVars

Spec == Init /\ [][Next]_vars

-----------------------------------------------------------------------------
(* Properties *)

(* All orders of an attribute set lead to one tracker, and the sorted order *)
(* always leads there (the recheck in measure).                             *)
OneTracker(map) ==
    \A k \in DOMAIN map :
        /\ Sorted(k) \in DOMAIN map
        /\ map[k] = map[Sorted(k)]
        /\ map[k] \in DOMAIN map /\ map[k][1] = k[1]
OneTrackerPerSet == OneTracker(trackers) /\ OneTracker(taken)

(* "Every measurement is accounted for - either with its original           *)
(* attributes or within the overflow bucket": the updates of a stream are   *)
(* what its tracker holds now, what a collection has taken and not yet      *)
(* reported, and what was reported; a set that has a tracker, or for which  *)
(* there is room, is never counted as overflow.                             *)
Held(s) ==
    IF s = NoAttributes THEN noAttributeValue
    ELSE IF <<s, 0>> \in DOMAIN trackers THEN value[trackers[<<s, 0>>]] ELSE 0
InCollection(s) ==
    IF <<s, 0>> \in DOMAIN taken /\ taken[<<s, 0>>] \notin cSeen
    THEN takenValue[taken[<<s, 0>>]] ELSE 0
Accounted ==
    aggregator = "Increment" =>
        \A s \in Stream : measured[s] = Held(s) + InCollection(s) + total[s]

(* "enforced for each export interval": at most CardinalityLimit sets have  *)
(* a tracker of their own, count is their number, and the overflow tracker  *)
(* exists only once the limit is reached.                                   *)
OwnSets == {k[1] : k \in DOMAIN trackers} \ {Overflow}
CardinalityCapped ==
    /\ Cardinality(OwnSets) = count
    /\ count <= CardinalityLimit
    /\ OverflowKey \in DOMAIN trackers => count = CardinalityLimit

(* A collection reports every measurement whose call had returned before it *)
(* began, and those that came before it (has_no_attribute_value is stored   *)
(* after the update, and swapped before the value is reset).                *)
Reported(s) ==
    IF temporality = "Delta" THEN total[s] ELSE IF point[s] = NoPoint THEN 0 ELSE point[s]
CollectionComplete ==
    aggregator = "Increment" /\ cPc = "idle" => \A s \in Stream : Reported(s) >= due[s]

(* From one collection to the next the cumulative points of a sum never go *)
(* down, nor does a stream disappear.                                       *)
CumulativeMonotone ==
    temporality = "Cumulative" /\ aggregator = "Increment" /\ cPc = "idle" =>
        \A s \in Stream :
            previous[s] # NoPoint => point[s] # NoPoint /\ point[s] >= previous[s]
=============================================================================
