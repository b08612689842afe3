--------------------------- MODULE PrecomputedSum ---------------------------
(***************************************************************************)
(* The aggregate of an observable counter                                  *)
(* (opentelemetry-sdk/src/metrics/internal/precomputed_sum.rs).            *)
(*                                                                         *)
(* During produce the callback observes absolute values, which go through  *)
(* ValueMap's measure with the Assign aggregator; then the map is swapped, *)
(* drained and turned into points.  All of it happens on the collecting    *)
(* thread under the pipeline's mutex, so that a collection is one step     *)
(* here.  Every observation carries attributes.                            *)
(*                                                                         *)
(* A definition marked as a slip is not part of the model: it is a wrong   *)
(* form of the definition after it, which the properties must reject.      *)
(***************************************************************************)
EXTENDS ValueMap, Integers

CONSTANTS
    ObservedOrders,   \* orders in which a callback gives the attributes
    ObservedValues,
    Cycles            \* bound on the collections

VARIABLES
    reported,     \* `reported`: last value, by the key it was drained under
    observed,     \* history: what the callback observes in this cycle, 0 for nothing
    lastObserved, \* history: what it observed in the previous cycle
    lastOwn       \* history: that of it which had a point of its own

observableVars == <<reported, observed, lastObserved, lastOwn>>
idleVars == <<streamVars, taken, takenValue, noAttributeVars, measurerVars, cPc, cSeen, historyVars>>

ObservableInit ==
    /\ Init /\ aggregator = "Assign"
    /\ reported = [k \in {} |-> 0]
    /\ observed = [s \in AttributeSets |-> 0]
    /\ lastObserved = [s \in AttributeSets |-> 0]
    /\ lastOwn = [s \in AttributeSets |-> 0]

(* The callback observes x, never less than before, for a set it has not    *)
(* observed in this cycle.                                                  *)
Observe(k, x) ==
    /\ cDone < Cycles
    /\ observed[k[1]] = 0
    /\ x >= lastObserved[k[1]]
    /\ observed' = [observed EXCEPT ![k[1]] = x]
    /\ \/ Known(k) /\ UpdateTracker(k, x) /\ UNCHANGED count
       \/ ~Known(k) /\ UnderLimit /\ AddTracker(k, x) /\ count' = count + 1
       \/ ~Known(k) /\ ~UnderLimit /\ UNCHANGED count
          /\ IF Known(OverflowKey) THEN UpdateTracker(OverflowKey, x) ELSE AddTracker(OverflowKey, x)
    /\ UNCHANGED <<idleVars, cDone, pointVars, reported, lastObserved, lastOwn>>

(* Slip: forgotten sets are kept. *)
KeepReported(labels, values) ==
    [k \in DOMAIN reported \cup labels |-> IF k \in labels THEN values[k] ELSE reported[k]]
(* `reported` is replaced: a set that was not observed is forgotten. *)
NewReported(labels, values) == [k \in labels |-> values[k]]

(* The drain meets the keys of a tracker in any order: the first one labels *)
(* the data point.                                                          *)
CollectObserved ==
    /\ cDone < Cycles
    /\ cDone' = cDone + 1
    /\ \E label \in [Trackers(trackers) -> DOMAIN trackers] :
          /\ \A t \in DOMAIN label : trackers[label[t]] = t
          /\ LET labels == {label[t] : t \in DOMAIN label}
                 values == [k \in labels |-> value[trackers[k]]]
                 before == [k \in labels |->
                                 IF temporality = "Delta" /\ k \in DOMAIN reported
                                 THEN reported[k] ELSE 0]
             IN /\ point' = [s \in Stream |->
                                IF \E k \in labels : k[1] = s
                                THEN LET k == CHOOSE k \in labels : k[1] = s
                                     IN values[k] - before[k]
                                ELSE NoPoint]
                /\ reported' = IF temporality = "Delta" THEN NewReported(labels, values)
                               ELSE reported
    /\ trackers' = EmptyMap /\ value' = NoValues /\ count' = 0
    /\ lastObserved' = observed
    /\ lastOwn' = [s \in AttributeSets |-> IF <<s, 0>> \in DOMAIN trackers THEN observed[s] ELSE 0]
    /\ observed' = [s \in AttributeSets |-> 0]
    /\ UNCHANGED <<idleVars, previous, total>>

ObservableFinished == cDone = Cycles /\ UNCHANGED <<vars, observableVars>>

ObservableNext ==
    \/ \E s \in AttributeSets, o \in ObservedOrders, x \in ObservedValues : Observe(<<s, o>>, x)
    \/ CollectObserved
    \/ ObservableFinished

ObservableSpec == ObservableInit /\ [][ObservableNext]_<<vars, observableVars>>

-----------------------------------------------------------------------------
(* "only the delta since last export is exported": the point of a set is    *)
(* what was observed less what its point stood for one cycle before.        *)
DeltaSinceLastExport ==
    [][temporality = "Delta" /\ cDone' > cDone =>
          \A s \in AttributeSets :
              observed[s] > 0 /\ <<s, 0>> \in DOMAIN trackers
                  => point'[s] = observed[s] - lastOwn[s]]_<<vars, observableVars>>
=============================================================================
