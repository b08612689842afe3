--------------------------- MODULE MCMetricStorage ---------------------------
(***************************************************************************)
(* The storage of one stream as a small instance for TLC: a counter that   *)
(* threads measure on, or an observable one, of either temporality.        *)
(***************************************************************************)
EXTENDS PrecomputedSum, TLC

NothingObserved == [s \in AttributeSets |-> 0]
CounterInit ==
    /\ Init /\ aggregator = "Increment"
    /\ reported = [k \in {} |-> 0] /\ observed = NothingObserved
    /\ lastObserved = NothingObserved /\ lastOwn = NothingObserved

StorageInit == CounterInit \/ ObservableInit
StorageNext ==
    \/ aggregator = "Increment" /\ Next /\ UNCHANGED observableVars
    \/ aggregator = "Assign" /\ ObservableNext
StorageSpec == StorageInit /\ [][StorageNext]_<<vars, observableVars>>

Symmetry == Permutations(Measurers) \cup Permutations(AttributeSets)
=============================================================================
