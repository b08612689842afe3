-------------------------- MODULE TelemetryBuffer --------------------------
(***************************************************************************)
(* What a batching processor promises to the pipeline, whatever threads,   *)
(* channels and counters it is made of: finished items are taken in one at *)
(* a time, leave in the order in which they were taken in and in batches   *)
(* no larger than BatchLimit, and never twice.  The buffer may be closed   *)
(* once; what it still holds then is gone.                                 *)
(* BatchProcessor is shown to implement this module.                       *)
(***************************************************************************)
EXTENDS Naturals, Sequences

CONSTANTS Items,       \* what may be buffered
          BatchLimit   \* the most items one export may carry

VARIABLES pending,     \* items taken in and not yet handed to the exporter
          exported,    \* items handed to the exporter, oldest first
          open         \* the buffer still takes items in

bufferVars == <<pending, exported, open>>

Init ==
    /\ pending = <<>>
    /\ exported = <<>>
    /\ open = TRUE

Known == {pending[i] : i \in DOMAIN pending} \cup {exported[i] : i \in DOMAIN exported}

(* An item is taken in.  Items are unique: the same one never comes twice.  *)
Offer(item) ==
    /\ open
    /\ item \notin Known
    /\ pending' = Append(pending, item)
    /\ UNCHANGED <<exported, open>>

(* The n oldest items go to the exporter in one call. *)
Export(n) ==
    /\ n \in 1..Len(pending)
    /\ n <= BatchLimit
    /\ exported' = exported \o SubSeq(pending, 1, n)
    /\ pending' = SubSeq(pending, n + 1, Len(pending))
    /\ UNCHANGED open

Close ==
    /\ open
    /\ open' = FALSE
    /\ pending' = <<>>
    /\ UNCHANGED exported

Next ==
    \/ \E item \in Items : Offer(item)
    \/ \E n \in 1..BatchLimit : Export(n)
    \/ Close

Spec == Init /\ [][Next]_bufferVars
=============================================================================
