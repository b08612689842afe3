--------------------------- MODULE MCMetricPipeline ---------------------------
(***************************************************************************)
(* The metric pipeline as a small instance for TLC: a view matches some of *)
(* the names, whatever the scope and the kind of the instrument.           *)
(***************************************************************************)
EXTENDS MetricPipeline

NameSelections == {{i \in Instrument : i.name \in names} : names \in (SUBSET Name) \ {{}}}
=============================================================================
