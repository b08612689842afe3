---------------------------- MODULE MCComponents ----------------------------
(***************************************************************************)
(* The tracer provider, the logger provider, the context stack, the metric *)
(* pipeline, a histogram data point, the baggage and the OTLP exporter as  *)
(* one instance for TLC.  They share no state, so a behaviour is one of    *)
(* any of them, chosen at the start, with the others at rest.              *)
(***************************************************************************)
EXTENDS TracerProvider, LoggerProvider, ContextStack, MCMetricPipeline, ExponentialHistogram,
        Baggage, OtlpExport, TLC

VARIABLE focus   \* the component this behaviour is about

ComponentsInit ==
    /\ focus \in {"traces", "logs", "context", "pipeline", "histogram", "baggage", "otlp"}
    /\ TraceInit /\ LogInit /\ Init /\ PipelineInit /\ ExpoInit /\ BaggageInit /\ OtlpInit
    /\ focus # "traces" => sampler = "RecordOnly"
    /\ focus # "pipeline" => views = <<>>
    /\ focus # "histogram" => maxSize = Max(ExpoMaxSizes)
    /\ focus # "otlp" => transport = "http"

ComponentsNext ==
    /\ UNCHANGED focus
    /\ IF focus = "traces" THEN TraceNext ELSE UNCHANGED traceVars
    /\ IF focus = "logs" THEN LogNext ELSE UNCHANGED logVars
    /\ IF focus = "context" THEN Next ELSE UNCHANGED vars
    /\ IF focus = "pipeline" THEN PipelineNext ELSE UNCHANGED pipelineState
    /\ IF focus = "histogram" THEN ExpoNext ELSE UNCHANGED expoVars
    /\ IF focus = "baggage" THEN BaggageNext ELSE UNCHANGED baggageVars
    /\ IF focus = "otlp" THEN OtlpNext ELSE UNCHANGED otlpVars

ComponentsSpec ==
    /\ ComponentsInit
    /\ [][ComponentsNext]_<<focus, traceVars, logVars, vars, pipelineState, expoVars,
                            baggageVars, otlpVars>>

ThreadSymmetry == Permutations(TraceThreads)
=============================================================================
