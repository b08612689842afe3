-------------------------- MODULE BatchLogProcessor --------------------------
(***************************************************************************)
(* The batching log processor (opentelemetry-sdk/src/logs/                 *)
(* batch_log_processor.rs).  It is the span processor step for step: the   *)
(* same two channels, counter, flag and worker loop, with emit for on_end, *)
(* ExportLog for ExportSpan and a LoggerProvider for the owner, so its     *)
(* actions are those of BatchProcessor under its own names.                *)
(*                                                                         *)
(* In the schedule of the crate's stress test threads emit, are joined,    *)
(* and only then is the processor shut down; a call that comes so late is  *)
(* marked, other calls may come at any time.                               *)
(*                                                                         *)
(* A definition marked as a slip is not part of the model: it is a wrong   *)
(* form of the definition after it, which the properties must reject.      *)
(***************************************************************************)
EXTENDS BatchProcessor

VARIABLE joined   \* history: all emitters were joined when the call began

(* LoggerProviderBuilder::build and BatchLogProcessor::set_resource *)
BuildLoggerProvider == BuildProvider

(* Slip: a full queue whose drop nobody counts. *)
EmitWithoutCounting(e) ==
    /\ BeginSpan(e)
    /\ connected
    /\ Len(spanQueue) >= MaxQueueSize
    /\ UNCHANGED <<ePc, channelVars, counterVars, ownerVars, callVars, workerVars,
                   exporterVars, historyVars>>
EmitUncounted(e) ==
    SendSpan(e) \/ EmitWithoutCounting(e) \/ SendSpanDisconnected(e) \/ FinishSpan(e)

(* BatchLogProcessor::emit *)
Emit(e) == EndSpan(e)

Joined == \A e \in Emitters : ePc[e] = "idle" /\ eSent[e] = SpansPerEmitter
NoteJoined(c) == joined' = [joined EXCEPT ![c] = Joined]

(* BatchLogProcessor::force_flush *)
FlushLogs(c) == ForceFlush(c) /\ NoteJoined(c)

(* BatchLogProcessor::shutdown_with_timeout *)
ShutdownLogs(c) == Shutdown(c) /\ NoteJoined(c)

(* The rest of a force_flush or shutdown that has begun. *)
FinishLogCall(c) == FinishCall(c)

(* The thread "OpenTelemetry.Logs.BatchProcessor" *)
LogWorker == Worker

(* LoggerProviderInner::drop *)
DropLoggerProvider == DropProvider

LogInit == Init /\ joined = [c \in Controllers |-> FALSE]

LogNext ==
    \/ \E c \in Controllers : FlushLogs(c) \/ ShutdownLogs(c)
    \/ /\ \/ BuildLoggerProvider \/ DropLoggerProvider
          \/ \E e \in Emitters : Emit(e)
          \/ \E c \in Controllers : FinishLogCall(c)
          \/ LogWorker
          \/ Finished
       /\ UNCHANGED joined

LogSpec == LogInit /\ [][LogNext]_<<vars, joined>>

-----------------------------------------------------------------------------
(* "The invariant: every log is either received or dropped": once every    *)
(* emitter was joined, a successful shutdown leaves the exporter's records  *)
(* and the dropped count adding up to everything that was emitted.          *)
AllLogsAccountedFor ==
    \A c \in Controllers :
        joined[c] /\ cKind[c] = "Shutdown" /\ cResult[c] = "Ok"
            => Len(exported) + droppedSpansCount = Cardinality(Emitters) * SpansPerEmitter
=============================================================================
