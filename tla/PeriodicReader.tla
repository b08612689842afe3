--------------------------- MODULE PeriodicReader ---------------------------
(***************************************************************************)
(* A meter provider with one periodic reader                               *)
(* (opentelemetry-sdk/src/metrics/periodic_reader.rs, meter_provider.rs,   *)
(* pipeline.rs): user threads create an instrument, record on it, flush,   *)
(* shut the provider down or drop their handle, while the reader's thread  *)
(* collects the pipeline and exports.                                      *)
(*                                                                         *)
(* Measurements are members of sets: the storage that adds them up has a   *)
(* module of its own (ValueMap).  The reader's `producer` mutex is taken   *)
(* by register_pipeline before there is a user and by the reader's thread  *)
(* alone afterwards, and is left out.  Time is counted in ticks; the       *)
(* reader's thread is woken without delay, and a collection with its       *)
(* export takes at most MaxExportTime of them.                             *)
(*                                                                         *)
(* A definition marked as a slip is not part of the model: it is a wrong   *)
(* form of the definition after it, which the properties must reject.      *)
(***************************************************************************)
EXTENDS Integers, FiniteSets, Sequences

CONSTANTS
    MetricUsers,           \* threads of the program
    MaxMeasurements,       \* bound on what they record
    CallsPerUser,          \* bound on the calls of force_flush and shutdown of each
    Interval,              \* ticks between two periodic exports
    MaxExportTime,         \* bound on the ticks a collection and its export take
    NoOwner                \* the owner of a free mutex

ASSUME ReaderAssumption ==
    /\ MaxMeasurements \in Nat /\ CallsPerUser \in Nat
    /\ Interval \in Nat \ {0} /\ MaxExportTime \in Nat
    /\ NoOwner \notin MetricUsers

VARIABLES
    shutdownInvoked,  \* SdkMeterProviderInner::shutdown_invoked
    handles,          \* users that hold an SdkMeterProvider
    cacheOwner,       \* owner of the instrument cache's mutex
    registered,       \* how often the instrument is in PipelineInner::aggregations,
                      \* and so whether the cache has it
    pipelineOwner,    \* owner of PipelineInner's mutex
    pending,          \* measurements that no collection has taken
    queue,            \* the channel of messages, oldest first
    rPc, rMessage,    \* the reader's thread: step and message at hand
    rBatch, rOk,      \* what it collected, and whether the export succeeded
    elapsed,          \* ticks since interval_start: mostly the end of a timer's export
    remaining,        \* ticks until recv_timeout gives up
    busy,             \* ticks since this collection began
    uPc, hasInstrument, \* a user: its step, and whether it holds the instrument
    uKind, uCalls,    \* its call at hand and the number of calls so far
    reply, uResult,   \* the response channel and what the call returned
    arrived, unexported, \* measurements by the outcome of their export
    exporterDown,     \* the exporter was shut down
    recorded,         \* history: number of measurements; they are 1..recorded
    uMust,            \* history: how many there were before the user's call
    sinceCollection   \* history: ticks since a collection began

providerVars == <<shutdownInvoked, handles>>
pipelineVars == <<cacheOwner, registered, pipelineOwner>>
clockVars == <<elapsed, remaining, busy, sinceCollection>>
threadVars == <<rPc, rMessage, rBatch, rOk>>
userVars == <<uPc, uKind, uCalls, uResult, uMust>>
outcomeVars == <<arrived, unexported, exporterDown>>
readerVars == <<providerVars, pipelineVars, clockVars, threadVars, userVars, outcomeVars,
                pending, queue, hasInstrument, reply, recorded>>

ReaderMessage == [kind : {"Flush", "Shutdown"}, by : MetricUsers]
TimerMessage == [kind |-> "Timer", by |-> NoOwner]

(* SdkMeterProvider::build and PeriodicReader::new: one clone of the handle *)
(* for each user, the reader's thread waiting for a whole interval.         *)
ReaderInit ==
    /\ shutdownInvoked = FALSE /\ handles = MetricUsers
    /\ cacheOwner = NoOwner /\ registered = 0 /\ pipelineOwner = NoOwner
    /\ pending = {} /\ queue = <<>>
    /\ rPc = "recv" /\ rMessage = TimerMessage /\ rBatch = {} /\ rOk = TRUE
    /\ elapsed = 0 /\ remaining = Interval /\ busy = 0 /\ sinceCollection = 0
    /\ uPc = [u \in MetricUsers |-> "idle"] /\ hasInstrument = [u \in MetricUsers |-> FALSE]
    /\ uKind = [u \in MetricUsers |-> "none"] /\ uCalls = [u \in MetricUsers |-> 0]
    /\ reply = [u \in MetricUsers |-> "none"] /\ uResult = [u \in MetricUsers |-> "none"]
    /\ arrived = {} /\ unexported = {} /\ exporterDown = FALSE
    /\ recorded = 0 /\ uMust = [u \in MetricUsers |-> 0]

-----------------------------------------------------------------------------
(* Instruments: meter_with_scope, then Inserter::cached_aggregator, which   *)
(* keeps the cache's mutex while it adds the instrument to the pipeline.    *)
(* After shutdown there is a no-op instrument, which is no instrument here. *)

(* Slip: the cache is looked up without its mutex. *)
LookupAnyTime(u) == UNCHANGED cacheOwner
LockCache(u) == cacheOwner = NoOwner /\ cacheOwner' = u

GetInstrument(u) ==
    /\ u \in handles /\ uPc[u] = "idle" /\ ~hasInstrument[u] /\ ~shutdownInvoked
    /\ IF registered > 0
       THEN /\ cacheOwner = NoOwner
            /\ hasInstrument' = [hasInstrument EXCEPT ![u] = TRUE] /\ UNCHANGED <<uPc, cacheOwner>>
       ELSE LockCache(u) /\ uPc' = [uPc EXCEPT ![u] = "register"] /\ UNCHANGED hasInstrument
    /\ UNCHANGED <<providerVars, registered, pipelineOwner, clockVars, threadVars,
                   uKind, uCalls, uResult, uMust, outcomeVars, pending, queue, reply, recorded>>

(* Pipeline::add_sync waits for a collection to let go of the pipeline. *)
AddInstrument(u) ==
    /\ uPc[u] = "register" /\ pipelineOwner = NoOwner
    /\ registered' = registered + 1 /\ cacheOwner' = NoOwner
    /\ uPc' = [uPc EXCEPT ![u] = "idle"] /\ hasInstrument' = [hasInstrument EXCEPT ![u] = TRUE]
    /\ UNCHANGED <<providerVars, pipelineOwner, clockVars, threadVars, uKind, uCalls, uResult,
                   uMust, outcomeVars, pending, queue, reply, recorded>>

(* A measurement takes no lock of the provider and needs no handle. *)
Record(u) ==
    /\ uPc[u] = "idle" /\ hasInstrument[u]
    /\ recorded < MaxMeasurements
    /\ recorded' = recorded + 1 /\ pending' = pending \cup {recorded'}
    /\ UNCHANGED <<providerVars, pipelineVars, clockVars, threadVars, userVars, outcomeVars,
                   queue, hasInstrument, reply>>

-----------------------------------------------------------------------------
(* SdkMeterProvider::force_flush, shutdown and Drop *)

Begin(u, kind, pc, result) ==
    /\ uKind' = [uKind EXCEPT ![u] = kind] /\ uPc' = [uPc EXCEPT ![u] = pc]
    /\ uResult' = [uResult EXCEPT ![u] = result] /\ uMust' = [uMust EXCEPT ![u] = recorded]
    /\ reply' = [reply EXCEPT ![u] = "none"]

BeginFlush(u) ==
    /\ u \in handles /\ uPc[u] = "idle" /\ uCalls[u] < CallsPerUser
    /\ uCalls' = [uCalls EXCEPT ![u] = @ + 1]
    /\ IF shutdownInvoked THEN Begin(u, "Flush", "idle", "AlreadyShutdown")
                          ELSE Begin(u, "Flush", "send", "none")
    /\ UNCHANGED <<providerVars, pipelineVars, clockVars, threadVars, outcomeVars, pending,
                   queue, hasInstrument, recorded>>

BeginShutdown(u) ==
    /\ u \in handles /\ uPc[u] = "idle" /\ uCalls[u] < CallsPerUser
    /\ uCalls' = [uCalls EXCEPT ![u] = @ + 1]
    /\ shutdownInvoked' = TRUE
    /\ IF shutdownInvoked THEN Begin(u, "Shutdown", "idle", "AlreadyShutdown")
                          ELSE Begin(u, "Shutdown", "send", "none")
    /\ UNCHANGED <<handles, pipelineVars, clockVars, threadVars, outcomeVars, pending, queue,
                   hasInstrument, recorded>>

(* Drop for SdkMeterProviderInner, on the thread of the last handle. *)
DropInner(u) ==
    IF handles = {u} /\ ~shutdownInvoked
    THEN shutdownInvoked' = TRUE /\ Begin(u, "Drop", "send", "none")
    ELSE UNCHANGED <<shutdownInvoked, uPc, uKind, uResult, uMust, reply>>

DropHandle(u) ==
    /\ u \in handles /\ uPc[u] = "idle"
    /\ handles' = handles \ {u}
    /\ DropInner(u)
    /\ UNCHANGED <<pipelineVars, clockVars, threadVars, uCalls, outcomeVars, pending, queue,
                   hasInstrument, recorded>>

Finish(u, result) ==
    uPc' = [uPc EXCEPT ![u] = "idle"] /\ uResult' = [uResult EXCEPT ![u] = result]

(* The message is sent; it fails once the receiver is gone. *)
Send(u) ==
    /\ uPc[u] = "send"
    /\ IF rPc = "exited"
       THEN Finish(u, "InternalFailure") /\ UNCHANGED queue
       ELSE /\ queue' = Append(queue, [kind |-> IF uKind[u] = "Flush" THEN "Flush" ELSE "Shutdown",
                                       by |-> u])
            /\ uPc' = [uPc EXCEPT ![u] = "wait"] /\ UNCHANGED uResult
    /\ UNCHANGED <<providerVars, pipelineVars, clockVars, threadVars, uKind, uCalls, uMust,
                   outcomeVars, pending, hasInstrument, reply, recorded>>

(* A response, or the channel closed without one. *)
Receive(u) ==
    /\ uPc[u] = "wait" /\ reply[u] # "none"
    /\ Finish(u, IF reply[u] = "true" THEN "Ok" ELSE "InternalFailure")
    /\ UNCHANGED <<providerVars, pipelineVars, clockVars, threadVars, uKind, uCalls, uMust,
                   outcomeVars, pending, queue, hasInstrument, reply, recorded>>

(* recv_timeout of shutdown; a flush has no deadline. *)
GiveUp(u) ==
    /\ uPc[u] = "wait" /\ uKind[u] # "Flush" /\ reply[u] = "none"
    /\ Finish(u, "Timeout")
    /\ UNCHANGED <<providerVars, pipelineVars, clockVars, threadVars, uKind, uCalls, uMust,
                   outcomeVars, pending, queue, hasInstrument, reply, recorded>>

-----------------------------------------------------------------------------
(* The thread "OpenTelemetry.Metrics.PeriodicReader" *)

(* Slip: a shutdown only shuts the exporter down. *)
WithoutFinalExport(message) == IF message.kind = "Shutdown" THEN "done" ELSE "collect"
FirstStep(message) == "collect"
StartCollection(message) ==
    /\ rMessage' = message /\ rPc' = FirstStep(message) /\ rBatch' = {} /\ rOk' = TRUE
    /\ busy' = 0 /\ sinceCollection' = 0
    /\ UNCHANGED <<providerVars, pipelineVars, elapsed, remaining, userVars, outcomeVars,
                   pending, hasInstrument, reply, recorded>>

RecvMessage == rPc = "recv" /\ queue # <<>> /\ queue' = Tail(queue) /\ StartCollection(Head(queue))
RecvTimeout ==
    /\ rPc = "recv" /\ queue = <<>> /\ remaining = 0
    /\ UNCHANGED queue /\ StartCollection(TimerMessage)

(* PeriodicReaderInner::collect: the pipeline lives while the provider or   *)
(* its destructor does.                                                     *)
PipelineAlive == handles # {} \/ \E u \in MetricUsers : uPc[u] # "idle" /\ uKind[u] = "Drop"
BeginProduce ==
    /\ rPc = "collect"
    /\ IF PipelineAlive
       THEN /\ pipelineOwner = NoOwner /\ pipelineOwner' = "worker"
            /\ rPc' = "callbacks" /\ UNCHANGED rOk
       ELSE rPc' = "done" /\ rOk' = FALSE /\ UNCHANGED pipelineOwner
    /\ UNCHANGED <<providerVars, cacheOwner, registered, clockVars, rMessage, rBatch,
                   userVars, outcomeVars, pending, queue, hasInstrument, reply, recorded>>

(* Pipeline::produce: the callbacks have run, every aggregation is read.    *)
(* With nothing to report there is no export.                               *)
EndProduce ==
    /\ rPc = "callbacks" /\ pipelineOwner' = NoOwner
    /\ rBatch' = pending /\ pending' = {}
    /\ rPc' = IF pending = {} THEN "done" ELSE "export"
    /\ UNCHANGED <<providerVars, cacheOwner, registered, clockVars, rMessage, rOk,
                   userVars, outcomeVars, queue, hasInstrument, reply, recorded>>

(* PushMetricExporter::export: what a failed export carried is not kept. *)
Export ==
    /\ rPc = "export" /\ rPc' = "done" /\ rBatch' = {}
    /\ \/ rOk' = TRUE /\ arrived' = arrived \cup rBatch /\ UNCHANGED unexported
       \/ rOk' = FALSE /\ unexported' = unexported \cup rBatch /\ UNCHANGED arrived
    /\ UNCHANGED <<providerVars, pipelineVars, clockVars, rMessage, userVars, exporterDown,
                   pending, queue, hasInstrument, reply, recorded>>

(* Back at the top of the loop, whose locals are gone. *)
NextMessage == rPc' = "recv" /\ rMessage' = TimerMessage /\ rOk' = TRUE

(* Slip: the time the export took is forgotten. *)
FullInterval == elapsed' = 0 /\ remaining' = Interval
(* The next export comes an interval after this one began, or at once. *)
NextInterval ==
    /\ elapsed' = 0
    /\ remaining' = IF busy > Interval THEN 0 ELSE Interval - busy
AnswerTimer ==
    /\ rPc = "done" /\ rMessage = TimerMessage
    /\ NextMessage /\ NextInterval
    /\ UNCHANGED <<providerVars, pipelineVars, busy, sinceCollection, rBatch, userVars,
                   outcomeVars, pending, queue, hasInstrument, reply, recorded>>

Respond(ok) == reply' = [reply EXCEPT ![rMessage.by] = IF ok THEN "true" ELSE "false"]

(* The interval is counted from interval_start, which is where the timer's  *)
(* last export ended: a flush puts the next one off by the time that took.  *)
(* One that was missed is asked for at once, and put off again by a flush   *)
(* that is queued already.                                                  *)
AnswerFlush ==
    /\ rPc = "done" /\ rMessage.kind = "Flush"
    /\ NextMessage /\ Respond(rOk)
    /\ IF elapsed < Interval THEN remaining' = Interval - elapsed /\ UNCHANGED elapsed
                             ELSE remaining' = 0 /\ elapsed' = 0
    /\ UNCHANGED <<providerVars, pipelineVars, busy, sinceCollection, rBatch, userVars,
                   outcomeVars, pending, queue, hasInstrument, recorded>>

ShutdownExporter ==
    /\ rPc = "done" /\ rMessage.kind = "Shutdown"
    /\ exporterDown' = TRUE
    /\ \E ok \in BOOLEAN : Respond(rOk /\ ok)
    /\ rPc' = "exit"
    /\ UNCHANGED <<providerVars, pipelineVars, clockVars, rMessage, rBatch, rOk, userVars, arrived,
                   unexported, pending, queue, hasInstrument, recorded>>

(* Slip: the messages behind the shutdown keep their response channels. *)
ExitKeepingQueue == rPc' = "exited" /\ UNCHANGED <<queue, reply>>
(* The receiver is dropped, and the queued messages with their response     *)
(* channels: their callers see the channel close.                           *)
LeaveLoop ==
    /\ rPc' = "exited" /\ queue' = <<>>
    /\ reply' = [u \in MetricUsers |->
                    IF \E i \in DOMAIN queue : queue[i].by = u THEN "closed" ELSE reply[u]]
Exit ==
    /\ rPc = "exit" /\ LeaveLoop
    /\ UNCHANGED <<providerVars, pipelineVars, clockVars, rMessage, rBatch, rOk, userVars,
                   outcomeVars, pending, hasInstrument, recorded>>

(* A tick passes while the thread waits, or while it is at its work. *)
Tick ==
    /\ \/ rPc = "recv" /\ queue = <<>> /\ remaining > 0
          /\ remaining' = remaining - 1 /\ UNCHANGED busy
       \/ rPc \in {"collect", "callbacks", "export"} /\ busy < MaxExportTime
          /\ busy' = busy + 1 /\ UNCHANGED remaining
    /\ elapsed' = elapsed + 1 /\ sinceCollection' = sinceCollection + 1
    /\ UNCHANGED <<providerVars, pipelineVars, threadVars, userVars, outcomeVars, pending, queue,
                   hasInstrument, reply, recorded>>

ReaderThread ==
    \/ RecvMessage \/ RecvTimeout \/ BeginProduce \/ EndProduce \/ Export
    \/ AnswerTimer \/ AnswerFlush \/ ShutdownExporter \/ Exit
UserCall(u) == BeginFlush(u) \/ BeginShutdown(u) \/ DropHandle(u) \/ GiveUp(u)
UserWaits(u) == Send(u) \/ Receive(u)

ReaderNext ==
    \/ ReaderThread \/ Tick
    \/ \E u \in MetricUsers :
          GetInstrument(u) \/ AddInstrument(u) \/ Record(u) \/ UserCall(u) \/ UserWaits(u)

(* The reader's thread and a thread inside a call keep running; nobody has  *)
(* to make a call, to record or to run out of patience.                     *)
ReaderFairness ==
    WF_readerVars(ReaderThread) /\ \A u \in MetricUsers : WF_readerVars(UserWaits(u))
ReaderSpec == ReaderInit /\ [][ReaderNext]_readerVars /\ ReaderFairness

-----------------------------------------------------------------------------
(* What a force_flush or a shutdown that returned Ok stands for: everything *)
(* recorded before the call was handed to the exporter, which a shutdown    *)
(* has shut down, and a shut down exporter is given nothing more.           *)
AnsweredMeansExported ==
    /\ \A u \in MetricUsers :
          uPc[u] = "idle" /\ uResult[u] = "Ok" =>
             /\ 1..uMust[u] \subseteq arrived \cup unexported
             /\ uKind[u] # "Flush" => exporterDown
    /\ exporterDown => rPc \in {"exit", "exited"}

(* "the exact instrument": an instrument is in the pipeline once whoever    *)
(* created it, from the moment someone can record on it, and each of its    *)
(* measurements is in one place: the storage, the export at hand, or one    *)
(* export that is over.                                                     *)
CollectedOnce ==
    /\ (\E u \in MetricUsers : hasInstrument[u]) => registered = 1
    /\ 1..recorded = pending \cup rBatch \cup arrived \cup unexported
    /\ recorded = Cardinality(pending) + Cardinality(rBatch)
                               + Cardinality(arrived) + Cardinality(unexported)

(* However flushes and slow exports move the timer, the wait from the start *)
(* of one collection to that of the next is at most an interval, or the     *)
(* time the first took when that is longer.                                 *)
CollectionsInTime ==
    rPc = "recv" =>
        sinceCollection + remaining <= IF Interval > busy THEN Interval ELSE busy

(* "The time taken for export is not included in the interval": the timer   *)
(* exports no sooner than an interval after its last export was over.       *)
ExportTimeNotInInterval ==
    [][rPc = "recv" /\ rPc' = "collect" /\ rMessage' = TimerMessage
          => elapsed >= Interval]_readerVars

(* Every force_flush, shutdown and drop of a provider returns, although a   *)
(* flush waits without a deadline and a shutdown may overtake it; and once  *)
(* the provider is gone the reader's thread ends.                           *)
CallsReturn ==
    /\ \A u \in MetricUsers : uPc[u] \in {"send", "wait"} ~> uPc[u] = "idle"
    /\ handles = {} ~> rPc = "exited"
=============================================================================
