------------------------- MODULE AsyncBatchProcessor -------------------------
(***************************************************************************)
(* The batch processors that run on an async runtime (opentelemetry-sdk/   *)
(* src/trace/span_processor_with_async_runtime.rs and                      *)
(* src/logs/log_processor_with_async_runtime.rs).                          *)
(*                                                                         *)
(* Spans and control messages share one bounded channel, into which        *)
(* everybody try_sends.  One task reads it, merged with a ticker, and owns *)
(* the exports in flight: those are polled, and so can begin and complete, *)
(* only while the task waits for them.  An export that takes too long      *)
(* counts as one that failed.  The log processor is the one without exports*)
(* in flight; it answers a shutdown after the exporter was shut down, the  *)
(* span processor before.                                                  *)
(*                                                                         *)
(* A definition marked as a slip is not part of the model: it is a wrong   *)
(* form of the definition after it, which the properties must reject.      *)
(***************************************************************************)
EXTENDS Integers, FiniteSets, Sequences, SequencesExt

CONSTANTS
    AsyncCallers,        \* threads that flush and shut down
    CallsPerCaller,      \* bound on the calls of each
    AcceptedSpans,       \* bound on the spans or log records the channel takes
    ChannelCapacity,     \* max_queue_size
    AsyncBatchSize,      \* max_export_batch_size
    ConcurrentExports    \* the values of max_concurrent_exports: 0 is no limit

ASSUME AsyncAssumption ==
    /\ AcceptedSpans \in Nat /\ CallsPerCaller \in Nat
    /\ ChannelCapacity \in Nat \ {0} /\ AsyncBatchSize \in Nat \ {0}
    /\ ConcurrentExports \subseteq Nat

VARIABLES
    maxConcurrent,      \* max_concurrent_exports of this processor
    forLogs,            \* whether it is the log processor
    channel,            \* the messages
    step, job,          \* the task: where it awaits, and the message it processes
    spans,              \* its buffer
    own, ownOk,         \* the batch it exports itself, and the outcome
    unpolled, tasks,    \* export_tasks: batches not polled yet, and those in flight
    replyTask,          \* the pushed task that sends the reply has not run
    completed,          \* spans whose export is over
    exporterStopped,    \* the exporter was shut down
    callStep, callKind, calls, \* a caller, its call at hand and number of calls
    answer,             \* what its oneshot channel, or the failed try_send, holds
    received, handed,   \* history: spans the channel took, numbered as they came,
                        \* and spans in the order they were handed to the exporter
    callMust            \* history: how many the channel had taken before the call

taskVars == <<step, job, spans, own, ownOk, unpolled, tasks, replyTask>>
exportVars == <<completed, exporterStopped, handed>>
asyncCallVars == <<callStep, callKind, calls, callMust>>
asyncVars == <<maxConcurrent, forLogs, received, channel, taskVars, exportVars,
               asyncCallVars, answer>>

Entry(kind, of) == [kind |-> kind, of |-> of]
NoJob == Entry("None", 0)

(* BatchSpanProcessor::new; the provider's resource is the first message. *)
AsyncInit ==
    /\ \/ forLogs = FALSE /\ maxConcurrent \in ConcurrentExports
       \/ forLogs = TRUE /\ maxConcurrent = 1
    /\ received = 0 /\ channel = <<Entry("SetResource", 0)>>
    /\ step = "select" /\ job = NoJob /\ spans = <<>>
    /\ own = <<>> /\ ownOk = TRUE /\ unpolled = <<>> /\ tasks = {} /\ replyTask = FALSE
    /\ completed = {} /\ exporterStopped = FALSE /\ handed = <<>>
    /\ callStep = [c \in AsyncCallers |-> "idle"] /\ callKind = [c \in AsyncCallers |-> "none"]
    /\ calls = [c \in AsyncCallers |-> 0]
    /\ answer = [c \in AsyncCallers |-> "none"] /\ callMust = [c \in AsyncCallers |-> 0]

-----------------------------------------------------------------------------
(* The processor's side *)

HasRoom == step # "stopped" /\ Len(channel) < ChannelCapacity

(* on_end, emit; a span that finds no room is dropped, which only the       *)
(* warning at shutdown tells.                                               *)
OnEndAsync ==
    /\ received < AcceptedSpans /\ HasRoom
    /\ received' = received + 1
    /\ channel' = Append(channel, Entry("Span", received'))
    /\ UNCHANGED <<maxConcurrent, forLogs, taskVars, exportVars, asyncCallVars, answer>>

(* force_flush, shutdown: no room is an error, else wait without a deadline. *)
CallAsync(c, kind) ==
    /\ callStep[c] = "idle" /\ calls[c] < CallsPerCaller
    /\ calls' = [calls EXCEPT ![c] = @ + 1] /\ callKind' = [callKind EXCEPT ![c] = kind]
    /\ callMust' = [callMust EXCEPT ![c] = received]
    /\ IF HasRoom
       THEN /\ channel' = Append(channel, Entry(kind, c))
            /\ callStep' = [callStep EXCEPT ![c] = "wait"] /\ answer' = [answer EXCEPT ![c] = "none"]
       ELSE answer' = [answer EXCEPT ![c] = "no room"] /\ UNCHANGED <<channel, callStep>>
    /\ UNCHANGED <<maxConcurrent, forLogs, received, taskVars, exportVars>>

ReturnAsync(c) ==
    /\ callStep[c] = "wait" /\ answer[c] # "none"
    /\ callStep' = [callStep EXCEPT ![c] = "idle"]
    /\ UNCHANGED <<maxConcurrent, forLogs, received, channel, taskVars, exportVars, callKind,
                   calls, callMust, answer>>

-----------------------------------------------------------------------------
(* The task: select! over the exports in flight, the channel and the ticker *)

(* Slip: the batch is a copy. *)
TakeCopy(batch) == own' = batch /\ UNCHANGED spans /\ handed' = handed \o batch
(* The buffer becomes a batch; an empty one is never exported. *)
TakeBatch(batch) == own' = batch /\ spans' = <<>> /\ handed' = handed \o batch

Full(buffer) == Len(buffer) = AsyncBatchSize
(* Back at select!, whose locals are gone. *)
NextRound == step' = "select" /\ job' = NoJob /\ ownOk' = TRUE
Move(next) == step' = next /\ UNCHANGED <<job, ownOk>>

BufferSpan(buffer) ==
    /\ spans' = buffer /\ step' = IF Full(buffer) THEN "saturated" ELSE "select"
    /\ UNCHANGED <<job, own, handed>>
Process(message) ==
    /\ IF message.kind = "Span" THEN BufferSpan(Append(spans, message.of))
       ELSE /\ job' = message
            /\ IF message.kind = "SetResource"
               THEN step' = "exporter" /\ UNCHANGED <<spans, own, handed>>
               ELSE step' = "export" /\ TakeBatch(spans)
    /\ UNCHANGED <<maxConcurrent, forLogs, received, ownOk, unpolled, tasks, replyTask, completed,
                   exporterStopped, asyncCallVars, answer>>

ReceiveAsync ==
    step = "select" /\ channel # <<>> /\ channel' = Tail(channel) /\ Process(Head(channel))
TickAsync == step = "select" /\ UNCHANGED channel /\ Process(Entry("Tick", 0))

(* The exports in flight are polled: one begins, in the order in which they *)
(* were pushed, or one completes, in time or not.                           *)
InFlight == Len(unpolled) + Cardinality(tasks)
Saturated == InFlight # 0 /\ InFlight = maxConcurrent
PollsExports == step \in {"select", "drain"} \/ (step = "saturated" /\ Saturated)
BeginExport ==
    /\ PollsExports /\ unpolled # <<>>
    /\ unpolled' = Tail(unpolled) /\ tasks' = tasks \cup {Head(unpolled)}
    /\ handed' = handed \o Head(unpolled)
    /\ UNCHANGED <<maxConcurrent, forLogs, received, channel, step, job, spans, own, ownOk,
                   replyTask, completed, exporterStopped, asyncCallVars, answer>>
CompleteExport ==
    /\ PollsExports
    /\ \E batch \in tasks :
          tasks' = tasks \ {batch} /\ completed' = completed \cup ToSet(batch)
    /\ UNCHANGED <<maxConcurrent, forLogs, received, channel, step, job, spans, own, ownOk, unpolled,
                   replyTask, handed, exporterStopped, asyncCallVars, answer>>

(* A full batch is awaited when exports are not concurrent, else it is      *)
(* pushed as soon as there is a place for it.                               *)
StartExport ==
    /\ step = "saturated" /\ ~Saturated
    /\ IF maxConcurrent = 1
       THEN Move("export") /\ TakeBatch(spans) /\ UNCHANGED unpolled
       ELSE /\ NextRound /\ unpolled' = Append(unpolled, spans)
            /\ spans' = <<>> /\ UNCHANGED <<own, handed>>
    /\ UNCHANGED <<maxConcurrent, forLogs, received, channel, tasks, replyTask, completed,
                   exporterStopped, asyncCallVars, answer>>

(* The task's own export is over. *)
FinishExport ==
    /\ step = "export"
    /\ completed' = completed \cup ToSet(own) /\ own' = <<>>
    /\ IF job = NoJob THEN NextRound
       ELSE /\ step' = "reply" /\ UNCHANGED job
            /\ ownOk' \in IF own = <<>> THEN {TRUE} ELSE BOOLEAN
    /\ UNCHANGED <<maxConcurrent, forLogs, received, channel, spans, unpolled, tasks, replyTask,
                   handed, exporterStopped, asyncCallVars, answer>>

SendAnswer ==
    answer' = IF job.kind \in {"Flush", "Shutdown"}
              THEN [answer EXCEPT ![job.of] = IF ownOk THEN "Ok" ELSE "Err"] ELSE answer
AfterReply == IF job.kind = "Shutdown" THEN Move("exporter") ELSE NextRound

(* The end of `flush`: the reply is sent at once, or by one more task among *)
(* the exports in flight, which are all awaited.                            *)
ReplyNow ==
    /\ step = "reply" /\ maxConcurrent = 1 /\ AfterReply
    /\ IF forLogs /\ job.kind = "Shutdown" THEN UNCHANGED answer ELSE SendAnswer
    /\ UNCHANGED <<maxConcurrent, forLogs, received, channel, spans, own, unpolled, tasks,
                   replyTask, exportVars, asyncCallVars>>
PushReply ==
    /\ step = "reply" /\ maxConcurrent # 1
    /\ replyTask' = TRUE /\ step' = "drain"
    /\ UNCHANGED <<maxConcurrent, forLogs, received, channel, job, spans, own, ownOk, unpolled,
                   tasks, exportVars, asyncCallVars, answer>>
RunReplyTask ==
    /\ step = "drain" /\ unpolled = <<>> /\ replyTask /\ replyTask' = FALSE /\ SendAnswer
    /\ UNCHANGED <<maxConcurrent, forLogs, received, channel, step, job, spans, own, ownOk,
                   unpolled, tasks, exportVars, asyncCallVars>>

(* Slip: only the reply is awaited. *)
ReplyDrained == ~replyTask
Drained == ~replyTask /\ InFlight = 0
FinishDrain ==
    /\ step = "drain" /\ Drained /\ AfterReply
    /\ UNCHANGED <<maxConcurrent, forLogs, received, channel, spans, own, unpolled, tasks,
                   replyTask, exportVars, asyncCallVars, answer>>

(* Slip: queued callers are not told that the task is over. *)
LeaveChannel == UNCHANGED <<channel, answer>>
(* The receiver goes: whoever waits in the channel learns of it; the log    *)
(* processor answers its shutdown first.                                    *)
CloseChannel ==
    /\ channel' = <<>>
    /\ answer' = [c \in AsyncCallers |->
                     IF \E i \in DOMAIN channel : channel[i].of = c THEN "canceled"
                     ELSE IF forLogs /\ job.of = c THEN (IF ownOk THEN "Ok" ELSE "Err")
                     ELSE answer[c]]

(* exporter.write(): every export in flight holds the exporter for reading, *)
(* and none of them is polled here.                                         *)
UseExporter ==
    /\ step = "exporter" /\ tasks = {}
    /\ IF job.kind = "Shutdown"
       THEN exporterStopped' = TRUE /\ Move("stopped") /\ CloseChannel
       ELSE NextRound /\ UNCHANGED <<exporterStopped, channel, answer>>
    /\ UNCHANGED <<maxConcurrent, forLogs, received, spans, own, unpolled, tasks, replyTask,
                   completed, handed, asyncCallVars>>

AsyncTask ==
    \/ BeginExport \/ CompleteExport \/ StartExport \/ FinishExport
    \/ ReplyNow \/ PushReply \/ RunReplyTask \/ FinishDrain \/ UseExporter

AsyncNext ==
    \/ OnEndAsync \/ ReceiveAsync \/ TickAsync \/ AsyncTask
    \/ \E c \in AsyncCallers :
          CallAsync(c, "Flush") \/ CallAsync(c, "Shutdown") \/ ReturnAsync(c)

(* The runtime polls the task, exports end or time out, and stream::select  *)
(* takes turns between the channel and the ticker.                          *)
AsyncFairness ==
    /\ WF_asyncVars(AsyncTask) /\ SF_asyncVars(ReceiveAsync)
    /\ \A c \in AsyncCallers : WF_asyncVars(ReturnAsync(c))
AsyncSpec == AsyncInit /\ [][AsyncNext]_asyncVars /\ AsyncFairness

-----------------------------------------------------------------------------
(* A span the channel took is in one place: handed to the exporter, in an   *)
(* export that was not polled yet, buffered or queued; without concurrent   *)
(* exports they are handed over in order (with them a flush may overtake).  *)
(* One handed over is in flight or over, and what a flush or shutdown       *)
(* answers for was handed over before.                                      *)
SpanOf(message) == IF message.kind = "Span" THEN <<message.of>> ELSE <<>>
SpansIn(messages) == FlattenSeq([i \in DOMAIN messages |-> SpanOf(messages[i])])
Everywhere == handed \o FlattenSeq(unpolled) \o spans \o SpansIn(channel)
SpansHandedOver ==
    /\ step # "stopped" =>
          /\ ToSet(Everywhere) = 1..received /\ Len(Everywhere) = received
          /\ maxConcurrent = 1 => Everywhere = [i \in 1..received |-> i]
    /\ ToSet(handed) = completed \cup ToSet(own) \cup UNION {ToSet(batch) : batch \in tasks}
    /\ \A c \in AsyncCallers :
          answer[c] \in {"Ok", "Err"} => 1..callMust[c] \subseteq ToSet(handed)

(* The task never waits for the exporter while exports that only it can     *)
(* poll hold it; no more exports are in flight than max_concurrent_exports  *)
(* says, unless that is 0; the exporter is shut down after the last of      *)
(* them; and a log processor that has answered a shutdown has shut its      *)
(* exporter down.                                                           *)
ExporterNeverStuck ==
    /\ step = "exporter" \/ exporterStopped => tasks = {} /\ unpolled = <<>> /\ own = <<>>
    /\ maxConcurrent # 0 => InFlight <= IF maxConcurrent = 1 THEN 0 ELSE maxConcurrent
    /\ \A c \in AsyncCallers :
          forLogs /\ callKind[c] = "Shutdown" /\ answer[c] \in {"Ok", "Err"} => exporterStopped

(* Although they wait without a deadline, every flush and shutdown returns, *)
(* also one that was queued behind a shutdown.                              *)
AsyncCallsReturn == \A c \in AsyncCallers : callStep[c] = "wait" ~> callStep[c] = "idle"
=============================================================================
