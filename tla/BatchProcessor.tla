--------------------------- MODULE BatchProcessor ---------------------------
(***************************************************************************)
(* The batching span processor with a dedicated background thread           *)
(* (opentelemetry-sdk/src/trace/span_processor.rs).                        *)
(*                                                                         *)
(* Application threads end spans (on_end) and call force_flush and         *)
(* shutdown; one worker thread owns the receiving ends of a bounded span   *)
(* channel and of a bounded control channel, and the exporter.  Every      *)
(* access to something two threads share (a channel operation, an atomic   *)
(* load, swap, fetch_add or fetch_sub) is a step of its own.  The atomics  *)
(* are sequentially consistent here; the code uses Relaxed.                *)
(*                                                                         *)
(* A span is <<e, n>>: the n-th span ended by thread e.                    *)
(*                                                                         *)
(* A definition marked as a slip is not part of the model: it is a wrong   *)
(* form of the definition after it, which the properties must reject.      *)
(***************************************************************************)
EXTENDS Integers, Sequences, FiniteSets

CONSTANTS
    Emitters,            \* threads that end spans
    Controllers,         \* threads that call force_flush and shutdown
    SpansPerEmitter,     \* bound: spans each emitter ends
    CallsPerController,  \* bound: calls each controller makes
    MaxQueueSize,        \* capacity of the span channel
    MaxExportBatchSize,  \* as BatchConfig::build leaves it
    ControlCapacity,     \* capacity of the control channel (64 in the code)
    CounterModulus,      \* the counter is a usize: values below 2^64
    ExportOutcomes,      \* what exporter.export may return: "Ok", "Err" or either
    OverflowChecks       \* TRUE for a build with overflow checks (debug profile)

(* BatchConfigBuilder::build caps the batch size by the queue size. *)
ConfigAssumption ==
    /\ MaxQueueSize \in Nat
    /\ MaxExportBatchSize \in 0..MaxQueueSize
    /\ ControlCapacity \in Nat \ {0}
    /\ SpansPerEmitter \in Nat
    /\ CallsPerController \in Nat
    /\ OverflowChecks \in BOOLEAN
    /\ ExportOutcomes \subseteq {"Ok", "Err"}
ASSUME ConfigAssumption

(* The machine word is wider than anything that can be pending at once. *)
CounterAssumption ==
    /\ IsFiniteSet(Emitters)
    /\ CounterModulus \in Nat
    /\ CounterModulus > MaxQueueSize + 2 * MaxExportBatchSize + Cardinality(Emitters)
ASSUME CounterAssumption

VARIABLES
    spanQueue,              \* the span channel
    messages,               \* the control channel
    connected,              \* the worker still holds the two receivers
    currentBatchSize,       \* AtomicUsize shared by the emitters and the worker
    exportSpanMessageSent,  \* AtomicBool: an ExportSpan message is on its way
    droppedSpansCount,      \* AtomicUsize
    handle,                 \* the JoinHandle of the worker is still in its Mutex
    provider,               \* "new", "inUse", "dropped": owner of the processor
    shutdownTried,          \* a shutdown was called
    ePc, eSent,             \* emitter: step of on_end, number of spans begun
    cPc, cKind, cCalls,     \* controller: step, kind and number of its call
    cReply,                 \* the reply channel of the call
    cResult,                \* what the last call returned
    cReported,              \* dropped spans the last shutdown reported
    cMust,                  \* history: spans ended before the call began
    wPc, wMessage,          \* worker: step, message (or timer) being handled
    wBatch, wTarget,        \* worker: spans vec and target of get_spans_and_export
    wTotal, wCount,         \* worker: total_exported_spans, count_of_spans
    wResult,                \* worker: result of the last export
    exported,               \* spans handed to the exporter, oldest first
    failed,                 \* those whose export call returned an error
    resourceSet,            \* the exporter has its resource
    exporterShutdown,       \* exporter.shutdown() was called
    accepted,               \* history: spans the channel took, in order
    triggerRefused          \* history: an ExportSpan message met a full channel

channelVars == <<spanQueue, messages, connected>>
counterVars == <<currentBatchSize, exportSpanMessageSent, droppedSpansCount>>
ownerVars == <<handle, provider, shutdownTried>>
emitterVars == <<ePc, eSent>>
callVars == <<cPc, cKind, cCalls, cReply, cResult, cReported, cMust>>
workerVars == <<wPc, wMessage, wBatch, wTarget, wTotal, wCount, wResult>>
exporterVars == <<exported, failed, resourceSet, exporterShutdown>>
historyVars == <<accepted, triggerRefused>>
vars == <<channelVars, counterVars, ownerVars, emitterVars, callVars, workerVars,
          exporterVars, historyVars>>

-----------------------------------------------------------------------------
(* Data *)

Span == Emitters \X (1..SpansPerEmitter)

ExportSpan == [kind |-> "ExportSpan"]
SetResource == [kind |-> "SetResource"]
Timer == [kind |-> "Timer"]
Request == [kind : {"ForceFlush", "Shutdown"}, from : Controllers, call : 1..CallsPerController]
Message == {ExportSpan, SetResource} \cup Request

Results == {"Ok", "Err", "Timeout", "InternalFailure", "AlreadyShutdown"}

(* Slip: the addition is lost. *)
WrapAddForgotten(x) == x
(* fetch_add(1) and fetch_sub(n) on a machine word wrap around. *)
WrapAdd(x) == IF x = CounterModulus - 1 THEN 0 ELSE x + 1
(* Slip: the counter is set to zero after an export. *)
ResetToZero(x, n) == 0
(* Slip: the subtraction stops at zero. *)
SaturatingSub(x, n) == IF n <= x THEN x - n ELSE 0
WrapSub(x, n) == IF n <= x THEN x - n ELSE x - n + CounterModulus

CurrentSpan(e) == <<e, eSent[e]>>

Elements(s) == {s[i] : i \in DOMAIN s}

(* Accepted spans whose on_end has returned. *)
EndedSpans ==
    {s \in Elements(accepted) : s = CurrentSpan(s[1]) => ePc[s[1]] = "idle"}

ControlChannelFull == Len(messages) >= ControlCapacity

(* Slip: one span too late. *)
ExceedsBatch(n) == n > MaxExportBatchSize
(* on_end asks for an export at this count; the worker closes a batch at    *)
(* this length.                                                             *)
ReachesBatch(n) == n >= MaxExportBatchSize
(* Slip: one span too many. *)
BatchOverfull(n) == n = MaxExportBatchSize + 1
BatchFull(n) == n = MaxExportBatchSize

(* How many spans one get_spans_and_export means to export. *)
ExportTarget == currentBatchSize

-----------------------------------------------------------------------------
(* BatchSpanProcessor::new: the worker is spawned and the processor is      *)
(* handed to a provider that is still being built.                          *)
Init ==
    /\ spanQueue = <<>> /\ messages = <<>> /\ connected = TRUE
    /\ currentBatchSize = 0 /\ exportSpanMessageSent = FALSE /\ droppedSpansCount = 0
    /\ handle = TRUE /\ provider = "new" /\ shutdownTried = FALSE
    /\ ePc = [e \in Emitters |-> "idle"] /\ eSent = [e \in Emitters |-> 0]
    /\ cPc = [c \in Controllers |-> "idle"]
    /\ cKind = [c \in Controllers |-> "ForceFlush"]
    /\ cCalls = [c \in Controllers |-> 0]
    /\ cReply = [c \in Controllers |-> "none"]
    /\ cResult = [c \in Controllers |-> "none"]
    /\ cReported = [c \in Controllers |-> 0]
    /\ cMust = [c \in Controllers |-> {}]
    /\ wPc = "recv" /\ wMessage = Timer /\ wBatch = <<>> /\ wTarget = 0
    /\ wTotal = 0 /\ wCount = 0 /\ wResult = "Ok"
    /\ exported = <<>> /\ failed = {} /\ resourceSet = FALSE /\ exporterShutdown = FALSE
    /\ accepted = <<>> /\ triggerRefused = FALSE

(* Slip: the resource is not handed on. *)
BuildProviderWithoutResource ==
    /\ provider = "new"
    /\ provider' = "inUse"
    /\ UNCHANGED <<channelVars, counterVars, handle, shutdownTried, emitterVars, callVars,
                   workerVars, exporterVars, historyVars>>

(* TracerProviderBuilder::build hands the resource to the processor before  *)
(* any span exists; the result of the try_send is ignored.                  *)
BuildProvider ==
    /\ provider = "new"
    /\ provider' = "inUse"
    /\ messages' = IF ControlChannelFull THEN messages ELSE Append(messages, SetResource)
    /\ UNCHANGED <<spanQueue, connected, counterVars, handle, shutdownTried, emitterVars, callVars,
                   workerVars, exporterVars, historyVars>>

-----------------------------------------------------------------------------
(* on_end, run by emitter e *)

BeginSpan(e) ==
    /\ provider = "inUse"
    /\ ePc[e] = "idle"
    /\ eSent[e] < SpansPerEmitter
    /\ eSent' = [eSent EXCEPT ![e] = @ + 1]

(* span_sender.try_send took the span. *)
SendSpan(e) ==
    /\ BeginSpan(e)
    /\ connected
    /\ Len(spanQueue) < MaxQueueSize
    /\ spanQueue' = Append(spanQueue, <<e, eSent[e] + 1>>)
    /\ accepted' = Append(accepted, <<e, eSent[e] + 1>>)
    /\ ePc' = [ePc EXCEPT ![e] = "count"]
    /\ UNCHANGED <<messages, connected, counterVars, ownerVars, callVars, workerVars,
                   exporterVars, triggerRefused>>

(* TrySendError::Full: the span is dropped, to be counted next. *)
SendSpanFull(e) ==
    /\ BeginSpan(e)
    /\ connected
    /\ Len(spanQueue) >= MaxQueueSize
    /\ ePc' = [ePc EXCEPT ![e] = "countDropped"]
    /\ UNCHANGED <<channelVars, counterVars, ownerVars, callVars, workerVars,
                   exporterVars, historyVars>>

(* TrySendError::Disconnected: the span is dropped with a warning only. *)
SendSpanDisconnected(e) ==
    /\ BeginSpan(e)
    /\ ~connected
    /\ UNCHANGED <<ePc, channelVars, counterVars, ownerVars, callVars, workerVars,
                   exporterVars, historyVars>>

CountDropped(e) ==
    /\ ePc[e] = "countDropped"
    /\ droppedSpansCount' = droppedSpansCount + 1
    /\ ePc' = [ePc EXCEPT ![e] = "idle"]
    /\ UNCHANGED <<channelVars, currentBatchSize, exportSpanMessageSent, ownerVars, eSent,
                   callVars, workerVars, exporterVars, historyVars>>

(* current_batch_size.fetch_add(1) + 1 >= max_export_batch_size: the atomic *)
(* addition wraps, the one in the expression panics where it is checked.    *)
CountSpan(e) ==
    /\ ePc[e] = "count"
    /\ currentBatchSize' = WrapAdd(currentBatchSize)
    /\ ePc' = [ePc EXCEPT ![e] =
                  IF OverflowChecks /\ currentBatchSize = CounterModulus - 1 THEN "panicked"
                  ELSE IF ReachesBatch(WrapAdd(currentBatchSize)) THEN "loadFlag"
                  ELSE "idle"]
    /\ UNCHANGED <<channelVars, exportSpanMessageSent, droppedSpansCount, ownerVars, eSent,
                   callVars, workerVars, exporterVars, historyVars>>

LoadFlag(e) ==
    /\ ePc[e] = "loadFlag"
    /\ ePc' = [ePc EXCEPT ![e] = IF exportSpanMessageSent THEN "idle" ELSE "swapFlag"]
    /\ UNCHANGED <<channelVars, counterVars, ownerVars, eSent, callVars, workerVars,
                   exporterVars, historyVars>>

(* Slip: a plain store for the swap. *)
StoreFlag(e) ==
    /\ ePc[e] = "swapFlag"
    /\ exportSpanMessageSent' = TRUE
    /\ ePc' = [ePc EXCEPT ![e] = "sendExport"]
    /\ UNCHANGED <<channelVars, currentBatchSize, droppedSpansCount, ownerVars, eSent,
                   callVars, workerVars, exporterVars, historyVars>>

SwapFlag(e) ==
    /\ ePc[e] = "swapFlag"
    /\ exportSpanMessageSent' = TRUE
    /\ ePc' = [ePc EXCEPT ![e] = IF exportSpanMessageSent THEN "idle" ELSE "sendExport"]
    /\ UNCHANGED <<channelVars, currentBatchSize, droppedSpansCount, ownerVars, eSent,
                   callVars, workerVars, exporterVars, historyVars>>

(* message_sender.try_send(ExportSpan) *)
SendExport(e) ==
    /\ ePc[e] = "sendExport"
    /\ \/ /\ connected /\ ~ControlChannelFull
          /\ messages' = Append(messages, ExportSpan)
          /\ ePc' = [ePc EXCEPT ![e] = "idle"]
          /\ UNCHANGED triggerRefused
       \/ /\ ~connected \/ ControlChannelFull
          /\ ePc' = [ePc EXCEPT ![e] = "resetFlag"]
          /\ triggerRefused' = (triggerRefused \/ connected)
          /\ UNCHANGED messages
    /\ UNCHANGED <<spanQueue, connected, counterVars, ownerVars, eSent, callVars,
                   workerVars, exporterVars, accepted>>

(* The message could not be sent: the flag is put back. *)
ResetFlag(e) ==
    /\ ePc[e] = "resetFlag"
    /\ exportSpanMessageSent' = FALSE
    /\ ePc' = [ePc EXCEPT ![e] = "idle"]
    /\ UNCHANGED <<channelVars, currentBatchSize, droppedSpansCount, ownerVars, eSent,
                   callVars, workerVars, exporterVars, historyVars>>

(* The rest of an on_end that has begun. *)
FinishSpan(e) ==
    \/ CountDropped(e) \/ CountSpan(e) \/ LoadFlag(e) \/ SwapFlag(e)
    \/ SendExport(e) \/ ResetFlag(e)

EndSpan(e) ==
    \/ SendSpan(e) \/ SendSpanFull(e) \/ SendSpanDisconnected(e)
    \/ FinishSpan(e)

-----------------------------------------------------------------------------
(* force_flush and shutdown_with_timeout, run by controller c *)

Return(c, result) ==
    /\ cPc' = [cPc EXCEPT ![c] = "idle"]
    /\ cResult' = [cResult EXCEPT ![c] = result]

BeginCall(c, kind) ==
    /\ provider = "inUse"
    /\ cPc[c] = "idle"
    /\ cCalls[c] < CallsPerController
    /\ cPc' = [cPc EXCEPT ![c] = "send"]
    /\ cKind' = [cKind EXCEPT ![c] = kind]
    /\ cCalls' = [cCalls EXCEPT ![c] = @ + 1]
    /\ cReply' = [cReply EXCEPT ![c] = "none"]
    /\ cResult' = [cResult EXCEPT ![c] = "none"]
    /\ cMust' = [cMust EXCEPT ![c] = EndedSpans]
    /\ UNCHANGED <<channelVars, counterVars, handle, provider, emitterVars, workerVars,
                   exporterVars, historyVars>>

ForceFlush(c) ==
    /\ BeginCall(c, "ForceFlush")
    /\ UNCHANGED <<cReported, shutdownTried>>

(* shutdown_with_timeout first loads and reports the dropped spans. *)
Shutdown(c) ==
    /\ BeginCall(c, "Shutdown")
    /\ cReported' = [cReported EXCEPT ![c] = droppedSpansCount]
    /\ shutdownTried' = TRUE

(* message_sender.try_send(ForceFlush(sender)) or (Shutdown(sender)) *)
SendRequest(c) ==
    /\ cPc[c] = "send"
    /\ \/ /\ connected /\ ~ControlChannelFull
          /\ messages' = Append(messages, [kind |-> cKind[c], from |-> c, call |-> cCalls[c]])
          /\ cPc' = [cPc EXCEPT ![c] = "wait"]
          /\ UNCHANGED cResult
       \/ connected /\ ControlChannelFull /\ Return(c, "InternalFailure") /\ UNCHANGED messages
       \/ ~connected /\ Return(c, "AlreadyShutdown") /\ UNCHANGED messages
    /\ UNCHANGED <<spanQueue, connected, counterVars, ownerVars, emitterVars, cKind, cCalls,
                   cReply, cReported, cMust, workerVars, exporterVars, historyVars>>

(* receiver.recv_timeout: the reply, else the deadline, else the reply's    *)
(* sender is gone.  A shutdown ignores what the reply says and joins.       *)
ReceiveReply(c) ==
    /\ cPc[c] = "wait"
    /\ \/ /\ cReply[c] # "none" /\ cKind[c] = "ForceFlush"
          /\ Return(c, cReply[c])
       \/ /\ cReply[c] # "none" /\ cKind[c] = "Shutdown"
          /\ cPc' = [cPc EXCEPT ![c] = "join"]
          /\ UNCHANGED cResult
       \/ cReply[c] = "none" /\ connected /\ Return(c, "Timeout")
       \/ cReply[c] = "none" /\ ~connected /\ Return(c, "InternalFailure")
    /\ UNCHANGED <<channelVars, counterVars, ownerVars, emitterVars, cKind, cCalls, cReply,
                   cReported, cMust, workerVars, exporterVars, historyVars>>

(* Slip: the thread is not joined. *)
ReturnWithoutJoin(c) ==
    /\ cPc[c] = "join"
    /\ Return(c, "Ok")
    /\ UNCHANGED <<channelVars, counterVars, ownerVars, emitterVars, cKind, cCalls, cReply,
                   cReported, cMust, workerVars, exporterVars, historyVars>>

Join(c) ==
    /\ cPc[c] = "join"
    /\ handle => wPc = "stopped"
    /\ handle' = FALSE
    /\ Return(c, "Ok")
    /\ UNCHANGED <<channelVars, counterVars, provider, shutdownTried, emitterVars, cKind, cCalls, cReply,
                   cReported, cMust, workerVars, exporterVars, historyVars>>

FinishCall(c) == SendRequest(c) \/ ReceiveReply(c) \/ Join(c)

Control(c) == ForceFlush(c) \/ Shutdown(c) \/ FinishCall(c)

(* The provider goes away with its last reference, so outside of any call,  *)
(* and only after it tried to shut the processor down.                      *)
DropProvider ==
    /\ provider = "inUse"
    /\ \A e \in Emitters : ePc[e] \in {"idle", "panicked"}
    /\ \A c \in Controllers : cPc[c] = "idle"
    /\ shutdownTried
    /\ provider' = "dropped"
    /\ UNCHANGED <<channelVars, counterVars, handle, shutdownTried, emitterVars, callVars,
                   workerVars, exporterVars, historyVars>>

-----------------------------------------------------------------------------
(* The worker thread: recv_timeout on the control channel *)

Goto(step) == wPc' = step /\ UNCHANGED <<wBatch, wTarget, wTotal, wCount, wResult>>

(* Slip: Shutdown exports nothing. *)
ArmSkippingFinalExport(kind) ==
    CASE kind = "SetResource" -> "recv" [] kind = "ExportSpan" -> "resetFlag"
      [] kind = "Shutdown" -> "finish" [] OTHER -> "loadTarget"
(* The arm of the match that takes the message. *)
Arm(kind) ==
    CASE kind = "SetResource" -> "recv" [] kind = "ExportSpan" -> "resetFlag"
      [] OTHER -> "loadTarget"

ReceiveMessage ==
    /\ wPc = "recv"
    /\ messages # <<>>
    /\ messages' = Tail(messages)
    /\ wMessage' = Head(messages)
    /\ Goto(Arm(Head(messages).kind))
    /\ resourceSet' = (resourceSet \/ Head(messages) = SetResource)
    /\ UNCHANGED <<spanQueue, connected, counterVars, ownerVars, emitterVars, callVars,
                   exported, failed, exporterShutdown, historyVars>>

(* The scheduled delay has passed: RecvTimeoutError::Timeout. *)
TimerExpires ==
    /\ wPc = "recv"
    /\ messages = <<>>
    /\ provider # "dropped"
    /\ wMessage' = Timer
    /\ Goto("loadTarget")
    /\ UNCHANGED <<channelVars, counterVars, ownerVars, emitterVars, callVars, exporterVars,
                   historyVars>>

(* RecvTimeoutError::Disconnected: the processor is gone; nothing is exported. *)
SendersGone ==
    /\ wPc = "recv"
    /\ messages = <<>>
    /\ provider = "dropped"
    /\ Goto("exit")
    /\ UNCHANGED <<wMessage, channelVars, counterVars, ownerVars, emitterVars, callVars,
                   exporterVars, historyVars>>

ResetFlagForExport ==
    /\ wPc = "resetFlag"
    /\ exportSpanMessageSent' = FALSE
    /\ Goto("loadTarget")
    /\ UNCHANGED <<wMessage, channelVars, currentBatchSize, droppedSpansCount, ownerVars,
                   emitterVars, callVars, exporterVars, historyVars>>

(* get_spans_and_export: the target, then rounds of draining and exporting. *)
LoadTarget ==
    /\ wPc = "loadTarget"
    /\ wTarget' = ExportTarget
    /\ wTotal' = 0
    /\ wResult' = "Ok"
    /\ wPc' = IF ExportTarget > 0 THEN "drain" ELSE "finish"
    /\ UNCHANGED <<wMessage, wBatch, wCount, channelVars, counterVars, ownerVars, emitterVars,
                   callVars, exporterVars, historyVars>>

(* One try_recv; the batch is closed when it is full or the channel empty. *)
DrainSpan ==
    /\ wPc = "drain"
    /\ \/ /\ spanQueue # <<>>
          /\ spanQueue' = Tail(spanQueue)
          /\ wBatch' = Append(wBatch, Head(spanQueue))
          /\ wPc' = IF BatchFull(Len(wBatch) + 1) THEN "export" ELSE "drain"
       \/ /\ spanQueue = <<>>
          /\ wPc' = "export"
          /\ UNCHANGED <<spanQueue, wBatch>>
    /\ UNCHANGED <<wMessage, wTarget, wTotal, wCount, wResult, messages, connected, counterVars,
                   ownerVars, emitterVars, callVars, exporterVars, historyVars>>

(* export_batch_sync: an empty batch does not reach the exporter. *)
ExportBatch ==
    /\ wPc = "export"
    /\ wPc' = "subtract"
    /\ wCount' = Len(wBatch)
    /\ wTotal' = wTotal + Len(wBatch)
    /\ wBatch' = <<>>
    /\ exported' = exported \o wBatch
    /\ wResult' \in IF wBatch = <<>> THEN {"Ok"} ELSE ExportOutcomes
    /\ failed' = IF wResult' = "Err" THEN failed \cup Elements(wBatch) ELSE failed
    /\ UNCHANGED <<wMessage, wTarget, channelVars, counterVars, ownerVars, emitterVars, callVars,
                   resourceSet, exporterShutdown, historyVars>>

SubtractCount ==
    /\ wPc = "subtract"
    /\ currentBatchSize' = WrapSub(currentBatchSize, wCount)
    /\ wCount' = 0
    /\ \/ wTotal < wTarget /\ wPc' = "drain" /\ UNCHANGED <<wTarget, wTotal>>
       \/ wTotal >= wTarget /\ wPc' = "finish" /\ wTarget' = 0 /\ wTotal' = 0
    /\ UNCHANGED <<wMessage, wBatch, wResult, channelVars,
                   exportSpanMessageSent, droppedSpansCount, ownerVars, emitterVars, callVars,
                   exporterVars, historyVars>>

(* sender.send(result): lost when the caller no longer waits for this call. *)
Reply ==
    LET c == wMessage.from IN
    cReply' = IF cPc[c] = "wait" /\ cCalls[c] = wMessage.call
              THEN [cReply EXCEPT ![c] = wResult] ELSE cReply

FinishRequest ==
    /\ wPc = "finish"
    /\ \/ wMessage.kind \in {"ExportSpan", "Timer"} /\ Goto("recv")
          /\ UNCHANGED <<cReply, exporterShutdown>>
       \/ wMessage.kind = "ForceFlush" /\ Reply /\ Goto("recv") /\ UNCHANGED exporterShutdown
       \/ wMessage.kind = "Shutdown" /\ exporterShutdown' = TRUE /\ Goto("reply")
          /\ UNCHANGED cReply
    /\ UNCHANGED <<wMessage, channelVars, counterVars, ownerVars, emitterVars, cPc, cKind,
                   cCalls, cResult, cReported, cMust, exported, failed, resourceSet, historyVars>>

(* Slip: no break after the shutdown. *)
ReplyShutdownAndLoop ==
    /\ wPc = "reply"
    /\ Reply
    /\ Goto("recv")
    /\ UNCHANGED <<wMessage, channelVars, counterVars, ownerVars, emitterVars, cPc, cKind,
                   cCalls, cResult, cReported, cMust, exporterVars, historyVars>>

(* The shutdown is answered before the thread leaves its loop. *)
ReplyShutdown ==
    /\ wPc = "reply"
    /\ Reply
    /\ Goto("exit")
    /\ UNCHANGED <<wMessage, channelVars, counterVars, ownerVars, emitterVars, cPc, cKind,
                   cCalls, cResult, cReported, cMust, exporterVars, historyVars>>

(* The closure returns: both receivers are dropped with what they hold. *)
ThreadExits ==
    /\ wPc = "exit"
    /\ Goto("stopped")
    /\ connected' = FALSE
    /\ spanQueue' = <<>>
    /\ messages' = <<>>
    /\ UNCHANGED <<wMessage, counterVars, ownerVars, emitterVars, callVars, exporterVars,
                   historyVars>>

GetSpansAndExport == LoadTarget \/ DrainSpan \/ ExportBatch \/ SubtractCount

Worker ==
    \/ ReceiveMessage \/ TimerExpires \/ SendersGone \/ ResetFlagForExport
    \/ GetSpansAndExport \/ FinishRequest \/ ReplyShutdown \/ ThreadExits

-----------------------------------------------------------------------------
(* Everything came to its end. *)
Finished ==
    /\ provider = "dropped" /\ wPc = "stopped"
    /\ UNCHANGED vars

Next ==
    \/ BuildProvider \/ DropProvider
    \/ \E e \in Emitters : EndSpan(e)
    \/ \E c \in Controllers : Control(c)
    \/ Worker
    \/ Finished

Spec == Init /\ [][Next]_vars

(* Threads that have begun a call keep running; recv_timeout returns at its *)
(* deadline.  Nobody is obliged to end a span or to call force_flush.       *)
FairSpec ==
    /\ Spec
    /\ WF_vars(Worker)
    /\ \A e \in Emitters : WF_vars(FinishSpan(e))
    /\ \A c \in Controllers : WF_vars(FinishCall(c))

-----------------------------------------------------------------------------
(* Properties *)

EmitterSteps == {"idle", "count", "countDropped", "loadFlag", "swapFlag", "sendExport",
                 "resetFlag", "panicked"}
WorkerSteps == {"recv", "resetFlag", "loadTarget", "drain", "export", "subtract", "finish",
                "reply", "exit", "stopped"}

ChannelTypes ==
    /\ spanQueue \in Seq(Span) /\ Len(spanQueue) <= MaxQueueSize
    /\ messages \in Seq(Message) /\ Len(messages) <= ControlCapacity
    /\ connected \in BOOLEAN
CounterTypes ==
    /\ currentBatchSize \in 0..(CounterModulus - 1)
    /\ exportSpanMessageSent \in BOOLEAN /\ droppedSpansCount \in Nat
OwnerTypes ==
    /\ handle \in BOOLEAN /\ shutdownTried \in BOOLEAN
    /\ provider \in {"new", "inUse", "dropped"}
EmitterTypes ==
    /\ ePc \in [Emitters -> EmitterSteps] /\ eSent \in [Emitters -> 0..SpansPerEmitter]
    /\ \A e \in Emitters : ePc[e] # "idle" => eSent[e] > 0
CallTypes ==
    /\ cPc \in [Controllers -> {"idle", "send", "wait", "join"}]
    /\ cKind \in [Controllers -> {"ForceFlush", "Shutdown"}]
    /\ cCalls \in [Controllers -> 0..CallsPerController]
    /\ \A c \in Controllers : cPc[c] # "idle" => cCalls[c] > 0
    /\ cReply \in [Controllers -> {"none", "Ok", "Err"}]
    /\ cResult \in [Controllers -> Results \cup {"none"}]
    /\ cReported \in [Controllers -> Nat] /\ cMust \in [Controllers -> SUBSET Span]
WorkerTypes ==
    /\ wPc \in WorkerSteps /\ wMessage \in Message \cup {Timer}
    /\ wBatch \in Seq(Span) /\ wTarget \in Nat /\ wTotal \in Nat /\ wCount \in Nat
    /\ wResult \in {"Ok", "Err"}
    /\ wPc = "reply" => wMessage.kind = "Shutdown"
ExporterTypes ==
    /\ exported \in Seq(Span) /\ failed \subseteq Span
    /\ resourceSet \in BOOLEAN /\ exporterShutdown \in BOOLEAN
HistoryTypes ==
    accepted \in Seq(Span) /\ triggerRefused \in BOOLEAN

(* Every variable has its type, and the channels respect their capacities.  *)
TypeOK ==
    /\ ChannelTypes /\ CounterTypes /\ OwnerTypes /\ EmitterTypes
    /\ CallTypes /\ WorkerTypes /\ ExporterTypes /\ HistoryTypes

(* Until the worker exits, what was accepted is exactly what was exported,  *)
(* then what the worker holds, then what the channel holds, in that order:  *)
(* no span is lost, doubled or overtaken (get_spans_and_export).            *)
Conservation ==
    connected => accepted = exported \o wBatch \o spanQueue

(* current_batch_size counts the pending spans up to the emitters that have *)
(* sent a span and not yet counted it; while they lag it may have wrapped   *)
(* below zero, at most once round (on_end against fetch_sub).               *)
Uncounted == {e \in Emitters : ePc[e] = "count"}
CounterLag ==
    connected =>
        \E wraps \in {0, 1} :
            currentBatchSize + Cardinality(Uncounted)
                = Len(spanQueue) + Len(wBatch) + wCount + wraps * CounterModulus

(* export_span_message_sent is a token: while it is up, exactly one of the  *)
(* control channel, an emitter and the worker has it, so at most one        *)
(* ExportSpan message is ever queued; while it is down, nobody has it.      *)
Queued(i) == i \in DOMAIN messages /\ messages[i] = ExportSpan
Holding(e) == ePc[e] \in {"sendExport", "resetFlag"}
TokenQueued == \E i \in DOMAIN messages : Queued(i)
TokenHeld == \E e \in Emitters : Holding(e)
ExportToken ==
    connected =>
        /\ exportSpanMessageSent <=> TokenQueued \/ TokenHeld \/ wPc = "resetFlag"
        /\ ~(TokenQueued /\ TokenHeld)
        /\ wPc = "resetFlag" => ~TokenQueued /\ ~TokenHeld
        /\ \A i, j \in DOMAIN messages : Queued(i) /\ Queued(j) => i = j
        /\ \A e, f \in Emitters : Holding(e) /\ Holding(f) => e = f

(* A full batch never waits for the timer: when all is quiet, either fewer  *)
(* spans than a batch are pending or an ExportSpan message once met a full  *)
(* control channel (flag reset before the target load, after the count).    *)
Quiet ==
    /\ connected /\ wPc = "recv" /\ messages = <<>>
    /\ \A e \in Emitters : ePc[e] = "idle"
FullBatchTriggersExport ==
    Quiet /\ MaxExportBatchSize > 0 /\ ~triggerRefused
        => Len(spanQueue) < MaxExportBatchSize

(* An answered force_flush or shutdown has exported at least as many spans  *)
(* as had been ended before the call (get_spans_and_export, `target`).      *)
FlushCount ==
    \A c \in Controllers :
        cReply[c] # "none" => Len(exported) >= Cardinality(cMust[c])

(* "Force the spans lying in the cache to be exported": an answered flush   *)
(* has exported the very spans that were ended before it.                   *)
FlushComplete ==
    \A c \in Controllers :
        cReply[c] # "none" => cMust[c] \subseteq Elements(exported)

(* "every log is either received or dropped" (the accounting test of the    *)
(* log processor): when everything accepted had been ended before the       *)
(* shutdown was called, all of it has been exported, from any thread.       *)
QuietShutdownComplete ==
    \A c \in Controllers :
        /\ cKind[c] = "Shutdown" /\ cResult[c] = "Ok"
        /\ Cardinality(cMust[c]) = Len(accepted)
        => exported = accepted

(* A successful shutdown leaves no thread behind and an exporter that was   *)
(* shut down once its last batch was handed over.                           *)
ShutdownOkMeansStopped ==
    \A c \in Controllers :
        cKind[c] = "Shutdown" /\ cResult[c] = "Ok"
            => wPc = "stopped" /\ exporterShutdown /\ ~handle

(* Nothing is handed to an exporter that was shut down (the Shutdown arm    *)
(* exports first and then breaks out of the loop).                          *)
NoExportAfterShutdown ==
    [][exporterShutdown => UNCHANGED <<exported, resourceSet>>]_vars

(* An export that a message asked for never runs before the resource was    *)
(* set: SetResource is first in the control channel.                        *)
ResourceBeforeRequestedExport ==
    wPc = "export" /\ wMessage # Timer => resourceSet

(* The worker always comes back to its control channel or exits: the loop   *)
(* bounded by `target` ends.                                                *)
ExportTerminates == wPc = "drain" ~> wPc \in {"recv", "stopped"}

(* A shutdown message that was queued stops the worker. *)
ShutdownQueued == \E i \in DOMAIN messages : messages[i].kind = "Shutdown"
ShutdownStopsWorker == ShutdownQueued ~> wPc = "stopped"

(* A buffered span does not stay: it is exported or the processor ends. *)
BufferedSpansLeave ==
    \A s \in Span : s \in Elements(spanQueue) ~> s \in Elements(exported) \/ ~connected

(* The processor is a bounded first-in first-out buffer whose exports       *)
(* respect max_export_batch_size.                                           *)
Buffer == INSTANCE TelemetryBuffer WITH
    Items <- Span, BatchLimit <- MaxExportBatchSize,
    pending <- wBatch \o spanQueue, exported <- exported, open <- connected
ImplementsBuffer == Buffer!Spec
=============================================================================
