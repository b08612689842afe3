------------------------ MODULE BatchProcessorProofs ------------------------
(***************************************************************************)
(* Theorems about BatchProcessor and BatchLogProcessor for any number of    *)
(* threads, any capacities and any positive batch size.                     *)
(*                                                                         *)
(* The properties are not inductive alone.  IndInv adds the shape of the   *)
(* batch (BatchShape), the order in which the exporter is shut down and the *)
(* channels are closed (WorkerPhase) and that an emitter's spans are new   *)
(* (Fresh); the refinement follows from it step by step.                    *)
(*                                                                         *)
(* CallInv adds what a request carries (Calls), the order of a shutdown     *)
(* (Stopping), the resource (ResourceFirst), what a target covers           *)
(* (Coverage) and that a full batch is being asked for (Trigger).           *)
(* Beginning, for one emitter, says which spans a call waits for, and       *)
(* Accounting where every log of the log processor went.                    *)
(***************************************************************************)
EXTENDS BatchLogProcessor, SequenceTheorems, FiniteSetTheorems, TLAPS

(* The elements of the control channel, and the empty channels.             *)
LEMMA Messages ==
    /\ ExportSpan \in Message /\ SetResource \in Message
    /\ \A r \in Request : r \in Message
    /\ <<>> \in Seq(Message) /\ <<>> \in Seq(Span)
    /\ Len(<<>>) = 0
BY EmptySeq DEF Message

(* The constants are naturals and the counter has room for all that is      *)
(* pending.                                                                 *)
LEMMA ModulusLarge ==
    /\ CounterModulus \in Nat /\ MaxQueueSize \in Nat /\ MaxExportBatchSize \in Nat
    /\ Cardinality(Emitters) \in Nat
    /\ CounterModulus > MaxQueueSize + 2 * MaxExportBatchSize + Cardinality(Emitters)
BY ConfigAssumption, CounterAssumption, FS_CardinalityType
   DEF ConfigAssumption, CounterAssumption

(* Each part of the type invariant depends on one group of variables only.  *)
LEMMA TypesUnchanged ==
    /\ ChannelTypes /\ UNCHANGED channelVars => ChannelTypes'
    /\ CounterTypes /\ UNCHANGED counterVars => CounterTypes'
    /\ OwnerTypes /\ UNCHANGED ownerVars => OwnerTypes'
    /\ EmitterTypes /\ UNCHANGED emitterVars => EmitterTypes'
    /\ CallTypes /\ UNCHANGED callVars => CallTypes'
    /\ WorkerTypes /\ UNCHANGED workerVars => WorkerTypes'
    /\ ExporterTypes /\ UNCHANGED exporterVars => ExporterTypes'
    /\ HistoryTypes /\ UNCHANGED historyVars => HistoryTypes'
<1>1. ChannelTypes /\ UNCHANGED channelVars => ChannelTypes'
  BY DEF ChannelTypes, channelVars
<1>2. CounterTypes /\ UNCHANGED counterVars => CounterTypes'
  BY DEF CounterTypes, counterVars
<1>3. OwnerTypes /\ UNCHANGED ownerVars => OwnerTypes'
  BY DEF OwnerTypes, ownerVars
<1>4. EmitterTypes /\ UNCHANGED emitterVars => EmitterTypes'
  BY DEF EmitterTypes, emitterVars
<1>5. CallTypes /\ UNCHANGED callVars => CallTypes'
  BY DEF CallTypes, callVars
<1>6. WorkerTypes /\ UNCHANGED workerVars => WorkerTypes'
  BY DEF WorkerTypes, workerVars
<1>7. ExporterTypes /\ UNCHANGED exporterVars => ExporterTypes'
  BY DEF ExporterTypes, exporterVars
<1>8. HistoryTypes /\ UNCHANGED historyVars => HistoryTypes'
  BY DEF HistoryTypes, historyVars
<1> QED BY <1>1, <1>2, <1>3, <1>4, <1>5, <1>6, <1>7, <1>8

(* The spans vec while the worker fills and exports it. *)
BatchShape ==
    /\ Len(wBatch) <= MaxExportBatchSize
    /\ wPc = "drain" => Len(wBatch) < MaxExportBatchSize
    /\ wPc \notin {"drain", "export"} => wBatch = <<>>
    /\ wCount <= MaxExportBatchSize
    /\ wPc # "subtract" => wCount = 0

(* Types survive every step; the bound on the batch keeps the counter in    *)
(* range.                                                                   *)
LEMMA TypeStep ==
    ASSUME TypeOK, BatchShape, [Next]_vars PROVE TypeOK'
<1> USE DEF TypeOK
<1>0. UNCHANGED vars => TypeOK' BY TypesUnchanged DEF vars
<1>1. ASSUME BuildProvider PROVE TypeOK'
  <2>1. ChannelTypes'
    BY ConfigAssumption, <1>1
       DEF BuildProvider, ControlChannelFull, ChannelTypes, Message, ExportSpan,
           SetResource, Request, Span, channelVars, ConfigAssumption
  <2>2. OwnerTypes' BY <1>1 DEF BuildProvider, ControlChannelFull, OwnerTypes, ownerVars
  <2> QED BY TypesUnchanged, <1>1, <2>1, <2>2 DEF BuildProvider, ControlChannelFull
<1>2. ASSUME DropProvider PROVE TypeOK'
  <2>1. OwnerTypes' BY <1>2 DEF DropProvider, OwnerTypes, ownerVars
  <2> QED BY TypesUnchanged, <1>2, <2>1 DEF DropProvider
<1>3. ASSUME NEW e \in Emitters, SendSpan(e) PROVE TypeOK'
  <2>a. <<e, eSent[e] + 1>> \in Span
    BY <1>3, ConfigAssumption DEF SendSpan, BeginSpan, EmitterTypes, Span, ConfigAssumption
  <2>1. ChannelTypes'
    BY <1>3, <2>a, ModulusLarge, AppendProperties DEF SendSpan, ChannelTypes
  <2>2. EmitterTypes'
    BY ConfigAssumption, <1>3
       DEF SendSpan, BeginSpan, EmitterTypes, EmitterSteps, emitterVars, ConfigAssumption
  <2>3. HistoryTypes' BY <1>3, <2>a, AppendProperties DEF SendSpan, HistoryTypes
  <2> QED BY TypesUnchanged, <1>3, <2>1, <2>2, <2>3 DEF SendSpan, BeginSpan
<1>4. ASSUME NEW e \in Emitters, SendSpanFull(e) PROVE TypeOK'
  <2>1. EmitterTypes'
    BY ConfigAssumption, <1>4
       DEF SendSpanFull, BeginSpan, EmitterTypes, EmitterSteps, emitterVars,
           ConfigAssumption
  <2> QED BY TypesUnchanged, <1>4, <2>1 DEF SendSpanFull, BeginSpan
<1>5. ASSUME NEW e \in Emitters, SendSpanDisconnected(e) PROVE TypeOK'
  <2>1. EmitterTypes'
    BY ConfigAssumption, <1>5
       DEF SendSpanDisconnected, BeginSpan, EmitterTypes, EmitterSteps, emitterVars,
           ConfigAssumption
  <2> QED BY TypesUnchanged, <1>5, <2>1 DEF SendSpanDisconnected, BeginSpan
<1>6. ASSUME NEW e \in Emitters, CountDropped(e) PROVE TypeOK'
  <2>1. CounterTypes'
    BY CounterAssumption, ConfigAssumption, <1>6
       DEF CountDropped, CounterTypes, counterVars, CounterAssumption, ConfigAssumption
  <2>2. EmitterTypes'
    BY ConfigAssumption, <1>6
       DEF CountDropped, EmitterTypes, EmitterSteps, emitterVars, ConfigAssumption
  <2> QED BY TypesUnchanged, <1>6, <2>1, <2>2 DEF CountDropped
<1>7. ASSUME NEW e \in Emitters, CountSpan(e) PROVE TypeOK'
  <2>1. CounterTypes'
    BY CounterAssumption, ConfigAssumption, <1>7
       DEF CountSpan, WrapAdd, CounterTypes, counterVars, CounterAssumption,
           ConfigAssumption
  <2>2. EmitterTypes'
    BY ConfigAssumption, <1>7
       DEF CountSpan, WrapAdd, EmitterTypes, EmitterSteps, emitterVars, ConfigAssumption
  <2> QED BY TypesUnchanged, <1>7, <2>1, <2>2 DEF CountSpan, WrapAdd
<1>8. ASSUME NEW e \in Emitters, LoadFlag(e) PROVE TypeOK'
  <2>1. EmitterTypes'
    BY ConfigAssumption, <1>8
       DEF LoadFlag, EmitterTypes, EmitterSteps, emitterVars, ConfigAssumption
  <2> QED BY TypesUnchanged, <1>8, <2>1 DEF LoadFlag
<1>9. ASSUME NEW e \in Emitters, SwapFlag(e) PROVE TypeOK'
  <2>1. CounterTypes'
    BY CounterAssumption, ConfigAssumption, <1>9
       DEF SwapFlag, CounterTypes, counterVars, CounterAssumption, ConfigAssumption
  <2>2. EmitterTypes'
    BY ConfigAssumption, <1>9
       DEF SwapFlag, EmitterTypes, EmitterSteps, emitterVars, ConfigAssumption
  <2> QED BY TypesUnchanged, <1>9, <2>1, <2>2 DEF SwapFlag
<1>10. ASSUME NEW e \in Emitters, SendExport(e) PROVE TypeOK'
  <2>1. ChannelTypes'
    BY <1>10, Messages, AppendProperties, ConfigAssumption
       DEF SendExport, ControlChannelFull, ChannelTypes, ConfigAssumption
  <2>2. EmitterTypes'
    BY ConfigAssumption, <1>10
       DEF SendExport, ControlChannelFull, EmitterTypes, EmitterSteps, emitterVars,
           ConfigAssumption
  <2>3. HistoryTypes' BY <1>10 DEF SendExport, ControlChannelFull, HistoryTypes, historyVars
  <2> QED BY TypesUnchanged, <1>10, <2>1, <2>2, <2>3 DEF SendExport, ControlChannelFull
<1>11. ASSUME NEW e \in Emitters, ResetFlag(e) PROVE TypeOK'
  <2>1. CounterTypes'
    BY CounterAssumption, ConfigAssumption, <1>11
       DEF ResetFlag, CounterTypes, counterVars, CounterAssumption, ConfigAssumption
  <2>2. EmitterTypes'
    BY ConfigAssumption, <1>11
       DEF ResetFlag, EmitterTypes, EmitterSteps, emitterVars, ConfigAssumption
  <2> QED BY TypesUnchanged, <1>11, <2>1, <2>2 DEF ResetFlag
<1>12. ASSUME NEW c \in Controllers, ForceFlush(c) PROVE TypeOK'
  <2>1. OwnerTypes' BY <1>12 DEF ForceFlush, BeginCall, OwnerTypes, ownerVars
  <2>2. CallTypes'
    BY ConfigAssumption, <1>12
       DEF ForceFlush, BeginCall, CallTypes, Results, callVars, ConfigAssumption,
           EndedSpans, Elements, HistoryTypes
  <2> QED BY TypesUnchanged, <1>12, <2>1, <2>2 DEF ForceFlush, BeginCall
<1>13. ASSUME NEW c \in Controllers, Shutdown(c) PROVE TypeOK'
  <2>1. OwnerTypes' BY <1>13 DEF Shutdown, BeginCall, OwnerTypes, ownerVars
  <2>2. CallTypes'
    BY ConfigAssumption, <1>13
       DEF Shutdown, BeginCall, CallTypes, Results, CounterTypes, callVars,
           ConfigAssumption, EndedSpans, Elements, HistoryTypes
  <2> QED BY TypesUnchanged, <1>13, <2>1, <2>2 DEF Shutdown, BeginCall
<1>14. ASSUME NEW c \in Controllers, SendRequest(c) PROVE TypeOK'
  <2>a. [kind |-> cKind[c], from |-> c, call |-> cCalls[c]] \in Message
    <3>1. cKind[c] \in {"ForceFlush", "Shutdown"} BY DEF CallTypes
    <3>2. cCalls[c] \in 1..CallsPerController
      <4>1. cCalls[c] \in 0..CallsPerController /\ cCalls[c] > 0
        BY <1>14 DEF SendRequest, CallTypes
      <4> QED BY <4>1, ConfigAssumption DEF ConfigAssumption
    <3> QED BY <3>1, <3>2, Messages DEF Request
  <2>1. ChannelTypes'
    <3>1. CASE messages' = messages BY <1>14, <3>1 DEF SendRequest, ChannelTypes
    <3>2. CASE messages' = Append(messages, [kind |-> cKind[c], from |-> c, call |-> cCalls[c]])
                 /\ ~ControlChannelFull
      BY <1>14, <3>2, <2>a, AppendProperties, LenProperties, ConfigAssumption
         DEF SendRequest, ControlChannelFull, ChannelTypes, ConfigAssumption
    <3> QED BY <1>14, <3>1, <3>2 DEF SendRequest
  <2>2. CallTypes'
    BY ConfigAssumption, <1>14
       DEF SendRequest, ControlChannelFull, Return, CallTypes, Results, callVars,
           ConfigAssumption
  <2> QED BY TypesUnchanged, <1>14, <2>1, <2>2 DEF SendRequest, ControlChannelFull, Return
<1>15. ASSUME NEW c \in Controllers, ReceiveReply(c) PROVE TypeOK'
  <2>1. CallTypes'
    BY ConfigAssumption, <1>15
       DEF ReceiveReply, Return, CallTypes, Results, callVars, ConfigAssumption
  <2> QED BY TypesUnchanged, <1>15, <2>1 DEF ReceiveReply, Return
<1>16. ASSUME NEW c \in Controllers, Join(c) PROVE TypeOK'
  <2>1. OwnerTypes' BY <1>16 DEF Join, Return, OwnerTypes, ownerVars
  <2>2. CallTypes'
    BY ConfigAssumption, <1>16
       DEF Join, Return, CallTypes, Results, callVars, ConfigAssumption
  <2> QED BY TypesUnchanged, <1>16, <2>1, <2>2 DEF Join, Return
<1>17. ASSUME ReceiveMessage PROVE TypeOK'
  <2>1. ChannelTypes'
    BY ConfigAssumption, <1>17
       DEF ReceiveMessage, Goto, Arm, ChannelTypes, Message, ExportSpan, SetResource,
           Request, Span, channelVars, ConfigAssumption
  <2>2. WorkerTypes'
    BY ConfigAssumption, <1>17
       DEF ReceiveMessage, Goto, Arm, WorkerTypes, WorkerSteps, Message, ExportSpan,
           SetResource, Timer, Request, ChannelTypes, Span, workerVars, ConfigAssumption
  <2>3. ExporterTypes'
    BY <1>17
       DEF ReceiveMessage, Goto, Arm, ExporterTypes, Elements, ChannelTypes, Message,
           ExportSpan, SetResource, Request, Span, exporterVars
  <2> QED BY TypesUnchanged, <1>17, <2>1, <2>2, <2>3 DEF ReceiveMessage, Goto, Arm
<1>18. ASSUME TimerExpires PROVE TypeOK'
  <2>1. WorkerTypes'
    BY ConfigAssumption, <1>18
       DEF TimerExpires, Goto, WorkerTypes, WorkerSteps, Message, ExportSpan, SetResource,
           Timer, Request, workerVars, ConfigAssumption
  <2> QED BY TypesUnchanged, <1>18, <2>1 DEF TimerExpires, Goto
<1>19. ASSUME SendersGone PROVE TypeOK'
  <2>1. WorkerTypes'
    BY ConfigAssumption, <1>19
       DEF SendersGone, Goto, WorkerTypes, WorkerSteps, Message, ExportSpan, SetResource,
           Timer, Request, workerVars, ConfigAssumption
  <2> QED BY TypesUnchanged, <1>19, <2>1 DEF SendersGone, Goto
<1>20. ASSUME ResetFlagForExport PROVE TypeOK'
  <2>1. CounterTypes'
    BY CounterAssumption, ConfigAssumption, <1>20
       DEF ResetFlagForExport, Goto, CounterTypes, counterVars, CounterAssumption,
           ConfigAssumption
  <2>2. WorkerTypes'
    BY ConfigAssumption, <1>20
       DEF ResetFlagForExport, Goto, WorkerTypes, WorkerSteps, Message, ExportSpan,
           SetResource, Timer, Request, workerVars, ConfigAssumption
  <2> QED BY TypesUnchanged, <1>20, <2>1, <2>2 DEF ResetFlagForExport, Goto
<1>21. ASSUME LoadTarget PROVE TypeOK'
  <2>1. WorkerTypes'
    BY CounterAssumption, ConfigAssumption, <1>21
       DEF LoadTarget, ExportTarget, WorkerTypes, WorkerSteps, Message, ExportSpan,
           SetResource, Timer, Request, CounterTypes, workerVars, CounterAssumption,
           ConfigAssumption
  <2> QED BY TypesUnchanged, <1>21, <2>1 DEF LoadTarget, ExportTarget
<1>22. ASSUME DrainSpan PROVE TypeOK'
  <2>a. spanQueue # <<>> => /\ Head(spanQueue) \in Span /\ Tail(spanQueue) \in Seq(Span)
                            /\ Len(Tail(spanQueue)) = Len(spanQueue) - 1
    BY HeadTailProperties DEF ChannelTypes
  <2>b. \A x \in Span : Append(wBatch, x) \in Seq(Span) BY AppendProperties DEF WorkerTypes
  <2>1. ChannelTypes'
    <3>1. /\ messages' = messages /\ connected' = connected
          /\ \/ spanQueue # <<>> /\ spanQueue' = Tail(spanQueue)
             \/ spanQueue' = spanQueue
      BY <1>22 DEF DrainSpan
    <3>2. Len(spanQueue) \in Nat /\ Len(spanQueue) <= MaxQueueSize /\ MaxQueueSize \in Nat
      BY LenProperties, ModulusLarge DEF ChannelTypes
    <3>3. CASE spanQueue' = spanQueue BY <3>1, <3>3 DEF ChannelTypes
    <3>4. CASE spanQueue # <<>> /\ spanQueue' = Tail(spanQueue)
      <4>1. Len(spanQueue') <= MaxQueueSize BY <3>2, <3>4, <2>a
      <4> QED BY <3>1, <3>4, <2>a, <4>1 DEF ChannelTypes
    <3> QED BY <3>1, <3>3, <3>4
  <2>2. WorkerTypes'
    BY <1>22, <2>a, <2>b DEF DrainSpan, WorkerTypes, WorkerSteps
  <2> QED BY TypesUnchanged, <1>22, <2>1, <2>2 DEF DrainSpan, BatchFull
<1>23. ASSUME ExportBatch PROVE TypeOK'
  <2>1. WorkerTypes'
    <3>1. wResult' \in {"Ok", "Err"}
      BY <1>23, ConfigAssumption DEF ExportBatch, ConfigAssumption
    <3>2. wCount' \in Nat /\ wTotal' \in Nat
      BY <1>23, LenProperties DEF ExportBatch, WorkerTypes
    <3>3. wBatch' \in Seq(Span) /\ wPc' = "subtract" /\ UNCHANGED <<wMessage, wTarget>>
      BY <1>23, Messages DEF ExportBatch
    <3> QED BY <3>1, <3>2, <3>3 DEF WorkerTypes, WorkerSteps
  <2>2. ExporterTypes'
    BY <1>23
       DEF ExportBatch, ExporterTypes, Elements, WorkerTypes, WorkerSteps, Message,
           ExportSpan, SetResource, Timer, Request, exporterVars
  <2> QED BY TypesUnchanged, <1>23, <2>1, <2>2 DEF ExportBatch
<1>24. ASSUME SubtractCount PROVE TypeOK'
  <2>1. CounterTypes'
    BY <1>24, ModulusLarge DEF SubtractCount, WrapSub, CounterTypes, WorkerTypes, BatchShape
  <2>2. WorkerTypes'
    BY ConfigAssumption, <1>24
       DEF SubtractCount, WrapSub, WorkerTypes, WorkerSteps, Message, ExportSpan,
           SetResource, Timer, Request, workerVars, ConfigAssumption
  <2> QED BY TypesUnchanged, <1>24, <2>1, <2>2 DEF SubtractCount, WrapSub
<1>25. ASSUME FinishRequest PROVE TypeOK'
  <2>1. WorkerTypes'
    BY ConfigAssumption, <1>25
       DEF FinishRequest, Goto, Reply, WorkerTypes, WorkerSteps, Message, ExportSpan,
           SetResource, Timer, Request, workerVars, ConfigAssumption
  <2>a. wResult \in {"Ok", "Err"} BY DEF WorkerTypes
  <2>2. CallTypes' BY <1>25, <2>a DEF FinishRequest, Reply, CallTypes, callVars
  <2>3. ExporterTypes'
    BY <1>25 DEF FinishRequest, Goto, Reply, ExporterTypes, Elements, exporterVars
  <2> QED BY TypesUnchanged, <1>25, <2>1, <2>2, <2>3 DEF FinishRequest, Goto, Reply
<1>26. ASSUME ReplyShutdown PROVE TypeOK'
  <2>1. WorkerTypes'
    BY ConfigAssumption, <1>26
       DEF ReplyShutdown, Goto, Reply, WorkerTypes, WorkerSteps, Message, ExportSpan,
           SetResource, Timer, Request, workerVars, ConfigAssumption
  <2>2. CallTypes'
    BY ConfigAssumption, <1>26
       DEF ReplyShutdown, Goto, Reply, CallTypes, Results, WorkerTypes, WorkerSteps,
           Message, ExportSpan, SetResource, Timer, Request, callVars, ConfigAssumption
  <2> QED BY TypesUnchanged, <1>26, <2>1, <2>2 DEF ReplyShutdown, Goto, Reply
<1>27. ASSUME ThreadExits PROVE TypeOK'
  <2>1. ChannelTypes'
    <3>1. spanQueue' = <<>> /\ messages' = <<>> /\ connected' = FALSE
      BY <1>27 DEF ThreadExits
    <3>2. 0 <= MaxQueueSize /\ 0 <= ControlCapacity BY ConfigAssumption DEF ConfigAssumption
    <3> QED BY <3>1, <3>2, Messages DEF ChannelTypes
  <2>2. WorkerTypes'
    BY ConfigAssumption, <1>27
       DEF ThreadExits, Goto, WorkerTypes, WorkerSteps, Message, ExportSpan, SetResource,
           Timer, Request, workerVars, ConfigAssumption
  <2> QED BY TypesUnchanged, <1>27, <2>1, <2>2 DEF ThreadExits, Goto
<1> QED
  BY <1>0, <1>1, <1>2, <1>3, <1>4, <1>5, <1>6, <1>7, <1>8, <1>9, <1>10, <1>11, <1>12, <1>13, <1>14, <1>15, <1>16, <1>17, <1>18, <1>19, <1>20, <1>21, <1>22, <1>23, <1>24, <1>25, <1>26, <1>27
     DEF Next, EndSpan, FinishSpan, Control, FinishCall, Worker, GetSpansAndExport, Finished

(* Which steps touch the spans, the counter and the exporter: the rest      *)
(* leaves them as they are.                                                 *)
BufferState == <<spanQueue, wBatch, exported, accepted, connected>>

(* Only these steps touch the spans: one send of on_end, two of the worker  *)
(* and its exit.                                                            *)
LEMMA BufferFootprint ==
    ASSUME [Next]_vars
    PROVE  \/ \E e \in Emitters : SendSpan(e)
           \/ DrainSpan \/ ExportBatch \/ ThreadExits
           \/ UNCHANGED BufferState
<1> USE DEF BufferState, channelVars, workerVars, exporterVars, historyVars
<1>1. CASE BuildProvider \/ DropProvider \/ Finished \/ UNCHANGED vars
  BY <1>1 DEF BuildProvider, DropProvider, Finished, vars
<1>2. ASSUME NEW e \in Emitters, EndSpan(e) PROVE SendSpan(e) \/ UNCHANGED BufferState
  BY <1>2
     DEF EndSpan, FinishSpan, SendSpanFull, SendSpanDisconnected, CountDropped, CountSpan,
              LoadFlag, SwapFlag, SendExport, ResetFlag
<1>3. ASSUME NEW c \in Controllers, Control(c) PROVE UNCHANGED BufferState
  BY <1>3
     DEF Control, FinishCall, ForceFlush, Shutdown, BeginCall, SendRequest, ReceiveReply,
         Join
<1>4. CASE Worker
  BY <1>4 DEF Worker, GetSpansAndExport, ReceiveMessage, TimerExpires, SendersGone,
              ResetFlagForExport, LoadTarget, SubtractCount, FinishRequest, ReplyShutdown, Goto
<1> QED BY <1>1, <1>2, <1>3, <1>4 DEF Next

(* Only the worker changes what the worker and the exporter hold.           *)
LEMMA WorkerFootprint ==
    ASSUME [Next]_vars PROVE Worker \/ UNCHANGED <<workerVars, exporterVars>>
<1>1. CASE BuildProvider \/ DropProvider \/ Finished \/ UNCHANGED vars
  BY <1>1 DEF BuildProvider, DropProvider, Finished, vars
<1>2. ASSUME NEW e \in Emitters, EndSpan(e) PROVE UNCHANGED <<workerVars, exporterVars>>
  BY <1>2
     DEF EndSpan, FinishSpan, SendSpan, SendSpanFull, SendSpanDisconnected, CountDropped,
              CountSpan, LoadFlag, SwapFlag, SendExport, ResetFlag
<1>3. ASSUME NEW c \in Controllers, Control(c) PROVE UNCHANGED <<workerVars, exporterVars>>
  BY <1>3
     DEF Control, FinishCall, ForceFlush, Shutdown, BeginCall, SendRequest, ReceiveReply,
         Join
<1> QED BY <1>1, <1>2, <1>3 DEF Next

(***************************************************************************)
(* The worker: where it stands tells what it holds.                        *)
(***************************************************************************)
WorkerPhase ==
    /\ connected <=> wPc # "stopped"
    /\ exporterShutdown => wPc \in {"reply", "exit", "stopped"}

(* The batch never grows beyond max_export_batch_size                       *)
(* (get_spans_and_export).                                                  *)
LEMMA BatchShapeStep ==
    ASSUME MaxExportBatchSize > 0, TypeOK, BatchShape, [Next]_vars PROVE BatchShape'
<1> USE DEF BatchShape
<1>1. CASE UNCHANGED workerVars BY <1>1 DEF workerVars
<1>2. CASE DrainSpan
  <2>1. CASE spanQueue = <<>> BY <1>2, <2>1 DEF DrainSpan
  <2>2. CASE spanQueue # <<>>
    <3>1. Head(spanQueue) \in Span BY <2>2, HeadTailProperties DEF TypeOK, ChannelTypes
    <3>2. Len(Append(wBatch, Head(spanQueue))) = Len(wBatch) + 1 /\ Len(wBatch) \in Nat
      BY <3>1, AppendProperties, LenProperties DEF TypeOK, WorkerTypes
    <3> QED BY <1>2, <2>2, <3>2, ModulusLarge DEF DrainSpan, BatchFull
  <2> QED BY <2>1, <2>2
<1>3. CASE ExportBatch
  BY <1>3, Messages, ModulusLarge DEF ExportBatch
<1>4. CASE SubtractCount
  BY <1>4, Messages, ModulusLarge DEF SubtractCount
<1>5. CASE LoadTarget
  BY <1>5, Messages, ModulusLarge DEF LoadTarget
<1>6. CASE ReceiveMessage \/ TimerExpires \/ SendersGone \/ ResetFlagForExport
           \/ FinishRequest \/ ReplyShutdown \/ ThreadExits
  BY <1>6, Messages, ModulusLarge
     DEF ReceiveMessage, TimerExpires, SendersGone, ResetFlagForExport, FinishRequest,
         ReplyShutdown, ThreadExits, Goto, Arm
<1> QED
  BY <1>1, <1>2, <1>3, <1>4, <1>5, <1>6, WorkerFootprint
     DEF Worker, GetSpansAndExport, workerVars

(* The exporter is shut down and the channels are closed in that order, at  *)
(* the end.                                                                 *)
LEMMA WorkerPhaseStep ==
    ASSUME TypeOK, WorkerPhase, [Next]_vars PROVE WorkerPhase'
<1> USE DEF WorkerPhase
<1>1. CASE ~Worker
  <2>1. UNCHANGED <<workerVars, exporterVars>> BY <1>1, WorkerFootprint
  <2>2. UNCHANGED connected
    BY <1>1, BufferFootprint DEF Worker, GetSpansAndExport, BufferState, SendSpan
  <2> QED BY <2>1, <2>2 DEF workerVars, exporterVars
<1>2. CASE Worker
  BY <1>2 DEF Worker, GetSpansAndExport, ReceiveMessage, TimerExpires, SendersGone,
              ResetFlagForExport, LoadTarget, DrainSpan, ExportBatch, SubtractCount,
              FinishRequest, ReplyShutdown, ThreadExits, Goto, Arm, channelVars, exporterVars
<1> QED BY <1>1, <1>2

(***************************************************************************)
(* Conservation                                                            *)
(***************************************************************************)
(* A sequence is its head followed by its tail.                             *)
LEMMA HeadThenTail ==
    ASSUME NEW S, NEW s \in Seq(S), s # <<>>
    PROVE  <<Head(s)>> \o Tail(s) = s
<1>1. Len(s) \in Nat \ {0} BY EmptySeq
<1>2. Tail(s) = SubSeq(s, 2, Len(s)) BY TailIsSubSeq
<1>3. SubSeq(s, 1, Len(s)) = <<s[1]>> \o SubSeq(s, 2, Len(s))
  BY <1>1, SubSeqRecursiveFirst
<1>4. SubSeq(s, 1, Len(s)) = s BY SubSeqFull
<1> QED BY <1>2, <1>3, <1>4

(* A span moves from the channel to the batch to the exporter and nowhere   *)
(* else.                                                                    *)
LEMMA ConservationStep ==
    ASSUME TypeOK, WorkerPhase, Conservation, [Next]_vars PROVE Conservation'
<1>1. /\ spanQueue \in Seq(Span) /\ wBatch \in Seq(Span) /\ exported \in Seq(Span)
      /\ accepted \in Seq(Span)
  BY DEF TypeOK, ChannelTypes, WorkerTypes, ExporterTypes, HistoryTypes
<1>b. \A h \in Seq(Span) : exported \o (wBatch \o h) = (exported \o wBatch) \o h
  <2>1. ASSUME NEW h \in Seq(Span)
        PROVE  (exported \o wBatch) \o h = exported \o (wBatch \o h)
    <3>1. exported \in Seq(Span) /\ wBatch \in Seq(Span) BY <1>1
    <3> QED BY <3>1, ConcatAssociative
  <2> QED BY <2>1
<1>c. PICK first \in Seq(Span) : first = exported \o wBatch BY <1>1, ConcatProperties
<1>2. ASSUME NEW e \in Emitters, SendSpan(e) PROVE Conservation'
  <2>1. <<e, eSent[e] + 1>> \in Span
    BY <1>2, ConfigAssumption
       DEF SendSpan, BeginSpan, TypeOK, EmitterTypes, Span, ConfigAssumption
  <2>2. Append(accepted, <<e, eSent[e] + 1>>) = accepted \o <<<<e, eSent[e] + 1>>>>
    BY <1>1, <2>1, AppendIsConcat
  <2>3. Append(spanQueue, <<e, eSent[e] + 1>>) = spanQueue \o <<<<e, eSent[e] + 1>>>>
    BY <1>1, <2>1, AppendIsConcat
  <2>a. <<<<e, eSent[e] + 1>>>> \in Seq(Span) BY <2>1
  <2>4. PICK s \in Seq(Span) : s = <<<<e, eSent[e] + 1>>>> BY <2>a, Zenon
  <2>5. ((exported \o wBatch) \o spanQueue) \o <<<<e, eSent[e] + 1>>>>
          = (exported \o wBatch) \o (spanQueue \o <<<<e, eSent[e] + 1>>>>)
    <3>1. (first \o spanQueue) \o s = first \o (spanQueue \o s) BY <1>1, ConcatAssociative
    <3> QED BY <1>c, <2>4, <3>1
  <2> QED BY <1>2, <2>2, <2>3, <2>5 DEF Conservation, SendSpan, workerVars, exporterVars
<1>3. CASE DrainSpan
  <2>1. CASE spanQueue = <<>> BY <1>3, <2>1 DEF Conservation, DrainSpan, exporterVars, historyVars
  <2>2. CASE spanQueue # <<>>
    <3>1. Head(spanQueue) \in Span /\ Tail(spanQueue) \in Seq(Span)
      BY <1>1, <2>2, HeadTailProperties
    <3>2. Append(wBatch, Head(spanQueue)) = wBatch \o <<Head(spanQueue)>>
      BY <1>1, <3>1, AppendIsConcat
    <3>h. <<Head(spanQueue)>> \in Seq(Span) BY <3>1
    <3>3. PICK h \in Seq(Span) : h = <<Head(spanQueue)>> BY <3>h, Zenon
    <3>t. PICK t \in Seq(Span) : t = Tail(spanQueue) BY <3>1
    <3>4. (exported \o (wBatch \o <<Head(spanQueue)>>)) \o Tail(spanQueue)
            = (exported \o wBatch) \o (<<Head(spanQueue)>> \o Tail(spanQueue))
      <4>1. exported \o (wBatch \o h) = first \o h BY <1>b, <1>c
      <4>2. (first \o h) \o t = first \o (h \o t) BY ConcatAssociative
      <4> QED BY <1>c, <3>3, <3>t, <4>1, <4>2
    <3>5. <<Head(spanQueue)>> \o Tail(spanQueue) = spanQueue BY <1>1, <2>2, HeadThenTail
    <3> QED BY <1>3, <2>2, <3>2, <3>4, <3>5 DEF Conservation, DrainSpan, exporterVars, historyVars
  <2> QED BY <2>1, <2>2
<1>4. CASE ExportBatch
  <2>1. (exported \o wBatch) \o <<>> = exported \o wBatch BY <1>c, ConcatEmptySeq
  <2> QED BY <1>4, <2>1 DEF Conservation, ExportBatch, channelVars, historyVars
<1>5. CASE ThreadExits BY <1>5 DEF Conservation, ThreadExits
<1>6. CASE UNCHANGED BufferState BY <1>6 DEF Conservation, BufferState
<1> QED BY <1>2, <1>3, <1>4, <1>5, <1>6, BufferFootprint

(***************************************************************************)
(* The counter                                                             *)
(***************************************************************************)
Pending == Len(spanQueue) + Len(wBatch) + wCount

(* At most all emitters are between try_send and fetch_add.                 *)
LEMMA UncountedFinite ==
    /\ IsFiniteSet(Uncounted) /\ Cardinality(Uncounted) \in Nat
    /\ Cardinality(Uncounted) <= Cardinality(Emitters)
<1>1. Uncounted \subseteq Emitters BY DEF Uncounted
<1> QED BY <1>1, CounterAssumption, FS_Subset, FS_CardinalityType DEF CounterAssumption

(* What is pending fits the channel, one batch and one exported batch.      *)
LEMMA PendingBound ==
    ASSUME TypeOK, BatchShape
    PROVE  /\ Pending \in Nat /\ Pending <= MaxQueueSize + 2 * MaxExportBatchSize
           /\ wCount \in Nat /\ wCount <= Pending
           /\ Len(spanQueue) \in Nat /\ Len(wBatch) \in Nat
<1>1. /\ Len(spanQueue) \in Nat /\ Len(spanQueue) <= MaxQueueSize
      /\ Len(wBatch) \in Nat /\ Len(wBatch) <= MaxExportBatchSize
      /\ wCount \in Nat /\ wCount <= MaxExportBatchSize
  BY LenProperties DEF TypeOK, ChannelTypes, WorkerTypes, BatchShape
<1> QED BY <1>1, ModulusLarge DEF Pending

(* The counter follows the pending spans through fetch_add and fetch_sub.   *)
LEMMA CounterLagStep ==
    ASSUME TypeOK, BatchShape, WorkerPhase, CounterLag, [Next]_vars PROVE CounterLag'
<1> DEFINE Same == UNCHANGED <<currentBatchSize, Uncounted, connected>>
<1>0. /\ CounterModulus \in Nat /\ currentBatchSize \in 0..(CounterModulus - 1)
      /\ connected \in BOOLEAN
  BY ModulusLarge DEF TypeOK, CounterTypes, ChannelTypes
<1>a. ASSUME Same, Pending' = Pending PROVE CounterLag' BY <1>a DEF CounterLag, Pending
<1>1. CASE BuildProvider \/ DropProvider \/ Finished \/ UNCHANGED vars
  <2>1. Same /\ Pending' = Pending
    BY <1>1 DEF BuildProvider, DropProvider, Finished, vars, channelVars, counterVars,
                emitterVars, workerVars, Pending, Uncounted
  <2> QED BY <1>a, <2>1
<1>2. ASSUME NEW e \in Emitters, SendSpan(e) PROVE CounterLag'
  <2>1. Uncounted' = Uncounted \cup {e} /\ e \notin Uncounted
    BY <1>2 DEF SendSpan, BeginSpan, Uncounted, TypeOK, EmitterTypes
  <2>2. Cardinality(Uncounted') = Cardinality(Uncounted) + 1
    BY <2>1, UncountedFinite, FS_AddElement
  <2>3. Pending' = Pending + 1
    <3>1. Len(Append(spanQueue, <<e, eSent[e] + 1>>)) = Len(spanQueue) + 1
      BY DEF TypeOK, ChannelTypes
    <3> QED BY <1>2, <3>1, PendingBound DEF SendSpan, Pending, workerVars
  <2>4. UNCHANGED <<currentBatchSize, connected>> BY <1>2 DEF SendSpan, counterVars
  <2> SUFFICES ASSUME connected
               PROVE  \E wraps \in {0, 1} : currentBatchSize + Cardinality(Uncounted')
                                               = Pending' + wraps * CounterModulus
    BY <2>4 DEF CounterLag, Pending
  <2>5. PICK wraps \in {0, 1} :
            currentBatchSize + Cardinality(Uncounted) = Pending + wraps * CounterModulus
    BY DEF CounterLag, Pending
  <2>6. currentBatchSize + Cardinality(Uncounted') = Pending' + wraps * CounterModulus
    BY <1>0, <2>2, <2>3, <2>5, PendingBound, UncountedFinite
  <2> QED BY <2>6
<1>3. ASSUME NEW e \in Emitters, CountSpan(e) PROVE CounterLag'
  <2>1. Uncounted' = Uncounted \ {e} /\ e \in Uncounted
    BY <1>3 DEF CountSpan, Uncounted, TypeOK, EmitterTypes
  <2>2. Cardinality(Uncounted') = Cardinality(Uncounted) - 1
    BY <2>1, UncountedFinite, FS_RemoveElement
  <2>3. Pending' = Pending /\ connected' = connected
        /\ currentBatchSize' = WrapAdd(currentBatchSize)
    BY <1>3 DEF CountSpan, Pending, channelVars, workerVars
  <2> SUFFICES ASSUME connected
               PROVE  \E wraps \in {0, 1} : currentBatchSize' + Cardinality(Uncounted')
                                               = Pending + wraps * CounterModulus
    BY <2>3 DEF CounterLag, Pending
  <2>4. PICK wraps \in {0, 1} :
            currentBatchSize + Cardinality(Uncounted) = Pending + wraps * CounterModulus
    BY DEF CounterLag, Pending
  <2>5. Cardinality(Uncounted) >= 1
    BY <2>1, UncountedFinite, FS_EmptySet
  <2>6. CASE currentBatchSize = CounterModulus - 1
    <3>1. wraps = 1
      BY <1>0, <2>4, <2>5, <2>6, PendingBound, UncountedFinite, ModulusLarge
    <3>2. currentBatchSize' + Cardinality(Uncounted') = Pending + 0 * CounterModulus
      BY <1>0, <2>2, <2>3, <2>4, <2>6, <3>1, PendingBound, UncountedFinite DEF WrapAdd
    <3> QED BY <3>2
  <2>7. CASE currentBatchSize # CounterModulus - 1
    <3>1. currentBatchSize' + Cardinality(Uncounted') = Pending + wraps * CounterModulus
      BY <1>0, <2>2, <2>3, <2>4, <2>7, PendingBound, UncountedFinite DEF WrapAdd
    <3> QED BY <3>1
  <2> QED BY <2>6, <2>7
<1>4. ASSUME NEW e \in Emitters,
             \/ SendSpanFull(e) \/ SendSpanDisconnected(e) \/ CountDropped(e) \/ LoadFlag(e)
             \/ SwapFlag(e) \/ SendExport(e) \/ ResetFlag(e)
      PROVE  CounterLag'
  <2>1. Uncounted' = Uncounted
    BY <1>4
       DEF SendSpanFull, SendSpanDisconnected, BeginSpan, CountDropped, LoadFlag, SwapFlag,
                SendExport, ResetFlag, Uncounted, TypeOK, EmitterTypes
  <2>2. UNCHANGED <<currentBatchSize, connected>> /\ Pending' = Pending
    BY <1>4
       DEF SendSpanFull, SendSpanDisconnected, CountDropped, LoadFlag, SwapFlag, SendExport,
                ResetFlag, channelVars, counterVars, workerVars, Pending
  <2> QED BY <1>a, <2>1, <2>2
<1>5. ASSUME NEW c \in Controllers, Control(c) PROVE CounterLag'
  <2>1. Same /\ Pending' = Pending
    BY <1>5
       DEF Control, FinishCall, ForceFlush, Shutdown, BeginCall, SendRequest, ReceiveReply,
                Join, channelVars, counterVars, emitterVars, workerVars, Pending, Uncounted
  <2> QED BY <1>a, <2>1
<1>6. CASE DrainSpan
  <2>1. Same BY <1>6 DEF DrainSpan, counterVars, emitterVars, Uncounted
  <2>2. CASE spanQueue = <<>> BY <1>6, <1>a, <2>1, <2>2 DEF DrainSpan, Pending
  <2>3. CASE spanQueue # <<>>
    <3>1. Head(spanQueue) \in Span /\ Len(Tail(spanQueue)) = Len(spanQueue) - 1
      BY <2>3, HeadTailProperties DEF TypeOK, ChannelTypes
    <3>2. Len(Append(wBatch, Head(spanQueue))) = Len(wBatch) + 1
      BY <3>1, AppendProperties DEF TypeOK, WorkerTypes
    <3>a. /\ Len(spanQueue') = Len(spanQueue) - 1 /\ Len(wBatch') = Len(wBatch) + 1
          /\ wCount' = wCount
      BY <1>6, <2>3, <3>1, <3>2 DEF DrainSpan
    <3>3. Pending' = Pending BY <3>a, PendingBound DEF Pending
    <3> QED BY <1>a, <2>1, <3>3
  <2> QED BY <2>2, <2>3
<1>7. CASE ExportBatch
  <2>1. Same BY <1>7 DEF ExportBatch, channelVars, counterVars, emitterVars, Uncounted
  <2>2. Pending' = Pending
    BY <1>7, Messages, PendingBound DEF ExportBatch, channelVars, Pending, BatchShape
  <2> QED BY <1>a, <2>1, <2>2
<1>8. CASE SubtractCount
  <2>1. UNCHANGED <<Uncounted, connected>> /\ currentBatchSize' = WrapSub(currentBatchSize, wCount)
    BY <1>8 DEF SubtractCount, channelVars, emitterVars, Uncounted
  <2>2. Pending' = Pending - wCount
    BY <1>8, PendingBound DEF SubtractCount, channelVars, Pending
  <2> SUFFICES ASSUME connected
               PROVE  \E wraps \in {0, 1} : currentBatchSize' + Cardinality(Uncounted)
                                               = Pending - wCount + wraps * CounterModulus
    BY <2>1, <2>2 DEF CounterLag, Pending
  <2>3. PICK wraps \in {0, 1} :
            currentBatchSize + Cardinality(Uncounted) = Pending + wraps * CounterModulus
    BY DEF CounterLag, Pending
  <2>4. CASE wCount <= currentBatchSize
    <3>1. currentBatchSize' + Cardinality(Uncounted) = Pending - wCount + wraps * CounterModulus
      BY <1>0, <2>1, <2>3, <2>4, PendingBound, UncountedFinite DEF WrapSub
    <3> QED BY <3>1
  <2>5. CASE ~(wCount <= currentBatchSize)
    <3>1. wCount <= MaxExportBatchSize BY DEF BatchShape
    <3>2. wraps = 0
      BY <1>0, <2>3, <2>5, <3>1, PendingBound, UncountedFinite, ModulusLarge
    <3>3. currentBatchSize' + Cardinality(Uncounted) = Pending - wCount + 1 * CounterModulus
      BY <1>0, <2>1, <2>3, <2>5, <3>2, PendingBound, UncountedFinite DEF WrapSub
    <3> QED BY <3>3
  <2> QED BY <2>4, <2>5
<1>9. CASE ThreadExits BY <1>9 DEF ThreadExits, CounterLag
<1>10. CASE \/ ReceiveMessage \/ TimerExpires \/ SendersGone \/ ResetFlagForExport
            \/ LoadTarget \/ FinishRequest \/ ReplyShutdown
  <2>1. Same /\ Pending' = Pending
    BY <1>10 DEF ReceiveMessage, TimerExpires, SendersGone, ResetFlagForExport, LoadTarget,
                 FinishRequest, ReplyShutdown, Goto, channelVars, counterVars, emitterVars,
                 Pending, Uncounted
  <2> QED BY <1>a, <2>1
<1> QED BY <1>1, <1>2, <1>3, <1>4, <1>5, <1>6, <1>7, <1>8, <1>9, <1>10
        DEF Next, EndSpan, FinishSpan, Worker, GetSpansAndExport

(***************************************************************************)
(* The ExportSpan token                                                    *)
(***************************************************************************)
(* SetResource and the requests of the controllers are no ExportSpan        *)
(* messages.                                                                *)
LEMMA NotATrigger ==
    /\ SetResource # ExportSpan
    /\ \A r \in Request : r # ExportSpan
<1>1. SetResource.kind # ExportSpan.kind BY DEF SetResource, ExportSpan
<1>2. \A r \in Request : r.kind # ExportSpan.kind BY DEF Request, ExportSpan
<1> QED BY <1>1, <1>2

(* Queueing any other message leaves the queued ExportSpan message where it *)
(* is.                                                                      *)
LEMMA AppendOther ==
    ASSUME TypeOK, NEW m \in Message, m # ExportSpan, messages' = Append(messages, m)
    PROVE  /\ DOMAIN messages \subseteq DOMAIN messages'
           /\ \A i : Queued(i)' <=> Queued(i)
<1>1. messages \in Seq(Message) BY DEF TypeOK, ChannelTypes
<1>2. /\ DOMAIN messages = 1..Len(messages) /\ Len(messages) \in Nat
      /\ DOMAIN messages' = 1..(Len(messages) + 1)
      /\ \A i \in 1..Len(messages) : messages'[i] = messages[i]
      /\ messages'[Len(messages) + 1] = m
  BY <1>1, AppendProperties, LenProperties
<1> QED BY <1>2 DEF Queued

(* What a controller sends is a request.                                    *)
LEMMA RequestIsMessage ==
    ASSUME TypeOK, NEW c \in Controllers, SendRequest(c)
    PROVE  [kind |-> cKind[c], from |-> c, call |-> cCalls[c]] \in Request
<1>1. cKind[c] \in {"ForceFlush", "Shutdown"} BY DEF TypeOK, CallTypes
<1>2. cCalls[c] \in 0..CallsPerController /\ cCalls[c] > 0
  BY DEF SendRequest, TypeOK, CallTypes
<1>3. cCalls[c] \in 1..CallsPerController BY <1>2, ConfigAssumption DEF ConfigAssumption
<1> QED BY <1>1, <1>3 DEF Request

(* The worker resets the flag for ExportSpan messages only.                 *)
LEMMA HeadIsTrigger ==
    \A m \in Message : Arm(m.kind) = "resetFlag" <=> m = ExportSpan
<1>1. Arm(ExportSpan.kind) = "resetFlag" BY DEF Arm, ExportSpan
<1>2. Arm(SetResource.kind) # "resetFlag" BY DEF Arm, SetResource
<1>3. \A r \in Request : Arm(r.kind) # "resetFlag" BY DEF Arm, Request
<1> QED BY <1>1, <1>2, <1>3 DEF Message

(* The token passes from an emitter to the channel to the worker and is     *)
(* never doubled.                                                           *)
LEMMA ExportTokenStep ==
    ASSUME TypeOK, WorkerPhase, ExportToken, [Next]_vars PROVE ExportToken'
<1> DEFINE Same == UNCHANGED <<messages, connected, exportSpanMessageSent>>
           SameHolders == /\ \A e \in Emitters : Holding(e)' <=> Holding(e)
                          /\ wPc = "resetFlag" <=> wPc' = "resetFlag"
           SameQueue == DOMAIN messages \subseteq DOMAIN messages' /\ \A i : Queued(i)' <=> Queued(i)
<1>a. ASSUME SameQueue, SameHolders, UNCHANGED <<connected, exportSpanMessageSent>>
      PROVE  ExportToken'
  <2>1. TokenQueued' <=> TokenQueued BY <1>a DEF TokenQueued, Queued
  <2>2. TokenHeld' <=> TokenHeld BY <1>a DEF TokenHeld
  <2>3. connected => \A i, j \in DOMAIN messages' : Queued(i)' /\ Queued(j)' => i = j
    BY <1>a DEF ExportToken, Queued
  <2>4. connected => \A e, f \in Emitters : Holding(e)' /\ Holding(f)' => e = f
    BY <1>a DEF ExportToken
  <2> QED BY <1>a, <2>1, <2>2, <2>3, <2>4 DEF ExportToken
<1>b. ASSUME Same, SameHolders PROVE ExportToken'
  BY <1>a, <1>b DEF Queued
<1>1. CASE BuildProvider
  <2>1. SameHolders /\ UNCHANGED <<connected, exportSpanMessageSent>>
    BY <1>1 DEF BuildProvider, counterVars, emitterVars, workerVars, Holding
  <2>2. SameQueue BY <1>1, AppendOther, Messages, NotATrigger DEF BuildProvider, Queued
  <2> QED BY <1>a, <2>1, <2>2
<1>2. CASE DropProvider \/ Finished \/ UNCHANGED vars
  BY <1>2, <1>b DEF DropProvider, Finished, vars, channelVars, counterVars, emitterVars,
                    workerVars, Holding
<1>3. ASSUME NEW e \in Emitters,
             \/ SendSpan(e) \/ SendSpanFull(e) \/ SendSpanDisconnected(e) \/ CountDropped(e)
             \/ CountSpan(e) \/ LoadFlag(e)
      PROVE  ExportToken'
  <2>1. SameHolders
    BY <1>3
       DEF SendSpan, SendSpanFull, SendSpanDisconnected, BeginSpan, CountDropped, CountSpan,
                LoadFlag, workerVars, Holding, TypeOK, EmitterTypes
  <2>2. Same
    BY <1>3
       DEF SendSpan, SendSpanFull, SendSpanDisconnected, CountDropped, CountSpan, LoadFlag,
                channelVars, counterVars
  <2> QED BY <1>b, <2>1, <2>2
<1>4. ASSUME NEW e \in Emitters, SwapFlag(e) PROVE ExportToken'
  <2>1. UNCHANGED <<messages, connected, wPc>> BY <1>4 DEF SwapFlag, channelVars, workerVars
  <2>2. CASE exportSpanMessageSent
    <3>1. SameHolders /\ Same
      BY <1>4, <2>1, <2>2 DEF SwapFlag, Holding, TypeOK, EmitterTypes
    <3> QED BY <1>b, <3>1
  <2>3. CASE ~exportSpanMessageSent
    <3>1. \A f \in Emitters : Holding(f)' <=> f = e \/ Holding(f)
      BY <1>4, <2>3 DEF SwapFlag, Holding, TypeOK, EmitterTypes
    <3>2. exportSpanMessageSent' BY <1>4 DEF SwapFlag
    <3> QED BY <2>1, <2>3, <3>1, <3>2 DEF ExportToken, TokenQueued, TokenHeld, Queued
  <2> QED BY <2>2, <2>3
<1>5. ASSUME NEW e \in Emitters, SendExport(e) PROVE ExportToken'
  <2>1. UNCHANGED <<connected, wPc, exportSpanMessageSent>> /\ Holding(e)
    BY <1>5 DEF SendExport, counterVars, workerVars, Holding
  <2>2. CASE messages' = messages /\ ePc' = [ePc EXCEPT ![e] = "resetFlag"]
    <3>1. SameHolders /\ Same
      BY <1>5, <2>1, <2>2 DEF SendExport, Holding, TypeOK, EmitterTypes
    <3> QED BY <1>b, <3>1
  <2>3. CASE messages' = Append(messages, ExportSpan) /\ ePc' = [ePc EXCEPT ![e] = "idle"]
    <3>1. \A f \in Emitters : Holding(f)' <=> f # e /\ Holding(f)
      BY <2>3 DEF Holding, TypeOK, EmitterTypes
    <3>2. /\ DOMAIN messages = 1..Len(messages) /\ Len(messages) \in Nat
          /\ DOMAIN messages' = 1..(Len(messages) + 1)
          /\ \A i \in 1..Len(messages) : messages'[i] = messages[i]
          /\ messages'[Len(messages) + 1] = ExportSpan
      BY <2>3, Messages, AppendProperties, LenProperties DEF TypeOK, ChannelTypes
    <3>3. connected => \A i \in DOMAIN messages : messages[i] # ExportSpan
      BY <2>1 DEF ExportToken, TokenQueued, TokenHeld, Queued
    <3>4. connected => \A i \in DOMAIN messages' : Queued(i)' <=> i = Len(messages) + 1
      BY <3>2, <3>3 DEF Queued
    <3>5. connected => TokenQueued' /\ ~TokenHeld'
      BY <2>1, <3>1, <3>2, <3>4 DEF ExportToken, TokenQueued, TokenHeld
    <3>6. connected => exportSpanMessageSent /\ wPc # "resetFlag"
      BY <2>1 DEF ExportToken, TokenHeld
    <3>7. connected => \A i, j \in DOMAIN messages' : Queued(i)' /\ Queued(j)' => i = j
      BY <3>4
    <3>8. connected => \A f, g \in Emitters : Holding(f)' /\ Holding(g)' => f = g
      BY <3>5 DEF TokenHeld
    <3> QED BY <2>1, <3>5, <3>6, <3>7, <3>8 DEF ExportToken
  <2> QED BY <1>5, <2>2, <2>3 DEF SendExport
<1>6. ASSUME NEW e \in Emitters, ResetFlag(e) PROVE ExportToken'
  <2>1. UNCHANGED <<messages, connected, wPc>> /\ Holding(e) /\ exportSpanMessageSent' = FALSE
    BY <1>6 DEF ResetFlag, channelVars, workerVars, Holding
  <2>2. \A f \in Emitters : Holding(f)' <=> f # e /\ Holding(f)
    BY <1>6 DEF ResetFlag, Holding, TypeOK, EmitterTypes
  <2> QED BY <2>1, <2>2 DEF ExportToken, TokenQueued, TokenHeld, Queued
<1>7. ASSUME NEW c \in Controllers, Control(c) PROVE ExportToken'
  <2>1. SameHolders /\ UNCHANGED <<connected, exportSpanMessageSent>>
    BY <1>7
       DEF Control, FinishCall, ForceFlush, Shutdown, BeginCall, SendRequest, ReceiveReply,
                Join, channelVars, counterVars, emitterVars, workerVars, Holding
  <2>2. CASE SendRequest(c)
    <3>1. [kind |-> cKind[c], from |-> c, call |-> cCalls[c]] \in Message
          /\ [kind |-> cKind[c], from |-> c, call |-> cCalls[c]] # ExportSpan
      BY <2>2, RequestIsMessage, NotATrigger, Messages
    <3>2. SameQueue BY <2>2, <3>1, AppendOther DEF SendRequest, Queued
    <3> QED BY <1>a, <2>1, <3>2
  <2>3. CASE ~SendRequest(c)
    <3>1. messages' = messages
      BY <1>7, <2>3
         DEF Control, FinishCall, ForceFlush, Shutdown, BeginCall, ReceiveReply, Join,
                        channelVars
    <3> QED BY <1>b, <2>1, <3>1
  <2> QED BY <2>2, <2>3
<1>8. CASE ReceiveMessage
  <2>1. /\ UNCHANGED <<connected, exportSpanMessageSent, ePc>> /\ wPc = "recv"
        /\ messages # <<>> /\ messages' = Tail(messages)
        /\ wPc' = Arm(Head(messages).kind)
    BY <1>8 DEF ReceiveMessage, Goto, counterVars, emitterVars
  <2>2. /\ DOMAIN messages = 1..Len(messages) /\ Len(messages) \in Nat \ {0}
        /\ DOMAIN messages' = 1..(Len(messages) - 1)
        /\ \A i \in 1..(Len(messages) - 1) : messages'[i] = messages[i + 1]
        /\ Head(messages) = messages[1] /\ messages[1] \in Message
    <3>1. messages \in Seq(Message) BY DEF TypeOK, ChannelTypes
    <3>2. Tail(messages) \in Seq(Message) /\ Len(Tail(messages)) = Len(messages) - 1
          /\ \A i \in 1..Len(Tail(messages)) : Tail(messages)[i] = messages[i + 1]
      BY <2>1, <3>1, HeadTailProperties
    <3>3. DOMAIN messages = 1..Len(messages) /\ Len(messages) \in Nat \ {0}
      BY <2>1, <3>1, EmptySeq, LenProperties
    <3>4. DOMAIN Tail(messages) = 1..Len(Tail(messages)) BY <3>2, LenProperties
    <3>5. messages[1] \in Message BY <3>1, <3>3, ElementOfSeq
    <3> QED BY <2>1, <3>2, <3>3, <3>4, <3>5
  <2>3. \A i \in DOMAIN messages' : i + 1 \in DOMAIN messages /\ (Queued(i)' <=> Queued(i + 1))
    BY <2>2 DEF Queued
  <2>4. TokenHeld' <=> TokenHeld BY <2>1 DEF TokenHeld, Holding
  <2>5. wPc' = "resetFlag" <=> Queued(1)
    BY <2>1, <2>2, HeadIsTrigger DEF Queued
  <2>6. TokenQueued <=> Queued(1) \/ TokenQueued'
    <3>1. \A i \in DOMAIN messages : i = 1 \/ i - 1 \in DOMAIN messages' BY <2>2
    <3>2. \A i \in DOMAIN messages : Queued(i) => i = 1 \/ Queued(i - 1)'
      BY <2>2, <2>3, <3>1
    <3>3. TokenQueued => Queued(1) \/ TokenQueued'
      BY <3>1, <3>2 DEF TokenQueued
    <3>4. 1 \in DOMAIN messages BY <2>2
    <3> QED BY <2>3, <3>3, <3>4 DEF TokenQueued
  <2>7. connected => \A i, j \in DOMAIN messages' : Queued(i)' /\ Queued(j)' => i = j
    BY <2>2, <2>3 DEF ExportToken
  <2>8. connected => ~(Queued(1) /\ TokenQueued')
    BY <2>2, <2>3 DEF ExportToken, TokenQueued
  <2>9. connected => \A e, f \in Emitters : Holding(e)' /\ Holding(f)' => e = f
    BY <2>1 DEF ExportToken, Holding
  <2> QED BY <2>1, <2>4, <2>5, <2>6, <2>7, <2>8, <2>9 DEF ExportToken
<1>9. CASE ResetFlagForExport
  <2>1. UNCHANGED <<messages, connected, ePc>> /\ wPc = "resetFlag" /\ wPc' = "loadTarget"
        /\ exportSpanMessageSent' = FALSE
    BY <1>9 DEF ResetFlagForExport, Goto, channelVars, emitterVars
  <2> QED BY <2>1 DEF ExportToken, TokenQueued, TokenHeld, Queued, Holding
<1>10. CASE ThreadExits BY <1>10 DEF ThreadExits, ExportToken
<1>11. CASE \/ TimerExpires \/ SendersGone \/ GetSpansAndExport \/ FinishRequest \/ ReplyShutdown
  <2>1. Same
    BY <1>11
       DEF TimerExpires, SendersGone, GetSpansAndExport, LoadTarget, DrainSpan, ExportBatch,
                 SubtractCount, FinishRequest, ReplyShutdown, channelVars, counterVars
  <2>2. UNCHANGED ePc /\ wPc # "resetFlag" /\ wPc' # "resetFlag"
    BY <1>11
       DEF TimerExpires, SendersGone, GetSpansAndExport, LoadTarget, DrainSpan, ExportBatch,
                 SubtractCount, FinishRequest, ReplyShutdown, Goto, emitterVars
  <2> QED BY <1>b, <2>1, <2>2 DEF Holding
<1> QED BY <1>1, <1>2, <1>3, <1>4, <1>5, <1>6, <1>7, <1>8, <1>9, <1>10, <1>11
        DEF Next, EndSpan, FinishSpan, Worker

(***************************************************************************)
(* Implementing the abstract buffer                                        *)
(***************************************************************************)
(* The spans a thread has still to send are not among the accepted ones. *)
Fresh == \A i \in DOMAIN accepted : accepted[i][2] <= eSent[accepted[i][1]]

(* An emitter numbers its spans upwards, so an accepted span is never sent  *)
(* again.                                                                   *)
LEMMA FreshStep ==
    ASSUME TypeOK, Fresh, [Next]_vars PROVE Fresh'
<1> DEFINE Grows == \A e \in Emitters : eSent[e] <= eSent'[e]
<1>0. /\ accepted \in Seq(Span) /\ DOMAIN accepted = 1..Len(accepted) /\ Len(accepted) \in Nat
      /\ \A i \in DOMAIN accepted : accepted[i] \in Span
      /\ \A e \in Emitters : eSent[e] \in Nat
      /\ \A s \in Span : s[1] \in Emitters /\ s[2] \in Nat
  <2>1. accepted \in Seq(Span) BY DEF TypeOK, HistoryTypes
  <2>2. DOMAIN accepted = 1..Len(accepted) /\ Len(accepted) \in Nat BY <2>1, LenProperties
  <2>3. \A i \in DOMAIN accepted : accepted[i] \in Span BY <2>1, <2>2, ElementOfSeq
  <2>4. \A e \in Emitters : eSent[e] \in Nat
    BY ConfigAssumption DEF TypeOK, EmitterTypes, ConfigAssumption
  <2>5. \A s \in Span : s[1] \in Emitters /\ s[2] \in Nat
    BY ConfigAssumption DEF Span, ConfigAssumption
  <2> QED BY <2>1, <2>2, <2>3, <2>4, <2>5
<1>a. ASSUME UNCHANGED <<accepted, eSent>> PROVE Fresh' BY <1>a DEF Fresh
<1>1. CASE BuildProvider \/ DropProvider \/ Finished \/ Worker \/ UNCHANGED vars
  BY <1>1, <1>a
     DEF BuildProvider, DropProvider, Finished, vars, emitterVars, historyVars, Worker,
         ReceiveMessage, TimerExpires, SendersGone, ResetFlagForExport, GetSpansAndExport,
         LoadTarget, DrainSpan, ExportBatch, SubtractCount, FinishRequest, ReplyShutdown, ThreadExits
<1>2. ASSUME NEW c \in Controllers, Control(c) PROVE Fresh'
  BY <1>2, <1>a
     DEF Control, FinishCall, ForceFlush, Shutdown, BeginCall, SendRequest, ReceiveReply,
                    Join, emitterVars, historyVars
<1>3. ASSUME NEW e \in Emitters, FinishSpan(e) PROVE Fresh'
  BY <1>3, <1>a
     DEF FinishSpan, CountDropped, CountSpan, LoadFlag, SwapFlag, SendExport, ResetFlag,
                    historyVars
<1>4. ASSUME NEW e \in Emitters, SendSpanFull(e) \/ SendSpanDisconnected(e) PROVE Fresh'
  <2>1. accepted' = accepted /\ eSent' = [eSent EXCEPT ![e] = @ + 1]
    BY <1>4 DEF SendSpanFull, SendSpanDisconnected, BeginSpan, historyVars
  <2>2. \A f \in Emitters : eSent[f] <= eSent'[f] BY <2>1, <1>0 DEF TypeOK, EmitterTypes
  <2> QED BY <2>1, <2>2, <1>0 DEF Fresh, TypeOK, EmitterTypes
<1>5. ASSUME NEW e \in Emitters, SendSpan(e) PROVE Fresh'
  <2>1. accepted' = Append(accepted, <<e, eSent[e] + 1>>) /\ eSent' = [eSent EXCEPT ![e] = @ + 1]
    BY <1>5 DEF SendSpan, BeginSpan
  <2>2. \A f \in Emitters : eSent[f] <= eSent'[f] BY <2>1, <1>0 DEF TypeOK, EmitterTypes
  <2>3. eSent'[e] = eSent[e] + 1 BY <2>1 DEF TypeOK, EmitterTypes
  <2>4. <<e, eSent[e] + 1>> \in Span
    BY <1>5, ConfigAssumption
       DEF SendSpan, BeginSpan, TypeOK, EmitterTypes, Span, ConfigAssumption
  <2>5. /\ DOMAIN accepted' = 1..(Len(accepted) + 1)
        /\ \A i \in 1..Len(accepted) : accepted'[i] = accepted[i]
        /\ accepted'[Len(accepted) + 1] = <<e, eSent[e] + 1>>
    BY <1>0, <2>1, <2>4, AppendProperties, LenProperties
  <2>6. ASSUME NEW i \in 1..Len(accepted) PROVE accepted'[i][2] <= eSent'[accepted'[i][1]]
    <3>1. accepted[i] \in Span /\ accepted[i][2] <= eSent[accepted[i][1]] BY <1>0 DEF Fresh
    <3>2. accepted[i][1] \in Emitters /\ accepted[i][2] \in Nat BY <1>0, <3>1
    <3>3. eSent[accepted[i][1]] <= eSent'[accepted[i][1]] BY <2>2, <3>2
    <3>4. eSent[accepted[i][1]] \in Nat /\ eSent'[accepted[i][1]] \in Nat
      BY <1>0, <2>1, <3>2 DEF TypeOK, EmitterTypes
    <3> QED BY <2>5, <3>1, <3>2, <3>3, <3>4
  <2>7. accepted'[Len(accepted) + 1][2] <= eSent'[accepted'[Len(accepted) + 1][1]]
    BY <1>0, <2>3, <2>5
  <2> QED BY <1>0, <2>5, <2>6, <2>7 DEF Fresh
<1> QED BY <1>1, <1>2, <1>3, <1>4, <1>5 DEF Next, EndSpan

(* Both parts keep their elements in a concatenation.                       *)
LEMMA ConcatKeepsElements ==
    ASSUME NEW S, NEW a \in Seq(S), NEW b \in Seq(S)
    PROVE  /\ DOMAIN (a \o b) = 1..(Len(a) + Len(b)) /\ Len(a) \in Nat /\ Len(b) \in Nat
           /\ \A i \in DOMAIN a : i \in DOMAIN (a \o b) /\ (a \o b)[i] = a[i]
           /\ \A i \in DOMAIN b : Len(a) + i \in DOMAIN (a \o b) /\ (a \o b)[Len(a) + i] = b[i]
<1>1. /\ Len(a) \in Nat /\ Len(b) \in Nat /\ DOMAIN a = 1..Len(a) /\ DOMAIN b = 1..Len(b)
  BY LenProperties
<1>2. PICK c \in Seq(S) : c = a \o b BY ConcatProperties
<1>3. DOMAIN c = 1..Len(c) BY LenProperties
<1>4. Len(c) = Len(a) + Len(b)
      /\ \A i \in 1..(Len(a) + Len(b)) : c[i] = IF i <= Len(a) THEN a[i] ELSE b[i - Len(a)]
  BY <1>2, ConcatProperties
<1>5. \A i \in DOMAIN a : i \in DOMAIN c /\ c[i] = a[i] BY <1>1, <1>3, <1>4
<1>6. \A i \in DOMAIN b : Len(a) + i \in DOMAIN c /\ c[Len(a) + i] = b[i]
  BY <1>1, <1>3, <1>4
<1> QED BY <1>1, <1>2, <1>3, <1>4, <1>5, <1>6

(* A concatenation can be cut where it was joined.                          *)
LEMMA SplitConcat ==
    ASSUME NEW S, NEW a \in Seq(S), NEW b \in Seq(S)
    PROVE  /\ SubSeq(a \o b, 1, Len(a)) = a
           /\ SubSeq(a \o b, Len(a) + 1, Len(a \o b)) = b
<1>0. Len(a) \in Nat /\ Len(b) \in Nat /\ Len(a \o b) = Len(a) + Len(b)
  BY LenProperties, ConcatProperties
<1>1. SubSeq(a \o b, 1, Len(a)) = a
  <2>1. CASE Len(a) = 0
    BY <2>1, SubSeqEmpty, EmptySeq
  <2>2. CASE Len(a) # 0
    <3>1. SubSeq(a \o b, 1, Len(a)) = SubSeq(a, 1, Len(a)) BY <1>0, <2>2, SubSeqOfConcat1
    <3> QED BY <3>1, SubSeqFull
  <2> QED BY <2>1, <2>2
<1>2. SubSeq(a \o b, Len(a) + 1, Len(a) + Len(b)) = b
  <2>1. CASE Len(b) = 0
    BY <1>0, <2>1, SubSeqEmpty, EmptySeq
  <2>2. CASE Len(b) # 0
    <3>1. /\ Len(a) + 1 \in (Len(a) + 1)..(Len(a) + Len(b))
          /\ Len(a) + Len(b) \in (Len(a) + 1)..(Len(a) + Len(b))
      BY <1>0, <2>2
    <3>2. SubSeq(a \o b, Len(a) + 1, Len(a) + Len(b))
            = SubSeq(b, Len(a) + 1 - Len(a), Len(a) + Len(b) - Len(a))
      BY <3>1, SubSeqOfConcat2
    <3>3. Len(a) + 1 - Len(a) = 1 /\ Len(a) + Len(b) - Len(a) = Len(b) BY <1>0
    <3> QED BY <3>2, <3>3, SubSeqFull
  <2> QED BY <2>1, <2>2
<1> QED BY <1>0, <1>1, <1>2

(* Every step of the processor is a step of the abstract buffer or leaves   *)
(* it alone.                                                                *)
LEMMA BufferStep ==
    ASSUME TypeOK, BatchShape, WorkerPhase, Conservation, Fresh, [Next]_vars
    PROVE  [Buffer!Next]_(Buffer!bufferVars)
<1> USE DEF Buffer!bufferVars
<1>1. /\ spanQueue \in Seq(Span) /\ wBatch \in Seq(Span) /\ exported \in Seq(Span)
      /\ wBatch \o spanQueue \in Seq(Span)
  BY ConcatProperties DEF TypeOK, ChannelTypes, WorkerTypes, ExporterTypes
<1>2. ASSUME NEW e \in Emitters, SendSpan(e) PROVE Buffer!Next
  <2> DEFINE span == <<e, eSent[e] + 1>>
  <2>1. span \in Span
    BY <1>2, ConfigAssumption
       DEF SendSpan, BeginSpan, TypeOK, EmitterTypes, Span, ConfigAssumption
  <2>2. PICK pending \in Seq(Span) : pending = wBatch \o spanQueue BY <1>1
  <2>3. /\ connected /\ accepted = (exported \o wBatch) \o spanQueue
        /\ (exported \o wBatch) \o spanQueue = exported \o (wBatch \o spanQueue)
    <3>1. connected /\ accepted = (exported \o wBatch) \o spanQueue
      BY <1>2 DEF SendSpan, Conservation
    <3>2. (exported \o wBatch) \o spanQueue = exported \o (wBatch \o spanQueue)
      BY <1>1, ConcatAssociative
    <3> QED BY <3>1, <3>2
  <2>4. accepted = exported \o pending BY <2>2, <2>3
  <2>5. \A i \in DOMAIN accepted : accepted[i] # span
    <3>1. ASSUME NEW i \in DOMAIN accepted, accepted[i] = span PROVE FALSE
      <4>1. accepted[i][2] = eSent[e] + 1 /\ accepted[i][1] = e BY <3>1
      <4>2. eSent[e] \in Nat BY ConfigAssumption DEF TypeOK, EmitterTypes, ConfigAssumption
      <4> QED BY <4>1, <4>2 DEF Fresh
    <3> QED BY <3>1
  <2>6. \A i \in DOMAIN pending : pending[i] # span
    <3>1. \A i \in DOMAIN pending :
             Len(exported) + i \in DOMAIN accepted /\ accepted[Len(exported) + i] = pending[i]
      <4>1. exported \in Seq(Span) /\ pending \in Seq(Span) BY <1>1, <2>2
      <4>2. \A i \in DOMAIN pending :
               /\ Len(exported) + i \in DOMAIN (exported \o pending)
               /\ (exported \o pending)[Len(exported) + i] = pending[i]
        BY <4>1, ConcatKeepsElements
      <4> QED BY <2>4, <4>2
    <3> HIDE DEF span
    <3> QED BY <2>5, <3>1
  <2>7. \A i \in DOMAIN exported : exported[i] # span
    BY <1>1, <2>2, <2>4, <2>5, ConcatKeepsElements
  <2>8. span \notin Buffer!Known BY <2>2, <2>6, <2>7 DEF Buffer!Known
  <2>9. (wBatch \o spanQueue)' = Append(wBatch \o spanQueue, span)
    <3>1. <<span>> \in Seq(Span) BY <2>1
    <3>2. PICK s \in Seq(Span) : s = <<span>> BY <3>1, Zenon
    <3>3. spanQueue' = spanQueue \o s /\ wBatch' = wBatch
      BY <1>1, <1>2, <2>1, <3>2, AppendIsConcat DEF SendSpan, workerVars
    <3>4. Append(pending, span) = pending \o s BY <2>1, <3>2, AppendIsConcat
    <3>5. (wBatch \o spanQueue) \o s = wBatch \o (spanQueue \o s) BY <1>1, ConcatAssociative
    <3> QED BY <2>2, <3>3, <3>4, <3>5
  <2>10. UNCHANGED <<exported, connected>> BY <1>2 DEF SendSpan, exporterVars
  <2>11. Buffer!Offer(span) BY <2>3, <2>8, <2>9, <2>10 DEF Buffer!Offer
  <2> QED BY <2>1, <2>11 DEF Buffer!Next
<1>3. CASE DrainSpan
  <2>1. UNCHANGED <<exported, connected>> BY <1>3 DEF DrainSpan, exporterVars
  <2>2. CASE spanQueue = <<>> BY <1>3, <2>1, <2>2 DEF DrainSpan
  <2>3. CASE spanQueue # <<>>
    <3>1. Head(spanQueue) \in Span /\ Tail(spanQueue) \in Seq(Span)
      BY <1>1, <2>3, HeadTailProperties
    <3>2. <<Head(spanQueue)>> \in Seq(Span) BY <3>1
    <3>3. PICK first \in Seq(Span) : first = <<Head(spanQueue)>> BY <3>2, Zenon
    <3>4. PICK rest \in Seq(Span) : rest = Tail(spanQueue) BY <3>1
    <3>5. wBatch' = wBatch \o first /\ spanQueue' = rest
      BY <1>1, <1>3, <2>3, <3>1, <3>3, <3>4, AppendIsConcat DEF DrainSpan
    <3>6. (wBatch \o first) \o rest = wBatch \o (first \o rest) BY <1>1, ConcatAssociative
    <3>7. first \o rest = spanQueue BY <1>1, <2>3, <3>3, <3>4, HeadThenTail
    <3> QED BY <2>1, <3>5, <3>6, <3>7
  <2> QED BY <2>2, <2>3
<1>4. CASE ExportBatch
  <2>1. /\ wBatch' = <<>> /\ spanQueue' = spanQueue /\ connected' = connected
        /\ exported' = exported \o wBatch
    BY <1>4 DEF ExportBatch, channelVars
  <2>2. <<>> \o spanQueue = spanQueue /\ exported \o <<>> = exported
    BY <1>1, ConcatEmptySeq
  <2>3. CASE wBatch = <<>> BY <2>1, <2>2, <2>3
  <2>4. CASE wBatch # <<>>
    <3>1. Len(wBatch) \in 1..Len(wBatch \o spanQueue) /\ Len(wBatch) <= MaxExportBatchSize
      BY <1>1, <2>4, ConcatProperties, EmptySeq, LenProperties DEF BatchShape
    <3>2. /\ SubSeq(wBatch \o spanQueue, 1, Len(wBatch)) = wBatch
          /\ SubSeq(wBatch \o spanQueue, Len(wBatch) + 1, Len(wBatch \o spanQueue)) = spanQueue
      BY <1>1, SplitConcat
    <3>3. Buffer!Export(Len(wBatch)) BY <2>1, <2>2, <3>1, <3>2 DEF Buffer!Export
    <3>4. Len(wBatch) \in 1..MaxExportBatchSize BY <3>1, ModulusLarge, <1>1, LenProperties
    <3> QED BY <3>3, <3>4 DEF Buffer!Next
  <2> QED BY <2>3, <2>4
<1>5. CASE ThreadExits
  <2>1. /\ connected /\ wBatch = <<>> /\ wBatch' = <<>> /\ spanQueue' = <<>>
        /\ connected' = FALSE /\ exported' = exported
    BY <1>5 DEF ThreadExits, Goto, BatchShape, WorkerPhase, exporterVars
  <2>2. (wBatch \o spanQueue)' = <<>> BY <2>1, Messages, ConcatEmptySeq
  <2> QED BY <2>1, <2>2 DEF Buffer!Next, Buffer!Close
<1>6. CASE UNCHANGED BufferState BY <1>6 DEF BufferState
<1> QED BY <1>2, <1>3, <1>4, <1>5, <1>6, BufferFootprint

(***************************************************************************)
(* The inductive invariant and the theorems about the specification         *)
(***************************************************************************)
IndInv ==
    /\ TypeOK /\ BatchShape /\ WorkerPhase
    /\ Conservation /\ CounterLag /\ ExportToken /\ Fresh

(* The initial state satisfies the invariant and maps to an empty open      *)
(* buffer.                                                                  *)
LEMMA InitialState ==
    ASSUME Init PROVE IndInv /\ Buffer!Init
<1> USE DEF Init
<1>1. TypeOK
  <2>1. ChannelTypes BY Messages, ConfigAssumption DEF ChannelTypes, ConfigAssumption
  <2>2. CounterTypes
    <3>1. 0 \in 0..(CounterModulus - 1)
      <4>1. CounterModulus \in Nat \ {0} BY ModulusLarge
      <4> QED BY <4>1
    <3> QED BY <3>1 DEF CounterTypes
  <2>3. OwnerTypes BY DEF OwnerTypes
  <2>4. EmitterTypes BY ConfigAssumption DEF EmitterTypes, EmitterSteps, ConfigAssumption
  <2>5. CallTypes BY ConfigAssumption DEF CallTypes, ConfigAssumption
  <2>6. WorkerTypes BY Messages DEF WorkerTypes, WorkerSteps
  <2>7. ExporterTypes /\ HistoryTypes BY Messages DEF ExporterTypes, HistoryTypes
  <2> QED BY <2>1, <2>2, <2>3, <2>4, <2>5, <2>6, <2>7 DEF TypeOK
<1>2. <<>> \o <<>> = <<>> /\ (<<>> \o <<>>) \o <<>> = <<>> BY Messages, ConcatEmptySeq
<1>3. BatchShape /\ WorkerPhase BY Messages, ModulusLarge DEF BatchShape, WorkerPhase
<1>4. Conservation BY <1>2 DEF Conservation
<1>5. CounterLag
  <2>1. Uncounted = {} BY DEF Uncounted
  <2>2. currentBatchSize + Cardinality(Uncounted)
          = Len(spanQueue) + Len(wBatch) + wCount + 0 * CounterModulus
    BY <2>1, FS_EmptySet, Messages, ModulusLarge
  <2> QED BY <2>2 DEF CounterLag
<1>6. ExportToken BY EmptySeq DEF ExportToken, TokenQueued, TokenHeld, Queued, Holding
<1>7. Fresh BY EmptySeq DEF Fresh
<1>8. Buffer!Init BY <1>2 DEF Buffer!Init
<1> QED BY <1>1, <1>3, <1>4, <1>5, <1>6, <1>7, <1>8 DEF IndInv

(* The invariant is inductive.                                              *)
LEMMA Inductive ==
    ASSUME MaxExportBatchSize > 0, IndInv, [Next]_vars PROVE IndInv'
BY TypeStep, BatchShapeStep, WorkerPhaseStep, ConservationStep, CounterLagStep, ExportTokenStep,
   FreshStep DEF IndInv

(* So it holds in every reachable state.                                    *)
LEMMA Invariance ==
    ASSUME MaxExportBatchSize > 0 PROVE Spec => []IndInv
<1>1. Init => IndInv BY InitialState
<1>2. IndInv /\ [Next]_vars => IndInv' BY Inductive
<1> QED BY <1>1, <1>2, PTL DEF Spec

(* Every variable always has its type and the channels respect their        *)
(* capacities, for every configuration BatchConfig::build can leave with a  *)
(* positive batch size.                                                     *)
THEOREM TypeCorrect ==
    ASSUME MaxExportBatchSize > 0 PROVE Spec => []TypeOK
<1>1. IndInv => TypeOK BY DEF IndInv
<1> QED BY <1>1, Invariance, PTL

(* get_spans_and_export neither loses, doubles nor reorders a span the      *)
(* channel accepted, for any number of threads and any capacities.          *)
THEOREM NothingLost ==
    ASSUME MaxExportBatchSize > 0 PROVE Spec => []Conservation
<1>1. IndInv => Conservation BY DEF IndInv
<1> QED BY <1>1, Invariance, PTL

(* current_batch_size is off by the emitters that have sent and not yet     *)
(* counted, and never wraps more than once below zero.                      *)
THEOREM CounterFollowsSpans ==
    ASSUME MaxExportBatchSize > 0 PROVE Spec => []CounterLag
<1>1. IndInv => CounterLag BY DEF IndInv
<1> QED BY <1>1, Invariance, PTL

(* export_span_message_sent admits one ExportSpan message at a time: the    *)
(* emitters together take at most one place of the control channel.         *)
THEOREM OneExportRequest ==
    ASSUME MaxExportBatchSize > 0 PROVE Spec => []ExportToken
<1>1. IndInv => ExportToken BY DEF IndInv
<1> QED BY <1>1, Invariance, PTL

(* No step after exporter.shutdown() hands the exporter anything.           *)
LEMMA ExporterStep ==
    ASSUME WorkerPhase, [Next]_vars
    PROVE  exporterShutdown => UNCHANGED <<exported, resourceSet>>
<1>1. CASE ~Worker BY <1>1, WorkerFootprint DEF exporterVars
<1>2. CASE Worker
  BY <1>2
     DEF Worker, WorkerPhase, GetSpansAndExport, ReceiveMessage, TimerExpires, SendersGone,
              ResetFlagForExport, LoadTarget, DrainSpan, ExportBatch, SubtractCount,
              FinishRequest, ReplyShutdown, ThreadExits, exporterVars
<1> QED BY <1>1, <1>2

(* Once the Shutdown arm called exporter.shutdown(), the exporter is left   *)
(* alone.                                                                   *)
THEOREM ShutdownIsLast ==
    ASSUME MaxExportBatchSize > 0 PROVE Spec => NoExportAfterShutdown
<1>1. IndInv /\ [Next]_vars => [exporterShutdown => UNCHANGED <<exported, resourceSet>>]_vars
  BY ExporterStep DEF IndInv
<1> QED BY <1>1, Invariance, PTL DEF Spec, NoExportAfterShutdown

(* The processor implements the abstract buffer: every step of the threads  *)
(* is an Offer, an Export of at most max_export_batch_size, a Close or no   *)
(* step at all.                                                             *)
THEOREM Refinement ==
    ASSUME MaxExportBatchSize > 0 PROVE Spec => ImplementsBuffer
<1>1. Init => Buffer!Init BY InitialState
<1>2. IndInv /\ [Next]_vars => [Buffer!Next]_(Buffer!bufferVars)
  BY BufferStep DEF IndInv
<1> QED BY <1>1, <1>2, Invariance, PTL DEF Spec, ImplementsBuffer, Buffer!Spec

(***************************************************************************)
(* Calls: what a request carries, when a shutdown is answered              *)
(***************************************************************************)
(* A request names the call it came from; the reply to it reaches that call *)
(* only, and a shutdown joins the thread once it has its reply.             *)
IsRequest(m) == m.kind \in {"ForceFlush", "Shutdown"}
Current(m) == IsRequest(m) /\ m.call = cCalls[m.from]
Matches(m) ==
    IsRequest(m) => /\ m.call <= cCalls[m.from]
                    /\ Current(m) => m.kind = cKind[m.from]
Calls ==
    /\ \A i \in DOMAIN messages : Matches(messages[i])
    /\ Matches(wMessage)
    /\ \A c \in Controllers : cPc[c] = "join" => cKind[c] = "Shutdown" /\ cReply[c] # "none"
    /\ \A c \in Controllers :
          cKind[c] = "Shutdown" /\ cResult[c] = "Ok" => cReply[c] # "none" /\ ~handle

(* The exporter is shut down before a shutdown is answered, and the handle  *)
(* is taken only from a thread that has ended.                              *)
Stopping ==
    /\ wPc = "reply" => exporterShutdown
    /\ ~handle => wPc = "stopped"
    /\ \A c \in Controllers : cKind[c] = "Shutdown" /\ cReply[c] # "none" => exporterShutdown

(* A message is none, a trigger, the resource or a request.                 *)
LEMMA Kinds ==
    /\ ~IsRequest(ExportSpan) /\ ~IsRequest(SetResource) /\ ~IsRequest(Timer)
    /\ \A m \in Message \cup {Timer} : IsRequest(m) => m \in Request
    /\ \A m \in Request : /\ IsRequest(m) /\ m.from \in Controllers /\ m.call \in Nat
                          /\ m # SetResource /\ m # Timer
    /\ SetResource # Timer /\ ExportSpan # Timer
<1>1. ~IsRequest(ExportSpan) /\ ~IsRequest(SetResource) /\ ~IsRequest(Timer)
  BY DEF IsRequest, ExportSpan, SetResource, Timer
<1>2. \A m \in Request : IsRequest(m) /\ m.from \in Controllers /\ m.call \in Nat
  BY ConfigAssumption DEF IsRequest, Request, ConfigAssumption
<1>3. SetResource.kind # Timer.kind /\ ExportSpan.kind # Timer.kind
  BY DEF ExportSpan, SetResource, Timer
<1>4. SetResource # Timer /\ ExportSpan # Timer BY <1>3
<1>5. \A m \in Request : m # SetResource /\ m # Timer BY <1>1, <1>2
<1> QED BY <1>1, <1>2, <1>4, <1>5 DEF Message

(* What stands in the channel after a message is appended or taken.         *)
LEMMA MessageAppended ==
    ASSUME TypeOK, NEW m \in Message, messages' = Append(messages, m)
    PROVE  /\ \A i \in DOMAIN messages' : messages'[i] = m \/ \E j \in DOMAIN messages : messages'[i] = messages[j]
           /\ messages' # <<>>
           /\ messages # <<>> => messages'[1] = messages[1]
           /\ messages = <<>> => messages'[1] = m
<1>1. messages \in Seq(Message) BY DEF TypeOK, ChannelTypes
<1>2. /\ DOMAIN messages = 1..Len(messages) /\ Len(messages) \in Nat
      /\ DOMAIN messages' = 1..(Len(messages) + 1)
      /\ \A i \in 1..Len(messages) : messages'[i] = messages[i]
      /\ messages'[Len(messages) + 1] = m
      /\ messages = <<>> <=> Len(messages) = 0
  BY <1>1, AppendProperties, LenProperties, EmptySeq
<1>3. messages' # <<>> BY <1>2, EmptySeq
<1> QED BY <1>2, <1>3

(* Taking the first message leaves the others in the channel.               *)
LEMMA MessageTaken ==
    ASSUME TypeOK, messages # <<>>, messages' = Tail(messages)
    PROVE  /\ 1 \in DOMAIN messages /\ Head(messages) = messages[1]
           /\ \A i \in DOMAIN messages' : \E j \in DOMAIN messages : messages'[i] = messages[j]
<1>1. messages \in Seq(Message) BY DEF TypeOK, ChannelTypes
<1>2. /\ DOMAIN messages = 1..Len(messages) /\ Len(messages) \in Nat \ {0}
      /\ Len(messages') = Len(messages) - 1 /\ messages' \in Seq(Message)
      /\ Head(messages) = messages[1]
      /\ \A i \in 1..Len(messages') : messages'[i] = messages[i + 1]
  BY <1>1, HeadTailProperties, LenProperties, EmptySeq
<1>3. DOMAIN messages' = 1..Len(messages') BY <1>2, LenProperties
<1> QED BY <1>2, <1>3

(* The groups of variables this part speaks of.                             *)
CallState == <<messages, wMessage, cPc, cKind, cCalls, cReply, cResult, handle>>

(* Replies reach the call they answer.                                      *)
LEMMA CallsStep ==
    ASSUME TypeOK, Calls, [Next]_vars PROVE Calls'
<1> DEFINE Replies == \A c \in Controllers :
                         cPc[c] = "join" => cKind[c] = "Shutdown" /\ cReply[c] # "none"
           JoinedCalls == \A c \in Controllers :
                         cKind[c] = "Shutdown" /\ cResult[c] = "Ok" => cReply[c] # "none" /\ ~handle
           AllMatch == (\A i \in DOMAIN messages : Matches(messages[i])) /\ Matches(wMessage)
<1>0. /\ \A c \in Controllers : cCalls[c] \in Nat
      /\ messages \in Seq(Message) /\ wMessage \in Message \cup {Timer}
      /\ \A i \in DOMAIN messages : messages[i] \in Message
  BY ConfigAssumption DEF TypeOK, CallTypes, ChannelTypes, WorkerTypes, ConfigAssumption
<1>a. ASSUME UNCHANGED CallState PROVE Calls'
  BY <1>a DEF Calls, Matches, Current, CallState
<1>b. ASSUME UNCHANGED <<cPc, cKind, cCalls, cReply, cResult, handle>>,
             NEW m \in Message, ~IsRequest(m), messages' = Append(messages, m) \/ messages' = messages,
             wMessage' = wMessage
      PROVE  Calls'
  BY <1>b, MessageAppended DEF Calls, Matches, Current
<1>1. CASE DropProvider \/ Finished \/ UNCHANGED vars
  BY <1>1, <1>a DEF DropProvider, Finished, vars, CallState, channelVars, callVars, workerVars,
                    ownerVars
<1>2. CASE BuildProvider
  BY <1>2, <1>b, Messages, Kinds DEF BuildProvider, callVars, workerVars
<1>3. ASSUME NEW e \in Emitters, EndSpan(e) PROVE Calls'
  <2>1. CASE SendExport(e)
    BY <2>1, <1>b, Messages, Kinds DEF SendExport, callVars, workerVars, ownerVars
  <2>2. CASE \/ SendSpan(e) \/ SendSpanFull(e) \/ SendSpanDisconnected(e) \/ CountDropped(e)
             \/ CountSpan(e) \/ LoadFlag(e) \/ SwapFlag(e) \/ ResetFlag(e)
    BY <2>2, <1>a
       DEF SendSpan, SendSpanFull, SendSpanDisconnected, CountDropped, CountSpan, LoadFlag,
           SwapFlag, ResetFlag, CallState, channelVars, callVars, workerVars, ownerVars
  <2> QED BY <1>3, <2>1, <2>2 DEF EndSpan, FinishSpan
<1>4. ASSUME NEW c \in Controllers, ForceFlush(c) \/ Shutdown(c) PROVE Calls'
  <2>1. /\ cKind' \in [Controllers -> {"ForceFlush", "Shutdown"}]
        /\ cCalls' = [cCalls EXCEPT ![c] = @ + 1]
        /\ cPc' = [cPc EXCEPT ![c] = "send"] /\ cReply' = [cReply EXCEPT ![c] = "none"]
        /\ cResult' = [cResult EXCEPT ![c] = "none"]
        /\ \A d \in Controllers : d # c => cKind'[d] = cKind[d]
        /\ UNCHANGED <<messages, wMessage, handle>>
    BY <1>4 DEF ForceFlush, Shutdown, BeginCall, TypeOK, CallTypes, channelVars, workerVars
  <2>2. \A m \in Message \cup {Timer} : Matches(m) => Matches(m)'
    <3> SUFFICES ASSUME NEW m \in Message \cup {Timer}, Matches(m), IsRequest(m)
                 PROVE  m.call <= cCalls'[m.from] /\ (m.call = cCalls'[m.from] => m.kind = cKind'[m.from])
      BY DEF Matches, Current
    <3>1. m.from \in Controllers /\ m.call \in Nat BY Kinds
    <3> QED BY <1>0, <2>1, <3>1 DEF Matches, Current, TypeOK, CallTypes
  <2> QED BY <1>0, <2>1, <2>2 DEF Calls, TypeOK, CallTypes
<1>5. ASSUME NEW c \in Controllers, SendRequest(c) PROVE Calls'
  <2> DEFINE m == [kind |-> cKind[c], from |-> c, call |-> cCalls[c]]
  <2>1. UNCHANGED <<wMessage, cKind, cCalls, cReply, handle>>
    BY <1>5 DEF SendRequest, workerVars, ownerVars
  <2>2. m \in Message BY <1>5, RequestIsMessage, Messages
  <2>3. Matches(m) BY <1>0 DEF Matches, Current
  <2>4. \A i \in DOMAIN messages' : Matches(messages'[i])
    <3> HIDE DEF m
    <3>1. messages' = Append(messages, m) \/ messages' = messages BY <1>5 DEF SendRequest, m
    <3> QED BY <2>2, <2>3, <3>1, MessageAppended DEF Calls
  <2>5. \A d \in Controllers : /\ cPc'[d] = "join" => cPc[d] = "join"
                               /\ cResult'[d] = "Ok" => cResult[d] = "Ok"
    BY <1>5 DEF SendRequest, Return, TypeOK, CallTypes
  <2> QED BY <2>1, <2>4, <2>5 DEF Calls, Matches, Current
<1>6. ASSUME NEW c \in Controllers, ReceiveReply(c) PROVE Calls'
  <2>1. UNCHANGED <<messages, wMessage, cKind, cCalls, cReply, handle>>
    BY <1>6 DEF ReceiveReply, channelVars, workerVars, ownerVars
  <2>2. ASSUME NEW d \in Controllers, cPc'[d] = "join", cPc[d] # "join"
        PROVE  cKind[d] = "Shutdown" /\ cReply[d] # "none"
    BY <1>6, <2>2 DEF ReceiveReply, Return, TypeOK, CallTypes
  <2>3. \A d \in Controllers : cResult'[d] = "Ok" => cResult[d] = "Ok" \/ cKind[d] = "ForceFlush"
    BY <1>6 DEF ReceiveReply, Return, TypeOK, CallTypes
  <2> QED BY <2>1, <2>2, <2>3 DEF Calls, Matches, Current
<1>7. ASSUME NEW c \in Controllers, Join(c) PROVE Calls'
  <2>1. UNCHANGED <<messages, wMessage, cKind, cCalls, cReply>> /\ handle' = FALSE
    BY <1>7 DEF Join, channelVars, workerVars
  <2>2. \A d \in Controllers : /\ cPc'[d] = "join" => cPc[d] = "join"
                               /\ cResult'[d] = "Ok" => cResult[d] = "Ok" \/ d = c
    BY <1>7 DEF Join, Return, TypeOK, CallTypes
  <2>3. cReply[c] # "none" BY <1>7 DEF Join, Calls
  <2> QED BY <2>1, <2>2, <2>3 DEF Calls, Matches, Current
<1>8. CASE ReceiveMessage
  <2>1. UNCHANGED <<cPc, cKind, cCalls, cReply, cResult, handle>>
    BY <1>8 DEF ReceiveMessage, callVars, ownerVars
  <2>2. /\ \A i \in DOMAIN messages' : \E j \in DOMAIN messages : messages'[i] = messages[j]
        /\ \E j \in DOMAIN messages : wMessage' = messages[j]
    BY <1>8, MessageTaken DEF ReceiveMessage
  <2> QED BY <2>1, <2>2 DEF Calls, Matches, Current
<1>9. CASE TimerExpires
  <2>1. UNCHANGED <<messages, cPc, cKind, cCalls, cReply, cResult, handle>> /\ wMessage' = Timer
    BY <1>9 DEF TimerExpires, callVars, ownerVars, channelVars
  <2> QED BY <2>1, Kinds DEF Calls, Matches, Current
<1>10. CASE FinishRequest \/ ReplyShutdown
  <2>1. UNCHANGED <<messages, wMessage, cPc, cKind, cCalls, cResult, handle>>
    BY <1>10 DEF FinishRequest, ReplyShutdown, channelVars, ownerVars
  <2>2. \A d \in Controllers : cReply[d] # "none" => cReply'[d] # "none"
    BY <1>10 DEF FinishRequest, ReplyShutdown, Reply, TypeOK, CallTypes, WorkerTypes
  <2> QED BY <2>1, <2>2 DEF Calls, Matches, Current
<1>11. CASE ThreadExits
  <2>1. UNCHANGED <<wMessage, cPc, cKind, cCalls, cReply, cResult, handle>> /\ messages' = <<>>
    BY <1>11 DEF ThreadExits, callVars, ownerVars
  <2> QED BY <2>1, EmptySeq DEF Calls, Matches, Current
<1>12. CASE SendersGone \/ ResetFlagForExport \/ GetSpansAndExport
  BY <1>12, <1>a
     DEF SendersGone, ResetFlagForExport, GetSpansAndExport, LoadTarget, DrainSpan, ExportBatch,
         SubtractCount, CallState, channelVars, callVars, ownerVars
<1> QED
  BY <1>1, <1>2, <1>3, <1>4, <1>5, <1>6, <1>7, <1>8, <1>9, <1>10, <1>11, <1>12
     DEF Next, Control, FinishCall, Worker

(* A shutdown that was answered finds the exporter shut down.               *)
LEMMA StoppingStep ==
    ASSUME TypeOK, Calls, Stopping, [Next]_vars PROVE Stopping'
<1>1. CASE BuildProvider \/ DropProvider \/ Finished \/ UNCHANGED vars
  BY <1>1 DEF BuildProvider, DropProvider, Finished, vars, Stopping, callVars, workerVars,
              exporterVars, ownerVars
<1>2. ASSUME NEW e \in Emitters, EndSpan(e) PROVE Stopping'
  BY <1>2
     DEF EndSpan, FinishSpan, SendSpan, SendSpanFull, SendSpanDisconnected, CountDropped,
         CountSpan, LoadFlag, SwapFlag, SendExport, ResetFlag, Stopping, callVars, workerVars,
         exporterVars, ownerVars
<1>3. ASSUME NEW c \in Controllers, ForceFlush(c) \/ Shutdown(c) PROVE Stopping'
  <2>1. /\ UNCHANGED <<wPc, exporterShutdown, handle>>
        /\ cReply' = [cReply EXCEPT ![c] = "none"]
        /\ \A d \in Controllers : d # c => cKind'[d] = cKind[d]
    BY <1>3 DEF ForceFlush, Shutdown, BeginCall, workerVars, exporterVars, TypeOK, CallTypes
  <2> QED BY <2>1 DEF Stopping, TypeOK, CallTypes
<1>4. ASSUME NEW c \in Controllers, SendRequest(c) \/ ReceiveReply(c) PROVE Stopping'
  BY <1>4 DEF SendRequest, ReceiveReply, Stopping, workerVars, exporterVars, ownerVars
<1>5. ASSUME NEW c \in Controllers, Join(c) PROVE Stopping'
  BY <1>5 DEF Join, Stopping, workerVars, exporterVars
<1>6. CASE FinishRequest
  <2>1. UNCHANGED <<handle, cKind, cPc, cCalls, wMessage>> BY <1>6 DEF FinishRequest, ownerVars
  <2>2. wPc = "finish" /\ (wPc' = "reply" => exporterShutdown') BY <1>6 DEF FinishRequest, Goto
  <2>3. exporterShutdown => exporterShutdown' BY <1>6 DEF FinishRequest
  <2>4. ASSUME NEW d \in Controllers, cKind[d] = "Shutdown", cReply'[d] # "none"
        PROVE  cReply[d] # "none"
    <3>1. CASE cReply' = cReply BY <2>4, <3>1
    <3>2. CASE wMessage.kind = "ForceFlush" /\ Reply
      <4>1. CASE cCalls[wMessage.from] = wMessage.call
        <5>1. cKind[wMessage.from] = "ForceFlush"
          BY <3>2, <4>1 DEF Calls, Matches, Current, IsRequest
        <5>2. d # wMessage.from BY <2>4, <5>1
        <5> QED BY <2>4, <3>2, <5>2 DEF Reply, TypeOK, CallTypes
      <4>2. CASE cCalls[wMessage.from] # wMessage.call BY <2>4, <3>2, <4>2 DEF Reply
      <4> QED BY <4>1, <4>2
    <3> QED BY <1>6, <3>1, <3>2 DEF FinishRequest
  <2>5. ~handle' => wPc' = "stopped" BY <2>1, <2>2 DEF Stopping
  <2> QED BY <2>1, <2>2, <2>3, <2>4, <2>5 DEF Stopping
<1>7. CASE ReplyShutdown
  BY <1>7 DEF ReplyShutdown, Goto, Stopping, exporterVars, ownerVars
<1>8. CASE \/ ReceiveMessage \/ TimerExpires \/ SendersGone \/ ResetFlagForExport
           \/ GetSpansAndExport \/ ThreadExits
  BY <1>8
     DEF ReceiveMessage, TimerExpires, SendersGone, ResetFlagForExport, GetSpansAndExport,
         LoadTarget, DrainSpan, ExportBatch, SubtractCount, ThreadExits, Goto, Arm, Stopping,
         callVars, exporterVars, ownerVars
<1> QED
  BY <1>1, <1>2, <1>3, <1>4, <1>5, <1>6, <1>7, <1>8 DEF Next, Control, FinishCall, Worker

(***************************************************************************)
(* The resource                                                            *)
(***************************************************************************)
(* SetResource is queued before anything else can be, so no other message   *)
(* is taken before it.                                                      *)
ResourceFirst ==
    /\ wMessage # Timer \/ wPc = "exit" => resourceSet
    /\ provider = "new" => /\ messages = <<>> /\ \A e \in Emitters : ePc[e] = "idle"
                           /\ \A c \in Controllers : cPc[c] = "idle"
    /\ provider # "new" => resourceSet \/ (messages # <<>> /\ messages[1] = SetResource)

(* The resource stays first until the worker has taken it.                  *)
LEMMA ResourceFirstStep ==
    ASSUME TypeOK, WorkerPhase, ResourceFirst, [Next]_vars PROVE ResourceFirst'
<1> USE DEF ResourceFirst
<1>0. ControlCapacity \in Nat \ {0} BY ConfigAssumption DEF ConfigAssumption
<1>1. CASE BuildProvider
  <2>1. messages = <<>> /\ provider' # "new" /\ UNCHANGED <<wMessage, wPc, resourceSet>>
    BY <1>1 DEF BuildProvider, workerVars, exporterVars
  <2>2. ~ControlChannelFull BY <1>0, <2>1, EmptySeq DEF ControlChannelFull
  <2>3. messages' = Append(messages, SetResource) BY <1>1, <2>2 DEF BuildProvider
  <2>4. messages' # <<>> /\ messages'[1] = SetResource BY <2>1, <2>3, Messages, MessageAppended
  <2> QED BY <2>1, <2>4
<1>2. CASE DropProvider \/ Finished \/ UNCHANGED vars
  BY <1>2 DEF DropProvider, Finished, vars, channelVars, emitterVars, callVars, workerVars,
              exporterVars, ownerVars
<1>3. ASSUME NEW e \in Emitters, EndSpan(e) PROVE ResourceFirst'
  <2>1. provider # "new" /\ UNCHANGED <<wMessage, wPc, resourceSet, provider>>
    BY <1>3
       DEF EndSpan, FinishSpan, SendSpan, SendSpanFull, SendSpanDisconnected, BeginSpan,
           CountDropped, CountSpan, LoadFlag, SwapFlag, SendExport, ResetFlag, workerVars,
           exporterVars, ownerVars
  <2>2. messages' = messages \/ messages' = Append(messages, ExportSpan)
    BY <1>3
       DEF EndSpan, FinishSpan, SendSpan, SendSpanFull, SendSpanDisconnected, CountDropped,
           CountSpan, LoadFlag, SwapFlag, SendExport, ResetFlag, channelVars
  <2> QED BY <2>1, <2>2, Messages, MessageAppended
<1>4. ASSUME NEW c \in Controllers, Control(c) PROVE ResourceFirst'
  <2> DEFINE m == [kind |-> cKind[c], from |-> c, call |-> cCalls[c]]
  <2>1. provider # "new" /\ UNCHANGED <<wMessage, wPc, resourceSet, provider>>
    BY <1>4
       DEF Control, FinishCall, ForceFlush, Shutdown, BeginCall, SendRequest, ReceiveReply,
           Join, workerVars, exporterVars, ownerVars
  <2>2. CASE SendRequest(c)
    <3>1. m \in Message BY <2>2, RequestIsMessage, Messages
    <3> HIDE DEF m
    <3>2. messages' = messages \/ messages' = Append(messages, m) BY <2>2 DEF SendRequest, m
    <3> QED BY <2>1, <3>1, <3>2, MessageAppended
  <2>3. CASE ForceFlush(c) \/ Shutdown(c) \/ ReceiveReply(c) \/ Join(c)
    <3>1. messages' = messages
      BY <2>3 DEF ForceFlush, Shutdown, BeginCall, ReceiveReply, Join, channelVars
    <3> QED BY <2>1, <3>1
  <2> QED BY <1>4, <2>2, <2>3 DEF Control, FinishCall
<1>5. CASE ReceiveMessage
  <2>1. /\ messages # <<>> /\ Head(messages) = messages[1] /\ provider # "new"
        /\ resourceSet' = (resourceSet \/ Head(messages) = SetResource)
        /\ UNCHANGED provider
    BY <1>5, MessageTaken DEF ReceiveMessage, ownerVars
  <2> QED BY <2>1
<1>6. CASE TimerExpires
  BY <1>6 DEF TimerExpires, Goto, channelVars, emitterVars, callVars, exporterVars, ownerVars
<1>7. CASE SendersGone
  BY <1>7 DEF SendersGone, Goto, channelVars, emitterVars, callVars, exporterVars, ownerVars
<1>8. CASE ReplyShutdown
  <2>1. wMessage # Timer
    <3>1. wMessage.kind = "Shutdown" BY <1>8 DEF ReplyShutdown, TypeOK, WorkerTypes
    <3> QED BY <3>1 DEF Timer
  <2> QED BY <1>8, <2>1 DEF ReplyShutdown, channelVars, emitterVars, exporterVars, ownerVars
<1>9. CASE ThreadExits
  <2>1. resourceSet' /\ messages' = <<>> /\ UNCHANGED <<provider, ePc, cPc>>
    BY <1>9 DEF ThreadExits, exporterVars, ownerVars, emitterVars, callVars
  <2> QED BY <2>1
<1>10. CASE ResetFlagForExport \/ GetSpansAndExport \/ FinishRequest
  <2>1. UNCHANGED <<wMessage, resourceSet, provider, messages, ePc, cPc>>
    BY <1>10
       DEF ResetFlagForExport, GetSpansAndExport, LoadTarget, DrainSpan, ExportBatch,
           SubtractCount, FinishRequest, channelVars, emitterVars, callVars, exporterVars,
           ownerVars
  <2>2. wPc' # "exit"
    BY <1>10
       DEF ResetFlagForExport, GetSpansAndExport, LoadTarget, DrainSpan, ExportBatch,
           SubtractCount, FinishRequest, Goto
  <2> QED BY <2>1, <2>2
<1> QED
  BY <1>1, <1>2, <1>3, <1>4, <1>5, <1>6, <1>7, <1>8, <1>9, <1>10 DEF Next, Worker

(***************************************************************************)
(* What a flush covers                                                     *)
(***************************************************************************)
(* The spans ended before a call were counted before it, so the target the  *)
(* worker loads for the call reaches as far as they do.                     *)
InLoop == wPc \in {"drain", "export", "subtract"}
Coverage ==
    /\ \A e \in Uncounted : CurrentSpan(e) \in Elements(accepted)
    /\ \A c \in Controllers :
          /\ IsFiniteSet(cMust[c])
          /\ Cardinality(cMust[c]) + Cardinality(Uncounted) <= Len(accepted)
    /\ Current(wMessage) /\ InLoop =>
          Cardinality(cMust[wMessage.from]) + wTotal <= Len(exported) + wTarget
    /\ Current(wMessage) /\ wPc \in {"finish", "reply"} =>
          Cardinality(cMust[wMessage.from]) <= Len(exported)
    /\ FlushCount

(* A sequence has no more elements than places.                             *)
LEMMA ElementsBounded ==
    ASSUME NEW S, NEW s \in Seq(S)
    PROVE  IsFiniteSet(Elements(s)) /\ Cardinality(Elements(s)) <= Len(s)
<1>1. DOMAIN s = 1..Len(s) /\ Len(s) \in Nat BY LenProperties
<1>2. IsFiniteSet(1..Len(s)) /\ Cardinality(1..Len(s)) = Len(s) BY <1>1, FS_Interval
<1> DEFINE at == [i \in 1..Len(s) |-> s[i]]
<1>3. at \in Surjection(1..Len(s), Elements(s)) BY <1>1 DEF Surjection, Elements
<1> HIDE DEF at
<1> QED BY <1>2, <1>3, FS_Surjection

(* The ended spans and the ones not yet counted are different accepted      *)
(* spans.                                                                   *)
LEMMA EndedAreCounted ==
    ASSUME TypeOK, \A e \in Uncounted : CurrentSpan(e) \in Elements(accepted)
    PROVE  /\ IsFiniteSet(EndedSpans)
           /\ Cardinality(EndedSpans) + Cardinality(Uncounted) <= Len(accepted)
<1> DEFINE open == {CurrentSpan(e) : e \in Uncounted}
           spanOf == [e \in Uncounted |-> CurrentSpan(e)]
<1>1. /\ IsFiniteSet(Elements(accepted)) /\ Cardinality(Elements(accepted)) <= Len(accepted)
      /\ Len(accepted) \in Nat
  BY ElementsBounded, LenProperties DEF TypeOK, HistoryTypes
<1>2. spanOf \in Bijection(Uncounted, open)
  <2>1. \A e, f \in Uncounted : CurrentSpan(e) = CurrentSpan(f) => e = f BY DEF CurrentSpan
  <2>2. spanOf \in [Uncounted -> open] OBVIOUS
  <2>3. \A e, f \in Uncounted : spanOf[e] = spanOf[f] => e = f BY <2>1
  <2>4. \A t \in open : \E e \in Uncounted : spanOf[e] = t OBVIOUS
  <2> HIDE DEF spanOf, open
  <2>5. spanOf \in Injection(Uncounted, open) BY <2>2, <2>3 DEF Injection, IsInjective
  <2>6. spanOf \in Surjection(Uncounted, open) BY <2>2, <2>4 DEF Surjection
  <2> QED BY <2>5, <2>6 DEF Bijection
<1>3. IsFiniteSet(open) /\ Cardinality(open) = Cardinality(Uncounted)
  <2> HIDE DEF open, spanOf
  <2> QED BY <1>2, UncountedFinite, FS_Bijection DEF ExistsBijection
<1>4. EndedSpans \subseteq Elements(accepted) /\ open \subseteq Elements(accepted)
  BY DEF EndedSpans
<1>5. EndedSpans \cap open = {}
  BY DEF EndedSpans, CurrentSpan, Uncounted
<1> HIDE DEF open, spanOf
<1>6. IsFiniteSet(EndedSpans) BY <1>1, <1>4, FS_Subset
<1>7. Cardinality(EndedSpans \cup open) = Cardinality(EndedSpans) + Cardinality(open)
  <2>1. Cardinality(EndedSpans \cap open) = 0 BY <1>5, FS_EmptySet
  <2>2. Cardinality(EndedSpans) \in Nat /\ Cardinality(open) \in Nat
    BY <1>3, <1>6, FS_CardinalityType
  <2>3. Cardinality(EndedSpans \cup open)
          = Cardinality(EndedSpans) + Cardinality(open) - Cardinality(EndedSpans \cap open)
    BY <1>3, <1>6, FS_Union
  <2> QED BY <2>1, <2>2, <2>3
<1>8. Cardinality(EndedSpans \cup open) <= Cardinality(Elements(accepted))
  <2>1. EndedSpans \cup open \in SUBSET Elements(accepted) BY <1>4
  <2> QED BY <1>1, <2>1, FS_Subset
<1>9. /\ Cardinality(EndedSpans) \in Nat /\ Cardinality(open) \in Nat
      /\ Cardinality(Elements(accepted)) \in Nat
  BY <1>1, <1>3, <1>6, FS_CardinalityType
<1> QED BY <1>1, <1>3, <1>6, <1>7, <1>8, <1>9

(* At the load of the target, the target is at least what is queued and     *)
(* counted.                                                                 *)
LEMMA TargetCovers ==
    ASSUME TypeOK, BatchShape, WorkerPhase, Conservation, CounterLag, wPc = "loadTarget"
    PROVE  Len(accepted) - Cardinality(Uncounted) <= Len(exported) + currentBatchSize
<1>1. connected /\ wBatch = <<>> /\ wCount = 0 BY DEF WorkerPhase, BatchShape
<1>2. Len(wBatch) = 0 BY <1>1, EmptySeq
<1>3. Len(accepted) = Len(exported) + Len(spanQueue)
  <2>1. /\ exported \in Seq(Span) /\ wBatch \in Seq(Span) /\ spanQueue \in Seq(Span)
    BY DEF TypeOK, ChannelTypes, WorkerTypes, ExporterTypes
  <2>2. exported \o wBatch = exported BY <1>1, <2>1, ConcatEmptySeq
  <2>3. accepted = exported \o spanQueue BY <1>1, <2>2 DEF Conservation
  <2> QED BY <2>1, <2>3, ConcatProperties
<1>4. /\ Len(exported) \in Nat /\ Len(spanQueue) \in Nat /\ currentBatchSize \in Nat
      /\ CounterModulus \in Nat
  BY LenProperties, ModulusLarge DEF TypeOK, ChannelTypes, ExporterTypes, CounterTypes
<1>5. PICK wraps \in {0, 1} : currentBatchSize + Cardinality(Uncounted)
                                = Len(spanQueue) + Len(wBatch) + wCount + wraps * CounterModulus
  BY <1>1 DEF CounterLag
<1> QED BY <1>1, <1>2, <1>3, <1>4, <1>5, UncountedFinite

(* The lengths and cardinalities are numbers.                               *)
LEMMA CoverageNumbers ==
    ASSUME TypeOK, Coverage
    PROVE  /\ \A c \in Controllers : Cardinality(cMust[c]) \in Nat
           /\ Len(accepted) \in Nat /\ Len(exported) \in Nat /\ Len(wBatch) \in Nat
           /\ wTotal \in Nat /\ wTarget \in Nat /\ currentBatchSize \in Nat
           /\ Cardinality(Uncounted) \in Nat
BY LenProperties, FS_CardinalityType, UncountedFinite, ModulusLarge
   DEF TypeOK, Coverage, HistoryTypes, ExporterTypes, WorkerTypes, CounterTypes

(* A call is covered by the time it is answered.                            *)
LEMMA CoverageStep ==
    ASSUME TypeOK, BatchShape, WorkerPhase, Conservation, CounterLag, Calls, Coverage, [Next]_vars
    PROVE  Coverage'
<1> DEFINE Counts == <<Uncounted, accepted, eSent>>
           Rest == <<wMessage, wPc, wTotal, wTarget, exported, cCalls, cMust, cReply>>
           Handled == /\ Current(wMessage) /\ InLoop =>
                            Cardinality(cMust[wMessage.from]) + wTotal <= Len(exported) + wTarget
                      /\ Current(wMessage) /\ wPc \in {"finish", "reply"} =>
                            Cardinality(cMust[wMessage.from]) <= Len(exported)
           Begun == /\ \A e \in Uncounted : CurrentSpan(e) \in Elements(accepted)
                    /\ \A c \in Controllers :
                          /\ IsFiniteSet(cMust[c])
                          /\ Cardinality(cMust[c]) + Cardinality(Uncounted) <= Len(accepted)
<1>0. Coverage <=> Begun /\ Handled /\ FlushCount BY DEF Coverage
<1>p. Begun' /\ Handled' /\ FlushCount' => Coverage' BY DEF Coverage
<1>n. /\ \A c \in Controllers : Cardinality(cMust[c]) \in Nat
      /\ Len(accepted) \in Nat /\ Len(exported) \in Nat /\ Len(wBatch) \in Nat
      /\ wTotal \in Nat /\ wTarget \in Nat /\ currentBatchSize \in Nat
      /\ Cardinality(Uncounted) \in Nat
      /\ \A c \in Controllers : cCalls[c] \in Nat
  BY CoverageNumbers, ConfigAssumption DEF TypeOK, CallTypes, ConfigAssumption
<1>m. Current(wMessage) => wMessage.from \in Controllers
  <2>1. wMessage \in Message \cup {Timer} BY DEF TypeOK, WorkerTypes
  <2> QED BY <2>1, Kinds DEF Current
<1>a. ASSUME UNCHANGED Counts, UNCHANGED cMust PROVE Begun'
  BY <1>a, <1>0 DEF CurrentSpan
<1>b. ASSUME UNCHANGED <<wMessage, wPc, wTotal, wTarget, exported, cCalls, cMust>> PROVE Handled'
  BY <1>b, <1>0 DEF Current, InLoop
<1>c. ASSUME UNCHANGED <<exported, cMust, cReply>> PROVE FlushCount'
  BY <1>c, <1>0 DEF FlushCount
<1>1. CASE BuildProvider \/ DropProvider \/ Finished \/ UNCHANGED vars
  <2>1. UNCHANGED Counts /\ UNCHANGED Rest
    BY <1>1 DEF BuildProvider, DropProvider, Finished, vars, emitterVars, callVars, workerVars,
                exporterVars, historyVars, Uncounted
  <2> QED BY <2>1, <1>a, <1>b, <1>c, <1>p
<1>2. ASSUME NEW e \in Emitters, EndSpan(e) PROVE Coverage'
  <2>r. UNCHANGED Rest
    BY <1>2
       DEF EndSpan, FinishSpan, SendSpan, SendSpanFull, SendSpanDisconnected, BeginSpan,
           CountDropped, CountSpan, LoadFlag, SwapFlag, SendExport, ResetFlag, callVars,
           workerVars, exporterVars
  <2>h. Handled' /\ FlushCount' BY <2>r, <1>b, <1>c
  <2>1. CASE SendSpan(e)
    <3>1. Uncounted' = Uncounted \cup {e} /\ e \notin Uncounted
      BY <2>1 DEF SendSpan, BeginSpan, Uncounted, TypeOK, EmitterTypes
    <3>2. Cardinality(Uncounted') = Cardinality(Uncounted) + 1
      BY <3>1, UncountedFinite, FS_AddElement
    <3>3. <<e, eSent[e] + 1>> \in Span
      BY <2>1, ConfigAssumption
         DEF SendSpan, BeginSpan, TypeOK, EmitterTypes, Span, ConfigAssumption
    <3>4. /\ DOMAIN accepted = 1..Len(accepted) /\ Len(accepted') = Len(accepted) + 1
          /\ DOMAIN accepted' = 1..(Len(accepted) + 1)
          /\ \A i \in 1..Len(accepted) : accepted'[i] = accepted[i]
          /\ accepted'[Len(accepted) + 1] = <<e, eSent[e] + 1>>
      BY <2>1, <3>3, AppendProperties, LenProperties DEF SendSpan, TypeOK, HistoryTypes
    <3>5. Elements(accepted) \subseteq Elements(accepted') /\ <<e, eSent[e] + 1>> \in Elements(accepted')
      BY <1>n, <3>4 DEF Elements
    <3>6. \A f \in Uncounted' : CurrentSpan(f)' \in Elements(accepted')
      <4>1. eSent' = [eSent EXCEPT ![e] = @ + 1] BY <2>1 DEF SendSpan, BeginSpan
      <4>2. \A f \in Uncounted : f # e /\ f \in Emitters /\ CurrentSpan(f)' = CurrentSpan(f)
        BY <3>1, <4>1 DEF CurrentSpan, Uncounted, TypeOK, EmitterTypes
      <4>3. CurrentSpan(e)' = <<e, eSent[e] + 1>>
        BY <4>1 DEF CurrentSpan, TypeOK, EmitterTypes
      <4> QED BY <1>0, <3>1, <3>5, <4>2, <4>3
    <3>7. Begun' BY <1>0, <1>n, <2>r, <3>2, <3>4, <3>6 DEF Elements
    <3> QED BY <1>p, <2>h, <3>7
  <2>2. CASE CountSpan(e)
    <3>1. Uncounted' = Uncounted \ {e} /\ e \in Uncounted
      BY <2>2 DEF CountSpan, Uncounted, TypeOK, EmitterTypes
    <3>2. Cardinality(Uncounted') = Cardinality(Uncounted) - 1
      BY <3>1, UncountedFinite, FS_RemoveElement
    <3>3. UNCHANGED <<accepted, eSent>> BY <2>2 DEF CountSpan, historyVars
    <3>4. Begun' BY <1>0, <1>n, <2>r, <3>1, <3>2, <3>3 DEF CurrentSpan
    <3> QED BY <1>p, <2>h, <3>4
  <2>3. CASE SendSpanFull(e) \/ SendSpanDisconnected(e)
    <3>1. /\ UNCHANGED accepted /\ ePc[e] = "idle" /\ ePc'[e] # "count"
          /\ \A f \in Emitters : f # e => ePc'[f] = ePc[f] /\ eSent'[f] = eSent[f]
      BY <2>3 DEF SendSpanFull, SendSpanDisconnected, BeginSpan, historyVars, TypeOK, EmitterTypes
    <3>2. Uncounted' = Uncounted /\ \A f \in Uncounted : f # e /\ f \in Emitters
      BY <3>1 DEF Uncounted
    <3>3. Begun' BY <1>0, <2>r, <3>1, <3>2 DEF CurrentSpan
    <3> QED BY <1>p, <2>h, <3>3
  <2>4. CASE CountDropped(e) \/ LoadFlag(e) \/ SwapFlag(e) \/ SendExport(e) \/ ResetFlag(e)
    <3>1. UNCHANGED Counts
      BY <2>4
         DEF CountDropped, LoadFlag, SwapFlag, SendExport, ResetFlag, Uncounted, historyVars,
             TypeOK, EmitterTypes
    <3> QED BY <3>1, <2>r, <2>h, <1>a, <1>p
  <2> QED BY <1>2, <2>1, <2>2, <2>3, <2>4 DEF EndSpan, FinishSpan
<1>3. ASSUME NEW c \in Controllers, ForceFlush(c) \/ Shutdown(c) PROVE Coverage'
  <2>1. /\ UNCHANGED Counts /\ UNCHANGED <<wMessage, wPc, wTotal, wTarget, exported>>
        /\ cCalls' = [cCalls EXCEPT ![c] = @ + 1] /\ cMust' = [cMust EXCEPT ![c] = EndedSpans]
        /\ cReply' = [cReply EXCEPT ![c] = "none"]
    BY <1>3 DEF ForceFlush, Shutdown, BeginCall, emitterVars, workerVars, exporterVars,
                historyVars, Uncounted
  <2>2. /\ IsFiniteSet(EndedSpans)
        /\ Cardinality(EndedSpans) + Cardinality(Uncounted) <= Len(accepted)
    BY <1>0, EndedAreCounted
  <2>3. cMust'[c] = EndedSpans /\ \A d \in Controllers : d # c => cMust'[d] = cMust[d]
    BY <2>1 DEF TypeOK, CallTypes
  <2>4. Begun'
    <3>1. \A e \in Uncounted' : CurrentSpan(e)' \in Elements(accepted') BY <1>0, <2>1 DEF CurrentSpan
    <3>2. ASSUME NEW d \in Controllers
          PROVE  IsFiniteSet(cMust'[d])
                 /\ Cardinality(cMust'[d]) + Cardinality(Uncounted') <= Len(accepted')
      BY <1>0, <2>1, <2>2, <2>3
    <3> QED BY <3>1, <3>2
  <2>5. Current(wMessage)' => Current(wMessage) /\ wMessage.from # c
    <3> SUFFICES ASSUME Current(wMessage)' PROVE Current(wMessage) /\ wMessage.from # c
      OBVIOUS
    <3>1. IsRequest(wMessage) /\ wMessage.call = cCalls'[wMessage.from]
      BY <2>1 DEF Current, IsRequest
    <3>2. wMessage.from \in Controllers
      <4>1. wMessage \in Message \cup {Timer} BY DEF TypeOK, WorkerTypes
      <4> QED BY <3>1, <4>1, Kinds
    <3>3. wMessage.call <= cCalls[wMessage.from] BY <3>1 DEF Calls, Matches
    <3>4. wMessage.from # c BY <1>n, <2>1, <3>1, <3>2, <3>3 DEF TypeOK, CallTypes
    <3> QED BY <2>1, <3>1, <3>2, <3>4 DEF Current, TypeOK, CallTypes
  <2>6. Handled'
    <3>1. Current(wMessage)' => cMust'[wMessage.from] = cMust[wMessage.from]
      BY <1>m, <2>3, <2>5
    <3> QED BY <1>0, <2>1, <2>5, <3>1 DEF InLoop
  <2>7. FlushCount'
    <3>1. ASSUME NEW d \in Controllers, cReply'[d] # "none" PROVE d # c /\ cReply[d] # "none"
      BY <2>1, <3>1 DEF TypeOK, CallTypes
    <3> QED BY <1>0, <2>1, <2>3, <3>1 DEF FlushCount
  <2> QED BY <1>p, <2>4, <2>6, <2>7
<1>4. ASSUME NEW c \in Controllers, FinishCall(c) PROVE Coverage'
  <2>1. UNCHANGED Counts /\ UNCHANGED Rest
    BY <1>4 DEF FinishCall, SendRequest, ReceiveReply, Join, emitterVars, workerVars,
                exporterVars, historyVars, Uncounted
  <2> QED BY <2>1, <1>a, <1>b, <1>c, <1>p
<1>5. CASE Worker
  <2>1. UNCHANGED Counts /\ UNCHANGED <<cCalls, cMust>>
    BY <1>5
       DEF Worker, GetSpansAndExport, ReceiveMessage, TimerExpires, SendersGone,
           ResetFlagForExport, LoadTarget, DrainSpan, ExportBatch, SubtractCount, FinishRequest,
           ReplyShutdown, ThreadExits, emitterVars, callVars, historyVars, Uncounted
  <2>b. Begun' BY <2>1, <1>a
  <2>2. CASE ReceiveMessage \/ TimerExpires \/ SendersGone \/ ResetFlagForExport \/ ThreadExits
    <3>1. UNCHANGED <<exported, cReply>> /\ wPc' \notin {"drain", "export", "subtract", "finish", "reply"}
      BY <2>2 DEF ReceiveMessage, TimerExpires, SendersGone, ResetFlagForExport, ThreadExits, Goto,
                  Arm, callVars, exporterVars
    <3> QED BY <1>c, <1>p, <2>1, <2>b, <3>1 DEF InLoop
  <2>3. CASE LoadTarget
    <3>1. /\ UNCHANGED <<exported, cReply, wMessage>> /\ wTarget' = currentBatchSize /\ wTotal' = 0
          /\ wPc' = "drain" \/ (wPc' = "finish" /\ ~(currentBatchSize > 0))
      BY <2>3 DEF LoadTarget, ExportTarget, callVars, exporterVars
    <3>2. Len(accepted) - Cardinality(Uncounted) <= Len(exported) + currentBatchSize
      BY <2>3, TargetCovers DEF LoadTarget
    <3>3. \A c \in Controllers : Cardinality(cMust[c]) <= Len(exported) + currentBatchSize
      BY <1>0, <1>n, <3>2
    <3>4. Current(wMessage)' => Current(wMessage) BY <2>1, <3>1 DEF Current, IsRequest
    <3>5. Handled' BY <1>m, <1>n, <2>1, <3>1, <3>3, <3>4 DEF InLoop
    <3> QED BY <1>c, <1>p, <2>1, <2>b, <3>1, <3>5
  <2>4. CASE DrainSpan
    <3>1. /\ UNCHANGED <<exported, cReply, wMessage, wTotal, wTarget>>
          /\ InLoop /\ wPc' \in {"drain", "export"}
      BY <2>4 DEF DrainSpan, callVars, exporterVars, InLoop
    <3>2. Handled' BY <1>0, <2>1, <3>1 DEF InLoop, Current
    <3> QED BY <1>c, <1>p, <2>1, <2>b, <3>1, <3>2
  <2>5. CASE ExportBatch
    <3>1. /\ UNCHANGED <<cReply, wMessage, wTarget>> /\ wTotal' = wTotal + Len(wBatch)
          /\ InLoop /\ wPc' = "subtract" /\ exported' = exported \o wBatch
      BY <2>5 DEF ExportBatch, callVars, InLoop
    <3>2. Len(exported') = Len(exported) + Len(wBatch)
      BY <3>1, ConcatProperties DEF TypeOK, ExporterTypes, WorkerTypes
    <3>3. Current(wMessage)' => Current(wMessage) BY <2>1, <3>1 DEF Current, IsRequest
    <3>4. Handled' BY <1>0, <1>m, <1>n, <2>1, <3>1, <3>2, <3>3 DEF InLoop
    <3>5. FlushCount' BY <1>0, <1>n, <2>1, <3>1, <3>2 DEF FlushCount
    <3> QED BY <1>p, <2>b, <3>4, <3>5
  <2>6. CASE SubtractCount
    <3>1. /\ UNCHANGED <<exported, cReply, wMessage>> /\ InLoop
          /\ \/ wPc' = "drain" /\ UNCHANGED <<wTarget, wTotal>>
             \/ wTotal >= wTarget /\ wPc' = "finish"
      BY <2>6 DEF SubtractCount, callVars, exporterVars, InLoop
    <3>2. Current(wMessage)' => Current(wMessage) BY <2>1, <3>1 DEF Current, IsRequest
    <3>3. Handled' BY <1>0, <1>m, <1>n, <2>1, <3>1, <3>2 DEF InLoop
    <3> QED BY <1>c, <1>p, <2>1, <2>b, <3>1, <3>3
  <2>7. CASE FinishRequest \/ ReplyShutdown
    <3>1. /\ UNCHANGED <<exported, wMessage>> /\ wPc \in {"finish", "reply"}
          /\ wPc' \in {"recv", "exit"} \/ (wPc' = "reply" /\ UNCHANGED cReply)
      BY <2>7 DEF FinishRequest, ReplyShutdown, Goto, exporterVars
    <3>2. UNCHANGED cReply \/ (Reply /\ IsRequest(wMessage))
      BY <2>7 DEF FinishRequest, ReplyShutdown, IsRequest, TypeOK, WorkerTypes
    <3>3. Handled'
      <4>1. Current(wMessage)' => Current(wMessage) BY <2>1, <3>1 DEF Current, IsRequest
      <4> QED BY <1>0, <2>1, <3>1, <4>1 DEF InLoop
    <3>4. FlushCount'
      <4>1. ASSUME NEW d \in Controllers, cReply'[d] # "none"
            PROVE  cReply[d] # "none" \/ (Current(wMessage) /\ d = wMessage.from)
        BY <3>2, <4>1 DEF Reply, Current, TypeOK, CallTypes
      <4> QED BY <1>0, <2>1, <3>1, <4>1 DEF FlushCount
    <3> QED BY <1>p, <2>b, <3>3, <3>4
  <2> QED BY <1>5, <2>2, <2>3, <2>4, <2>5, <2>6, <2>7 DEF Worker, GetSpansAndExport
<1> QED BY <1>1, <1>2, <1>3, <1>4, <1>5 DEF Next, Control

(* What was exported stays the beginning of what was accepted, also when    *)
(* the thread has ended.                                                    *)
ExportedFirst == \E rest \in Seq(Span) : accepted = exported \o rest

(* Exported spans stay the beginning of the accepted ones.                  *)
LEMMA ExportedFirstStep ==
    ASSUME TypeOK, WorkerPhase, Conservation, ExportedFirst, TypeOK', Conservation', [Next]_vars
    PROVE  ExportedFirst'
<1>1. CASE connected'
  <2>1. /\ wBatch' \in Seq(Span) /\ spanQueue' \in Seq(Span) /\ exported' \in Seq(Span)
    BY DEF TypeOK, WorkerTypes, ChannelTypes, ExporterTypes
  <2>2. wBatch' \o spanQueue' \in Seq(Span) BY <2>1, ConcatProperties
  <2>3. accepted' = (exported' \o wBatch') \o spanQueue' BY <1>1 DEF Conservation
  <2>4. (exported' \o wBatch') \o spanQueue' = exported' \o (wBatch' \o spanQueue')
    BY <2>1, ConcatAssociative
  <2> QED BY <2>2, <2>3, <2>4 DEF ExportedFirst
<1>2. CASE ~connected'
  <2>1. UNCHANGED <<exported, accepted>>
    <3>1. ASSUME NEW e \in Emitters PROVE ~SendSpan(e) BY <1>2 DEF SendSpan
    <3>2. ~DrainSpan /\ ~ExportBatch
      BY <1>2 DEF DrainSpan, ExportBatch, channelVars, WorkerPhase
    <3>3. ThreadExits => UNCHANGED <<exported, accepted>>
      BY DEF ThreadExits, exporterVars, historyVars
    <3> QED BY <3>1, <3>2, <3>3, BufferFootprint DEF BufferState
  <2> QED BY <2>1 DEF ExportedFirst
<1> QED BY <1>1, <1>2

(***************************************************************************)
(* No wake-up is lost                                                      *)
(***************************************************************************)
(* While a full batch is counted, an export is being asked for, or the      *)
(* target of the one in progress covers it.                                 *)
Counted == Pending - Cardinality(Uncounted)
Triggering ==
    \/ exportSpanMessageSent
    \/ wPc \in {"resetFlag", "loadTarget"}
    \/ \E e \in Emitters : ePc[e] \in {"loadFlag", "swapFlag"}
Trigger ==
    /\ \A e \in Emitters : ePc[e] = "resetFlag" => triggerRefused \/ ~connected
    /\ connected /\ ~triggerRefused /\ ~Triggering =>
          \/ Counted < MaxExportBatchSize
          \/ InLoop /\ Counted + wTotal - wCount <= wTarget

(* The counter is never less than what is counted.                          *)
LEMMA CounterCovers ==
    ASSUME TypeOK, BatchShape, CounterLag, connected
    PROVE  Counted \in Int /\ currentBatchSize \in Nat /\ Counted <= currentBatchSize
<1>1. currentBatchSize \in Nat BY ModulusLarge DEF TypeOK, CounterTypes
<1>2. PICK wraps \in {0, 1} :
          currentBatchSize + Cardinality(Uncounted) = Pending + wraps * CounterModulus
  BY DEF CounterLag, Pending
<1> QED BY <1>1, <1>2, PendingBound, UncountedFinite, ModulusLarge DEF Counted

(* A full batch is not forgotten between fetch_add, the flag and the load   *)
(* of the target.                                                           *)
LEMMA TriggerStep ==
    ASSUME MaxExportBatchSize > 0, TypeOK, BatchShape, WorkerPhase, CounterLag, Trigger,
           TypeOK', BatchShape', CounterLag', [Next]_vars
    PROVE  Trigger'
<1> DEFINE Covered == \/ Counted < MaxExportBatchSize
                      \/ InLoop /\ Counted + wTotal - wCount <= wTarget
           Refusals == \A e \in Emitters : ePc[e] = "resetFlag" => triggerRefused \/ ~connected
           Work == <<wPc, wBatch, wTotal, wCount, wTarget>>
<1>0. Refusals /\ (connected /\ ~triggerRefused /\ ~Triggering => Covered) BY DEF Trigger
<1>p. ASSUME Refusals', connected' /\ ~triggerRefused' /\ ~Triggering' => Covered'
      PROVE  Trigger'
  BY <1>p DEF Trigger
<1>n. /\ Pending \in Nat /\ Cardinality(Uncounted) \in Nat /\ wCount \in Nat /\ wTotal \in Nat
      /\ wTarget \in Nat /\ MaxExportBatchSize \in Nat /\ Len(wBatch) \in Nat
      /\ Len(spanQueue) \in Nat
  BY PendingBound, UncountedFinite, ModulusLarge DEF TypeOK, WorkerTypes
<1>a. ASSUME UNCHANGED Work, UNCHANGED <<connected, triggerRefused>>, Counted' = Counted,
             ~Triggering' => ~Triggering, Refusals'
      PROVE  Trigger'
  <2>1. Covered => Covered' BY <1>a DEF InLoop
  <2> QED BY <1>0, <1>a, <1>p, <2>1
<1>1. CASE BuildProvider \/ DropProvider \/ Finished \/ UNCHANGED vars
  <2>1. /\ UNCHANGED Work /\ UNCHANGED <<connected, triggerRefused, spanQueue, ePc>>
        /\ UNCHANGED exportSpanMessageSent
    BY <1>1 DEF BuildProvider, DropProvider, Finished, vars, channelVars, counterVars,
                emitterVars, workerVars, historyVars
  <2>2. Counted' = Counted /\ (Triggering' <=> Triggering) /\ (Refusals' <=> Refusals)
    BY <2>1 DEF Counted, Pending, Uncounted, Triggering
  <2> QED BY <1>0, <1>a, <2>1, <2>2
<1>2. ASSUME NEW e \in Emitters, EndSpan(e) PROVE Trigger'
  <2>w. UNCHANGED Work /\ UNCHANGED connected
    BY <1>2
       DEF EndSpan, FinishSpan, SendSpan, SendSpanFull, SendSpanDisconnected, CountDropped,
           CountSpan, LoadFlag, SwapFlag, SendExport, ResetFlag, workerVars, channelVars
  <2>1. CASE SendSpan(e)
    <3>1. Uncounted' = Uncounted \cup {e} /\ e \notin Uncounted
      BY <2>1 DEF SendSpan, BeginSpan, Uncounted, TypeOK, EmitterTypes
    <3>2. Cardinality(Uncounted') = Cardinality(Uncounted) + 1
      BY <3>1, UncountedFinite, FS_AddElement
    <3>3. Len(spanQueue') = Len(spanQueue) + 1
      BY <2>1 DEF SendSpan, TypeOK, ChannelTypes
    <3>4. Counted' = Counted BY <1>n, <2>w, <3>2, <3>3 DEF Counted, Pending
    <3>5. UNCHANGED <<triggerRefused, exportSpanMessageSent>>
          /\ ePc[e] = "idle" /\ ePc' = [ePc EXCEPT ![e] = "count"]
      BY <2>1 DEF SendSpan, BeginSpan, counterVars
    <3>6. (~Triggering' => ~Triggering) /\ Refusals'
      BY <1>0, <2>w, <3>5 DEF Triggering, TypeOK, EmitterTypes
    <3> QED BY <1>a, <2>w, <3>4, <3>5, <3>6
  <2>2. CASE SendSpanFull(e) \/ SendSpanDisconnected(e) \/ CountDropped(e) \/ SwapFlag(e) \/ LoadFlag(e)
    <3>1. UNCHANGED <<spanQueue, triggerRefused>> /\ Uncounted' = Uncounted
      BY <2>2
         DEF SendSpanFull, SendSpanDisconnected, BeginSpan, CountDropped, SwapFlag, LoadFlag,
             channelVars, historyVars, Uncounted, TypeOK, EmitterTypes
    <3>2. Counted' = Counted BY <2>w, <3>1 DEF Counted, Pending
    <3>3. Refusals'
      BY <1>0, <2>2, <2>w, <3>1
         DEF SendSpanFull, SendSpanDisconnected, BeginSpan, CountDropped, SwapFlag, LoadFlag,
             TypeOK, EmitterTypes
    <3>4. ~Triggering' => ~Triggering
      <4>1. CASE SendSpanFull(e) \/ SendSpanDisconnected(e) \/ CountDropped(e)
        <5>1. /\ UNCHANGED exportSpanMessageSent
              /\ \A f \in Emitters : ePc[f] \in {"loadFlag", "swapFlag"} => ePc'[f] = ePc[f]
          BY <4>1 DEF SendSpanFull, SendSpanDisconnected, BeginSpan, CountDropped, counterVars,
                      TypeOK, EmitterTypes
        <5> QED BY <2>w, <5>1 DEF Triggering
      <4>2. CASE SwapFlag(e) BY <4>2 DEF SwapFlag, Triggering
      <4>3. CASE LoadFlag(e)
        <5>1. CASE exportSpanMessageSent
          BY <4>3, <5>1 DEF LoadFlag, counterVars, Triggering
        <5>2. CASE ~exportSpanMessageSent
          <6>1. ePc'[e] = "swapFlag" BY <4>3, <5>2 DEF LoadFlag, TypeOK, EmitterTypes
          <6> QED BY <6>1 DEF Triggering
        <5> QED BY <5>1, <5>2
      <4> QED BY <2>2, <4>1, <4>2, <4>3
    <3> QED BY <1>a, <2>w, <3>1, <3>2, <3>3, <3>4
  <2>3. CASE CountSpan(e)
    <3>1. /\ UNCHANGED triggerRefused /\ currentBatchSize' = WrapAdd(currentBatchSize)
          /\ \A f \in Emitters : f # e => ePc'[f] = ePc[f]
          /\ ePc'[e] = IF OverflowChecks /\ currentBatchSize = CounterModulus - 1 THEN "panicked"
                       ELSE IF ReachesBatch(WrapAdd(currentBatchSize)) THEN "loadFlag" ELSE "idle"
      BY <2>3 DEF CountSpan, historyVars, TypeOK, EmitterTypes
    <3>2. Refusals' BY <1>0, <2>w, <3>1
    <3>3. ASSUME connected', ~Triggering' PROVE Counted' < MaxExportBatchSize
      <4>1. ePc'[e] # "loadFlag" BY <3>3 DEF Triggering
      <4>2. currentBatchSize' < MaxExportBatchSize
        <5>1. CASE currentBatchSize = CounterModulus - 1
          BY <1>n, <3>1, <5>1, MaxExportBatchSize > 0 DEF WrapAdd
        <5>2. CASE currentBatchSize # CounterModulus - 1
          <6>1. ~ReachesBatch(WrapAdd(currentBatchSize)) BY <3>1, <4>1, <5>2
          <6>2. currentBatchSize' \in Nat BY ModulusLarge DEF TypeOK, CounterTypes
          <6> QED BY <1>n, <3>1, <6>1, <6>2 DEF ReachesBatch
        <5> QED BY <5>1, <5>2
      <4>3. Counted' \in Int /\ currentBatchSize' \in Nat /\ Counted' <= currentBatchSize'
        <5>1. currentBatchSize' \in Nat BY ModulusLarge DEF TypeOK, CounterTypes
        <5>2. Pending' \in Nat
          <6>1. /\ Len(spanQueue') \in Nat /\ Len(wBatch') \in Nat /\ wCount' \in Nat
            BY LenProperties DEF TypeOK, ChannelTypes, WorkerTypes
          <6> QED BY <6>1 DEF Pending
        <5>3. Cardinality(Uncounted') \in Nat
          <6>1. Uncounted' \subseteq Emitters BY DEF Uncounted
          <6> QED BY <6>1, CounterAssumption, FS_Subset, FS_CardinalityType DEF CounterAssumption
        <5>4. PICK wraps \in {0, 1} :
                 currentBatchSize' + Cardinality(Uncounted') = Pending' + wraps * CounterModulus
          BY <3>3 DEF CounterLag, Pending
        <5> QED BY <5>1, <5>2, <5>3, <5>4, ModulusLarge DEF Counted
      <4> QED BY <1>n, <4>2, <4>3
    <3> QED BY <1>p, <3>2, <3>3
  <2>4. CASE SendExport(e)
    <3>1. UNCHANGED <<spanQueue, exportSpanMessageSent>> /\ Uncounted' = Uncounted
      BY <2>4 DEF SendExport, counterVars, Uncounted, TypeOK, EmitterTypes
    <3>2. Counted' = Counted BY <2>w, <3>1 DEF Counted, Pending
    <3>3. ~Triggering' => ~Triggering
      <4>1. \A f \in Emitters : ePc[f] \in {"loadFlag", "swapFlag"} => ePc'[f] = ePc[f]
        BY <2>4 DEF SendExport, TypeOK, EmitterTypes
      <4> QED BY <2>w, <3>1, <4>1 DEF Triggering
    <3>4. Refusals' /\ (triggerRefused => triggerRefused')
      <4>1. CASE UNCHANGED triggerRefused /\ ePc' = [ePc EXCEPT ![e] = "idle"]
        BY <1>0, <2>w, <4>1 DEF TypeOK, EmitterTypes
      <4>2. CASE triggerRefused' = (triggerRefused \/ connected)
        <5>1. triggerRefused' \/ ~connected' BY <2>w, <4>2
        <5>2. triggerRefused => triggerRefused' BY <4>2
        <5> QED BY <5>1, <5>2
      <4> QED BY <2>4, <4>1, <4>2 DEF SendExport
    <3>5. Covered => Covered' BY <2>w, <3>2 DEF InLoop
    <3> QED BY <1>0, <1>p, <2>w, <3>3, <3>4, <3>5
  <2>5. CASE ResetFlag(e)
    <3>1. UNCHANGED triggerRefused /\ (triggerRefused \/ ~connected)
      BY <1>0, <2>5 DEF ResetFlag, historyVars
    <3>2. Refusals' BY <1>0, <2>5, <2>w, <3>1 DEF ResetFlag, TypeOK, EmitterTypes
    <3> QED BY <1>p, <2>w, <3>1, <3>2
  <2> QED BY <1>2, <2>1, <2>2, <2>3, <2>4, <2>5 DEF EndSpan, FinishSpan
<1>3. ASSUME NEW c \in Controllers, Control(c) PROVE Trigger'
  <2>1. /\ UNCHANGED Work /\ UNCHANGED <<connected, triggerRefused, spanQueue, ePc>>
        /\ UNCHANGED exportSpanMessageSent
    BY <1>3 DEF Control, FinishCall, ForceFlush, Shutdown, BeginCall, SendRequest, ReceiveReply,
                Join, channelVars, counterVars, emitterVars, workerVars, historyVars
  <2>2. Counted' = Counted /\ (Triggering' <=> Triggering) /\ (Refusals' <=> Refusals)
    BY <2>1 DEF Counted, Pending, Uncounted, Triggering
  <2> QED BY <1>0, <1>a, <2>1, <2>2
<1>4. CASE Worker
  <2>1. /\ UNCHANGED <<ePc, triggerRefused>> /\ Uncounted' = Uncounted
    BY <1>4
       DEF Worker, GetSpansAndExport, ReceiveMessage, TimerExpires, SendersGone,
           ResetFlagForExport, LoadTarget, DrainSpan, ExportBatch, SubtractCount, FinishRequest,
           ReplyShutdown, ThreadExits, emitterVars, historyVars, Uncounted
  <2>r. ASSUME connected' = connected PROVE Refusals' BY <1>0, <2>1, <2>r
  <2>2. CASE ReceiveMessage \/ TimerExpires \/ SendersGone \/ FinishRequest \/ ReplyShutdown
    <3>1. /\ UNCHANGED <<connected, exportSpanMessageSent, spanQueue, wBatch, wCount>>
          /\ wPc \notin {"resetFlag", "loadTarget"} /\ ~InLoop
      BY <2>2 DEF ReceiveMessage, TimerExpires, SendersGone, FinishRequest, ReplyShutdown, Goto,
                  channelVars, counterVars, InLoop
    <3>2. Counted' = Counted BY <2>1, <3>1 DEF Counted, Pending
    <3>3. ~Triggering' => ~Triggering BY <2>1, <3>1 DEF Triggering
    <3> QED BY <1>0, <1>p, <2>1, <2>r, <3>1, <3>2, <3>3
  <2>3. CASE ResetFlagForExport
    <3>1. wPc' = "loadTarget" /\ UNCHANGED connected
      BY <2>3 DEF ResetFlagForExport, Goto, channelVars
    <3> QED BY <1>p, <2>r, <3>1 DEF Triggering
  <2>4. CASE LoadTarget
    <3>1. /\ UNCHANGED <<connected, spanQueue, wBatch, wCount>> /\ connected /\ wCount = 0
          /\ wTarget' = currentBatchSize /\ wTotal' = 0
          /\ wPc' = "drain" \/ (wPc' = "finish" /\ ~(currentBatchSize > 0))
      BY <2>4 DEF LoadTarget, ExportTarget, channelVars, BatchShape, WorkerPhase
    <3>2. Counted' = Counted BY <2>1, <3>1 DEF Counted, Pending
    <3>3. Counted \in Int /\ currentBatchSize \in Nat /\ Counted <= currentBatchSize
      BY <3>1, CounterCovers
    <3>4. Covered' BY <1>n, <3>1, <3>2, <3>3, MaxExportBatchSize > 0 DEF InLoop
    <3> QED BY <1>p, <2>r, <3>1, <3>4
  <2>5. CASE DrainSpan
    <3>1. /\ UNCHANGED <<connected, exportSpanMessageSent, wTarget, wTotal, wCount>>
          /\ InLoop /\ wPc' \in {"drain", "export"}
      BY <2>5 DEF DrainSpan, counterVars, InLoop
    <3>2. Pending' = Pending
      <4>1. CASE spanQueue = <<>> BY <2>5, <4>1 DEF DrainSpan, Pending
      <4>2. CASE spanQueue # <<>>
        <5>1. Head(spanQueue) \in Span /\ Len(Tail(spanQueue)) = Len(spanQueue) - 1
          BY <4>2, HeadTailProperties DEF TypeOK, ChannelTypes
        <5>2. Len(Append(wBatch, Head(spanQueue))) = Len(wBatch) + 1
          BY <5>1, AppendProperties DEF TypeOK, WorkerTypes
        <5>3. Len(spanQueue') = Len(spanQueue) - 1 /\ Len(wBatch') = Len(wBatch) + 1
          BY <2>5, <4>2, <5>1, <5>2 DEF DrainSpan
        <5> QED BY <1>n, <3>1, <5>3 DEF Pending
      <4> QED BY <4>1, <4>2
    <3>3. Counted' = Counted BY <2>1, <3>2 DEF Counted
    <3>4. ~Triggering' => ~Triggering BY <2>1, <3>1 DEF Triggering, InLoop
    <3>5. Covered => Covered' BY <3>1, <3>3 DEF InLoop
    <3> QED BY <1>0, <1>p, <2>1, <2>r, <3>1, <3>4, <3>5
  <2>6. CASE ExportBatch
    <3>1. /\ UNCHANGED <<connected, exportSpanMessageSent, wTarget, spanQueue>>
          /\ InLoop /\ wPc' = "subtract" /\ wCount = 0
          /\ wTotal' = wTotal + Len(wBatch) /\ wCount' = Len(wBatch) /\ Len(wBatch') = 0
      BY <2>6, Messages DEF ExportBatch, channelVars, counterVars, InLoop, BatchShape
    <3>2. Counted' = Counted BY <1>n, <2>1, <3>1 DEF Counted, Pending
    <3>3. ~Triggering' => ~Triggering BY <2>1, <3>1 DEF Triggering, InLoop
    <3>4. Counted \in Int BY <1>n DEF Counted
    <3>5. Covered => Covered'
      <4>1. wTotal' - wCount' = wTotal - wCount BY <1>n, <3>1
      <4>2. Counted' + wTotal' - wCount' = Counted + wTotal - wCount
        BY <1>n, <3>1, <3>2, <3>4
      <4> QED BY <3>1, <3>2, <4>2 DEF InLoop
    <3> QED BY <1>0, <1>p, <2>1, <2>r, <3>1, <3>3, <3>5
  <2>7. CASE SubtractCount
    <3>1. /\ UNCHANGED <<connected, exportSpanMessageSent, spanQueue, wBatch>>
          /\ InLoop /\ wCount' = 0
          /\ \/ wPc' = "drain" /\ UNCHANGED <<wTarget, wTotal>>
             \/ wTotal >= wTarget /\ wPc' = "finish"
      BY <2>7 DEF SubtractCount, channelVars, InLoop
    <3>2. Counted' = Counted - wCount BY <1>n, <2>1, <3>1 DEF Counted, Pending
    <3>3. ~Triggering' => ~Triggering BY <2>1, <3>1 DEF Triggering, InLoop
    <3>4. Counted \in Int BY <1>n DEF Counted
    <3>5. Covered => Covered'
      <4>1. CASE Counted < MaxExportBatchSize BY <1>n, <3>2, <3>4, <4>1
      <4>2. CASE Counted + wTotal - wCount <= wTarget
        BY <1>n, <3>1, <3>2, <3>4, <4>2, MaxExportBatchSize > 0 DEF InLoop
      <4> QED BY <4>1, <4>2
    <3> QED BY <1>0, <1>p, <2>1, <2>r, <3>1, <3>3, <3>5
  <2>8. CASE ThreadExits BY <2>8 DEF ThreadExits, Trigger
  <2> QED BY <1>4, <2>2, <2>3, <2>4, <2>5, <2>6, <2>7, <2>8 DEF Worker, GetSpansAndExport
<1> QED BY <1>1, <1>2, <1>3, <1>4 DEF Next

(***************************************************************************)
(* What the calls promise                                                  *)
(***************************************************************************)
(* The strengthening for the properties of calls, on top of IndInv.         *)
CallInv ==
    /\ IndInv /\ Calls /\ Stopping /\ ResourceFirst
    /\ Coverage /\ ExportedFirst /\ Trigger

(* No call has begun in the initial state.                                  *)
LEMMA CallInvInitial ==
    ASSUME MaxExportBatchSize > 0, Init PROVE CallInv
<1> USE DEF Init
<1>1. IndInv BY InitialState
<1>2. Calls /\ Stopping /\ ResourceFirst
  <2>1. DOMAIN messages = {} BY EmptySeq
  <2> QED BY <2>1, Kinds DEF Calls, Stopping, ResourceFirst, Matches, Current
<1>3. Len(accepted) = 0 /\ Len(spanQueue) = 0 /\ Len(wBatch) = 0 /\ Uncounted = {}
  BY Messages DEF Uncounted
<1>4. Coverage BY <1>3, FS_EmptySet, Kinds DEF Coverage, Current, FlushCount
<1>5. ExportedFirst
  <2>1. <<>> \o <<>> = <<>> /\ <<>> \in Seq(Span) BY Messages, ConcatEmptySeq
  <2> QED BY <2>1 DEF ExportedFirst
<1>6. Trigger
  <2>1. Counted = 0 BY <1>3, FS_EmptySet DEF Counted, Pending
  <2> QED BY <2>1, MaxExportBatchSize > 0 DEF Trigger
<1> QED BY <1>1, <1>2, <1>4, <1>5, <1>6 DEF CallInv

(* The strengthening holds in every reachable state.                        *)
LEMMA CallInvariance ==
    ASSUME MaxExportBatchSize > 0 PROVE Spec => []CallInv
<1>1. Init => CallInv BY CallInvInitial
<1>2. CallInv /\ [Next]_vars => CallInv'
  <2> SUFFICES ASSUME CallInv, [Next]_vars PROVE CallInv'
    OBVIOUS
  <2>1. IndInv' BY Inductive DEF CallInv
  <2>2. Calls' /\ Stopping' /\ ResourceFirst'
    BY CallsStep, StoppingStep, ResourceFirstStep DEF CallInv, IndInv
  <2>3. Coverage' BY CoverageStep DEF CallInv, IndInv
  <2>4. ExportedFirst' BY <2>1, ExportedFirstStep DEF CallInv, IndInv
  <2>5. Trigger' BY <2>1, TriggerStep DEF CallInv, IndInv
  <2> QED BY <2>1, <2>2, <2>3, <2>4, <2>5 DEF CallInv
<1> QED BY <1>1, <1>2, PTL DEF Spec

(* An answered force_flush or shutdown has exported at least as many spans  *)
(* as had been ended before it, whatever other threads end meanwhile.       *)
THEOREM FlushCovers ==
    ASSUME MaxExportBatchSize > 0 PROVE Spec => []FlushCount
<1>1. CallInv => FlushCount BY DEF CallInv, Coverage
<1> QED BY <1>1, CallInvariance, PTL

(* A shutdown that returned Ok has joined the thread and shut the exporter  *)
(* down.                                                                    *)
THEOREM ShutdownJoins ==
    ASSUME MaxExportBatchSize > 0 PROVE Spec => []ShutdownOkMeansStopped
<1>1. CallInv => ShutdownOkMeansStopped
  BY DEF CallInv, Calls, Stopping, ShutdownOkMeansStopped
<1> QED BY <1>1, CallInvariance, PTL

(* Whatever is flushed or shut down, and however often: an export that a    *)
(* message asked for finds the resource set.                                *)
THEOREM ResourceComesFirst ==
    ASSUME MaxExportBatchSize > 0 PROVE Spec => []ResourceBeforeRequestedExport
<1>1. CallInv => ResourceBeforeRequestedExport
  BY DEF CallInv, ResourceFirst, ResourceBeforeRequestedExport
<1> QED BY <1>1, CallInvariance, PTL

(* A shutdown that began when every accepted span had been ended loses none *)
(* of them.                                                                 *)
THEOREM QuietShutdownExportsAll ==
    ASSUME MaxExportBatchSize > 0 PROVE Spec => []QuietShutdownComplete
<1>1. CallInv => QuietShutdownComplete
  <2> SUFFICES ASSUME CallInv, NEW c \in Controllers, cKind[c] = "Shutdown", cResult[c] = "Ok",
                      Cardinality(cMust[c]) = Len(accepted)
               PROVE  exported = accepted
    BY DEF QuietShutdownComplete
  <2>1. Len(exported) >= Len(accepted)
    BY DEF CallInv, Calls, Coverage, FlushCount
  <2>2. PICK rest \in Seq(Span) : accepted = exported \o rest BY DEF CallInv, ExportedFirst
  <2>3. exported \in Seq(Span) BY DEF CallInv, IndInv, TypeOK, ExporterTypes
  <2>4. Len(exported) \in Nat /\ Len(rest) \in Nat /\ Len(accepted) = Len(exported) + Len(rest)
    BY <2>2, <2>3, LenProperties, ConcatProperties
  <2>5. rest = <<>> BY <2>1, <2>4, EmptySeq
  <2> QED BY <2>2, <2>3, <2>5, ConcatEmptySeq
<1> QED BY <1>1, CallInvariance, PTL

(* The wake-up of a full batch is not lost in any race of the emitters with *)
(* each other and the worker.                                               *)
THEOREM FullBatchIsExported ==
    ASSUME MaxExportBatchSize > 0 PROVE Spec => []FullBatchTriggersExport
<1>1. CallInv => FullBatchTriggersExport
  <2> SUFFICES ASSUME CallInv, Quiet, ~triggerRefused
               PROVE  Len(spanQueue) < MaxExportBatchSize
    BY DEF FullBatchTriggersExport
  <2>1. TypeOK /\ BatchShape /\ ExportToken /\ Trigger BY DEF CallInv, IndInv
  <2>2. ~TokenQueued /\ ~TokenHeld
    BY EmptySeq DEF Quiet, TokenQueued, TokenHeld, Holding
  <2>3. ~Triggering BY <2>1, <2>2 DEF Quiet, ExportToken, Triggering
  <2>4. Counted < MaxExportBatchSize BY <2>1, <2>3 DEF Trigger, Quiet, InLoop
  <2>5. Uncounted = {} BY DEF Quiet, Uncounted
  <2>6. Len(wBatch) = 0 /\ wCount = 0 BY <2>1, EmptySeq DEF Quiet, BatchShape
  <2> QED BY <2>1, <2>4, <2>5, <2>6, PendingBound, FS_EmptySet DEF Counted, Pending
<1> QED BY <1>1, CallInvariance, PTL

(***************************************************************************)
(* The very spans: what one emitter's calls wait for                       *)
(***************************************************************************)
(* An emitter's spans are accepted in the order it ended them.              *)
Ordered(s) == \A i, j \in DOMAIN s : i < j /\ s[i][1] = s[j][1] => s[i][2] < s[j][2]

(* With one emitter the spans a call waits for are the first accepted ones. *)
Closed(spans) ==
    /\ spans \subseteq Elements(accepted)
    /\ \A i, j \in DOMAIN accepted : i < j /\ accepted[j] \in spans => accepted[i] \in spans
Beginning == Ordered(accepted) /\ \A c \in Controllers : Closed(cMust[c])

(* Which steps touch what was accepted, and which what a call waits for.    *)
LEMMA PromiseFootprint ==
    ASSUME [Next]_vars
    PROVE  \/ \E e \in Emitters : SendSpan(e)
           \/ \E c \in Controllers : ForceFlush(c) \/ Shutdown(c)
           \/ UNCHANGED <<accepted, cMust>>
<1>1. CASE BuildProvider \/ DropProvider \/ Finished \/ UNCHANGED vars
  BY <1>1 DEF BuildProvider, DropProvider, Finished, vars, callVars, historyVars
<1>2. ASSUME NEW e \in Emitters, EndSpan(e) PROVE SendSpan(e) \/ UNCHANGED <<accepted, cMust>>
  BY <1>2
     DEF EndSpan, FinishSpan, SendSpanFull, SendSpanDisconnected, CountDropped, CountSpan,
         LoadFlag, SwapFlag, SendExport, ResetFlag, callVars, historyVars
<1>3. ASSUME NEW c \in Controllers, FinishCall(c) PROVE UNCHANGED <<accepted, cMust>>
  BY <1>3 DEF FinishCall, SendRequest, ReceiveReply, Join, historyVars
<1>4. CASE Worker
  BY <1>4
     DEF Worker, GetSpansAndExport, ReceiveMessage, TimerExpires, SendersGone,
         ResetFlagForExport, LoadTarget, DrainSpan, ExportBatch, SubtractCount, FinishRequest,
         ReplyShutdown, ThreadExits, callVars, historyVars
<1> QED BY <1>1, <1>2, <1>3, <1>4 DEF Next, Control

(* The accepted spans and the places they stand at.                         *)
LEMMA AcceptedPlaces ==
    ASSUME TypeOK
    PROVE  /\ DOMAIN accepted = 1..Len(accepted) /\ Len(accepted) \in Nat
           /\ \A i \in DOMAIN accepted : accepted[i] \in Span
           /\ \A s \in Span : s[1] \in Emitters /\ s[2] \in Nat /\ s = <<s[1], s[2]>>
           /\ \A e \in Emitters : eSent[e] \in Nat
<1>1. accepted \in Seq(Span) BY DEF TypeOK, HistoryTypes
<1>2. DOMAIN accepted = 1..Len(accepted) /\ Len(accepted) \in Nat BY <1>1, LenProperties
<1>3. \A i \in DOMAIN accepted : accepted[i] \in Span BY <1>1, <1>2, ElementOfSeq
<1>4. \A s \in Span : s[1] \in Emitters /\ s[2] \in Nat /\ s = <<s[1], s[2]>>
  BY ConfigAssumption DEF Span, ConfigAssumption
<1>5. \A e \in Emitters : eSent[e] \in Nat
  BY ConfigAssumption DEF TypeOK, EmitterTypes, ConfigAssumption
<1> QED BY <1>1, <1>2, <1>3, <1>4, <1>5

(* One more span leaves the places of the others; it stands in the last.    *)
LEMMA SpanAppended ==
    ASSUME TypeOK, NEW e \in Emitters, SendSpan(e)
    PROVE  LET n == Len(accepted) + 1 IN
           /\ DOMAIN accepted' = 1..n /\ n \in DOMAIN accepted'
           /\ \A i \in DOMAIN accepted : i \in DOMAIN accepted' /\ i < n /\ accepted'[i] = accepted[i]
           /\ \A i \in DOMAIN accepted' : i = n \/ i \in DOMAIN accepted
           /\ accepted'[n] = <<e, eSent[e] + 1>>
           /\ <<e, eSent[e] + 1>> \in Span
           /\ eSent[e] \in Nat
           /\ Elements(accepted) \subseteq Elements(accepted')
<1>1. <<e, eSent[e] + 1>> \in Span
  BY ConfigAssumption DEF SendSpan, BeginSpan, TypeOK, EmitterTypes, Span, ConfigAssumption
<1>2. accepted \in Seq(Span) /\ accepted' = Append(accepted, <<e, eSent[e] + 1>>)
  BY DEF SendSpan, TypeOK, HistoryTypes
<1>3. /\ DOMAIN accepted' = 1..(Len(accepted) + 1) /\ Len(accepted) \in Nat
      /\ DOMAIN accepted = 1..Len(accepted)
      /\ \A i \in 1..Len(accepted) : accepted'[i] = accepted[i]
      /\ accepted'[Len(accepted) + 1] = <<e, eSent[e] + 1>>
  BY <1>1, <1>2, AppendProperties, LenProperties
<1>4. Elements(accepted) \subseteq Elements(accepted') BY <1>3 DEF Elements
<1>5. eSent[e] \in Nat BY AcceptedPlaces
<1> QED BY <1>1, <1>3, <1>4, <1>5

(* The spans accepted of one emitter stay in order.                         *)
LEMMA OrderedStep ==
    ASSUME TypeOK, Fresh, Ordered(accepted), [Next]_vars PROVE Ordered(accepted)'
<1>1. ASSUME NEW e \in Emitters, SendSpan(e) PROVE Ordered(accepted)'
  <2> DEFINE n == Len(accepted) + 1
  <2>1. /\ DOMAIN accepted' = 1..n /\ Len(accepted) \in Nat
        /\ \A i \in DOMAIN accepted : accepted'[i] = accepted[i]
        /\ \A i \in DOMAIN accepted' : i = n \/ i \in DOMAIN accepted
        /\ accepted'[n] = <<e, eSent[e] + 1>>
        /\ DOMAIN accepted = 1..Len(accepted)
    BY <1>1, SpanAppended, AcceptedPlaces
  <2> SUFFICES ASSUME NEW i \in DOMAIN accepted', NEW j \in DOMAIN accepted',
                      i < j, accepted'[i][1] = accepted'[j][1]
               PROVE  accepted'[i][2] < accepted'[j][2]
    BY DEF Ordered
  <2>2. i \in DOMAIN accepted BY <2>1
  <2>3. CASE j \in DOMAIN accepted BY <2>1, <2>2, <2>3 DEF Ordered
  <2>4. CASE j = n
    <3>1. accepted[i][1] = e BY <2>1, <2>2, <2>4
    <3>2. accepted[i][2] <= eSent[e] /\ accepted[i][2] \in Nat /\ eSent[e] \in Nat
      BY <2>2, <3>1, AcceptedPlaces DEF Fresh
    <3> QED BY <2>1, <2>2, <2>4, <3>2
  <2> QED BY <2>1, <2>3, <2>4
<1>2. CASE UNCHANGED accepted BY <1>2 DEF Ordered
<1>3. ASSUME NEW c \in Controllers, ForceFlush(c) \/ Shutdown(c) PROVE UNCHANGED accepted
  BY <1>3 DEF ForceFlush, Shutdown, BeginCall, historyVars
<1> QED BY <1>1, <1>2, <1>3, PromiseFootprint

(* The spans one emitter has ended are the first accepted ones: its current *)
(* span, when accepted, is the last.                                        *)
LEMMA EndedComeFirst ==
    ASSUME TypeOK, Fresh, Ordered(accepted), \A e, f \in Emitters : e = f
    PROVE  Closed(EndedSpans)
<1>1. EndedSpans \subseteq Elements(accepted) BY DEF EndedSpans
<1>2. ASSUME NEW i \in DOMAIN accepted, NEW j \in DOMAIN accepted, i < j,
             accepted[j] \in EndedSpans
      PROVE  accepted[i] \in EndedSpans
  <2>1. accepted[i] \in Elements(accepted) BY DEF Elements
  <2>2. accepted[i][1] = accepted[j][1] BY AcceptedPlaces
  <2>3. accepted[i][2] < eSent[accepted[i][1]]
    <3>1. accepted[i][2] < accepted[j][2] BY <1>2, <2>2 DEF Ordered
    <3>2. accepted[j][2] <= eSent[accepted[j][1]] BY DEF Fresh
    <3>3. /\ accepted[i][2] \in Nat /\ accepted[j][2] \in Nat
          /\ eSent[accepted[j][1]] \in Nat
      BY AcceptedPlaces
    <3> QED BY <2>2, <3>1, <3>2, <3>3
  <2>4. accepted[i] # CurrentSpan(accepted[i][1])
    <3>1. CurrentSpan(accepted[i][1])[2] = eSent[accepted[i][1]] BY DEF CurrentSpan
    <3>2. accepted[i][2] \in Nat /\ eSent[accepted[i][1]] \in Nat BY AcceptedPlaces
    <3> QED BY <2>3, <3>1, <3>2
  <2> QED BY <2>1, <2>4 DEF EndedSpans
<1> QED BY <1>1, <1>2 DEF Closed

(* A call waits for a beginning of what was accepted, then as before.       *)
LEMMA BeginningStep ==
    ASSUME TypeOK, Fresh, Beginning, \A e, f \in Emitters : e = f, [Next]_vars
    PROVE  Beginning'
<1>1. Ordered(accepted)' BY OrderedStep DEF Beginning
<1>2. ASSUME NEW e \in Emitters, SendSpan(e), NEW c \in Controllers PROVE Closed(cMust[c])'
  <2> DEFINE n == Len(accepted) + 1
  <2>1. cMust' = cMust BY <1>2 DEF SendSpan, callVars
  <2>2. /\ DOMAIN accepted' = 1..n /\ Len(accepted) \in Nat
        /\ \A i \in DOMAIN accepted : accepted'[i] = accepted[i]
        /\ \A i \in DOMAIN accepted' : i = n \/ i \in DOMAIN accepted
        /\ accepted'[n] = <<e, eSent[e] + 1>>
        /\ DOMAIN accepted = 1..Len(accepted)
        /\ Elements(accepted) \subseteq Elements(accepted')
    BY <1>2, SpanAppended, AcceptedPlaces
  <2>3. Closed(cMust[c]) BY DEF Beginning
  <2>4. accepted'[n] \notin cMust[c]
    <3> SUFFICES ASSUME NEW k \in DOMAIN accepted, accepted[k] = <<e, eSent[e] + 1>> PROVE FALSE
      BY <2>2, <2>3 DEF Closed, Elements
    <3>1. accepted[k][1] = e /\ accepted[k][2] = eSent[e] + 1 OBVIOUS
    <3>2. accepted[k][2] <= eSent[e] BY <3>1 DEF Fresh
    <3> QED BY <3>1, <3>2, AcceptedPlaces
  <2>5. ASSUME NEW i \in DOMAIN accepted', NEW j \in DOMAIN accepted', i < j,
               accepted'[j] \in cMust[c]
        PROVE  accepted'[i] \in cMust[c]
    <3>1. j \in DOMAIN accepted BY <2>2, <2>4, <2>5
    <3>2. i \in DOMAIN accepted BY <2>2, <2>5, <3>1
    <3> QED BY <2>2, <2>3, <2>5, <3>1, <3>2 DEF Closed
  <2> QED BY <2>1, <2>2, <2>3, <2>5 DEF Closed
<1>3. ASSUME NEW d \in Controllers, ForceFlush(d) \/ Shutdown(d), NEW c \in Controllers
      PROVE  Closed(cMust[c])'
  <2>1. accepted' = accepted /\ cMust' = [cMust EXCEPT ![d] = EndedSpans]
    BY <1>3 DEF ForceFlush, Shutdown, BeginCall, historyVars
  <2>2. cMust'[c] = cMust[c] \/ cMust'[c] = EndedSpans BY <2>1 DEF TypeOK, CallTypes
  <2>3. Closed(cMust[c]) /\ Closed(EndedSpans) BY EndedComeFirst DEF Beginning
  <2> QED BY <2>1, <2>2, <2>3 DEF Closed
<1>4. CASE UNCHANGED <<accepted, cMust>> BY <1>4 DEF Beginning, Closed, Ordered
<1> QED BY <1>1, <1>2, <1>3, <1>4, PromiseFootprint DEF Beginning

(* As many exported spans as a beginning has are the beginning itself.      *)
LEMMA BeginningExported ==
    ASSUME TypeOK, Ordered(accepted), ExportedFirst, NEW spans, Closed(spans),
           IsFiniteSet(spans), Cardinality(spans) <= Len(exported)
    PROVE  spans \subseteq Elements(exported)
<1> SUFFICES ASSUME NEW j \in DOMAIN accepted, accepted[j] \in spans
             PROVE  accepted[j] \in Elements(exported)
  BY DEF Closed, Elements
<1>1. PICK rest \in Seq(Span) : accepted = exported \o rest BY DEF ExportedFirst
<1>2. exported \in Seq(Span) BY DEF TypeOK, ExporterTypes
<1>3. /\ DOMAIN exported = 1..Len(exported) /\ Len(exported) \in Nat
      /\ \A i \in DOMAIN exported : accepted[i] = exported[i]
  BY <1>1, <1>2, ConcatKeepsElements, LenProperties
<1>4. j <= Len(exported)
  <2> DEFINE first == {accepted[i] : i \in 1..j}
             at == [i \in 1..j |-> accepted[i]]
  <2>1. j \in Nat /\ DOMAIN accepted = 1..Len(accepted) /\ Len(accepted) \in Nat
        /\ 1..j \subseteq DOMAIN accepted
    BY AcceptedPlaces
  <2>2. first \subseteq spans BY <2>1 DEF Closed
  <2>3. \A i, k \in 1..j : at[i] = at[k] => i = k
    <3> SUFFICES ASSUME NEW i \in 1..j, NEW k \in 1..j, i < k, accepted[i] = accepted[k]
                 PROVE  FALSE
      BY <2>1
    <3>1. i \in DOMAIN accepted /\ k \in DOMAIN accepted BY <2>1
    <3>2. accepted[i][2] < accepted[k][2] BY <3>1 DEF Ordered
    <3>3. accepted[i][2] \in Nat BY <3>1, AcceptedPlaces
    <3> QED BY <3>2, <3>3
  <2>4. at \in Injection(1..j, first)
    <3>1. at \in [1..j -> first] OBVIOUS
    <3> HIDE DEF at, first
    <3> QED BY <3>1, <2>3 DEF Injection, IsInjective
  <2>5. IsFiniteSet(first) /\ Cardinality(first) <= Cardinality(spans)
    <3> HIDE DEF first
    <3> QED BY <2>2, FS_Subset
  <2>6. Cardinality(1..j) <= Cardinality(first)
    <3> HIDE DEF first, at
    <3> QED BY <2>4, <2>5, FS_Injection
  <2>7. Cardinality(1..j) = j BY <2>1, FS_Interval
  <2>8. Cardinality(first) \in Nat /\ Cardinality(spans) \in Nat
    <3> HIDE DEF first
    <3> QED BY <2>5, FS_CardinalityType
  <2> HIDE DEF first, at
  <2> QED BY <2>1, <2>5, <2>6, <2>7, <2>8, <1>3
<1>5. j \in DOMAIN exported BY <1>3, <1>4, AcceptedPlaces
<1> QED BY <1>3, <1>5 DEF Elements

(* With one thread ending spans, an answered force_flush or shutdown has    *)
(* exported the very spans that were ended before it: any number of callers *)
(* and any capacities.                                                      *)
THEOREM FlushExportsTheSpans ==
    ASSUME MaxExportBatchSize > 0, \A e, f \in Emitters : e = f
    PROVE  Spec => []FlushComplete
<1>1. Init => Beginning
  BY EmptySeq DEF Init, Beginning, Closed, Ordered, Elements
<1>2. CallInv /\ Beginning /\ [Next]_vars => Beginning'
  BY BeginningStep DEF CallInv, IndInv
<1>3. CallInv /\ Beginning => FlushComplete
  <2> SUFFICES ASSUME CallInv, Beginning, NEW c \in Controllers, cReply[c] # "none"
               PROVE  cMust[c] \subseteq Elements(exported)
    BY DEF FlushComplete
  <2>1. IsFiniteSet(cMust[c]) /\ Len(exported) >= Cardinality(cMust[c])
    BY DEF CallInv, Coverage, FlushCount
  <2>2. Len(exported) \in Nat /\ Cardinality(cMust[c]) \in Nat
    BY <2>1, FS_CardinalityType, LenProperties DEF CallInv, IndInv, TypeOK, ExporterTypes
  <2> QED BY <2>1, <2>2, BeginningExported DEF CallInv, IndInv, Beginning
<1> QED BY <1>1, <1>2, <1>3, CallInvariance, PTL DEF Spec

(***************************************************************************)
(* Every log is exported or counted as dropped                             *)
(***************************************************************************)
(* The spans that were begun, and the emitters still to count a drop.       *)
Begun == {s \in Span : s[2] <= eSent[s[1]]}
Dropping == {e \in Emitters : ePc[e] = "countDropped"}

(* Every span begun was accepted, was dropped and counted, or is to be      *)
(* counted: as long as no span met a closed channel.                        *)
Accounted == Len(accepted) + droppedSpansCount + Cardinality(Dropping) = Cardinality(Begun)

(* A call that began after the join waits for all that was accepted; it is  *)
(* answered only if no span met a closed channel.                           *)
Accounting ==
    /\ joined \in [Controllers -> BOOLEAN]
    /\ connected => Accounted
    /\ \A c \in Controllers : joined[c] =>
          /\ Joined
          /\ Cardinality(cMust[c]) = Len(accepted)
          /\ cReply[c] # "none" => Accounted

(* A sequence whose elements differ has as many elements as places.         *)
LEMMA OrderedCardinality ==
    ASSUME TypeOK, Ordered(accepted)
    PROVE  Cardinality(Elements(accepted)) = Len(accepted)
<1> DEFINE at == [i \in 1..Len(accepted) |-> accepted[i]]
<1>1. Len(accepted) \in Nat /\ DOMAIN accepted = 1..Len(accepted) BY AcceptedPlaces
<1>2. at \in [1..Len(accepted) -> Elements(accepted)] BY <1>1 DEF Elements
<1>3. \A s \in Elements(accepted) : \E i \in 1..Len(accepted) : at[i] = s
  BY <1>1 DEF Elements
<1>4. \A i, k \in 1..Len(accepted) : at[i] = at[k] => i = k
  <2> SUFFICES ASSUME NEW i \in 1..Len(accepted), NEW k \in 1..Len(accepted), i < k,
                      accepted[i] = accepted[k]
               PROVE  FALSE
    BY <1>1
  <2>1. accepted[i][2] < accepted[k][2] BY <1>1 DEF Ordered
  <2>2. accepted[i][2] \in Nat BY <1>1, AcceptedPlaces
  <2> QED BY <2>1, <2>2
<1> HIDE DEF at
<1>5. at \in Bijection(1..Len(accepted), Elements(accepted))
  <2>1. at \in Injection(1..Len(accepted), Elements(accepted))
    BY <1>2, <1>4 DEF Injection, IsInjective
  <2>2. at \in Surjection(1..Len(accepted), Elements(accepted)) BY <1>2, <1>3 DEF Surjection
  <2> QED BY <2>1, <2>2 DEF Bijection
<1>6. IsFiniteSet(1..Len(accepted)) /\ Cardinality(1..Len(accepted)) = Len(accepted)
  <2>1. \A n \in Nat : IsFiniteSet(1..n) /\ Cardinality(1..n) = n BY FS_Interval
  <2> QED BY <1>1, <2>1
<1> QED BY <1>5, <1>6, FS_Bijection DEF ExistsBijection

(* The sets that are counted are finite.                                    *)
LEMMA CountedSets ==
    /\ IsFiniteSet(Begun) /\ Cardinality(Begun) \in Nat
    /\ IsFiniteSet(Dropping) /\ Cardinality(Dropping) \in Nat
    /\ IsFiniteSet(Span) /\ Cardinality(Span) = Cardinality(Emitters) * SpansPerEmitter
<1>1. SpansPerEmitter \in Nat /\ IsFiniteSet(Emitters)
  BY ConfigAssumption, CounterAssumption DEF ConfigAssumption, CounterAssumption
<1>2. IsFiniteSet(1..SpansPerEmitter) /\ Cardinality(1..SpansPerEmitter) = SpansPerEmitter
  BY <1>1, FS_Interval
<1>3. IsFiniteSet(Span) /\ Cardinality(Span) = Cardinality(Emitters) * SpansPerEmitter
  BY <1>1, <1>2, FS_Product DEF Span
<1>4. Begun \in SUBSET Span /\ Dropping \in SUBSET Emitters BY DEF Begun, Dropping
<1>5. IsFiniteSet(Begun) /\ IsFiniteSet(Dropping) BY <1>1, <1>3, <1>4, FS_Subset
<1> QED BY <1>3, <1>5, FS_CardinalityType

(* on_end begins one span more.                                             *)
LEMMA OneMoreBegun ==
    ASSUME TypeOK, NEW e \in Emitters, BeginSpan(e)
    PROVE  Cardinality(Begun') = Cardinality(Begun) + 1
<1> DEFINE s == <<e, eSent[e] + 1>>
<1>1. s \in Span
  BY ConfigAssumption DEF BeginSpan, TypeOK, EmitterTypes, Span, ConfigAssumption
<1>2. eSent' = [eSent EXCEPT ![e] = @ + 1] /\ eSent \in [Emitters -> 0..SpansPerEmitter]
  BY DEF BeginSpan, TypeOK, EmitterTypes
<1>3. s \notin Begun BY AcceptedPlaces DEF Begun
<1>4. ASSUME NEW r \in Span PROVE r \in Begun' <=> r \in Begun \/ r = s
  <2>1. r[1] \in Emitters /\ r[2] \in Nat /\ r = <<r[1], r[2]>> /\ eSent[r[1]] \in Nat
    BY AcceptedPlaces
  <2>2. r \in Begun' <=> r[2] <= eSent'[r[1]] BY DEF Begun
  <2>3. r \in Begun <=> r[2] <= eSent[r[1]] BY DEF Begun
  <2>4. CASE r[1] # e
    <3>1. eSent'[r[1]] = eSent[r[1]] /\ r # s BY <1>2, <2>1, <2>4
    <3> QED BY <2>2, <2>3, <3>1
  <2>5. CASE r[1] = e
    <3>1. eSent'[e] = eSent[e] + 1 BY <1>2
    <3>2. r = s <=> r[2] = eSent[e] + 1 BY <2>1, <2>5
    <3> QED BY <2>1, <2>2, <2>3, <2>5, <3>1, <3>2
  <2> QED BY <2>4, <2>5
<1>5. Begun' = Begun \cup {s}
  <2>1. Begun \subseteq Span /\ Begun' \subseteq Span BY DEF Begun
  <2> HIDE DEF s
  <2> QED BY <1>1, <1>4, <2>1
<1> HIDE DEF s
<1> QED BY <1>3, <1>5, CountedSets, FS_AddElement

(* No emitter steps once all were joined.                                   *)
LEMMA JoinedIsStill ==
    ASSUME TypeOK, Joined, NEW e \in Emitters PROVE ~EndSpan(e)
BY ConfigAssumption
   DEF Joined, EndSpan, FinishSpan, SendSpan, SendSpanFull, SendSpanDisconnected, BeginSpan,
       CountDropped, CountSpan, LoadFlag, SwapFlag, SendExport, ResetFlag, ConfigAssumption

(* What the emitters and their counters have, as the others see it.         *)
EmitterState == <<emitterVars, accepted, droppedSpansCount>>

(* Only the emitters change it; the worker closes the channel and nobody    *)
(* opens it.                                                                *)
LEMMA EmitterFootprint ==
    ASSUME [Next]_vars
    PROVE  \/ \E e \in Emitters : EndSpan(e) /\ UNCHANGED <<cMust, cReply, connected>>
           \/ UNCHANGED EmitterState
<1> USE DEF EmitterState
<1>1. CASE BuildProvider \/ DropProvider \/ Finished \/ UNCHANGED vars
  BY <1>1 DEF BuildProvider, DropProvider, Finished, vars, historyVars, counterVars
<1>2. ASSUME NEW e \in Emitters, EndSpan(e) PROVE UNCHANGED <<cMust, cReply, connected>>
  BY <1>2
     DEF EndSpan, FinishSpan, SendSpan, SendSpanFull, SendSpanDisconnected, CountDropped,
         CountSpan, LoadFlag, SwapFlag, SendExport, ResetFlag, callVars, channelVars
<1>3. ASSUME NEW c \in Controllers, Control(c) PROVE UNCHANGED EmitterState
  BY <1>3
     DEF Control, FinishCall, ForceFlush, Shutdown, BeginCall, SendRequest, ReceiveReply, Join,
         historyVars, counterVars
<1>4. CASE Worker
  BY <1>4
     DEF Worker, GetSpansAndExport, ReceiveMessage, TimerExpires, SendersGone,
         ResetFlagForExport, LoadTarget, DrainSpan, ExportBatch, SubtractCount, FinishRequest,
         ReplyShutdown, ThreadExits, historyVars, counterVars
<1> QED BY <1>1, <1>2, <1>3, <1>4 DEF Next

(* While the channel is open every step keeps the account.                  *)
LEMMA AccountedStep ==
    ASSUME TypeOK, Accounted, NEW e \in Emitters, EndSpan(e), connected PROVE Accounted'
<1>0. /\ Len(accepted) \in Nat /\ droppedSpansCount \in Nat
      /\ ePc \in [Emitters -> EmitterSteps]
  BY AcceptedPlaces DEF TypeOK, CounterTypes, EmitterTypes
<1>1. CASE SendSpan(e)
  <2>1. Cardinality(Begun') = Cardinality(Begun) + 1 BY <1>1, OneMoreBegun DEF SendSpan
  <2>2. Len(accepted') = Len(accepted) + 1
    <3>1. accepted \in Seq(Span) /\ accepted' = Append(accepted, <<e, eSent[e] + 1>>)
      BY <1>1 DEF SendSpan, TypeOK, HistoryTypes
    <3>2. <<e, eSent[e] + 1>> \in Span BY <1>1, SpanAppended
    <3> QED BY <3>1, <3>2, AppendProperties
  <2>3. Dropping' = Dropping BY <1>0, <1>1 DEF SendSpan, BeginSpan, Dropping
  <2>4. droppedSpansCount' = droppedSpansCount BY <1>1 DEF SendSpan, counterVars
  <2> QED BY <1>0, <2>1, <2>2, <2>3, <2>4, CountedSets DEF Accounted
<1>2. CASE SendSpanFull(e)
  <2>1. Cardinality(Begun') = Cardinality(Begun) + 1 BY <1>2, OneMoreBegun DEF SendSpanFull
  <2>2. Dropping' = Dropping \cup {e} /\ e \notin Dropping
    BY <1>0, <1>2 DEF SendSpanFull, BeginSpan, Dropping
  <2>3. Cardinality(Dropping') = Cardinality(Dropping) + 1 BY <2>2, CountedSets, FS_AddElement
  <2>4. UNCHANGED <<droppedSpansCount, accepted>>
    BY <1>2 DEF SendSpanFull, counterVars, historyVars
  <2> QED BY <1>0, <2>1, <2>3, <2>4, CountedSets DEF Accounted
<1>3. CASE CountDropped(e)
  <2>1. Dropping' = Dropping \ {e} /\ e \in Dropping
    BY <1>0, <1>3 DEF CountDropped, Dropping
  <2>2. Cardinality(Dropping') = Cardinality(Dropping) - 1
    BY <2>1, CountedSets, FS_RemoveElement
  <2>3. UNCHANGED <<accepted, eSent>> /\ droppedSpansCount' = droppedSpansCount + 1
    BY <1>3 DEF CountDropped, historyVars
  <2>4. Begun' = Begun BY <2>3 DEF Begun
  <2> QED BY <1>0, <2>2, <2>3, <2>4, CountedSets DEF Accounted
<1>4. CASE CountSpan(e) \/ LoadFlag(e) \/ SwapFlag(e) \/ SendExport(e) \/ ResetFlag(e)
  <2>1. UNCHANGED <<accepted, eSent, droppedSpansCount>>
    BY <1>4 DEF CountSpan, LoadFlag, SwapFlag, SendExport, ResetFlag, counterVars, historyVars
  <2>2. Dropping' = Dropping
    BY <1>0, <1>4 DEF CountSpan, LoadFlag, SwapFlag, SendExport, ResetFlag, Dropping
  <2>3. Begun' = Begun BY <2>1 DEF Begun
  <2> QED BY <2>1, <2>2, <2>3 DEF Accounted
<1>5. ~SendSpanDisconnected(e) BY DEF SendSpanDisconnected
<1> QED BY <1>1, <1>2, <1>3, <1>4, <1>5 DEF EndSpan, FinishSpan

(* A reply is given while the channel is still open.                        *)
LEMMA ReplyWhileOpen ==
    ASSUME TypeOK, WorkerPhase, [Next]_vars, NEW c \in Controllers,
           cReply[c] = "none", cReply'[c] # "none"
    PROVE  connected
<1>1. CASE BuildProvider \/ DropProvider \/ Finished \/ UNCHANGED vars
  BY <1>1 DEF BuildProvider, DropProvider, Finished, vars, callVars
<1>2. ASSUME NEW e \in Emitters, EndSpan(e) PROVE cReply' = cReply
  BY <1>2
     DEF EndSpan, FinishSpan, SendSpan, SendSpanFull, SendSpanDisconnected, CountDropped,
         CountSpan, LoadFlag, SwapFlag, SendExport, ResetFlag, callVars
<1>3. ASSUME NEW d \in Controllers, Control(d)
      PROVE  cReply' = cReply \/ cReply' = [cReply EXCEPT ![d] = "none"]
  BY <1>3
     DEF Control, FinishCall, ForceFlush, Shutdown, BeginCall, SendRequest, ReceiveReply, Join
<1>4. CASE FinishRequest \/ ReplyShutdown
  BY <1>4 DEF FinishRequest, ReplyShutdown, WorkerPhase
<1>5. CASE Worker /\ ~FinishRequest /\ ~ReplyShutdown
  BY <1>5
     DEF Worker, GetSpansAndExport, ReceiveMessage, TimerExpires, SendersGone,
         ResetFlagForExport, LoadTarget, DrainSpan, ExportBatch, SubtractCount, ThreadExits,
         callVars
<1> QED BY <1>1, <1>2, <1>3, <1>4, <1>5 DEF Next, TypeOK, CallTypes

(* Nobody opens the channel again.                                          *)
LEMMA ChannelStaysClosed ==
    ASSUME [Next]_vars PROVE connected' => connected
<1>1. ThreadExits => ~connected' BY DEF ThreadExits
<1>2. DrainSpan \/ ExportBatch => connected' = connected BY DEF DrainSpan, ExportBatch, channelVars
<1>3. \A e \in Emitters : SendSpan(e) => connected' = connected BY DEF SendSpan
<1> QED BY <1>1, <1>2, <1>3, BufferFootprint DEF BufferState

(* The log processor's steps are the span processor's; a call also notes    *)
(* whether the emitters were joined.                                        *)
LEMMA LogSteps ==
    ASSUME [LogNext]_<<vars, joined>>
    PROVE  /\ [Next]_vars
           /\ \/ \E c \in Controllers : (ForceFlush(c) \/ Shutdown(c)) /\ NoteJoined(c)
              \/ UNCHANGED <<joined, cMust>>
<1>1. ASSUME NEW c \in Controllers, FlushLogs(c) \/ ShutdownLogs(c)
      PROVE  Next /\ (ForceFlush(c) \/ Shutdown(c)) /\ NoteJoined(c)
  BY <1>1 DEF FlushLogs, ShutdownLogs, Next, Control
<1>2. ASSUME NEW c \in Controllers, FinishLogCall(c) PROVE Next /\ cMust' = cMust
  BY <1>2 DEF FinishLogCall, FinishCall, Next, Control, SendRequest, ReceiveReply, Join
<1>3. ASSUME BuildLoggerProvider \/ DropLoggerProvider \/ LogWorker \/ Finished
      PROVE  Next /\ cMust' = cMust
  BY <1>3
     DEF BuildLoggerProvider, DropLoggerProvider, LogWorker, Next, BuildProvider, DropProvider,
         Finished, vars, Worker, GetSpansAndExport, ReceiveMessage, TimerExpires, SendersGone,
         ResetFlagForExport, LoadTarget, DrainSpan, ExportBatch, SubtractCount, FinishRequest,
         ReplyShutdown, ThreadExits, callVars
<1>4. ASSUME NEW e \in Emitters, Emit(e) PROVE Next /\ cMust' = cMust
  BY <1>4
     DEF Emit, Next, EndSpan, FinishSpan, SendSpan, SendSpanFull, SendSpanDisconnected,
         CountDropped, CountSpan, LoadFlag, SwapFlag, SendExport, ResetFlag, callVars
<1>5. UNCHANGED <<vars, joined>> => UNCHANGED <<joined, cMust>> /\ [Next]_vars
  BY DEF vars, callVars
<1> QED BY <1>1, <1>2, <1>3, <1>4, <1>5 DEF LogNext

(* What was noted at a call stays true of the emitters.                     *)
LEMMA AccountingStep ==
    ASSUME TypeOK, TypeOK', WorkerPhase, WorkerPhase', Ordered(accepted), Accounting,
           [LogNext]_<<vars, joined>>
    PROVE  Accounting'
<1>1. CASE \E e \in Emitters : EndSpan(e) /\ UNCHANGED <<cMust, cReply, connected>>
  <2>1. PICK e \in Emitters : EndSpan(e) /\ UNCHANGED <<cMust, cReply, connected>> BY <1>1
  <2>2. \A c \in Controllers : ~joined[c] BY <2>1, JoinedIsStill DEF Accounting
  <2>3. joined' = joined
    <3>1. ASSUME NEW c \in Controllers, ForceFlush(c) \/ Shutdown(c) PROVE FALSE
      <4>1. cPc[c] = "idle" /\ cPc'[c] = "send"
        BY <3>1 DEF ForceFlush, Shutdown, BeginCall, TypeOK, CallTypes
      <4>2. cPc' = cPc
        BY <2>1
           DEF EndSpan, FinishSpan, SendSpan, SendSpanFull, SendSpanDisconnected, CountDropped,
               CountSpan, LoadFlag, SwapFlag, SendExport, ResetFlag, callVars
      <4> QED BY <4>1, <4>2
    <3> QED BY <3>1, LogSteps
  <2>4. connected' => Accounted' BY <2>1, AccountedStep DEF Accounting
  <2> QED BY <2>2, <2>3, <2>4 DEF Accounting
<1>2. CASE UNCHANGED EmitterState
  <2>1. /\ UNCHANGED <<accepted, droppedSpansCount, eSent, ePc>>
        /\ Joined' <=> Joined
        /\ Accounted' <=> Accounted
    BY <1>2 DEF EmitterState, emitterVars, Joined, Accounted, Begun, Dropping
  <2>2. connected' => connected BY <1>2, ChannelStaysClosed, LogSteps
  <2>3. connected' => Accounted' BY <2>1, <2>2 DEF Accounting
  <2>4. ASSUME NEW c \in Controllers, joined'[c] = joined[c], cMust'[c] = cMust[c], joined[c]
        PROVE  /\ Joined' /\ Cardinality(cMust'[c]) = Len(accepted')
               /\ cReply'[c] # "none" => Accounted'
    <3>1. Joined /\ Cardinality(cMust[c]) = Len(accepted) /\ (cReply[c] # "none" => Accounted)
      BY <2>4 DEF Accounting
    <3>2. cReply'[c] # "none" /\ cReply[c] = "none" => connected BY ReplyWhileOpen, LogSteps
    <3> QED BY <2>1, <2>4, <3>1, <3>2 DEF Accounting
  <2>5. CASE UNCHANGED <<joined, cMust>> BY <2>3, <2>4, <2>5 DEF Accounting
  <2>6. ASSUME NEW c \in Controllers, ForceFlush(c) \/ Shutdown(c), NoteJoined(c)
        PROVE  Accounting'
    <3>1. /\ cMust' = [cMust EXCEPT ![c] = EndedSpans] /\ cReply' = [cReply EXCEPT ![c] = "none"]
          /\ joined' = [joined EXCEPT ![c] = Joined]
      BY <2>6 DEF ForceFlush, Shutdown, BeginCall, NoteJoined
    <3>2. /\ cMust'[c] = EndedSpans /\ cReply'[c] = "none" /\ joined'[c] = Joined
          /\ \A d \in Controllers : d # c => joined'[d] = joined[d] /\ cMust'[d] = cMust[d]
          /\ joined' \in [Controllers -> BOOLEAN]
      <4>1. Joined \in BOOLEAN BY DEF Joined
      <4> QED BY <3>1, <4>1 DEF TypeOK, CallTypes, Accounting
    <3>3. Joined => EndedSpans = Elements(accepted)
      <4>1. \A s \in Elements(accepted) : s[1] \in Emitters BY AcceptedPlaces DEF Elements
      <4> QED BY <4>1 DEF Joined, EndedSpans
    <3>4. Joined => Cardinality(cMust'[c]) = Len(accepted)
      BY <3>2, <3>3, OrderedCardinality
    <3>5. ASSUME NEW d \in Controllers, joined'[d]
          PROVE  /\ Joined' /\ Cardinality(cMust'[d]) = Len(accepted')
                 /\ cReply'[d] # "none" => Accounted'
      <4>1. CASE d = c BY <2>1, <3>2, <3>4, <3>5, <4>1
      <4>2. CASE d # c BY <2>4, <3>2, <3>5, <4>2
      <4> QED BY <4>1, <4>2
    <3> QED BY <2>3, <3>2, <3>5 DEF Accounting
  <2> QED BY <2>5, <2>6, LogSteps
<1> QED BY <1>1, <1>2, EmitterFootprint, LogSteps

(* A log processor is a batch processor: what the theorems above say of     *)
(* every behaviour of Spec they say of the log processor too.               *)
THEOREM LogProcessorBatches == LogSpec => Spec
<1>1. LogInit => Init BY DEF LogInit
<1>2. [LogNext]_<<vars, joined>> => [Next]_vars BY LogSteps
<1> QED BY <1>1, <1>2, PTL DEF LogSpec, Spec

(* Every log is received or dropped, and every drop is counted: once the    *)
(* emitters were joined, a successful shutdown leaves the exporter's        *)
(* records and the dropped count adding up to all that was emitted.         *)
THEOREM EveryLogIsAccountedFor ==
    ASSUME MaxExportBatchSize > 0 PROVE LogSpec => []AllLogsAccountedFor
<1>1. LogSpec => Spec BY LogProcessorBatches
<1>2. LogInit => Ordered(accepted) /\ Accounting
  <2> SUFFICES ASSUME LogInit PROVE Ordered(accepted) /\ Accounting
    OBVIOUS
  <2>1. Ordered(accepted) /\ Len(accepted) = 0 BY EmptySeq DEF LogInit, Init, Ordered
  <2>2. Begun = {}
    <3>1. \A s \in Span : s[1] \in Emitters /\ s[2] \in 1..SpansPerEmitter BY DEF Span
    <3>2. \A s \in Span : ~(s[2] <= 0) BY <3>1, ConfigAssumption DEF ConfigAssumption
    <3> QED BY <3>1, <3>2 DEF LogInit, Init, Begun
  <2>3. Dropping = {} BY DEF LogInit, Init, Dropping
  <2>4. Accounted BY <2>1, <2>2, <2>3, FS_EmptySet DEF LogInit, Init, Accounted
  <2> QED BY <2>1, <2>4 DEF LogInit, Accounting
<1>3. /\ CallInv /\ CallInv' /\ Ordered(accepted) /\ Accounting /\ [LogNext]_<<vars, joined>>
      => Ordered(accepted)' /\ Accounting'
  BY LogSteps, OrderedStep, AccountingStep DEF CallInv, IndInv
<1>4. CallInv /\ QuietShutdownComplete /\ Accounting => AllLogsAccountedFor
  <2> SUFFICES ASSUME CallInv, QuietShutdownComplete, Accounting, NEW c \in Controllers,
                      joined[c], cKind[c] = "Shutdown", cResult[c] = "Ok"
               PROVE  Len(exported) + droppedSpansCount = Cardinality(Emitters) * SpansPerEmitter
    BY DEF AllLogsAccountedFor
  <2>1. Joined /\ Cardinality(cMust[c]) = Len(accepted) /\ Accounted
    BY DEF Accounting, CallInv, Calls
  <2>2. exported = accepted BY <2>1 DEF QuietShutdownComplete
  <2>3. Dropping = {} BY <2>1 DEF Joined, Dropping
  <2>4. Begun = Span
    <3>1. \A s \in Span : s[1] \in Emitters /\ s[2] \in 1..SpansPerEmitter BY DEF Span
    <3> QED BY <2>1, <3>1, ConfigAssumption DEF Joined, Begun, ConfigAssumption
  <2>5. Len(accepted) \in Nat /\ droppedSpansCount \in Nat
    BY AcceptedPlaces DEF CallInv, IndInv, TypeOK, CounterTypes
  <2> QED BY <2>1, <2>2, <2>3, <2>4, <2>5, CountedSets, FS_EmptySet DEF Accounted
<1>5. Spec => []CallInv /\ []QuietShutdownComplete
  BY CallInvariance, QuietShutdownExportsAll, PTL
<1> QED BY <1>1, <1>2, <1>3, <1>4, <1>5, PTL DEF LogSpec
=============================================================================
