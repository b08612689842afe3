--------------------------- MODULE ProviderProofs ---------------------------
(***************************************************************************)
(* Theorems about TracerProvider and about LoggerProvider, for any threads,*)
(* spans, processors and records.  The two are a pair in the code and share*)
(* no state; what both have is called Span... for the first and Log... for *)
(* the second.                                                             *)
(*                                                                         *)
(* The properties of TracerProvider look at quiet states.  Its inductive   *)
(* invariant says what holds in between: which thread works on which span  *)
(* (TracingThreads, Spans), who shuts the exporters down (SpanStopping),   *)
(* which ended spans are still on their way (SpanDelivery), and how far    *)
(* a trace has spread (Traces).                                            *)
(*                                                                         *)
(* For LoggerProvider it says who holds a mutex (Mutexes), who is shutting *)
(* the exporters down (LogStopping) and which records are still on         *)
(* their way (LogDelivery).                                                *)
(***************************************************************************)
EXTENDS TracerProvider, LoggerProvider, TLAPS

SpanSteps == {"idle", "decide", "onStart", "onEnd", "release", "stop"}
Phases == {"none", "starting", "recording", "passive", "ended", "gone"}
SpanTypeOK ==
    /\ sampler \in TraceSamplers
    /\ isShutdown \in BOOLEAN /\ explicit = isShutdown
    /\ hasHandle \in [TraceThreads -> BOOLEAN]
    /\ tracer \in [TraceThreads -> {"none", "live", "noop"}]
    /\ tPc \in [TraceThreads -> SpanSteps]
    /\ tSpan \in [TraceThreads -> TraceSpans \cup {NoParent}]
    /\ tNext \in [TraceThreads -> Nat] /\ tDropping \in [TraceThreads -> BOOLEAN]
    /\ phase \in [TraceSpans -> Phases]
    /\ trace \in [TraceSpans -> TraceSpans \cup {"invalid", RemoteSampled, RemoteUnsampled}]
    /\ sampled \in [TraceSpans -> BOOLEAN]
    /\ holdsProvider \subseteq TraceSpans
    /\ startSeen \in [Processors -> SUBSET TraceSpans]
    /\ handed \in [Processors -> Seq(TraceSpans)]
    /\ exporterDown \in [Processors -> Nat]
    /\ lateEnds \subseteq TraceSpans /\ passedEnds \subseteq TraceSpans

(* A call that is about a span has it for itself.                           *)
Using(t) == tPc[t] \in {"decide", "onStart", "onEnd", "release"}
TracingThreads ==
    /\ \A t \in TraceThreads :
          /\ Using(t) => tSpan[t] \in TraceSpans
          /\ tPc[t] \in {"onStart", "onEnd", "stop"} => tNext[t] \in Processors
          /\ tPc[t] \in {"decide", "onStart"} => phase[tSpan[t]] = "starting"
          /\ tPc[t] = "onEnd" => phase[tSpan[t]] = "ended"
          /\ tPc[t] = "release" => phase[tSpan[t]] \in {"ended", "passive"}
    /\ \A t, u \in TraceThreads : Using(t) /\ Using(u) /\ tSpan[t] = tSpan[u] => t = u

(* A span is sampled only after the decision, and its end finds it once.    *)
Undecided(s) == phase[s] = "none" \/ \E t \in TraceThreads : tPc[t] = "decide" /\ tSpan[t] = s
Finished(s) == phase[s] \in {"ended", "gone"}
Spans ==
    \A s \in TraceSpans :
        /\ Undecided(s) => trace[s] = "invalid" /\ ~sampled[s]
        /\ phase[s] = "passive" => ~sampled[s]
        /\ s \in lateEnds \cup passedEnds => Finished(s)
        /\ s \in passedEnds => sampled[s] /\ s \notin lateEnds
        /\ Finished(s) /\ sampled[s] => s \in lateEnds \cup passedEnds
        /\ s \in lateEnds => isShutdown

SpanStructure == SpanTypeOK /\ TracingThreads /\ Spans

-----------------------------------------------------------------------------
LEMMA Facts ==
    /\ NumProcessors \in Nat /\ Processors = 1..NumProcessors
    /\ NumProcessors # 0 => 1 \in Processors /\ NumProcessors \in Processors
    /\ \A p \in Processors : p # NumProcessors => p + 1 \in Processors
    /\ NoParent \notin TraceSpans /\ "invalid" \notin TraceSpans
    /\ "handle" \notin TraceSpans /\ "tracer" \notin TraceSpans
BY TracerAssumption DEF TracerAssumption, Processors

(* Only thread t moves. *)
Goes(t) ==
    /\ tPc' \in [TraceThreads -> SpanSteps] /\ tNext' \in [TraceThreads -> Nat]
    /\ \A u \in TraceThreads : u # t => tPc'[u] = tPc[u] /\ tNext'[u] = tNext[u]

LEMMA ReleaseFacts ==
    ASSUME SpanTypeOK, NEW t \in TraceThreads, NEW d, Release(t, d)
    PROVE  /\ Goes(t) /\ tPc'[t] = AfterRelease(t, d) /\ tNext'[t] = 1
           /\ AfterRelease(t, d) \in {"idle", "stop"}
           /\ AfterRelease(t, d) = "stop" => 1 \in Processors
<1>1. AfterRelease(t, d) \in {"idle", "stop"}
      /\ (AfterRelease(t, d) = "stop" => 1 \in Processors)
  BY Facts DEF AfterRelease
<1>2. tPc' = [tPc EXCEPT ![t] = AfterRelease(t, d)] /\ tNext' = [tNext EXCEPT ![t] = 1]
  BY DEF Release
<1> QED
  BY <1>1, <1>2 DEF SpanTypeOK, Goes, SpanSteps

(* A step of a thread that works on no span, before or after. *)
LEMMA IdleStep ==
    ASSUME SpanStructure, NEW t \in TraceThreads, Goes(t), ~Using(t), ~Using(t)',
           UNCHANGED <<tSpan, phase, trace, sampled, lateEnds, passedEnds>>,
           isShutdown => isShutdown', tPc'[t] = "stop" => tNext'[t] \in Processors
    PROVE  TracingThreads' /\ Spans'
<1>1. TracingThreads'
  BY DEF SpanStructure, TracingThreads, Goes, Using
<1>2. \A s \in TraceSpans : Undecided(s)' => Undecided(s)
  BY DEF Undecided, Goes, Using
<1>3. Spans'
  BY <1>2 DEF SpanStructure, Spans, Finished
<1> QED
  BY <1>1, <1>3

Verdicts == {"RecordAndSample", "RecordOnly", "Drop"}
LEMMA DecisionFacts == ASSUME SpanTypeOK, NEW parent PROVE Decisions(parent) \subseteq Verdicts
BY TracerAssumption DEF TracerAssumption, SpanTypeOK, Decisions, RootDecisions, Verdicts

LEMMA SpanStructureInit == TraceInit => SpanStructure
<1> SUFFICES ASSUME TraceInit PROVE SpanStructure
  OBVIOUS
<1>1. SpanTypeOK
  <2>1. handed \in [Processors -> Seq(TraceSpans)] /\ exporterDown \in [Processors -> Nat]
        /\ startSeen \in [Processors -> SUBSET TraceSpans]
    BY DEF TraceInit
  <2>2. /\ hasHandle \in [TraceThreads -> BOOLEAN]
        /\ tracer \in [TraceThreads -> {"none", "live", "noop"}]
        /\ tPc \in [TraceThreads -> SpanSteps] /\ tNext \in [TraceThreads -> Nat]
        /\ tSpan \in [TraceThreads -> TraceSpans \cup {NoParent}]
        /\ tDropping \in [TraceThreads -> BOOLEAN]
    BY DEF TraceInit, SpanSteps
  <2>3. /\ phase \in [TraceSpans -> Phases] /\ sampled \in [TraceSpans -> BOOLEAN]
        /\ trace \in [TraceSpans -> TraceSpans \cup {"invalid", RemoteSampled, RemoteUnsampled}]
    BY DEF TraceInit, Phases
  <2> QED
    BY <2>1, <2>2, <2>3 DEF TraceInit, SpanTypeOK
<1>2. TracingThreads /\ Spans
  BY DEF TraceInit, TracingThreads, Spans, Using, Undecided, Finished
<1> QED
  BY <1>1, <1>2 DEF SpanStructure

LEMMA SpanStructureStep == ASSUME SpanStructure, [TraceNext]_traceVars PROVE SpanStructure'
<1>0. SpanTypeOK /\ TracingThreads /\ Spans
  BY DEF SpanStructure
<1>1. ASSUME NEW t \in TraceThreads, DropHandle(t) \/ DropTracer(t) PROVE SpanStructure'
  <2>0. UNCHANGED <<sampler, isShutdown, tSpan, tDropping, spanVars, processorVars, traceHistory>>
    BY <1>1 DEF DropHandle, DropTracer
  <2>1. /\ Goes(t) /\ tPc[t] = "idle" /\ tPc'[t] \in {"idle", "stop"}
        /\ (tPc'[t] = "stop" => tNext'[t] \in Processors)
    <3>1. CASE Release(t, "handle") \/ Release(t, "tracer")
      BY <1>0, <1>1, <3>1, ReleaseFacts DEF DropHandle, DropTracer
    <3>2. CASE UNCHANGED <<tPc, tNext>>
      BY <1>0, <1>1, <3>2 DEF DropHandle, DropTracer, Goes, SpanTypeOK
    <3> QED
      BY <1>1, <3>1, <3>2 DEF DropHandle, DropTracer
  <2>2. hasHandle' \in [TraceThreads -> BOOLEAN]
        /\ tracer' \in [TraceThreads -> {"none", "live", "noop"}]
    BY <1>0, <1>1 DEF DropHandle, DropTracer, SpanTypeOK
  <2>3. SpanTypeOK'
    BY <1>0, <2>0, <2>1, <2>2 DEF SpanTypeOK, Goes, spanVars, processorVars, traceHistory
  <2>4. TracingThreads' /\ Spans'
    BY <2>0, <2>1, IdleStep DEF Using, spanVars, traceHistory
  <2> QED
    BY <2>3, <2>4 DEF SpanStructure
<1>2. ASSUME NEW t \in TraceThreads, GetTracer(t) PROVE SpanStructure'
  <2>1. SpanTypeOK'
    BY <1>0, <1>2 DEF GetTracer, SpanTypeOK, threadVars, spanVars, processorVars, traceHistory
  <2>2. TracingThreads' /\ Spans'
    BY <1>0, <1>2 DEF GetTracer, threadVars, spanVars, traceHistory, TracingThreads, Spans, Using,
       Undecided, Finished
  <2> QED
    BY <2>1, <2>2 DEF SpanStructure
<1>3. ASSUME NEW t \in TraceThreads, ShutdownProvider(t) PROVE SpanStructure'
  <2>1. /\ tPc[t] = "idle" /\ isShutdown' = TRUE /\ explicit' = TRUE
        /\ tNext' = [tNext EXCEPT ![t] = 1]
        /\ tPc' = [tPc EXCEPT ![t] = IF isShutdown \/ NumProcessors = 0 THEN "idle" ELSE "stop"]
        /\ UNCHANGED <<sampler, hasHandle, tracer, tSpan, tDropping, spanVars, processorVars,
                       lateEnds, passedEnds>>
    BY <1>3 DEF ShutdownProvider, SwapFlag
  <2>2. /\ Goes(t) /\ tPc'[t] \in {"idle", "stop"}
        /\ (tPc'[t] = "stop" => tNext'[t] \in Processors)
    BY <1>0, <2>1, Facts DEF SpanTypeOK, Goes, SpanSteps
  <2>3. SpanTypeOK'
    BY <1>0, <2>1, <2>2 DEF SpanTypeOK, Goes, spanVars, processorVars
  <2>4. TracingThreads' /\ Spans'
    BY <2>1, <2>2, IdleStep DEF Using, spanVars
  <2> QED
    BY <2>3, <2>4 DEF SpanStructure
<1>4. ASSUME NEW t \in TraceThreads, StopProcessor(t) PROVE SpanStructure'
  <2>1. /\ tPc[t] = "stop" /\ tNext[t] \in Processors
        /\ tNext' = [tNext EXCEPT ![t] = @ + 1]
        /\ tPc' = [tPc EXCEPT ![t] = IF tNext[t] = NumProcessors THEN "idle" ELSE "stop"]
        /\ exporterDown' = [exporterDown EXCEPT ![tNext[t]] = @ + 1]
        /\ UNCHANGED <<providerVars, tSpan, tDropping, spanVars, startSeen, handed, traceHistory>>
    BY <1>0, <1>4 DEF StopProcessor, TracingThreads
  <2>2. /\ Goes(t) /\ tPc'[t] \in {"idle", "stop"}
        /\ (tPc'[t] = "stop" => tNext'[t] \in Processors)
    BY <1>0, <2>1, Facts DEF SpanTypeOK, Goes, SpanSteps
  <2>3. SpanTypeOK'
    BY <1>0, <2>1, <2>2 DEF SpanTypeOK, Goes, spanVars, providerVars, traceHistory
  <2>4. TracingThreads' /\ Spans'
    BY <2>1, <2>2, IdleStep DEF Using, spanVars, providerVars, traceHistory
  <2> QED
    BY <2>3, <2>4 DEF SpanStructure
<1>5. ASSUME NEW t \in TraceThreads, NEW s \in TraceSpans, StartPassive(t, s) PROVE SpanStructure'
  <2>1. /\ phase[s] = "none" /\ phase' = [phase EXCEPT ![s] = "passive"]
        /\ holdsProvider' \subseteq holdsProvider \cup {s}
        /\ UNCHANGED <<providerVars, threadVars, trace, sampled, processorVars, traceHistory>>
    BY <1>5 DEF StartPassive
  <2>2. SpanTypeOK'
    BY <1>0, <2>1 DEF SpanTypeOK, providerVars, threadVars, processorVars, traceHistory, Phases
  <2>3. TracingThreads'
    BY <1>0, <2>1 DEF SpanTypeOK, TracingThreads, Using, threadVars
  <2>4. Spans'
    BY <1>0, <2>1 DEF SpanTypeOK, Spans, Undecided, Finished, threadVars, traceHistory, providerVars
  <2> QED
    BY <2>2, <2>3, <2>4 DEF SpanStructure
<1>6. ASSUME NEW t \in TraceThreads, NEW s \in TraceSpans, BeginStart(t, s) PROVE SpanStructure'
  <2>1. /\ tPc[t] = "idle" /\ phase[s] = "none" /\ phase' = [phase EXCEPT ![s] = "starting"]
        /\ holdsProvider' = holdsProvider \cup {s}
        /\ tPc' = [tPc EXCEPT ![t] = "decide"] /\ tSpan' = [tSpan EXCEPT ![t] = s]
        /\ UNCHANGED <<providerVars, tNext, tDropping, trace, sampled, processorVars, traceHistory>>
    BY <1>6 DEF BeginStart
  <2>2. SpanTypeOK'
    BY <1>0, <2>1 DEF SpanTypeOK, providerVars, processorVars, traceHistory, Phases, SpanSteps
  <2>3. \A u \in TraceThreads : Using(u) => tSpan[u] # s
    BY <1>0, <2>1 DEF TracingThreads, Using
  <2>4. TracingThreads'
    BY <1>0, <2>1, <2>3 DEF SpanTypeOK, TracingThreads, Using
  <2>5. \A r \in TraceSpans : Undecided(r)' => Undecided(r)
    BY <1>0, <2>1 DEF SpanTypeOK, Undecided
  <2>6. Spans'
    BY <1>0, <2>1, <2>5 DEF SpanTypeOK, Spans, Finished, traceHistory, providerVars
  <2> QED
    BY <2>2, <2>4, <2>6 DEF SpanStructure
<1>7. ASSUME NEW t \in TraceThreads, DecideSpan(t) PROVE SpanStructure'
  <2>0. PICK decision \in Verdicts, parent \in Parents(tSpan[t]) :
           /\ trace' = [trace EXCEPT ![tSpan[t]] = TraceOf(tSpan[t], parent)]
           /\ sampled' = [sampled EXCEPT ![tSpan[t]] = decision = "RecordAndSample"]
           /\ phase' = [phase EXCEPT ![tSpan[t]] = IF decision = "Drop" THEN "passive"
                                                    ELSE IF NumProcessors = 0 THEN "recording"
                                                    ELSE @]
           /\ tPc' = [tPc EXCEPT ![t] =
                        IF decision = "Drop" \/ NumProcessors = 0 THEN "idle" ELSE "onStart"]
           /\ tNext' = [tNext EXCEPT ![t] = 1]
    BY <1>0, <1>7, DecisionFacts DEF DecideSpan
  <2>1. /\ tPc[t] = "decide" /\ Using(t) /\ tSpan[t] \in TraceSpans /\ phase[tSpan[t]] = "starting"
        /\ UNCHANGED <<providerVars, tSpan, tDropping, holdsProvider, processorVars, traceHistory>>
    BY <1>0, <1>7 DEF DecideSpan, TracingThreads, Using
  <2>2. TraceOf(tSpan[t], parent) \in TraceSpans \cup {"invalid", RemoteSampled, RemoteUnsampled}
    BY <1>0, <2>0, <2>1 DEF Parents, TraceOf, SpanTypeOK
  <2>a. PICK after \in {"passive", "recording", "starting"} :
           /\ phase' = [phase EXCEPT ![tSpan[t]] = after]
           /\ after = "passive" => decision = "Drop"
           /\ after = "recording" => NumProcessors = 0
           /\ after = "starting" => decision # "Drop" /\ NumProcessors # 0
    <3>1. CASE decision = "Drop"
      BY <2>0, <3>1
    <3>2. CASE decision # "Drop" /\ NumProcessors = 0
      BY <2>0, <3>2
    <3>3. CASE decision # "Drop" /\ NumProcessors # 0
      <4>1. phase' = [phase EXCEPT ![tSpan[t]] = "starting"]
        BY <2>0, <2>1, <3>3
      <4> QED
        BY <3>3, <4>1
    <3> QED
      BY <3>1, <3>2, <3>3
  <2>3. phase' \in [TraceSpans -> Phases]
        /\ \/ phase'[tSpan[t]] = "passive" /\ ~sampled'[tSpan[t]] /\ tPc'[t] = "idle"
           \/ phase'[tSpan[t]] = "recording" /\ tPc'[t] = "idle"
           \/ phase'[tSpan[t]] = "starting" /\ tPc'[t] = "onStart" /\ NumProcessors # 0
        /\ \A r \in TraceSpans : r # tSpan[t] => phase'[r] = phase[r]
    BY <1>0, <2>0, <2>1, <2>a DEF SpanTypeOK, Phases
  <2>4. SpanTypeOK'
    BY <1>0, <2>0, <2>1, <2>2, <2>3
       DEF SpanTypeOK, providerVars, processorVars, traceHistory, SpanSteps
  <2>5. TracingThreads'
    BY <1>0, <2>0, <2>1, <2>3, Facts DEF SpanTypeOK, TracingThreads, Using
  <2>6. \A r \in TraceSpans : Undecided(r)' => Undecided(r) /\ r # tSpan[t]
    BY <1>0, <2>0, <2>1, <2>3 DEF SpanTypeOK, Undecided, TracingThreads, Using
  <2>7. Spans'
    BY <1>0, <2>0, <2>1, <2>3, <2>6 DEF SpanTypeOK, Spans, Finished, traceHistory, providerVars
  <2> QED
    BY <2>4, <2>5, <2>7 DEF SpanStructure
<1>8. ASSUME NEW t \in TraceThreads, OnStart(t) PROVE SpanStructure'
  <2>1. /\ tPc[t] = "onStart" /\ Using(t) /\ tSpan[t] \in TraceSpans
        /\ phase[tSpan[t]] = "starting" /\ tNext[t] \in Processors
        /\ startSeen' = [startSeen EXCEPT ![tNext[t]] = @ \cup {tSpan[t]}]
        /\ tNext' = [tNext EXCEPT ![t] = @ + 1]
        /\ UNCHANGED <<providerVars, tSpan, tDropping, trace, sampled, holdsProvider, handed,
                       exporterDown, traceHistory>>
    BY <1>0, <1>8 DEF OnStart, TracingThreads, Using
  <2>2. \/ /\ tNext[t] = NumProcessors /\ tPc' = [tPc EXCEPT ![t] = "idle"]
           /\ phase' = [phase EXCEPT ![tSpan[t]] = "recording"]
        \/ tNext[t] # NumProcessors /\ UNCHANGED <<tPc, phase>>
    BY <1>8 DEF OnStart
  <2>3. SpanTypeOK'
    <3>1. startSeen' \in [Processors -> SUBSET TraceSpans] /\ tNext' \in [TraceThreads -> Nat]
      BY <1>0, <2>1 DEF SpanTypeOK
    <3>2. tPc' \in [TraceThreads -> SpanSteps] /\ phase' \in [TraceSpans -> Phases]
      BY <1>0, <2>1, <2>2 DEF SpanTypeOK, SpanSteps, Phases
    <3> QED
      BY <1>0, <2>1, <3>1, <3>2 DEF SpanTypeOK, providerVars, traceHistory
  <2>4. TracingThreads'
    <3>1. tNext[t] # NumProcessors => tNext'[t] \in Processors
      BY <1>0, <2>1, Facts DEF SpanTypeOK
    <3>2. /\ \A u \in TraceThreads : u # t => tPc'[u] = tPc[u] /\ tNext'[u] = tNext[u]
          /\ \/ tPc'[t] = "idle"
             \/ tPc'[t] = "onStart" /\ tNext'[t] \in Processors /\ phase' = phase
      BY <1>0, <2>1, <2>2, <3>1 DEF SpanTypeOK
    <3>3. \A u \in TraceThreads : u # t /\ Using(u) => tSpan[u] # tSpan[t]
      BY <1>0, <2>1 DEF TracingThreads
    <3>4. \A r \in TraceSpans : r # tSpan[t] => phase'[r] = phase[r]
      BY <1>0, <2>1, <2>2 DEF SpanTypeOK
    <3> QED
      BY <1>0, <2>1, <3>2, <3>3, <3>4 DEF TracingThreads, Using
  <2>5. \A r \in TraceSpans : Undecided(r)' => Undecided(r)
    BY <1>0, <2>1, <2>2 DEF SpanTypeOK, Undecided
  <2>6. Spans'
    BY <1>0, <2>1, <2>2, <2>5 DEF SpanTypeOK, Spans, Finished, traceHistory, providerVars
  <2> QED
    BY <2>3, <2>4, <2>6 DEF SpanStructure
<1>9. ASSUME NEW t \in TraceThreads, NEW s \in TraceSpans, NEW dropping \in BOOLEAN,
             BeginEnd(t, s, dropping)
      PROVE  SpanStructure'
  <2>1. /\ tPc[t] = "idle" /\ phase[s] = "recording"
        /\ phase' = [phase EXCEPT ![s] = "ended"] /\ tSpan' = [tSpan EXCEPT ![t] = s]
        /\ tNext' = [tNext EXCEPT ![t] = 1] /\ tDropping' = [tDropping EXCEPT ![t] = dropping]
        /\ lateEnds' = (IF isShutdown THEN lateEnds \cup {s} ELSE lateEnds)
        /\ passedEnds' = IF ~isShutdown /\ sampled[s] THEN passedEnds \cup {s} ELSE passedEnds
        /\ UNCHANGED <<providerVars, trace, sampled, holdsProvider, processorVars, explicit>>
    BY <1>9 DEF BeginEnd, TakeData
  <2>2. /\ tPc' \in [TraceThreads -> SpanSteps]
        /\ \A u \in TraceThreads : u # t => tPc'[u] = tPc[u] /\ ~(Using(u) /\ tSpan[u] = s)
        /\ tPc'[t] \in {"idle", "release", "onEnd"}
        /\ tPc'[t] = "onEnd" => NumProcessors # 0
    <3>1. \A u \in TraceThreads : ~(Using(u) /\ tSpan[u] = s)
      BY <1>9 DEF BeginEnd, NotInUse, Using
    <3> DEFINE step == IF ProviderRuns /\ NumProcessors > 0 THEN "onEnd"
                       ELSE IF dropping THEN "release" ELSE "idle"
    <3>2. /\ tPc' = [tPc EXCEPT ![t] = step] /\ step \in {"idle", "release", "onEnd"}
          /\ step = "onEnd" => NumProcessors # 0
      BY <1>9, Facts DEF BeginEnd
    <3> HIDE DEF step
    <3> QED
      BY <1>0, <3>1, <3>2 DEF SpanTypeOK, SpanSteps
  <2>3. SpanTypeOK'
    BY <1>0, <2>1, <2>2 DEF SpanTypeOK, providerVars, processorVars, Phases
  <2>4. TracingThreads'
    BY <1>0, <2>1, <2>2, Facts DEF SpanTypeOK, TracingThreads, Using
  <2>5. \A r \in TraceSpans : Undecided(r)' => Undecided(r)
    BY <1>0, <2>1, <2>2 DEF SpanTypeOK, Undecided
  <2>6. Spans'
    BY <1>0, <2>1, <2>5 DEF SpanTypeOK, Spans, Finished, providerVars
  <2> QED
    BY <2>3, <2>4, <2>6 DEF SpanStructure
<1>10. ASSUME NEW t \in TraceThreads, OnEnd(t) PROVE SpanStructure'
  <2>1. /\ tPc[t] = "onEnd" /\ Using(t) /\ tSpan[t] \in TraceSpans
        /\ phase[tSpan[t]] = "ended" /\ tNext[t] \in Processors
        /\ tNext' = [tNext EXCEPT ![t] = @ + 1]
        /\ UNCHANGED <<providerVars, tSpan, tDropping, spanVars, startSeen, exporterDown,
                       traceHistory>>
    BY <1>0, <1>10 DEF OnEnd, TracingThreads, Using
  <2>2. /\ tPc' \in [TraceThreads -> SpanSteps]
        /\ \A u \in TraceThreads : u # t => tPc'[u] = tPc[u]
        /\ \/ tPc'[t] = "onEnd" /\ tNext[t] # NumProcessors
           \/ tPc'[t] \in {"release", "idle"}
    BY <1>0, <1>10 DEF OnEnd, LastProcessor, SpanTypeOK, SpanSteps
  <2>3. handed' \in [Processors -> Seq(TraceSpans)]
    <3>1. Append(handed[tNext[t]], tSpan[t]) \in Seq(TraceSpans)
      BY <1>0, <2>1 DEF SpanTypeOK
    <3>2. \/ handed' = handed
          \/ handed' = [handed EXCEPT ![tNext[t]] = Append(handed[tNext[t]], tSpan[t])]
      BY <1>10 DEF OnEnd
    <3> QED
      BY <1>0, <2>1, <3>1, <3>2 DEF SpanTypeOK
  <2>4. SpanTypeOK'
    <3>1. tNext' \in [TraceThreads -> Nat]
      BY <1>0, <2>1 DEF SpanTypeOK
    <3> QED
      BY <1>0, <2>1, <2>2, <2>3, <3>1 DEF SpanTypeOK, providerVars, traceHistory, spanVars
  <2>5. TracingThreads'
    <3>1. tNext[t] # NumProcessors => tNext'[t] \in Processors
      BY <1>0, <2>1, Facts DEF SpanTypeOK
    <3> QED
      BY <1>0, <2>1, <2>2, <3>1 DEF SpanTypeOK, TracingThreads, Using, spanVars
  <2>6. \A r \in TraceSpans : Undecided(r)' => Undecided(r)
    BY <1>0, <2>1, <2>2 DEF SpanTypeOK, Undecided, spanVars
  <2>7. Spans'
    BY <1>0, <2>1, <2>6 DEF SpanTypeOK, Spans, Finished, providerVars, traceHistory, spanVars
  <2> QED
    BY <2>4, <2>5, <2>7 DEF SpanStructure
<1>11. ASSUME NEW t \in TraceThreads, NEW s \in TraceSpans, DropDone(t, s) PROVE SpanStructure'
  <2>1. /\ tPc[t] = "idle" /\ phase[s] \in {"ended", "passive"}
        /\ tSpan' = [tSpan EXCEPT ![t] = s] /\ tPc' = [tPc EXCEPT ![t] = "release"]
        /\ UNCHANGED <<providerVars, tNext, tDropping, spanVars, processorVars, traceHistory>>
        /\ \A u \in TraceThreads : ~(Using(u) /\ tSpan[u] = s)
    BY <1>11 DEF DropDone, NotInUse, Using
  <2>2. SpanTypeOK'
    BY <1>0, <2>1 DEF SpanTypeOK, providerVars, processorVars, traceHistory, spanVars, SpanSteps
  <2>3. TracingThreads'
    BY <1>0, <2>1 DEF SpanTypeOK, TracingThreads, Using, spanVars
  <2>4. \A r \in TraceSpans : Undecided(r)' => Undecided(r)
    BY <1>0, <2>1 DEF SpanTypeOK, Undecided, spanVars
  <2>5. Spans'
    BY <1>0, <2>1, <2>4 DEF SpanTypeOK, Spans, Finished, providerVars, traceHistory, spanVars
  <2> QED
    BY <2>2, <2>3, <2>5 DEF SpanStructure
<1>12. ASSUME NEW t \in TraceThreads, ReleaseSpan(t) PROVE SpanStructure'
  <2>1. /\ tPc[t] = "release" /\ Using(t) /\ tSpan[t] \in TraceSpans
        /\ phase[tSpan[t]] \in {"ended", "passive"}
        /\ phase' = [phase EXCEPT ![tSpan[t]] = "gone"]
        /\ holdsProvider' = holdsProvider \ {tSpan[t]}
        /\ UNCHANGED <<providerVars, tSpan, tDropping, trace, sampled, processorVars, traceHistory>>
    BY <1>0, <1>12 DEF ReleaseSpan, TracingThreads, Using
  <2>2. /\ Goes(t) /\ tPc'[t] \in {"idle", "stop"}
        /\ tPc'[t] = "stop" => tNext'[t] \in Processors
    <3>1. CASE Release(t, tSpan[t])
      BY <1>0, <3>1, ReleaseFacts
    <3>2. CASE tPc' = [tPc EXCEPT ![t] = "idle"] /\ UNCHANGED tNext
      BY <1>0, <3>2 DEF Goes, SpanTypeOK, SpanSteps
    <3> QED
      BY <1>12, <3>1, <3>2 DEF ReleaseSpan
  <2>3. SpanTypeOK'
    BY <1>0, <2>1, <2>2 DEF SpanTypeOK, Goes, providerVars, processorVars, traceHistory, Phases
  <2>4. TracingThreads'
    BY <1>0, <2>1, <2>2 DEF SpanTypeOK, Goes, TracingThreads, Using
  <2>5. \A r \in TraceSpans : Undecided(r)' => Undecided(r)
    BY <1>0, <2>1, <2>2 DEF SpanTypeOK, Goes, Undecided
  <2>6. Spans'
    BY <1>0, <2>1, <2>5 DEF SpanTypeOK, Spans, Finished, providerVars, traceHistory
  <2> QED
    BY <2>3, <2>4, <2>6 DEF SpanStructure
<1>13. CASE UNCHANGED traceVars
  <2> USE <1>13 DEF traceVars, providerVars, threadVars, spanVars, processorVars, traceHistory
  <2>1. SpanTypeOK'
    BY <1>0 DEF SpanTypeOK
  <2>2. TracingThreads' /\ Spans'
    BY <1>0 DEF TracingThreads, Using, Spans, Undecided, Finished
  <2> QED
    BY <2>1, <2>2 DEF SpanStructure
<1> QED
  BY <1>1, <1>2, <1>3, <1>4, <1>5, <1>6, <1>7, <1>8, <1>9, <1>10, <1>11, <1>12, <1>13
     DEF TraceNext, EndSpan, DropSpan

-----------------------------------------------------------------------------
(* Who shuts the exporters down *)

SpanStops(t) == tPc[t] = "stop"
(* Either the flag is set or nobody is left who could set it.               *)
SpanEnding == isShutdown \/ NoReferences
SpanStopping ==
    /\ \A t \in TraceThreads : SpanStops(t) => SpanEnding
    /\ \A t, u \in TraceThreads : SpanStops(t) /\ SpanStops(u) => t = u
    /\ ~SpanEnding => \A p \in Processors : exporterDown[p] = 0
    /\ SpanEnding => \A p \in Processors :
          exporterDown[p] = IF \E t \in TraceThreads : SpanStops(t) /\ tNext[t] <= p THEN 0 ELSE 1

LEMMA SpanStoppingUnchanged ==
    ASSUME SpanStopping, SpanEnding' <=> SpanEnding, exporterDown' = exporterDown,
           \A t \in TraceThreads : SpanStops(t)' <=> SpanStops(t),
           \A t \in TraceThreads : SpanStops(t) => tNext'[t] = tNext[t]
    PROVE  SpanStopping'
<1>1. \A p \in Processors : (\E t \in TraceThreads : SpanStops(t)' /\ tNext'[t] <= p)
                            <=> (\E t \in TraceThreads : SpanStops(t) /\ tNext[t] <= p)
  OBVIOUS
<1> QED
  BY <1>1 DEF SpanStopping

(* A thread that comes to shut the exporters down is the first. *)
LEMMA SpanFirstStops ==
    ASSUME SpanStopping, ~SpanEnding, SpanEnding', exporterDown' = exporterDown,
           NEW t \in TraceThreads,
           Processors # {} => SpanStops(t)' /\ tNext'[t] = 1,
           \A u \in TraceThreads : u # t => tPc'[u] = tPc[u]
    PROVE  SpanStopping'
<1>1. \A u \in TraceThreads : u # t => ~SpanStops(u)'
  BY DEF SpanStopping, SpanStops
<1>2. ASSUME NEW p \in Processors
      PROVE  /\ exporterDown'[p] = 0
             /\ \E u \in TraceThreads : SpanStops(u)' /\ tNext'[u] <= p
  <2>1. 1 <= p
    BY Facts
  <2> QED
    BY <2>1 DEF SpanStopping
<1> QED
  BY <1>1, <1>2 DEF SpanStopping

(* Whoever drops the last reference shuts down, unless it was done. *)
LEMMA ReleaseStops ==
    ASSUME SpanTypeOK, SpanStopping, NEW t \in TraceThreads, NEW d, Release(t, d), ~SpanStops(t),
           UNCHANGED <<isShutdown, exporterDown>>,
           ~NoReferences, NoReferences' <=> ~ReferencesWithout(t, d)
    PROVE  SpanStopping'
<1>1. Goes(t) /\ tPc'[t] = AfterRelease(t, d) /\ tNext'[t] = 1
  BY ReleaseFacts
<1>2. CASE SpanEnding \/ ~SpanEnding'
  <2>1. AfterRelease(t, d) = "idle" /\ (SpanEnding' <=> SpanEnding)
    BY <1>2 DEF AfterRelease, SpanEnding
  <2> QED
    BY <1>1, <2>1, SpanStoppingUnchanged DEF SpanStops, Goes
<1>3. CASE ~SpanEnding /\ SpanEnding'
  <2>1. Processors # {} => AfterRelease(t, d) = "stop"
    BY <1>3, Facts DEF AfterRelease, SpanEnding
  <2> QED
    BY <1>1, <1>3, <2>1, SpanFirstStops DEF SpanStops, Goes
<1> QED
  BY <1>2, <1>3

LEMMA SpanStoppingStep ==
    ASSUME SpanStructure, SpanStopping, [TraceNext]_traceVars
    PROVE SpanStopping'
<1>0. SpanTypeOK /\ TracingThreads
  BY DEF SpanStructure
<1>1. ASSUME NEW t \in TraceThreads, DropHandle(t) PROVE SpanStopping'
  <2>1. Release(t, "handle") /\ ~SpanStops(t) /\ ~NoReferences /\ UNCHANGED <<isShutdown,
                                                                              exporterDown>>
    BY <1>1 DEF DropHandle, SpanStops, NoReferences, processorVars
  <2>2. NoReferences' <=> ~ReferencesWithout(t, "handle")
    BY <1>0, <1>1, Facts DEF DropHandle, NoReferences, ReferencesWithout, spanVars, SpanTypeOK
  <2> QED
    BY <1>0, <2>1, <2>2, ReleaseStops
<1>2. ASSUME NEW t \in TraceThreads, DropTracer(t) PROVE SpanStopping'
  <2>0. /\ ~SpanStops(t) /\ UNCHANGED <<isShutdown, hasHandle, holdsProvider, exporterDown>>
        /\ tracer' = [tracer EXCEPT ![t] = "none"]
    BY <1>2 DEF DropTracer, SpanStops, processorVars, spanVars
  <2>1. CASE tracer[t] = "live"
    <3>1. Release(t, "tracer") /\ ~NoReferences
      BY <1>2, <2>1 DEF DropTracer, NoReferences
    <3>2. NoReferences' <=> ~ReferencesWithout(t, "tracer")
      BY <1>0, <2>0, Facts DEF NoReferences, ReferencesWithout, SpanTypeOK
    <3> QED
      BY <1>0, <2>0, <3>1, <3>2, ReleaseStops
  <2>2. CASE tracer[t] # "live"
    <3>1. UNCHANGED <<tPc, tNext>> /\ (SpanEnding' <=> SpanEnding)
      BY <1>0, <1>2, <2>0, <2>2 DEF DropTracer, SpanEnding, NoReferences, SpanTypeOK
    <3> QED
      BY <2>0, <3>1, SpanStoppingUnchanged DEF SpanStops
  <2> QED
    BY <2>1, <2>2
<1>3. ASSUME NEW t \in TraceThreads, ReleaseSpan(t) PROVE SpanStopping'
  <2>0. /\ ~SpanStops(t) /\ UNCHANGED <<isShutdown, hasHandle, tracer, exporterDown>>
        /\ holdsProvider' = holdsProvider \ {tSpan[t]} /\ tSpan[t] \in TraceSpans
    BY <1>0, <1>3 DEF ReleaseSpan, SpanStops, processorVars, providerVars, TracingThreads, Using
  <2>1. CASE tSpan[t] \in holdsProvider
    <3>1. Release(t, tSpan[t]) /\ ~NoReferences
      BY <1>3, <2>1 DEF ReleaseSpan, NoReferences
    <3>2. NoReferences' <=> ~ReferencesWithout(t, tSpan[t])
      BY <1>0, <2>0, Facts DEF NoReferences, ReferencesWithout, SpanTypeOK
    <3> QED
      BY <1>0, <2>0, <3>1, <3>2, ReleaseStops
  <2>2. CASE tSpan[t] \notin holdsProvider
    <3>1. tPc' = [tPc EXCEPT ![t] = "idle"] /\ tNext' = tNext /\ (SpanEnding' <=> SpanEnding)
      BY <1>3, <2>0, <2>2 DEF ReleaseSpan, SpanEnding, NoReferences
    <3> QED
      BY <1>0, <2>0, <3>1, SpanStoppingUnchanged DEF SpanStops, SpanTypeOK
  <2> QED
    BY <2>1, <2>2
<1>4. ASSUME NEW t \in TraceThreads, GetTracer(t) PROVE SpanStopping'
  <2>1. (NoReferences' <=> NoReferences) /\ UNCHANGED <<isShutdown, exporterDown, tPc, tNext>>
    BY <1>4 DEF GetTracer, NoReferences, threadVars, processorVars
  <2> QED
    BY <2>1, SpanStoppingUnchanged DEF SpanStops, SpanEnding
<1>5. ASSUME NEW t \in TraceThreads, NEW s \in TraceSpans, StartPassive(t, s) PROVE SpanStopping'
  <2>1. (NoReferences' <=> NoReferences) /\ UNCHANGED <<isShutdown, exporterDown, tPc, tNext>>
    BY <1>5 DEF StartPassive, NoReferences, threadVars, processorVars, providerVars
  <2> QED
    BY <2>1, SpanStoppingUnchanged DEF SpanStops, SpanEnding
<1>6. ASSUME NEW t \in TraceThreads, NEW s \in TraceSpans, BeginStart(t, s) PROVE SpanStopping'
  <2>1. (NoReferences' <=> NoReferences) /\ UNCHANGED <<isShutdown, exporterDown, tNext>>
        /\ tPc[t] = "idle" /\ tPc' = [tPc EXCEPT ![t] = "decide"]
    BY <1>6 DEF BeginStart, NoReferences, processorVars, providerVars
  <2> QED
    BY <1>0, <2>1, SpanStoppingUnchanged DEF SpanStops, SpanEnding, SpanTypeOK
<1>7. ASSUME NEW t \in TraceThreads, DecideSpan(t) \/ OnStart(t) \/ OnEnd(t) PROVE SpanStopping'
  <2>1. UNCHANGED <<isShutdown, hasHandle, tracer, holdsProvider, exporterDown>>
    BY <1>7 DEF DecideSpan, OnStart, OnEnd, spanVars, processorVars, providerVars
  <2>2. ~SpanStops(t) /\ ~SpanStops(t)'
    BY <1>0, <1>7 DEF DecideSpan, OnStart, OnEnd, SpanStops, SpanTypeOK
  <2>3. \A u \in TraceThreads : u # t => tPc'[u] = tPc[u] /\ tNext'[u] = tNext[u]
    BY <1>0, <1>7 DEF DecideSpan, OnStart, OnEnd, SpanTypeOK
  <2> QED
    BY <2>1, <2>2, <2>3, SpanStoppingUnchanged DEF SpanStops, SpanEnding, NoReferences
<1>8. ASSUME NEW t \in TraceThreads, NEW s \in TraceSpans, EndSpan(t, s) \/ DropSpan(t, s)
      PROVE  SpanStopping'
  <2>0. PICK dropping \in BOOLEAN : BeginEnd(t, s, dropping) \/ DropDone(t, s)
    BY <1>8 DEF EndSpan, DropSpan
  <2>1. UNCHANGED <<isShutdown, hasHandle, tracer, holdsProvider, exporterDown>>
    BY <2>0 DEF BeginEnd, DropDone, spanVars, processorVars, providerVars
  <2>2. ~SpanStops(t) /\ ~SpanStops(t)'
    BY <1>0, <2>0 DEF BeginEnd, DropDone, SpanStops, SpanTypeOK
  <2>3. \A u \in TraceThreads : u # t => tPc'[u] = tPc[u] /\ tNext'[u] = tNext[u]
    BY <1>0, <2>0 DEF BeginEnd, DropDone, SpanTypeOK
  <2> QED
    BY <2>1, <2>2, <2>3, SpanStoppingUnchanged DEF SpanStops, SpanEnding, NoReferences
<1>9. ASSUME NEW t \in TraceThreads, ShutdownProvider(t) PROVE SpanStopping'
  <2>1. /\ tPc[t] = "idle" /\ hasHandle[t] /\ isShutdown' = TRUE /\ exporterDown' = exporterDown
        /\ tNext' = [tNext EXCEPT ![t] = 1]
        /\ tPc' = [tPc EXCEPT ![t] = IF isShutdown \/ NumProcessors = 0 THEN "idle" ELSE "stop"]
    BY <1>9 DEF ShutdownProvider, SwapFlag, processorVars
  <2>2. CASE isShutdown
    BY <1>0, <2>1, <2>2, SpanStoppingUnchanged DEF SpanEnding, SpanStops, SpanTypeOK
  <2>3. CASE ~isShutdown
    <3>1. ~SpanEnding /\ SpanEnding'
      BY <2>1, <2>3 DEF SpanEnding, NoReferences
    <3>2. Processors # {} => SpanStops(t)' /\ tNext'[t] = 1
      BY <1>0, <2>1, <2>3, Facts DEF SpanStops, SpanTypeOK
    <3>3. \A u \in TraceThreads : u # t => tPc'[u] = tPc[u]
      BY <1>0, <2>1 DEF SpanTypeOK
    <3> QED
      BY <2>1, <3>1, <3>2, <3>3, SpanFirstStops
  <2> QED
    BY <2>2, <2>3
<1>10. ASSUME NEW t \in TraceThreads, StopProcessor(t) PROVE SpanStopping'
  <2>1. /\ SpanStops(t) /\ tNext[t] \in 1..NumProcessors /\ NumProcessors \in Nat
        /\ exporterDown' = [exporterDown EXCEPT ![tNext[t]] = @ + 1]
        /\ tNext' = [tNext EXCEPT ![t] = @ + 1]
        /\ tPc' = [tPc EXCEPT ![t] = IF tNext[t] = NumProcessors THEN "idle" ELSE "stop"]
        /\ UNCHANGED <<isShutdown, hasHandle, tracer, holdsProvider>>
    BY <1>0, <1>10, Facts DEF StopProcessor, SpanStops, providerVars, spanVars, TracingThreads
  <2>2. SpanEnding /\ SpanEnding'
       /\ \A u \in TraceThreads : u # t => ~SpanStops(u) /\ ~SpanStops(u)'
    BY <1>0, <2>1 DEF SpanStopping, SpanEnding, NoReferences, SpanStops, SpanTypeOK
  <2>3. \A p \in Processors : exporterDown[p] = IF tNext[t] <= p THEN 0 ELSE 1
    BY <2>1, <2>2 DEF SpanStopping
  <2>4. \A p \in Processors :
           exporterDown'[p] = IF p = tNext[t] THEN exporterDown[p] + 1 ELSE exporterDown[p]
    BY <1>0, <2>1 DEF SpanTypeOK
  <2>5. \A p \in Processors : SpanStops(t)' /\ tNext'[t] <= p <=> tNext[t] < p
    BY <1>0, <2>1, Facts DEF SpanStops, SpanTypeOK
  <2>6. \A p \in Processors : exporterDown'[p] = IF tNext[t] < p THEN 0 ELSE 1
    <3> SUFFICES ASSUME NEW p \in Processors
                 PROVE  exporterDown'[p] = IF tNext[t] < p THEN 0 ELSE 1
      OBVIOUS
    <3>1. p \in Nat /\ tNext[t] \in Nat
      BY <2>1, Facts
    <3> QED
      BY <2>3, <2>4, <3>1
  <2> QED
    BY <2>2, <2>5, <2>6 DEF SpanStopping
<1>11. CASE UNCHANGED traceVars
  BY <1>11, SpanStoppingUnchanged DEF traceVars, providerVars, threadVars, spanVars, processorVars,
     SpanStops, SpanEnding, NoReferences
<1> QED
  BY <1>1, <1>2, <1>3, <1>4, <1>5, <1>6, <1>7, <1>8, <1>9, <1>10, <1>11 DEF TraceNext

-----------------------------------------------------------------------------
(* Which ended spans are still on their way *)

SpanAhead(t, p) == tPc[t] = "onEnd" /\ tNext[t] <= p
SpanDelivery ==
    /\ \A t \in TraceThreads :
          tPc[t] = "onEnd" /\ sampled[tSpan[t]] => tSpan[t] \in passedEnds
    /\ \A p \in Processors :
          /\ IsInjective(handed[p]) /\ Range(handed[p]) \subseteq passedEnds
          /\ \A t \in TraceThreads : SpanAhead(t, p) => tSpan[t] \notin Range(handed[p])
          /\ \A s \in passedEnds :
                s \in Range(handed[p]) \/ \E t \in TraceThreads : SpanAhead(t, p) /\ tSpan[t] = s

LEMMA SpanDeliveryUnchanged ==
    ASSUME SpanDelivery, UNCHANGED <<handed, passedEnds>>,
           \A t \in TraceThreads : tPc'[t] = "onEnd" <=> tPc[t] = "onEnd",
           \A t \in TraceThreads :
              tPc[t] = "onEnd" => /\ tSpan'[t] = tSpan[t] /\ tNext'[t] = tNext[t]
                                  /\ sampled'[tSpan[t]] = sampled[tSpan[t]]
    PROVE  SpanDelivery'
<1>1. \A t \in TraceThreads, p \in Processors : SpanAhead(t, p)' <=> SpanAhead(t, p)
  BY DEF SpanAhead
<1>2. \A t \in TraceThreads :
         (tPc[t] = "onEnd" /\ sampled[tSpan[t]])' => tSpan'[t] \in passedEnds'
  BY DEF SpanDelivery
<1>3. ASSUME NEW p \in Processors
      PROVE  /\ IsInjective(handed'[p]) /\ Range(handed'[p]) \subseteq passedEnds'
             /\ \A t \in TraceThreads : SpanAhead(t, p)' => tSpan'[t] \notin Range(handed'[p])
             /\ \A s \in passedEnds' :
                   s \in Range(handed'[p])
                            \/ \E t \in TraceThreads : SpanAhead(t, p)' /\ tSpan'[t] = s
  BY <1>1 DEF SpanDelivery, SpanAhead
<1> QED
  BY <1>2, <1>3 DEF SpanDelivery

LEMMA SpanAppendFacts ==
    ASSUME NEW S, NEW q \in Seq(S), NEW x \in S, IsInjective(q), x \notin Range(q)
    PROVE  IsInjective(Append(q, x)) /\ Range(Append(q, x)) = Range(q) \cup {x}
<1>1. /\ Append(q, x) \in Seq(S) /\ Len(Append(q, x)) = Len(q) + 1 /\ Len(q) \in Nat
      /\ Append(q, x)[Len(q) + 1] = x
      /\ \A i \in 1..Len(q) : Append(q, x)[i] = q[i]
      /\ DOMAIN Append(q, x) = 1..(Len(q) + 1) /\ DOMAIN q = 1..Len(q)
  OBVIOUS
<1>2. \A i \in 1..(Len(q) + 1) : i \in 1..Len(q) \/ i = Len(q) + 1
  BY <1>1
<1>3. Range(Append(q, x)) = Range(q) \cup {x}
  BY <1>1, <1>2 DEF Range
<1>4. IsInjective(Append(q, x))
  BY <1>1, <1>2 DEF IsInjective, Range
<1> QED
  BY <1>3, <1>4

LEMMA SpanDeliveryStep ==
    ASSUME SpanStructure, SpanDelivery, [TraceNext]_traceVars
    PROVE SpanDelivery'
<1>0. SpanTypeOK /\ TracingThreads /\ Spans
  BY DEF SpanStructure
<1>1. ASSUME NEW t \in TraceThreads,
             DropHandle(t) \/ DropTracer(t) \/ ReleaseSpan(t) \/ ShutdownProvider(t)
             \/ StopProcessor(t) \/ OnStart(t)
      PROVE  SpanDelivery'
  <2>1. UNCHANGED <<handed, passedEnds, tSpan, sampled>>
    BY <1>1 DEF DropHandle, DropTracer, ReleaseSpan, ShutdownProvider, StopProcessor, OnStart,
       spanVars, processorVars, traceHistory
  <2>2. tPc[t] # "onEnd" /\ tPc'[t] # "onEnd"
        /\ \A u \in TraceThreads : u # t => tPc'[u] = tPc[u] /\ tNext'[u] = tNext[u]
    <3>1. CASE \E d : Release(t, d)
      BY <1>0, <1>1, <3>1, ReleaseFacts DEF Goes, DropHandle, DropTracer, ReleaseSpan,
         ShutdownProvider, StopProcessor, OnStart
    <3>2. CASE tPc' = [tPc EXCEPT ![t] = "idle"] /\ UNCHANGED tNext /\ ReleaseSpan(t)
      BY <1>0, <3>2 DEF ReleaseSpan, SpanTypeOK
    <3>3. CASE UNCHANGED <<tPc, tNext>> /\ DropTracer(t)
      BY <3>3 DEF DropTracer
    <3>4. CASE ShutdownProvider(t) \/ StopProcessor(t) \/ OnStart(t)
      BY <1>0, <3>4 DEF ShutdownProvider, SwapFlag, StopProcessor, OnStart, SpanTypeOK
    <3> QED
      BY <1>1, <3>1, <3>2, <3>3, <3>4 DEF DropHandle, DropTracer, ReleaseSpan
  <2> QED
    BY <2>1, <2>2, SpanDeliveryUnchanged
<1>2. ASSUME NEW t \in TraceThreads, GetTracer(t) PROVE SpanDelivery'
  BY <1>2, SpanDeliveryUnchanged DEF GetTracer, threadVars, spanVars, processorVars, traceHistory
<1>3. ASSUME NEW t \in TraceThreads, NEW s \in TraceSpans, StartPassive(t, s) PROVE SpanDelivery'
  BY <1>3, SpanDeliveryUnchanged DEF StartPassive, threadVars, processorVars, traceHistory
<1>4. ASSUME NEW t \in TraceThreads, NEW s \in TraceSpans, BeginStart(t, s) \/ DropDone(t, s)
      PROVE  SpanDelivery'
  <2>1. /\ UNCHANGED <<handed, passedEnds, sampled, tNext>> /\ tPc[t] = "idle"
        /\ tSpan' = [tSpan EXCEPT ![t] = s]
        /\ tPc' = [tPc EXCEPT ![t] = "decide"] \/ tPc' = [tPc EXCEPT ![t] = "release"]
    BY <1>4 DEF BeginStart, DropDone, spanVars, processorVars, traceHistory
  <2> QED
    BY <1>0, <2>1, SpanDeliveryUnchanged DEF SpanTypeOK
<1>5. ASSUME NEW t \in TraceThreads, DecideSpan(t) PROVE SpanDelivery'
  <2>1. /\ tPc[t] = "decide" /\ tSpan[t] \in TraceSpans /\ tPc'[t] # "onEnd"
        /\ \A u \in TraceThreads : u # t => tPc'[u] = tPc[u] /\ tNext'[u] = tNext[u]
        /\ UNCHANGED <<handed, passedEnds, tSpan>>
    BY <1>0, <1>5 DEF DecideSpan, SpanTypeOK, TracingThreads, Using, processorVars, traceHistory
  <2>2. \A r \in TraceSpans : r # tSpan[t] => sampled'[r] = sampled[r]
    BY <1>0, <1>5 DEF DecideSpan, SpanTypeOK
  <2>3. \A u \in TraceThreads :
           tPc[u] = "onEnd" => tSpan[u] # tSpan[t] /\ tSpan[u] \in TraceSpans
    BY <1>0, <2>1 DEF TracingThreads, Using
  <2> QED
    BY <2>1, <2>2, <2>3, SpanDeliveryUnchanged
<1>6. ASSUME NEW t \in TraceThreads, NEW s \in TraceSpans, NEW dropping \in BOOLEAN,
             BeginEnd(t, s, dropping)
      PROVE  SpanDelivery'
  <2>1. /\ tPc[t] = "idle" /\ phase[s] = "recording" /\ handed' = handed /\ sampled' = sampled
        /\ tSpan' = [tSpan EXCEPT ![t] = s] /\ tNext' = [tNext EXCEPT ![t] = 1]
        /\ passedEnds' = IF ~isShutdown /\ sampled[s] THEN passedEnds \cup {s} ELSE passedEnds
    BY <1>6 DEF BeginEnd, processorVars
  <2>2. s \notin passedEnds
    BY <1>0, <2>1 DEF Spans, Finished
  <2>3. \A u \in TraceThreads : u # t => /\ tPc'[u] = tPc[u] /\ tSpan'[u] = tSpan[u]
                                         /\ tNext'[u] = tNext[u]
    BY <1>0, <1>6, <2>1 DEF BeginEnd, SpanTypeOK
  <2>4. tSpan'[t] = s /\ tNext'[t] = 1 /\ sampled[s] \in BOOLEAN
        /\ (tPc'[t] = "onEnd" <=> ~isShutdown /\ NumProcessors # 0)
    BY <1>0, <1>6, <2>1, Facts DEF BeginEnd, ProviderRuns, SpanTypeOK
  <2>5. \A u \in TraceThreads, p \in Processors : u # t => (SpanAhead(u, p)' <=> SpanAhead(u, p))
    BY <2>3 DEF SpanAhead
  <2>6. \A p \in Processors : ~SpanAhead(t, p) /\ (SpanAhead(t, p)' <=> ~isShutdown)
    BY <2>1, <2>4, Facts DEF SpanAhead
  <2>7. \A u \in TraceThreads :
           (tPc[u] = "onEnd" /\ sampled[tSpan[u]])' => tSpan'[u] \in passedEnds'
    BY <2>1, <2>3, <2>4 DEF SpanDelivery
  <2>8. ASSUME NEW p \in Processors
        PROVE  /\ IsInjective(handed'[p]) /\ Range(handed'[p]) \subseteq passedEnds'
               /\ \A u \in TraceThreads : SpanAhead(u, p)' => tSpan'[u] \notin Range(handed'[p])
               /\ \A r \in passedEnds' :
                     r \in Range(handed'[p])
                     \/ \E u \in TraceThreads : SpanAhead(u, p)' /\ tSpan'[u] = r
    <3>1. IsInjective(handed'[p]) /\ Range(handed'[p]) \subseteq passedEnds'
      BY <2>1 DEF SpanDelivery
    <3>2. \A u \in TraceThreads : SpanAhead(u, p)' => tSpan'[u] \notin Range(handed'[p])
      BY <2>1, <2>2, <2>3, <2>4, <2>5 DEF SpanDelivery
    <3>3. ASSUME NEW r \in passedEnds'
          PROVE  r \in Range(handed'[p])
                   \/ \E u \in TraceThreads : SpanAhead(u, p)' /\ tSpan'[u] = r
      <4>1. CASE r \in passedEnds
        BY <2>1, <2>3, <2>5, <2>6, <4>1 DEF SpanDelivery
      <4>2. CASE r \notin passedEnds
        BY <2>1, <2>4, <2>6, <3>3, <4>2
      <4> QED
        BY <4>1, <4>2
    <3> QED
      BY <3>1, <3>2, <3>3
  <2> QED
    BY <2>7, <2>8 DEF SpanDelivery
<1>7. ASSUME NEW t \in TraceThreads, OnEnd(t) PROVE SpanDelivery'
  <2>1. /\ tPc[t] = "onEnd" /\ Using(t) /\ tSpan[t] \in TraceSpans /\ tNext[t] \in Processors
        /\ tNext' = [tNext EXCEPT ![t] = @ + 1] /\ UNCHANGED <<passedEnds, sampled, tSpan>>
        /\ handed' = IF sampled[tSpan[t]]
                       THEN [handed EXCEPT ![tNext[t]] = Append(@, tSpan[t])] ELSE handed
    BY <1>0, <1>7 DEF OnEnd, ExportedBySimple, TracingThreads, Using, spanVars, traceHistory
  <2>2. /\ \A u \in TraceThreads : u # t => tPc'[u] = tPc[u] /\ tNext'[u] = tNext[u]
        /\ tPc'[t] = "onEnd" <=> tNext[t] # NumProcessors /\ tNext'[t] = tNext[t] + 1
    BY <1>0, <1>7, <2>1 DEF OnEnd, LastProcessor, SpanTypeOK
  <2>3. tNext[t] \in 1..NumProcessors /\ NumProcessors \in Nat /\ tNext'[t] = tNext[t] + 1
    BY <1>0, <2>1, Facts DEF SpanTypeOK
  <2>4. \A p \in Processors : SpanAhead(t, p)' <=> SpanAhead(t, p) /\ p # tNext[t]
    BY <2>1, <2>2, <2>3, Facts DEF SpanAhead
  <2>5. \A u \in TraceThreads, p \in Processors : u # t => (SpanAhead(u, p)' <=> SpanAhead(u, p))
    BY <2>2 DEF SpanAhead
  <2>6. \A u \in TraceThreads :
           (tPc[u] = "onEnd" /\ sampled[tSpan[u]])' => tSpan'[u] \in passedEnds'
    BY <2>1, <2>2 DEF SpanDelivery
  <2>7. SpanAhead(t, tNext[t]) /\ tSpan[t] \notin Range(handed[tNext[t]])
    BY <2>1, <2>3 DEF SpanAhead, SpanDelivery
  <2>8. \A u \in TraceThreads : u # t /\ tPc[u] = "onEnd" => tSpan[u] # tSpan[t]
    BY <1>0, <2>1 DEF TracingThreads, Using
  <2>9. ASSUME NEW p \in Processors
        PROVE  /\ IsInjective(handed'[p])
               /\ p = tNext[t] /\ sampled[tSpan[t]] =>
                     Range(handed'[p]) = Range(handed[p]) \cup {tSpan[t]}
               /\ p # tNext[t] \/ ~sampled[tSpan[t]] => Range(handed'[p]) = Range(handed[p])
    <3>1. CASE p = tNext[t] /\ sampled[tSpan[t]]
      <4>1. handed'[p] = Append(handed[p], tSpan[t]) /\ handed[p] \in Seq(TraceSpans)
        BY <1>0, <2>1, <3>1 DEF SpanTypeOK
      <4>2. IsInjective(handed[p]) /\ tSpan[t] \notin Range(handed[p])
        BY <2>7, <3>1 DEF SpanDelivery
      <4> QED
        BY <2>1, <3>1, <4>1, <4>2, SpanAppendFacts
    <3>2. CASE ~(p = tNext[t] /\ sampled[tSpan[t]])
      <4>1. handed'[p] = handed[p]
        BY <1>0, <2>1, <3>2 DEF SpanTypeOK
      <4> QED
        BY <3>2, <4>1 DEF SpanDelivery
    <3> QED
      BY <3>1, <3>2
  <2>10. ASSUME NEW p \in Processors
         PROVE  /\ Range(handed'[p]) \subseteq passedEnds'
                /\ \A u \in TraceThreads : SpanAhead(u, p)' => tSpan'[u] \notin Range(handed'[p])
                /\ \A r \in passedEnds' :
                      r \in Range(handed'[p])
                      \/ \E u \in TraceThreads : SpanAhead(u, p)' /\ tSpan'[u] = r
    <3>0. Range(handed[p]) \subseteq passedEnds
          /\ (sampled[tSpan[t]] => tSpan[t] \in passedEnds)
          /\ \A u \in TraceThreads : SpanAhead(u, p) => tSpan[u] \notin Range(handed[p])
      BY <2>1 DEF SpanDelivery
    <3>1. Range(handed'[p]) \subseteq passedEnds'
      <4>1. CASE p = tNext[t] /\ sampled[tSpan[t]]
        BY <2>1, <2>9, <3>0, <4>1
      <4>2. CASE ~(p = tNext[t] /\ sampled[tSpan[t]])
        BY <2>1, <2>9, <3>0, <4>2
      <4> QED
        BY <4>1, <4>2
    <3>2. ASSUME NEW u \in TraceThreads, SpanAhead(u, p)' PROVE tSpan'[u] \notin Range(handed'[p])
      <4>1. CASE u = t
        <5>1. SpanAhead(t, p) /\ p # tNext[t] /\ tSpan'[t] = tSpan[t]
          BY <2>1, <2>4, <3>2, <4>1
        <5> QED
          BY <2>9, <3>0, <4>1, <5>1
      <4>2. CASE u # t
        BY <2>1, <2>5, <2>8, <2>9, <3>2, <4>2 DEF SpanDelivery, SpanAhead
      <4> QED
        BY <4>1, <4>2
    <3>3. ASSUME NEW r \in passedEnds'
          PROVE  r \in Range(handed'[p])
                   \/ \E u \in TraceThreads : SpanAhead(u, p)' /\ tSpan'[u] = r
      <4>1. r \in Range(handed[p]) \/ \E u \in TraceThreads : SpanAhead(u, p) /\ tSpan[u] = r
        BY <2>1, <3>3 DEF SpanDelivery
      <4>2. CASE r \in Range(handed[p])
        BY <2>9, <4>2
      <4>3. ASSUME NEW u \in TraceThreads, SpanAhead(u, p), tSpan[u] = r
            PROVE  r \in Range(handed'[p])
                     \/ \E w \in TraceThreads : SpanAhead(w, p)' /\ tSpan'[w] = r
        <5>1. CASE u # t \/ p # tNext[t]
          BY <2>1, <2>4, <2>5, <4>3, <5>1
        <5>2. CASE u = t /\ p = tNext[t]
          <6>1. sampled[tSpan[t]]
            BY <1>0, <2>1, <3>3, <4>3, <5>2 DEF Spans
          <6> QED
            BY <2>9, <4>3, <5>2, <6>1
        <5> QED
          BY <5>1, <5>2
      <4> QED
        BY <4>1, <4>2, <4>3
    <3> QED
      BY <3>1, <3>2, <3>3
  <2> QED
    BY <2>6, <2>9, <2>10 DEF SpanDelivery
<1>8. CASE UNCHANGED traceVars
  BY <1>8, SpanDeliveryUnchanged DEF traceVars, providerVars, threadVars, spanVars, processorVars,
     traceHistory
<1> QED
  BY <1>1, <1>2, <1>3, <1>4, <1>5, <1>6, <1>7, <1>8 DEF TraceNext, EndSpan, DropSpan

-----------------------------------------------------------------------------
(* How far a trace has spread: its root has its name for a trace id, and    *)
(* what was decided for one of its spans was decided for all.               *)
Traces ==
    sampler = "ParentBased" =>
        /\ \A s \in TraceSpans :
              /\ trace[s] = RemoteSampled => sampled[s]
              /\ trace[s] = RemoteUnsampled => ~sampled[s]
              /\ sampled[s] => trace[s] # "invalid"
              /\ trace[s] \in TraceSpans => trace[trace[s]] = trace[s]
        /\ \A r, s \in TraceSpans :
              trace[r] = trace[s] /\ trace[r] # "invalid" => sampled[r] = sampled[s]

LEMMA TracesDecided ==
    ASSUME SpanStructure, Traces, NEW t \in TraceThreads, DecideSpan(t) PROVE Traces'
<1> SUFFICES ASSUME sampler = "ParentBased" PROVE Traces'
  BY DEF DecideSpan, providerVars, Traces
<1>0. PICK s : s = tSpan[t]
  OBVIOUS
<1>1. /\ s \in TraceSpans /\ trace[s] = "invalid" /\ ~sampled[s] /\ sampler' = "ParentBased"
  BY <1>0 DEF SpanStructure, TracingThreads, Spans, Using, Undecided, DecideSpan, providerVars
<1>a. PICK parent \in Parents(s) : \E decision \in Decisions(parent) :
         /\ trace' = [trace EXCEPT ![s] = TraceOf(s, parent)]
         /\ sampled' = [sampled EXCEPT ![s] = decision = "RecordAndSample"]
  BY <1>0 DEF DecideSpan
<1>2. PICK decision \in Decisions(parent) :
         /\ trace' = [trace EXCEPT ![s] = TraceOf(s, parent)]
         /\ sampled' = [sampled EXCEPT ![s] = decision = "RecordAndSample"]
  BY <1>a
<1>3. /\ \A r \in TraceSpans : r # s => trace'[r] = trace[r] /\ sampled'[r] = sampled[r]
      /\ trace'[s] = TraceOf(s, parent) /\ sampled'[s] = (decision = "RecordAndSample")
      /\ \A r \in TraceSpans : sampled[r] \in BOOLEAN
      /\ \A r \in TraceSpans :
            trace[r] \in TraceSpans \cup {"invalid", RemoteSampled, RemoteUnsampled}
  BY <1>1, <1>2 DEF SpanStructure, SpanTypeOK
<1>4. \A r \in TraceSpans : trace[r] # s
  BY <1>1, Facts DEF Traces
<1>5. \/ parent = NoParent /\ TraceOf(s, parent) = s
      \/ parent = RemoteSampled /\ TraceOf(s, parent) = RemoteSampled /\ sampled'[s]
      \/ parent = RemoteUnsampled /\ TraceOf(s, parent) = RemoteUnsampled /\ ~sampled'[s]
      \/ /\ parent \in TraceSpans \ {s} /\ TraceOf(s, parent) = trace[parent]
         /\ sampled'[s] = sampled[parent]
  <2> USE TracerAssumption DEF TracerAssumption
  <2>1. CASE parent = NoParent
    BY <2>1 DEF TraceOf
  <2>2. CASE parent = RemoteSampled
    <3>1. ParentSampled(parent) /\ parent # NoParent
      BY <2>2 DEF ParentSampled
    <3> QED
      BY <1>2, <1>3, <2>2, <3>1 DEF TraceOf, Decisions
  <2>3. CASE parent = RemoteUnsampled
    <3>1. ~ParentSampled(parent) /\ parent # NoParent
      BY <2>3 DEF ParentSampled
    <3> QED
      BY <1>2, <1>3, <2>3, <3>1 DEF TraceOf, Decisions
  <2>4. CASE parent \in TraceSpans \ {s}
    <3>1. parent \notin {NoParent, RemoteSampled, RemoteUnsampled}
      BY <2>4
    <3>2. TraceOf(s, parent) = trace[parent]
      BY <3>1 DEF TraceOf
    <3>3. ParentSampled(parent) <=> sampled[parent]
      BY <2>4, <3>1 DEF ParentSampled
    <3>4. decision = IF ParentSampled(parent) THEN "RecordAndSample" ELSE "Drop"
      BY <1>2, <3>1 DEF Decisions
    <3> QED
      BY <1>3, <2>4, <3>2, <3>3, <3>4
  <2> QED
    BY <1>a, <2>1, <2>2, <2>3, <2>4 DEF Parents
<1>6. /\ RemoteSampled # RemoteUnsampled
      /\ {RemoteSampled, RemoteUnsampled, "invalid"} \cap TraceSpans = {}
      /\ "invalid" \notin {RemoteSampled, RemoteUnsampled}
  BY TracerAssumption DEF TracerAssumption
<1>7. ASSUME NEW r \in TraceSpans
      PROVE  /\ trace'[r] = RemoteSampled => sampled'[r]
             /\ trace'[r] = RemoteUnsampled => ~sampled'[r]
             /\ sampled'[r] => trace'[r] # "invalid"
  BY <1>1, <1>3, <1>5, <1>6 DEF Traces
<1>8. ASSUME NEW r \in TraceSpans, trace'[r] \in TraceSpans
      PROVE  trace'[trace'[r]] = trace'[r]
  <2>1. CASE r # s
    BY <1>3, <1>4, <1>8, <2>1 DEF Traces
  <2>2. CASE r = s /\ parent = NoParent
    BY <1>1, <1>3, <1>5, <1>6, <2>2, TracerAssumption DEF TracerAssumption
  <2>3. CASE r = s /\ parent # NoParent
    <3>1. parent \in TraceSpans \ {s} /\ trace'[s] = trace[parent]
      BY <1>3, <1>5, <1>6, <1>8, <2>3
    <3> QED
      BY <1>3, <1>4, <1>8, <2>3, <3>1 DEF Traces
  <2> QED
    BY <2>1, <2>2, <2>3
<1>9. ASSUME NEW r \in TraceSpans, r # s, trace'[r] = trace'[s], trace'[r] # "invalid"
      PROVE  sampled'[r] = sampled'[s]
  <2>1. trace[r] = trace'[s] /\ sampled'[r] = sampled[r]
    BY <1>3, <1>9
  <2>2. CASE parent \in TraceSpans \ {s} /\ trace'[s] = trace[parent]
            /\ sampled'[s] = sampled[parent]
    BY <1>9, <2>1, <2>2 DEF Traces
  <2>3. CASE trace'[s] = s
    BY <1>4, <2>1, <2>3
  <2>4. CASE trace'[s] = RemoteSampled /\ sampled'[s]
    BY <1>3, <1>7, <2>1, <2>4 DEF Traces
  <2>5. CASE trace'[s] = RemoteUnsampled /\ ~sampled'[s]
    BY <1>3, <1>7, <2>1, <2>5 DEF Traces
  <2> QED
    BY <1>3, <1>5, <2>2, <2>3, <2>4, <2>5
<1>10. \A r, q \in TraceSpans :
          trace'[r] = trace'[q] /\ trace'[r] # "invalid" => sampled'[r] = sampled'[q]
  BY <1>1, <1>3, <1>9 DEF Traces
<1> QED
  BY <1>7, <1>8, <1>10 DEF Traces

LEMMA TracesStep == ASSUME SpanStructure, Traces, [TraceNext]_traceVars PROVE Traces'
<1>1. CASE \E t \in TraceThreads : DecideSpan(t)
  BY <1>1, TracesDecided
<1>2. CASE ~\E t \in TraceThreads : DecideSpan(t)
  <2>1. UNCHANGED <<sampler, trace, sampled>>
    BY <1>2 DEF TraceNext, DropHandle, GetTracer, DropTracer, OnStart, OnEnd, ReleaseSpan,
       ShutdownProvider, StopProcessor, StartPassive, BeginStart, EndSpan, DropSpan, BeginEnd,
       DropDone, traceVars, providerVars, threadVars, spanVars
  <2> QED
    BY <2>1 DEF Traces
<1> QED
  BY <1>1, <1>2

-----------------------------------------------------------------------------
(* The inductive invariant and what follows from it *)

SpanIndInv == SpanStructure /\ SpanStopping /\ SpanDelivery /\ Traces

LEMMA SpanIndInvInit == TraceInit => SpanIndInv
<1> SUFFICES ASSUME TraceInit PROVE SpanIndInv
  OBVIOUS
<1>1. SpanStructure
  BY SpanStructureInit
<1>2. SpanStopping
  <2>1. ~SpanEnding /\ \A t \in TraceThreads : ~SpanStops(t)
    BY TracerAssumption DEF TracerAssumption, TraceInit, SpanStops, SpanEnding, NoReferences
  <2> QED
    BY <2>1 DEF TraceInit, SpanStopping
<1>3. SpanDelivery
  <2>1. \A p \in Processors : handed[p] = <<>> /\ Range(handed[p]) = {}
    BY DEF TraceInit, Range
  <2>2. \A p \in Processors : IsInjective(handed[p])
    BY <2>1 DEF IsInjective
  <2> QED
    BY <2>1, <2>2 DEF TraceInit, SpanDelivery, SpanAhead
<1>4. Traces
  BY TracerAssumption DEF TracerAssumption, TraceInit, Traces
<1> QED
  BY <1>1, <1>2, <1>3, <1>4 DEF SpanIndInv

LEMMA SpanInductive == TraceSpec => []SpanIndInv
<1>1. TraceInit => SpanIndInv
  BY SpanIndInvInit
<1>2. SpanIndInv /\ [TraceNext]_traceVars => SpanIndInv'
  BY SpanStructureStep, SpanStoppingStep, SpanDeliveryStep, TracesStep DEF SpanIndInv
<1> QED
  BY <1>1, <1>2, PTL DEF TraceSpec

(* Each exporter is given, once, the sampled spans that ended in time.      *)
THEOREM SpansDelivered == TraceSpec => []SpansExported
<1>1. SpanIndInv => SpansExported
  <2> SUFFICES ASSUME SpanIndInv, NEW p \in Processors
               PROVE  /\ IsInjective(handed[p])
                      /\ Range(handed[p]) \subseteq passedEnds \ lateEnds
                      /\ TraceQuiet => Range(handed[p]) = passedEnds
    BY DEF SpansExported
  <2>1. IsInjective(handed[p]) /\ Range(handed[p]) \subseteq passedEnds
    BY DEF SpanIndInv, SpanDelivery
  <2>2. passedEnds \cap lateEnds = {}
    BY DEF SpanIndInv, SpanStructure, SpanTypeOK, Spans
  <2>3. ASSUME TraceQuiet PROVE passedEnds \subseteq Range(handed[p])
    BY <2>3 DEF SpanIndInv, SpanDelivery, SpanAhead, TraceQuiet
  <2> QED
    BY <2>1, <2>2, <2>3
<1> QED
  BY <1>1, SpanInductive, PTL

(* Racing shutdowns and the drop of the last reference shut down once, and  *)
(* open spans put the drop off until they are exported.                     *)
THEOREM ProcessorsStopOnce == TraceSpec => []ShutDownOnce
<1>1. SpanIndInv => ShutDownOnce
  <2> SUFFICES ASSUME SpanIndInv, NEW p \in Processors
               PROVE  /\ exporterDown[p] <= 1
                      /\ NoReferences /\ TraceQuiet => exporterDown[p] = 1
                      /\ ~explicit /\ exporterDown[p] > 0 => holdsProvider = {}
                      /\ ~explicit /\ TraceQuiet => \A s \in TraceSpans :
                            phase[s] = "gone" /\ sampled[s] => s \in Range(handed[p])
    BY DEF ShutDownOnce
  <2>1. SpanStopping /\ explicit = isShutdown
    BY DEF SpanIndInv, SpanStructure, SpanTypeOK
  <2>2. exporterDown[p] \in {0, 1} /\ (exporterDown[p] = 1 => SpanEnding)
    BY <2>1 DEF SpanStopping
  <2>3. TraceQuiet /\ SpanEnding => exporterDown[p] = 1
    BY <2>1 DEF SpanStopping, TraceQuiet, SpanStops
  <2>4. ASSUME ~explicit, TraceQuiet, NEW s \in TraceSpans, phase[s] = "gone", sampled[s]
        PROVE  s \in Range(handed[p])
    <3>1. s \in passedEnds
      BY <2>1, <2>4 DEF SpanIndInv, SpanStructure, Spans, Finished
    <3> QED
      BY <2>4, <3>1 DEF SpanIndInv, SpanDelivery, SpanAhead, TraceQuiet
  <2> QED
    BY <2>1, <2>2, <2>3, <2>4 DEF SpanEnding, NoReferences
<1> QED
  BY <1>1, SpanInductive, PTL

(* With a parent-based sampler a trace is sampled as a whole.               *)
THEOREM TracesAreWhole == TraceSpec => []TraceSampledAsAWhole
<1>1. SpanIndInv => TraceSampledAsAWhole
  BY DEF SpanIndInv, Traces, TraceSampledAsAWhole
<1> QED
  BY <1>1, SpanInductive, PTL

-----------------------------------------------------------------------------
(* The logger provider. *)

LogSteps == {"idle", "emit", "lock", "export", "unlock", "stop", "stopExporter"}
LogTypeOK ==
    /\ logShutdown \in BOOLEAN /\ logExplicit = logShutdown
    /\ logHandles \subseteq LogThreads /\ loggers \subseteq LogThreads
    /\ suppressed \subseteq LogThreads
    /\ lPc \in [LogThreads -> LogSteps] /\ lNext \in [LogThreads -> LogProcs]
    /\ emitted \in [LogThreads -> 0..EmitsPerThread]
    /\ procDown \subseteq SimpleProcs
    /\ mutexOf \in [LogProcs -> LogThreads \cup {Nobody}]
    /\ given \in [LogProcs -> Seq(AllRecords)]
    /\ exporterStops \in [LogProcs -> Nat]

Emitting(t) == lPc[t] \in {"emit", "lock", "export", "unlock"}
Locking(t) == lPc[t] \in {"lock", "export", "unlock"}
(* A thread that emits keeps its logger, at the mutex it is suppressed.     *)
LoggingThreads ==
    \A t \in LogThreads :
        /\ lPc[t] = "idle" => lNext[t] = 1
        /\ Emitting(t) => t \in loggers
        /\ Locking(t) => t \in suppressed /\ lNext[t] \in SimpleProcs
        /\ lPc[t] = "stopExporter" => lNext[t] \in procDown
(* The mutex is held from the export to its release, by nobody else.        *)
Mutexes ==
    \A t \in LogThreads, p \in LogProcs :
        mutexOf[p] = t <=> lPc[t] \in {"export", "unlock"} /\ lNext[t] = p

LogStructure == LogTypeOK /\ LoggingThreads /\ Mutexes

-----------------------------------------------------------------------------
LEMMA ProcFacts ==
    /\ NumLogProcs \in Nat \ {0} /\ LogProcs = 1..NumLogProcs /\ 1 \in LogProcs
    /\ SimpleProcs \subseteq LogProcs /\ ConcurrentProcs \subseteq LogProcs
    /\ SimpleProcs \cap ConcurrentProcs = {} /\ LogProcs = SimpleProcs \cup ConcurrentProcs
    /\ EmitsPerThread \in Nat /\ Nobody \notin LogThreads
BY LoggerAssumption DEF LoggerAssumption, LogProcs

(* Thread t has gone on, and no other thread has moved. *)
Moved(t, from, again) ==
    /\ lPc[t] = from
    /\ lNext[t] = NumLogProcs => lPc'[t] = "idle" /\ lNext'[t] = 1
    /\ lNext[t] # NumLogProcs => lPc'[t] = again /\ lNext'[t] = lNext[t] + 1
    /\ \A u \in LogThreads : u # t => lPc'[u] = lPc[u] /\ lNext'[u] = lNext[u]
    /\ lPc' \in [LogThreads -> LogSteps] /\ lNext' \in [LogThreads -> LogProcs]

LEMMA NextFacts ==
    ASSUME LogTypeOK, NEW t \in LogThreads, NEW from, NEW again \in LogSteps,
           NextProcessor(t, from, again)
    PROVE  Moved(t, from, again)
<1>1. /\ lPc[t] = from
      /\ lPc' = [lPc EXCEPT ![t] = IF lNext[t] = NumLogProcs THEN "idle" ELSE again]
      /\ lNext' = [lNext EXCEPT ![t] = IF lNext[t] = NumLogProcs THEN 1 ELSE lNext[t] + 1]
  BY DEF NextProcessor, Step
<1>2. (IF lNext[t] = NumLogProcs THEN 1 ELSE lNext[t] + 1) \in LogProcs
  <2>1. lNext[t] \in 1..NumLogProcs /\ NumLogProcs \in Nat
    BY ProcFacts DEF LogTypeOK
  <2> QED
    BY <2>1, ProcFacts
<1>3. (IF lNext[t] = NumLogProcs THEN "idle" ELSE again) \in LogSteps
  BY DEF LogSteps
<1> QED
  BY <1>1, <1>2, <1>3 DEF LogTypeOK, Moved

LEMMA MovedMutexes ==
    ASSUME Mutexes, NEW t \in LogThreads, NEW from, NEW again, Moved(t, from, again),
           from \notin {"export", "unlock"}, again \notin {"export", "unlock"},
           mutexOf' = mutexOf
    PROVE  Mutexes'
<1> SUFFICES ASSUME NEW u \in LogThreads, NEW p \in LogProcs
             PROVE  mutexOf[p] = u <=> lPc'[u] \in {"export", "unlock"} /\ lNext'[u] = p
  BY DEF Mutexes
<1>1. mutexOf[p] = u <=> lPc[u] \in {"export", "unlock"} /\ lNext[u] = p
  BY DEF Mutexes
<1>2. CASE u = t
  BY <1>1, <1>2 DEF Moved
<1>3. CASE u # t
  BY <1>1, <1>3 DEF Moved
<1> QED
  BY <1>2, <1>3

LEMMA RecordFacts ==
    ASSUME LogTypeOK, NEW t \in LogThreads, emitted[t] > 0 PROVE Record(t) \in AllRecords
BY ProcFacts DEF LogTypeOK, Record, AllRecords

(* A record goes to an exporter. *)
LEMMA GivenType ==
    ASSUME LogTypeOK, NEW t \in LogThreads, emitted[t] > 0,
           given' = [given EXCEPT ![lNext[t]] = Append(@, Record(t))]
    PROVE  given' \in [LogProcs -> Seq(AllRecords)]
<1>1. Record(t) \in AllRecords
  BY RecordFacts
<1>2. lNext[t] \in LogProcs /\ given[lNext[t]] \in Seq(AllRecords)
  BY DEF LogTypeOK
<1>3. Append(given[lNext[t]], Record(t)) \in Seq(AllRecords)
  BY <1>1, <1>2
<1> QED
  BY <1>2, <1>3 DEF LogTypeOK

LEMMA LogStructureInit == LogInit => LogStructure
<1> SUFFICES ASSUME LogInit PROVE LogStructure
  OBVIOUS
<1>1. LogTypeOK
  <2>1. given \in [LogProcs -> Seq(AllRecords)]
    BY DEF LogInit
  <2>2. lPc \in [LogThreads -> LogSteps] /\ lNext \in [LogThreads -> LogProcs]
    BY ProcFacts DEF LogInit, LogSteps
  <2>3. emitted \in [LogThreads -> 0..EmitsPerThread] /\ exporterStops \in [LogProcs -> Nat]
    BY ProcFacts DEF LogInit
  <2>4. mutexOf \in [LogProcs -> LogThreads \cup {Nobody}]
    BY DEF LogInit
  <2> QED
    BY <2>1, <2>2, <2>3, <2>4 DEF LogInit, LogTypeOK
<1>2. LoggingThreads /\ Mutexes
  BY ProcFacts DEF LogInit, LoggingThreads, Mutexes, Emitting, Locking
<1> QED
  BY <1>1, <1>2 DEF LogStructure

LEMMA LogStructureStep ==
    ASSUME LogStructure, \A t \in LogThreads : Emitting(t) => emitted[t] > 0, [LogNext]_logVars
    PROVE  LogStructure'
<1> USE DEF LogStructure
<1>0. LogTypeOK /\ LoggingThreads /\ Mutexes
  OBVIOUS
<1>1. ASSUME NEW t \in LogThreads, GetLogger(t) PROVE LogStructure'
  BY <1>1 DEF GetLogger, LogTypeOK, LoggingThreads, Mutexes, Emitting, Locking, exportSide
<1>2. ASSUME NEW t \in LogThreads, DropReference(t) PROVE LogStructure'
  <2>1. /\ lPc[t] = "idle" /\ lPc' \in [LogThreads -> LogSteps]
        /\ \A u \in LogThreads : u # t => lPc'[u] = lPc[u]
        /\ lPc'[t] \in {"idle", "stop"}
        /\ \A u \in LogThreads : u # t => (u \in loggers' <=> u \in loggers)
    BY <1>2 DEF DropReference, Step, LogTypeOK, LogSteps
  <2>2. LogTypeOK'
    BY <1>2, <2>1 DEF DropReference, LogTypeOK, exportSide
  <2>3. LoggingThreads' /\ Mutexes'
    BY <1>2, <2>1
       DEF DropReference, LogTypeOK, exportSide, LoggingThreads, Mutexes, Emitting, Locking
  <2> QED
    BY <2>2, <2>3
<1>3. ASSUME NEW t \in LogThreads, BeginEmit(t) PROVE LogStructure'
  <2>1. emitted' \in [LogThreads -> 0..EmitsPerThread]
    BY <1>3, ProcFacts DEF BeginEmit, LogTypeOK
  <2>2. lPc[t] = "idle" /\ t \in loggers /\ lPc' = [lPc EXCEPT ![t] = "emit"]
        /\ UNCHANGED <<providerSide, suppressed, lNext, procDown, mutexOf, given, exporterStops>>
    BY <1>3 DEF BeginEmit, Step
  <2>3. LogTypeOK'
    BY <2>1, <2>2 DEF providerSide, LogTypeOK, LogSteps
  <2>4. LoggingThreads'
    BY <2>2, <1>0 DEF providerSide, LogTypeOK, LoggingThreads, Emitting, Locking
  <2>5. Mutexes'
    BY <2>2, <1>0 DEF LogTypeOK, Mutexes
  <2> QED
    BY <2>3, <2>4, <2>5
<1>4. ASSUME NEW t \in LogThreads, LoadDown(t) PROVE LogStructure'
  <2>0. "emit" \in LogSteps /\ lNext[t] \in SimpleProcs
    BY <1>4 DEF LogSteps, LoadDown
  <2>1. CASE IsDown(lNext[t])
    <3>1. Moved(t, "emit", "emit") /\ suppressed' = suppressed
          /\ UNCHANGED <<providerSide, emitted, exportSide>>
      BY <1>4, <2>0, <2>1, NextFacts DEF LoadDown
    <3>2. LogTypeOK'
      BY <3>1 DEF Moved, providerSide, exportSide, LogTypeOK
    <3>3. LoggingThreads'
      BY <3>1 DEF Moved, providerSide, exportSide, LogTypeOK, LoggingThreads, Emitting, Locking
    <3>4. Mutexes'
      BY <3>1, MovedMutexes DEF exportSide
    <3> QED
      BY <3>2, <3>3, <3>4
  <2>2. CASE ~IsDown(lNext[t])
    <3>1. lPc[t] = "emit" /\ lPc' = [lPc EXCEPT ![t] = "lock"] /\ lNext' = lNext
          /\ suppressed' = suppressed \cup {t} /\ UNCHANGED <<providerSide, emitted, exportSide>>
      BY <1>4, <2>2 DEF LoadDown, Step, EnterSuppressed
    <3>2. LogTypeOK'
      BY <3>1 DEF providerSide, exportSide, LogTypeOK, LogSteps
    <3>3. LoggingThreads'
      BY <2>0, <3>1 DEF providerSide, exportSide, LogTypeOK, LoggingThreads, Emitting, Locking
    <3>4. Mutexes'
      BY <3>1 DEF exportSide, LogTypeOK, Mutexes
    <3> QED
      BY <3>2, <3>3, <3>4
  <2> QED
    BY <2>1, <2>2
<1>5. ASSUME NEW t \in LogThreads, LockExporter(t) PROVE LogStructure'
  <2>1. /\ lPc[t] = "lock" /\ lPc' = [lPc EXCEPT ![t] = "export"] /\ mutexOf[lNext[t]] = Nobody
        /\ mutexOf' = [mutexOf EXCEPT ![lNext[t]] = t] /\ lNext[t] \in LogProcs
        /\ UNCHANGED <<providerSide, suppressed, lNext, emitted, procDown, given, exporterStops>>
    BY <1>5 DEF LockExporter, Step, LogTypeOK
  <2>2. LogTypeOK'
    BY <2>1 DEF providerSide, LogTypeOK, LogSteps
  <2>3. LoggingThreads'
    BY <2>1 DEF providerSide, LogTypeOK, LoggingThreads, Emitting, Locking
  <2>4. Mutexes'
    <3>1. \A u \in LogThreads : ~(lPc[u] \in {"export", "unlock"} /\ lNext[u] = lNext[t])
      BY <2>1, ProcFacts DEF Mutexes
    <3> QED
      BY <2>1, <3>1, ProcFacts DEF LogTypeOK, Mutexes
  <2> QED
    BY <2>2, <2>3, <2>4
<1>6. ASSUME NEW t \in LogThreads, ExportLocked(t) PROVE LogStructure'
  <2>1. lPc[t] = "export" /\ t \in suppressed /\ lPc' = [lPc EXCEPT ![t] = "unlock"]
    BY <1>6 DEF ExportLocked, Step, LoggingThreads, Locking
  <2>2. given' \in [LogProcs -> Seq(AllRecords)]
    BY <1>6, <2>1, GivenType DEF ExportLocked, Emitting
  <2>3. UNCHANGED <<providerSide, suppressed, lNext, emitted, procDown, mutexOf, exporterStops>>
    BY <1>6 DEF ExportLocked
  <2>4. LogTypeOK'
    BY <2>1, <2>2, <2>3 DEF providerSide, LogTypeOK, LogSteps
  <2>5. LoggingThreads'
    BY <2>1, <2>3 DEF providerSide, LogTypeOK, LoggingThreads, Emitting, Locking
  <2>6. Mutexes'
    BY <2>1, <2>3 DEF LogTypeOK, Mutexes
  <2> QED
    BY <2>4, <2>5, <2>6
<1>7. ASSUME NEW t \in LogThreads, UnlockExporter(t) PROVE LogStructure'
  <2>1. Moved(t, "unlock", "emit")
    <3>1. NextProcessor(t, "unlock", "emit") /\ "emit" \in LogSteps
      BY <1>7 DEF UnlockExporter, LogSteps
    <3> QED
      BY <3>1, NextFacts
  <2>2. mutexOf' = [mutexOf EXCEPT ![lNext[t]] = Nobody] /\ suppressed' = suppressed \ {t}
        /\ UNCHANGED <<providerSide, emitted, procDown, given, exporterStops, lateEmits>>
    BY <1>7 DEF UnlockExporter
  <2>3. LogTypeOK'
    BY <2>1, <2>2 DEF Moved, providerSide, LogTypeOK
  <2>4. LoggingThreads'
    BY <2>1, <2>2 DEF Moved, providerSide, LogTypeOK, LoggingThreads, Emitting, Locking
  <2>5. Mutexes'
    <3>1. /\ lPc[t] = "unlock" /\ lPc'[t] \notin {"export", "unlock"}
          /\ \A u \in LogThreads : u # t => lPc'[u] = lPc[u] /\ lNext'[u] = lNext[u]
      BY <2>1 DEF Moved, LogTypeOK
    <3>2. mutexOf[lNext[t]] = t /\ lNext[t] \in LogProcs
      BY <3>1 DEF Mutexes, LogTypeOK
    <3> SUFFICES ASSUME NEW u \in LogThreads, NEW p \in LogProcs
                 PROVE  mutexOf'[p] = u <=> lPc'[u] \in {"export", "unlock"} /\ lNext'[u] = p
      BY DEF Mutexes
    <3>3. mutexOf[p] = u <=> lPc[u] \in {"export", "unlock"} /\ lNext[u] = p
      BY DEF Mutexes
    <3>4. mutexOf'[p] = IF p = lNext[t] THEN Nobody ELSE mutexOf[p]
      BY <2>2, <3>2 DEF LogTypeOK
    <3>5. Nobody # u
      BY ProcFacts
    <3>6. CASE u = t
      BY <3>1, <3>2, <3>3, <3>4, <3>5, <3>6
    <3>7. CASE u # t
      BY <3>1, <3>2, <3>3, <3>4, <3>5, <3>7
    <3> QED
      BY <3>6, <3>7
  <2> QED
    BY <2>3, <2>4, <2>5
<1>8. ASSUME NEW t \in LogThreads, ExportConcurrent(t) PROVE LogStructure'
  <2>1. Moved(t, "emit", "emit")
    <3>1. NextProcessor(t, "emit", "emit") /\ "emit" \in LogSteps
      BY <1>8 DEF ExportConcurrent, LogSteps
    <3> QED
      BY <3>1, NextFacts
  <2>2. given' \in [LogProcs -> Seq(AllRecords)]
    BY <1>8, <2>1, GivenType DEF Moved, ExportConcurrent, Emitting
  <2>3. UNCHANGED <<providerSide, suppressed, emitted, procDown, mutexOf, exporterStops>>
    BY <1>8 DEF ExportConcurrent
  <2>4. LogTypeOK'
    BY <2>1, <2>2, <2>3 DEF Moved, providerSide, LogTypeOK
  <2>5. LoggingThreads'
    BY <2>1, <2>3 DEF Moved, providerSide, LogTypeOK, LoggingThreads, Emitting, Locking
  <2>6. Mutexes'
    BY <2>1, <2>3, MovedMutexes
  <2> QED
    BY <2>4, <2>5, <2>6
<1>9. ASSUME NEW t \in LogThreads, ShutdownLogs(t) PROVE LogStructure'
  <2>1. /\ lPc[t] = "idle" /\ lPc' = [lPc EXCEPT ![t] = AfterExchange]
        /\ AfterExchange \in {"idle", "stop"} /\ logShutdown' = TRUE /\ logExplicit' = TRUE
        /\ UNCHANGED <<logHandles, loggers, suppressed, lNext, emitted, exportSide>>
    BY <1>9 DEF ShutdownLogs, AfterExchange, Step
  <2>2. LogTypeOK'
    BY <2>1 DEF exportSide, LogTypeOK, LogSteps
  <2>3. LoggingThreads'
    BY <2>1 DEF exportSide, LogTypeOK, LoggingThreads, Emitting, Locking
  <2>4. Mutexes'
    BY <2>1 DEF exportSide, LogTypeOK, Mutexes
  <2> QED
    BY <2>2, <2>3, <2>4
<1>10. ASSUME NEW t \in LogThreads, StoreDown(t) PROVE LogStructure'
  <2>1. /\ lPc[t] = "stop" /\ lPc' = [lPc EXCEPT ![t] = "stopExporter"]
        /\ procDown' = procDown \cup {lNext[t]} /\ lNext[t] \in SimpleProcs
        /\ UNCHANGED <<providerSide, suppressed, lNext, emitted, mutexOf, given, exporterStops>>
    BY <1>10 DEF StoreDown, Step
  <2>2. LogTypeOK'
    BY <2>1 DEF providerSide, LogTypeOK, LogSteps
  <2>3. LoggingThreads'
    BY <2>1 DEF providerSide, LogTypeOK, LoggingThreads, Emitting, Locking
  <2>4. Mutexes'
    BY <2>1 DEF LogTypeOK, Mutexes
  <2> QED
    BY <2>2, <2>3, <2>4
<1>11. ASSUME NEW t \in LogThreads, StopExporter(t) PROVE LogStructure'
  <2>1. PICK from \in {"stop", "stopExporter"} : Moved(t, from, "stop")
    <3>1. PICK from \in {"stop", "stopExporter"} : NextProcessor(t, from, "stop")
      BY <1>11 DEF StopExporter
    <3>2. "stop" \in LogSteps
      BY DEF LogSteps
    <3> QED
      BY <3>1, <3>2, NextFacts
  <2>3. exporterStops' \in [LogProcs -> Nat]
    BY <1>11 DEF StopExporter, LogTypeOK
  <2>4. UNCHANGED <<providerSide, suppressed, emitted, procDown, mutexOf, given>>
    BY <1>11 DEF StopExporter
  <2>5. LogTypeOK'
    BY <2>1, <2>3, <2>4 DEF Moved, providerSide, LogTypeOK
  <2>6. LoggingThreads'
    BY <2>1, <2>4 DEF Moved, providerSide, LogTypeOK, LoggingThreads, Emitting, Locking
  <2>7. Mutexes'
    BY <2>1, <2>4, MovedMutexes
  <2> QED
    BY <2>5, <2>6, <2>7
<1>12. CASE UNCHANGED logVars
  BY <1>12 DEF logVars, LogTypeOK, LoggingThreads, Mutexes, Emitting, Locking
<1> QED
  BY <1>1, <1>2, <1>3, <1>4, <1>5, <1>6, <1>7, <1>8, <1>9, <1>10, <1>11, <1>12 DEF LogNext

-----------------------------------------------------------------------------
(* Who shuts the exporters down *)

LogStops(t) == lPc[t] \in {"stop", "stopExporter"}
(* Either the flag is set or nobody is left who could set it.               *)
LogEnding == logShutdown \/ logHandles \cup loggers = {}
LogStopping ==
    /\ \A t \in LogThreads : LogStops(t) => LogEnding
    /\ \A t, u \in LogThreads : LogStops(t) /\ LogStops(u) => t = u
    /\ ~LogEnding => procDown = {} /\ \A p \in LogProcs : exporterStops[p] = 0
    /\ LogEnding => \A p \in LogProcs :
          exporterStops[p] = IF \E t \in LogThreads : LogStops(t) /\ lNext[t] <= p THEN 0 ELSE 1

LEMMA LogStoppingUnchanged ==
    ASSUME LogStopping, UNCHANGED <<logShutdown, logHandles, loggers, procDown, exporterStops>>,
           \A t \in LogThreads : LogStops(t)' <=> LogStops(t),
           \A t \in LogThreads : LogStops(t) => lNext'[t] = lNext[t]
    PROVE  LogStopping'
<1>1. LogEnding' <=> LogEnding
  BY DEF LogEnding
<1>2. \A p \in LogProcs : (\E t \in LogThreads : LogStops(t)' /\ lNext'[t] <= p)
                          <=> (\E t \in LogThreads : LogStops(t) /\ lNext[t] <= p)
  OBVIOUS
<1> QED
  BY <1>1, <1>2 DEF LogStopping, LogProcs

(* A step of a call to emit stops nothing. *)
LEMMA EmitStops ==
    ASSUME LogStructure, LogStopping, NEW t \in LogThreads,
           BeginEmit(t) \/ LoadDown(t) \/ LockExporter(t) \/ ExportLocked(t) \/ UnlockExporter(t)
           \/ ExportConcurrent(t)
    PROVE  LogStopping'
<1>1. UNCHANGED <<logShutdown, logHandles, loggers, procDown, exporterStops>>
  BY DEF BeginEmit, LoadDown, LockExporter, ExportLocked, UnlockExporter, ExportConcurrent,
     providerSide, exportSide
<1>2. ~LogStops(t)
  BY DEF BeginEmit, LoadDown, LockExporter, ExportLocked, UnlockExporter, ExportConcurrent, Step,
     NextProcessor, LogStops
<1>3. ~LogStops(t)' /\ \A u \in LogThreads : u # t => lPc'[u] = lPc[u] /\ lNext'[u] = lNext[u]
  BY DEF BeginEmit, LoadDown, LockExporter, ExportLocked, UnlockExporter, ExportConcurrent, Step,
     NextProcessor, LogStops, LogStructure, LogTypeOK
<1> QED
  BY <1>1, <1>2, <1>3, LogStoppingUnchanged DEF LogStops

(* A thread that comes to stop the exporters is the first. *)
LEMMA LogFirstStops ==
    ASSUME LogStructure, LogStopping, ~LogEnding, LogEnding', NEW t \in LogThreads,
           UNCHANGED <<procDown, exporterStops, lNext>>, lNext[t] = 1, LogStops(t)',
           \A u \in LogThreads : u # t => lPc'[u] = lPc[u]
    PROVE  LogStopping'
<1>1. \A u \in LogThreads : u # t => ~LogStops(u)'
  BY DEF LogStopping, LogStops
<1>2. ASSUME NEW p \in LogProcs
      PROVE  /\ exporterStops'[p] = 0
             /\ \E u \in LogThreads : LogStops(u)' /\ lNext'[u] <= p
  <2>1. 1 <= p
    BY ProcFacts
  <2> QED
    BY <2>1 DEF LogStopping
<1> QED
  BY <1>1, <1>2 DEF LogStopping, LogProcs

LEMMA LogStoppingStep ==
    ASSUME LogStructure, LogStopping, [LogNext]_logVars PROVE LogStopping'
<1>0. LogTypeOK /\ LoggingThreads
  BY DEF LogStructure
<1>1. ASSUME NEW t \in LogThreads, GetLogger(t) PROVE LogStopping'
  <2>1. /\ ~LogEnding /\ ~LogEnding' /\ UNCHANGED <<lPc, lNext, procDown, exporterStops>>
    BY <1>1 DEF GetLogger, LogEnding, exportSide
  <2> QED
    BY <2>1 DEF LogStopping, LogStops, LogProcs
<1>2. ASSUME NEW t \in LogThreads, DropReference(t) PROVE LogStopping'
  <2>1. /\ lPc[t] = "idle" /\ lNext[t] = 1 /\ UNCHANGED <<logShutdown, lNext, procDown,
                                                          exporterStops>>
        /\ logHandles \cup loggers # {}
    BY <1>0, <1>2 DEF DropReference, exportSide, LoggingThreads, Step
  <2>2. CASE DropShutsDown(loggers' \cup logHandles')
    <3>1. /\ ~LogEnding /\ LogEnding' /\ LogStops(t)'
          /\ \A u \in LogThreads : u # t => lPc'[u] = lPc[u]
      BY <1>0, <1>2, <2>1, <2>2
         DEF DropReference, DropShutsDown, LogEnding, Step, LogStops, LogTypeOK
    <3> QED
      BY <2>1, <3>1, LogFirstStops
  <2>3. CASE ~DropShutsDown(loggers' \cup logHandles')
    <3>1. lPc' = lPc /\ (LogEnding' <=> LogEnding)
      BY <1>2, <2>1, <2>3 DEF DropReference, DropShutsDown, LogEnding
    <3> QED
      BY <2>1, <3>1 DEF LogStopping, LogStops, LogProcs
  <2> QED
    BY <2>2, <2>3
<1>3. ASSUME NEW t \in LogThreads, ShutdownLogs(t) PROVE LogStopping'
  <2>1. /\ lPc[t] = "idle" /\ lNext[t] = 1 /\ LogEnding'
        /\ UNCHANGED <<logHandles, loggers, lNext, procDown, exporterStops>>
        /\ lPc' = [lPc EXCEPT ![t] = IF logShutdown THEN "idle" ELSE "stop"]
        /\ (LogEnding <=> logShutdown)
    BY <1>0, <1>3 DEF ShutdownLogs, AfterExchange, exportSide, LoggingThreads, Step, LogEnding
  <2>2. CASE logShutdown
    <3>1. lPc' = lPc
      BY <1>0, <2>1, <2>2 DEF LogTypeOK
    <3> QED
      BY <2>1, <2>2, <3>1 DEF LogStopping, LogStops, LogProcs
  <2>3. CASE ~logShutdown
    <3>1. LogStops(t)' /\ \A u \in LogThreads : u # t => lPc'[u] = lPc[u]
      BY <1>0, <2>1, <2>3 DEF LogTypeOK, LogStops
    <3> QED
      BY <2>1, <2>3, <3>1, LogFirstStops
  <2> QED
    BY <2>2, <2>3
<1>4. ASSUME NEW t \in LogThreads, StoreDown(t) PROVE LogStopping'
  <2>1. /\ LogStops(t) /\ LogStops(t)' /\ UNCHANGED <<logShutdown, logHandles, loggers, lNext,
                                                      exporterStops>>
        /\ \A u \in LogThreads : u # t => lPc'[u] = lPc[u]
    BY <1>0, <1>4 DEF StoreDown, Step, LogStops, providerSide, LogTypeOK
  <2>2. LogEnding /\ LogEnding'
    BY <2>1 DEF LogStopping, LogEnding
  <2>3. \A u \in LogThreads : LogStops(u)' <=> LogStops(u)
    BY <2>1 DEF LogStops
  <2> QED
    BY <2>1, <2>2, <2>3 DEF LogStopping, LogProcs
<1>5. ASSUME NEW t \in LogThreads, StopExporter(t) PROVE LogStopping'
  <2>1. PICK from \in {"stop", "stopExporter"} : Moved(t, from, "stop")
    <3>1. PICK from \in {"stop", "stopExporter"} : NextProcessor(t, from, "stop")
      BY <1>5 DEF StopExporter
    <3>2. "stop" \in LogSteps
      BY DEF LogSteps
    <3> QED
      BY <1>0, <3>1, <3>2, NextFacts
  <2>2. /\ LogStops(t) /\ LogEnding
        /\ \A u \in LogThreads : u # t => ~LogStops(u)
    BY <2>1 DEF Moved, LogStops, LogStopping
  <2>3. /\ UNCHANGED <<logShutdown, logHandles, loggers, procDown>>
        /\ exporterStops' = [exporterStops EXCEPT ![lNext[t]] = @ + 1]
    BY <1>5 DEF StopExporter, providerSide
  <2>4. LogEnding'
    BY <2>2, <2>3 DEF LogEnding
  <2>5. \A u \in LogThreads : u # t => ~LogStops(u)'
    BY <2>1, <2>2 DEF Moved, LogStops
  <2>6. ASSUME NEW p \in LogProcs
        PROVE exporterStops'[p] =
                 IF \E u \in LogThreads : LogStops(u)' /\ lNext'[u] <= p THEN 0 ELSE 1
    <3>0. /\ p \in Nat /\ lNext[t] \in Nat /\ p <= NumLogProcs /\ lNext[t] <= NumLogProcs
          /\ NumLogProcs \in Nat /\ lNext[t] \in LogProcs
      BY <1>0, ProcFacts DEF LogTypeOK
    <3>1. exporterStops[p] = IF lNext[t] <= p THEN 0 ELSE 1
      BY <2>2 DEF LogStopping
    <3>2. exporterStops'[p] = IF lNext[t] < p THEN 0 ELSE 1
      BY <1>0, <2>3, <3>0, <3>1 DEF LogTypeOK
    <3>3. CASE lNext[t] = NumLogProcs
      <4>1. ~LogStops(t)'
        BY <2>1, <3>3 DEF Moved, LogStops
      <4> QED
        BY <2>5, <3>0, <3>2, <3>3, <4>1
    <3>4. CASE lNext[t] # NumLogProcs
      <4>1. LogStops(t)' /\ lNext'[t] = lNext[t] + 1
        BY <2>1, <3>4 DEF Moved, LogStops
      <4> QED
        BY <2>5, <3>0, <3>2, <3>4, <4>1
    <3> QED
      BY <3>3, <3>4
  <2> QED
    BY <2>4, <2>5, <2>6 DEF LogStopping, LogProcs
<1>6. CASE UNCHANGED logVars
  <2>1. UNCHANGED <<logShutdown, logHandles, loggers, procDown, exporterStops, lPc, lNext>>
    BY <1>6 DEF logVars
  <2> QED
    BY <2>1, LogStoppingUnchanged DEF LogStops
<1> QED
  BY <1>1, <1>2, <1>3, <1>4, <1>5, <1>6, EmitStops DEF LogNext

-----------------------------------------------------------------------------
(* What becomes of a record *)

(* The record t emits has yet to reach processor p.                         *)
LogAhead(t, p) ==
    \/ lPc[t] \in {"emit", "lock", "export"} /\ lNext[t] <= p
    \/ lPc[t] = "unlock" /\ lNext[t] < p
Begun == \A t \in LogThreads : Emitting(t) => emitted[t] > 0
Once(p) == IsInjective(given[p]) /\ Range(given[p]) \subseteq BegunRecords
Skipped(p) == logExplicit /\ p \in procDown
(* What a processor with a flag has exported began before it was set.       *)
Late(l) == (l[1] \in SimpleProcs => l[1] \in procDown) /\ l[2] \in BegunRecords
InTime(p) == p \in SimpleProcs => \A r \in Range(given[p]) : <<p, r>> \notin lateEmits
LogDelivery ==
    /\ Begun
    /\ \A p \in LogProcs :
          /\ Once(p)
          /\ \A t \in LogThreads : LogAhead(t, p) => Record(t) \notin Range(given[p])
          /\ \A r \in BegunRecords :
                r \in Range(given[p]) \/ Skipped(p)
                \/ \E t \in LogThreads : LogAhead(t, p) /\ Record(t) = r
    /\ \A l \in lateEmits : Late(l)
    /\ \A p \in LogProcs : InTime(p)
    /\ \A t \in LogThreads :
          lPc[t] \in {"lock", "export"} => <<lNext[t], Record(t)>> \notin lateEmits

(* A new last element. *)
LEMMA LogAppendFacts ==
    ASSUME NEW S, NEW s \in Seq(S), NEW x \in S
    PROVE  /\ Range(Append(s, x)) = Range(s) \cup {x}
           /\ IsInjective(s) /\ x \notin Range(s) => IsInjective(Append(s, x))
<1> DEFINE n == Len(s)
<1>1. /\ DOMAIN s = 1..n /\ n \in Nat /\ DOMAIN Append(s, x) = 1..(n + 1)
      /\ Append(s, x)[n + 1] = x /\ \A j \in 1..n : Append(s, x)[j] = s[j]
  OBVIOUS
<1> HIDE DEF n
<1>2. 1..(n + 1) = (1..n) \cup {n + 1} /\ n + 1 \notin 1..n
  BY <1>1
<1>3. Range(Append(s, x)) = Range(s) \cup {x}
  BY <1>1, <1>2 DEF Range
<1>4. ASSUME IsInjective(s), x \notin Range(s) PROVE IsInjective(Append(s, x))
  <2> SUFFICES ASSUME NEW a \in 1..(n + 1), NEW b \in 1..(n + 1),
                      Append(s, x)[a] = Append(s, x)[b]
               PROVE  a = b
    BY <1>1 DEF IsInjective
  <2>1. CASE a \in 1..n /\ b \in 1..n
    BY <1>1, <1>4, <2>1 DEF IsInjective
  <2>2. CASE a = n + 1 /\ b = n + 1
    BY <2>2
  <2>3. CASE a \in 1..n /\ b = n + 1
    BY <1>1, <1>4, <2>3 DEF Range
  <2>4. CASE a = n + 1 /\ b \in 1..n
    BY <1>1, <1>4, <2>4 DEF Range
  <2> QED
    BY <1>2, <2>1, <2>2, <2>3, <2>4
<1> QED
  BY <1>3, <1>4

(* A record that is being emitted has begun; those of two threads differ. *)
LEMMA RecordBegun ==
    ASSUME LogTypeOK, Begun, NEW t \in LogThreads, Emitting(t)
    PROVE  /\ Record(t) \in BegunRecords /\ Record(t) \in AllRecords
           /\ \A u \in LogThreads : u # t => Record(u) # Record(t)
<1>1. emitted[t] \in 1..EmitsPerThread
  BY ProcFacts DEF LogTypeOK, Begun
<1> QED
  BY <1>1 DEF Record, BegunRecords, AllRecords

(* A step that gives no record to an exporter and begins none, and after    *)
(* which every record is still on its way to the same processors.           *)
LEMMA LogDeliveryUnchanged ==
    ASSUME LogDelivery, UNCHANGED <<emitted, given, lateEmits>>,
           procDown \subseteq procDown', logExplicit => logExplicit',
           \A t \in LogThreads : Emitting(t)' => Emitting(t),
           \A t \in LogThreads, p \in LogProcs :
              /\ LogAhead(t, p)' => LogAhead(t, p)
              /\ LogAhead(t, p) => LogAhead(t, p)' \/ Skipped(p)',
           \A t \in LogThreads : lPc'[t] \in {"lock", "export"} =>
              <<lNext'[t], Record(t)>> \notin lateEmits
    PROVE  LogDelivery'
<1>1. BegunRecords' = BegunRecords /\ \A t : Record(t)' = Record(t)
  BY DEF BegunRecords, Record
<1>2. Begun'
  BY DEF LogDelivery, Begun
<1>3. ASSUME NEW p \in LogProcs
      PROVE  /\ Once(p)'
             /\ \A t \in LogThreads : LogAhead(t, p)' => Record(t)' \notin Range(given'[p])
             /\ \A r \in BegunRecords' :
                   r \in Range(given'[p]) \/ Skipped(p)'
                   \/ \E t \in LogThreads : LogAhead(t, p)' /\ Record(t)' = r
  <2>1. Once(p)'
    BY <1>1 DEF LogDelivery, Once
  <2>2. Skipped(p) => Skipped(p)'
    BY DEF Skipped
  <2> QED
    BY <1>1, <2>1, <2>2 DEF LogDelivery
<1>4. /\ \A l \in lateEmits' : Late(l)'
      /\ \A p \in LogProcs : InTime(p)'
      /\ \A t \in LogThreads :
            lPc'[t] \in {"lock", "export"} => <<lNext'[t], Record(t)'>> \notin lateEmits'
  BY <1>1 DEF LogDelivery, Late, InTime
<1> QED
  BY <1>2, <1>3, <1>4 DEF LogDelivery

(* The exporter of a processor gets the record that is on its way to it.    *)
LEMMA DeliveryGiven ==
    ASSUME LogTypeOK, LogDelivery, NEW t \in LogThreads, Emitting(t), LogAhead(t, lNext[t]),
           lNext[t] \in SimpleProcs => <<lNext[t], Record(t)>> \notin lateEmits,
           given' = [given EXCEPT ![lNext[t]] = Append(@, Record(t))],
           UNCHANGED <<emitted, lateEmits, procDown, logExplicit>>,
           \A u \in LogThreads : u # t => lPc'[u] = lPc[u] /\ lNext'[u] = lNext[u],
           Emitting(t)' \/ lPc'[t] = "idle",
           \A p \in LogProcs : LogAhead(t, p)' <=> LogAhead(t, p) /\ p # lNext[t],
           lPc'[t] \notin {"lock", "export"}
    PROVE  LogDelivery'
<1> DEFINE q == lNext[t]
<1>1. BegunRecords' = BegunRecords /\ \A u : Record(u)' = Record(u)
  BY DEF BegunRecords, Record
<1>2. Record(t) \in BegunRecords /\ Record(t) \in AllRecords
      /\ \A u \in LogThreads : u # t => Record(u) # Record(t)
  BY RecordBegun DEF LogDelivery
<1>3. q \in LogProcs /\ given[q] \in Seq(AllRecords) /\ given \in [LogProcs -> Seq(AllRecords)]
  BY DEF LogTypeOK
<1>4. /\ Range(given'[q]) = Range(given[q]) \cup {Record(t)} /\ IsInjective(given'[q])
      /\ \A p \in LogProcs : p # q => given'[p] = given[p]
  <2>1. given'[q] = Append(given[q], Record(t)) /\ \A p \in LogProcs : p # q => given'[p] = given[p]
    BY <1>3
  <2>2. IsInjective(given[q]) /\ Record(t) \notin Range(given[q])
    BY <1>3 DEF LogDelivery, Once
  <2> QED
    BY <1>2, <1>3, <2>1, <2>2, LogAppendFacts
<1>5. \A u \in LogThreads, p \in LogProcs : u # t => (LogAhead(u, p)' <=> LogAhead(u, p))
  BY DEF LogAhead
<1>6. Begun'
  BY DEF LogDelivery, Begun, Emitting
<1>7. ASSUME NEW p \in LogProcs
      PROVE  /\ Once(p)'
             /\ \A u \in LogThreads : LogAhead(u, p)' => Record(u)' \notin Range(given'[p])
             /\ \A r \in BegunRecords' :
                   r \in Range(given'[p]) \/ Skipped(p)'
                   \/ \E u \in LogThreads : LogAhead(u, p)' /\ Record(u)' = r
             /\ InTime(p)'
  <2>0. Skipped(p)' <=> Skipped(p)
    BY DEF Skipped
  <2>1. CASE p = q
    <3>1. Once(p)'
      BY <1>1, <1>2, <1>3, <1>4, <2>1 DEF LogDelivery, Once
    <3>2. ASSUME NEW u \in LogThreads, LogAhead(u, p)' PROVE Record(u)' \notin Range(given'[p])
      <4>1. u # t
        BY <2>1, <3>2, <1>3
      <4> QED
        BY <1>1, <1>2, <1>4, <1>5, <2>1, <3>2, <4>1 DEF LogDelivery
    <3>3. ASSUME NEW r \in BegunRecords'
          PROVE  r \in Range(given'[p]) \/ Skipped(p)'
                 \/ \E u \in LogThreads : LogAhead(u, p)' /\ Record(u)' = r
      <4>1. CASE r \in Range(given[p]) \/ r = Record(t)
        BY <1>4, <2>1, <4>1
      <4>2. CASE Skipped(p)
        BY <2>0, <4>2
      <4>3. ASSUME NEW u \in LogThreads, LogAhead(u, p), Record(u) = r, r # Record(t)
            PROVE  LogAhead(u, p)' /\ Record(u)' = r
        BY <1>1, <1>5, <4>3
      <4> QED
        BY <1>1, <4>1, <4>2, <4>3 DEF LogDelivery
    <3>4. InTime(p)'
      BY <1>4, <2>1 DEF LogDelivery, InTime
    <3> QED
      BY <3>1, <3>2, <3>3, <3>4
  <2>2. CASE p # q
    <3>1. given'[p] = given[p] /\ Once(p)'
      BY <1>1, <1>4, <2>2 DEF LogDelivery, Once
    <3>2. \A u \in LogThreads : LogAhead(u, p)' <=> LogAhead(u, p)
      BY <1>5, <2>2
    <3> QED
      BY <1>1, <2>0, <3>1, <3>2 DEF LogDelivery, InTime
  <2> QED
    BY <2>1, <2>2
<1>8. \A u \in LogThreads :
         lPc'[u] \in {"lock", "export"} => <<lNext'[u], Record(u)'>> \notin lateEmits'
  BY <1>1 DEF LogDelivery
<1>9. \A l \in lateEmits' : Late(l)'
  BY <1>1 DEF LogDelivery, Late
<1> QED
  BY <1>6, <1>7, <1>8, <1>9 DEF LogDelivery

(* A record begins: every processor is ahead, those that are down will      *)
(* skip it.                                                                 *)
LEMMA DeliveryBegin ==
    ASSUME LogStructure, LogDelivery, NEW t \in LogThreads, BeginEmit(t) PROVE LogDelivery'
<1> DEFINE new == <<t, emitted[t] + 1>>
<1>0. LogTypeOK /\ LoggingThreads
  BY DEF LogStructure
<1>1. /\ lPc[t] = "idle" /\ lNext[t] = 1 /\ lPc' = [lPc EXCEPT ![t] = "emit"]
      /\ emitted[t] \in Nat /\ emitted[t] < EmitsPerThread
      /\ emitted' = [emitted EXCEPT ![t] = @ + 1]
      /\ lateEmits' = lateEmits \cup {<<p, new>> : p \in Stopped}
      /\ \A p \in Stopped : p \in SimpleProcs => p \in procDown
      /\ UNCHANGED <<lNext, procDown, given, logExplicit>>
  BY <1>0, ProcFacts DEF BeginEmit, Step, LoggingThreads, providerSide, LogTypeOK, Stopped
<1>2. /\ emitted'[t] = emitted[t] + 1 /\ \A u \in LogThreads : u # t => emitted'[u] = emitted[u]
      /\ lPc'[t] = "emit" /\ \A u \in LogThreads : u # t => lPc'[u] = lPc[u]
  BY <1>0, <1>1 DEF LogTypeOK
<1>3. /\ Record(t)' = new /\ \A u \in LogThreads : u # t => Record(u)' = Record(u)
      /\ new \notin BegunRecords /\ BegunRecords' = BegunRecords \cup {new}
  <2>1. new \in AllRecords
    BY <1>1, ProcFacts DEF AllRecords
  <2>2. \A r \in AllRecords : r[1] \in LogThreads /\ r[2] \in Nat /\ r = <<r[1], r[2]>>
    BY ProcFacts DEF AllRecords
  <2>3. \A r \in AllRecords : r[2] <= emitted'[r[1]] <=> r[2] <= emitted[r[1]] \/ r = new
    <3> SUFFICES ASSUME NEW r \in AllRecords
                 PROVE  r[2] <= emitted'[r[1]] <=> r[2] <= emitted[r[1]] \/ r = new
      OBVIOUS
    <3>1. CASE r[1] = t
      BY <1>1, <1>2, <2>2, <3>1
    <3>2. CASE r[1] # t
      BY <1>2, <2>2, <3>2
    <3> QED
      BY <3>1, <3>2
  <2>4. ~(new[2] <= emitted[new[1]])
    BY <1>1
  <2> QED
    BY <1>2, <2>1, <2>3, <2>4 DEF BegunRecords, Record
<1>4. \A p \in LogProcs : LogAhead(t, p)' /\ ~LogAhead(t, p)
  BY <1>1, <1>2, ProcFacts DEF LogAhead
<1>5. \A u \in LogThreads, p \in LogProcs : u # t => (LogAhead(u, p)' <=> LogAhead(u, p))
  BY <1>1, <1>2 DEF LogAhead
<1>6. Begun'
  BY <1>1, <1>2 DEF LogDelivery, Begun, Emitting
<1>7. ASSUME NEW p \in LogProcs
      PROVE  /\ Once(p)'
             /\ \A u \in LogThreads : LogAhead(u, p)' => Record(u)' \notin Range(given'[p])
             /\ \A r \in BegunRecords' :
                   r \in Range(given'[p]) \/ Skipped(p)'
                   \/ \E u \in LogThreads : LogAhead(u, p)' /\ Record(u)' = r
             /\ InTime(p)'
  <2>0. (Skipped(p)' <=> Skipped(p)) /\ Range(given[p]) \subseteq BegunRecords
    BY <1>1 DEF Skipped, LogDelivery, Once
  <2>1. Once(p)'
    BY <1>1, <1>3 DEF LogDelivery, Once
  <2>2. ASSUME NEW u \in LogThreads, LogAhead(u, p)' PROVE Record(u)' \notin Range(given'[p])
    <3>1. CASE u = t
      BY <1>1, <1>3, <2>0, <3>1
    <3>2. CASE u # t
      BY <1>1, <1>3, <1>5, <2>2, <3>2 DEF LogDelivery
    <3> QED
      BY <3>1, <3>2
  <2>3. ASSUME NEW r \in BegunRecords'
        PROVE  r \in Range(given'[p]) \/ Skipped(p)'
               \/ \E u \in LogThreads : LogAhead(u, p)' /\ Record(u)' = r
    <3>1. CASE r = new
      BY <1>3, <1>4, <3>1
    <3>2. CASE r # new
      <4>1. r \in Range(given[p]) \/ Skipped(p)
            \/ \E u \in LogThreads : LogAhead(u, p) /\ Record(u) = r
        BY <1>3, <3>2 DEF LogDelivery
      <4> QED
        BY <1>1, <1>3, <1>4, <1>5, <2>0, <4>1
    <3> QED
      BY <3>1, <3>2
  <2>4. InTime(p)'
    BY <1>1, <1>3, <2>0 DEF LogDelivery, InTime
  <2> QED
    BY <2>1, <2>2, <2>3, <2>4
<1>8. ASSUME NEW u \in LogThreads, lPc'[u] \in {"lock", "export"}
      PROVE  <<lNext'[u], Record(u)'>> \notin lateEmits'
  <2>1. u # t /\ lPc[u] = lPc'[u]
    BY <1>2, <1>8
  <2>2. Record(u) # new
    BY <2>1 DEF Record
  <2> QED
    BY <1>1, <1>3, <1>8, <2>1, <2>2 DEF LogDelivery
<1>9. \A l \in lateEmits' : Late(l)'
  BY <1>1, <1>3 DEF LogDelivery, Late
<1> QED
  BY <1>6, <1>7, <1>8, <1>9 DEF LogDelivery

LEMMA LogDeliveryStep ==
    ASSUME LogStructure, LogStopping, LogDelivery, [LogNext]_logVars PROVE LogDelivery'
<1>0. LogTypeOK /\ LoggingThreads
  BY DEF LogStructure
<1>a. \A u \in LogThreads : lPc[u] \in {"lock", "export"} =>
          <<lNext[u], Record(u)>> \notin lateEmits
  BY DEF LogDelivery
(* LogSteps outside of emit. *)
<1>1. ASSUME NEW t \in LogThreads, UNCHANGED <<emitted, given, lateEmits>>,
             procDown \subseteq procDown', logExplicit => logExplicit',
             ~Emitting(t), ~Emitting(t)',
             \A u \in LogThreads : u # t => lPc'[u] = lPc[u] /\ lNext'[u] = lNext[u]
      PROVE  LogDelivery'
  <2>1. \A u \in LogThreads : Emitting(u)' => Emitting(u)
    BY <1>1 DEF Emitting
  <2>2. \A u \in LogThreads, p \in LogProcs : LogAhead(u, p)' <=> LogAhead(u, p)
    BY <1>1 DEF LogAhead, Emitting
  <2>3. \A u \in LogThreads :
           lPc'[u] \in {"lock", "export"} => <<lNext'[u], Record(u)>> \notin lateEmits
    BY <1>1, <1>a DEF Emitting
  <2> QED
    BY <1>1, <2>1, <2>2, <2>3, LogDeliveryUnchanged
<1>2. ASSUME NEW t \in LogThreads, GetLogger(t) \/ DropReference(t) \/ ShutdownLogs(t)
                                   \/ StoreDown(t)
      PROVE  LogDelivery'
  BY <1>0, <1>1, <1>2 DEF GetLogger, DropReference, ShutdownLogs, AfterExchange, StoreDown, Step,
     Emitting, exportSide, providerSide, LogTypeOK
<1>3. ASSUME NEW t \in LogThreads, StopExporter(t) PROVE LogDelivery'
  <2>1. PICK from \in {"stop", "stopExporter"} : Moved(t, from, "stop")
    <3>1. PICK from \in {"stop", "stopExporter"} : NextProcessor(t, from, "stop")
      BY <1>3 DEF StopExporter
    <3>2. "stop" \in LogSteps
      BY DEF LogSteps
    <3> QED
      BY <1>0, <3>1, <3>2, NextFacts
  <2> QED
    BY <1>1, <1>3, <2>1 DEF StopExporter, Moved, Emitting, providerSide
<1>4. ASSUME NEW t \in LogThreads, LoadDown(t) PROVE LogDelivery'
  <2>0. lPc[t] = "emit" /\ UNCHANGED <<logExplicit, procDown, emitted, given, lateEmits>>
        /\ lNext[t] \in LogProcs
    BY <1>0, <1>4 DEF LoadDown, NextProcessor, Step, providerSide, exportSide, LogTypeOK
  <2>1. CASE IsDown(lNext[t])
    <3>1. Moved(t, "emit", "emit")
      <4>1. NextProcessor(t, "emit", "emit") /\ "emit" \in LogSteps
        BY <1>4, <2>1 DEF LoadDown, LogSteps
      <4> QED
        BY <1>0, <4>1, NextFacts
    <3>2. Skipped(lNext[t])
      <4>1. lNext[t] \in procDown /\ t \in loggers
        BY <1>0, <2>0, <2>1 DEF IsDown, LoggingThreads, Emitting
      <4> QED
        BY <1>0, <4>1 DEF LogStopping, LogEnding, Skipped, LogTypeOK
    <3>3. ASSUME NEW u \in LogThreads, NEW p \in LogProcs
          PROVE  /\ LogAhead(u, p)' => LogAhead(u, p)
                 /\ LogAhead(u, p) => LogAhead(u, p)' \/ Skipped(p)'
      <4>1. CASE u # t
        BY <3>1, <4>1 DEF LogAhead, Moved
      <4>2. CASE u = t
        <5>1. p \in 1..NumLogProcs /\ lNext[t] \in 1..NumLogProcs /\ NumLogProcs \in Nat
          BY <2>0, ProcFacts
        <5>2. LogAhead(t, p) <=> lNext[t] <= p
          BY <2>0 DEF LogAhead
        <5>3. LogAhead(t, p)' <=> lNext[t] < p
          BY <3>1, <5>1 DEF Moved, LogAhead
        <5>4. p = lNext[t] => Skipped(p)'
          BY <2>0, <3>2 DEF Skipped
        <5> QED
          BY <4>2, <5>1, <5>2, <5>3, <5>4
      <4> QED
        BY <4>1, <4>2
    <3>4. /\ \A u \in LogThreads : Emitting(u)' => Emitting(u)
          /\ \A u \in LogThreads :
                lPc'[u] \in {"lock", "export"} => <<lNext'[u], Record(u)>> \notin lateEmits
      BY <2>0, <3>1, <1>a DEF Moved, Emitting
    <3> QED
      BY <2>0, <3>3, <3>4, LogDeliveryUnchanged
  <2>2. CASE ~IsDown(lNext[t])
    <3>1. lPc' = [lPc EXCEPT ![t] = "lock"] /\ lNext' = lNext
      BY <1>4, <2>2 DEF LoadDown, Step
    <3>2. \A u \in LogThreads, p \in LogProcs : LogAhead(u, p)' <=> LogAhead(u, p)
      BY <1>0, <2>0, <3>1 DEF LogAhead, LogTypeOK
    <3>3. <<lNext[t], Record(t)>> \notin lateEmits
      BY <1>4, <2>2 DEF LoadDown, IsDown, LogDelivery, Late
    <3>4. /\ \A u \in LogThreads : Emitting(u)' => Emitting(u)
          /\ \A u \in LogThreads :
                lPc'[u] \in {"lock", "export"} => <<lNext'[u], Record(u)>> \notin lateEmits
      BY <1>0, <2>0, <3>1, <3>3, <1>a DEF Emitting, LogTypeOK
    <3> QED
      BY <2>0, <3>2, <3>4, LogDeliveryUnchanged
  <2> QED
    BY <2>1, <2>2
<1>5. ASSUME NEW t \in LogThreads, LockExporter(t) PROVE LogDelivery'
  <2>1. /\ lPc[t] = "lock" /\ lPc' = [lPc EXCEPT ![t] = "export"]
        /\ UNCHANGED <<lNext, logExplicit, procDown, emitted, given, lateEmits>>
    BY <1>5 DEF LockExporter, Step, providerSide
  <2>2. \A u \in LogThreads, p \in LogProcs : LogAhead(u, p)' <=> LogAhead(u, p)
    BY <1>0, <2>1 DEF LogAhead, LogTypeOK
  <2>3. /\ \A u \in LogThreads : Emitting(u)' => Emitting(u)
        /\ \A u \in LogThreads :
              lPc'[u] \in {"lock", "export"} => <<lNext'[u], Record(u)>> \notin lateEmits
    BY <1>0, <2>1, <1>a DEF Emitting, LogTypeOK
  <2> QED
    BY <2>1, <2>2, <2>3, LogDeliveryUnchanged
<1>6. ASSUME NEW t \in LogThreads, ExportLocked(t) PROVE LogDelivery'
  <2>1. /\ lPc[t] = "export" /\ lPc' = [lPc EXCEPT ![t] = "unlock"]
        /\ given' = [given EXCEPT ![lNext[t]] = Append(@, Record(t))]
        /\ UNCHANGED <<lNext, logExplicit, procDown, emitted, lateEmits>>
    BY <1>0, <1>6 DEF ExportLocked, Step, providerSide, LoggingThreads, Locking
  <2>2. /\ lPc'[t] = "unlock"
        /\ \A u \in LogThreads : u # t => lPc'[u] = lPc[u] /\ lNext'[u] = lNext[u]
    BY <1>0, <2>1 DEF LogTypeOK
  <2>3. Emitting(t) /\ Emitting(t)' /\ LogAhead(t, lNext[t])
        /\ \A p \in LogProcs : LogAhead(t, p)' <=> LogAhead(t, p) /\ p # lNext[t]
    BY <1>0, <2>1, <2>2, ProcFacts DEF LogAhead, Emitting, LogTypeOK
  <2>4. <<lNext[t], Record(t)>> \notin lateEmits
    BY <2>1, <1>a
  <2> QED
    BY <1>0, <2>1, <2>2, <2>3, <2>4, DeliveryGiven
<1>7. ASSUME NEW t \in LogThreads, UnlockExporter(t) PROVE LogDelivery'
  <2>1. Moved(t, "unlock", "emit")
    <3>1. NextProcessor(t, "unlock", "emit") /\ "emit" \in LogSteps
      BY <1>7 DEF UnlockExporter, LogSteps
    <3> QED
      BY <1>0, <3>1, NextFacts
  <2>2. UNCHANGED <<logExplicit, procDown, emitted, given, lateEmits>>
    BY <1>7 DEF UnlockExporter, providerSide
  <2>3. ASSUME NEW u \in LogThreads, NEW p \in LogProcs PROVE LogAhead(u, p)' <=> LogAhead(u, p)
    <3>1. CASE u # t
      BY <2>1, <3>1 DEF LogAhead, Moved
    <3>2. CASE u = t
      <4>1. p \in 1..NumLogProcs /\ lNext[t] \in 1..NumLogProcs /\ NumLogProcs \in Nat
        BY <1>0, ProcFacts DEF LogTypeOK
      <4> QED
        BY <2>1, <3>2, <4>1 DEF Moved, LogAhead
    <3> QED
      BY <3>1, <3>2
  <2>4. /\ \A u \in LogThreads : Emitting(u)' => Emitting(u)
        /\ \A u \in LogThreads :
              lPc'[u] \in {"lock", "export"} => <<lNext'[u], Record(u)>> \notin lateEmits
    BY <2>1, <1>a DEF Moved, Emitting
  <2> QED
    BY <2>2, <2>3, <2>4, LogDeliveryUnchanged
<1>8. ASSUME NEW t \in LogThreads, ExportConcurrent(t) PROVE LogDelivery'
  <2>1. Moved(t, "emit", "emit")
    <3>1. NextProcessor(t, "emit", "emit") /\ "emit" \in LogSteps
      BY <1>8 DEF ExportConcurrent, LogSteps
    <3> QED
      BY <1>0, <3>1, NextFacts
  <2>2. /\ given' = [given EXCEPT ![lNext[t]] = Append(@, Record(t))]
        /\ UNCHANGED <<logExplicit, procDown, emitted, lateEmits>>
        /\ lNext[t] \in ConcurrentProcs
    BY <1>8 DEF ExportConcurrent, providerSide
  <2>3. \A p \in LogProcs : p \in 1..NumLogProcs /\ lNext[t] \in 1..NumLogProcs
                            /\ NumLogProcs \in Nat
    BY <1>0, ProcFacts DEF LogTypeOK
  <2>4. Emitting(t) /\ LogAhead(t, lNext[t]) /\ (Emitting(t)' \/ lPc'[t] = "idle")
        /\ \A p \in LogProcs : LogAhead(t, p)' <=> LogAhead(t, p) /\ p # lNext[t]
    <3>1. Emitting(t) /\ LogAhead(t, lNext[t]) /\ (Emitting(t)' \/ lPc'[t] = "idle")
      BY <1>0, <2>1, ProcFacts DEF Moved, Emitting, LogAhead, LogTypeOK
    <3>2. ASSUME NEW p \in LogProcs PROVE LogAhead(t, p)' <=> LogAhead(t, p) /\ p # lNext[t]
      <4>1. LogAhead(t, p) <=> lNext[t] <= p
        BY <2>1 DEF Moved, LogAhead
      <4>2. LogAhead(t, p)' <=> lNext[t] < p
        BY <2>1, <2>3 DEF Moved, LogAhead
      <4> QED
        BY <2>3, <4>1, <4>2
    <3> QED
      BY <3>1, <3>2
  <2>5. lNext[t] \notin SimpleProcs
    BY <2>2, ProcFacts
  <2>6. lPc'[t] \notin {"lock", "export"}
        /\ \A u \in LogThreads : u # t => lPc'[u] = lPc[u] /\ lNext'[u] = lNext[u]
    BY <2>1 DEF Moved
  <2> QED
    BY <1>0, <2>2, <2>4, <2>5, <2>6, DeliveryGiven
<1>9. CASE UNCHANGED logVars
  <2>1. UNCHANGED <<emitted, given, lateEmits, procDown, logExplicit, lPc, lNext>>
    BY <1>9 DEF logVars
  <2>2. /\ \A u \in LogThreads : Emitting(u)' <=> Emitting(u)
        /\ \A u \in LogThreads, p \in LogProcs : LogAhead(u, p)' <=> LogAhead(u, p)
    BY <2>1 DEF LogAhead, Emitting
  <2> QED
    BY <2>1, <2>2, <1>a, LogDeliveryUnchanged
<1> QED
  BY <1>2, <1>3, <1>4, <1>5, <1>6, <1>7, <1>8, <1>9, DeliveryBegin DEF LogNext

-----------------------------------------------------------------------------
(* The inductive invariant and what follows from it *)

LogIndInv == LogStructure /\ LogStopping /\ LogDelivery

LEMMA LogIndInvInit == LogInit => LogIndInv
<1> SUFFICES ASSUME LogInit PROVE LogIndInv
  OBVIOUS
<1>1. LogStructure
  BY LogStructureInit
<1>2. LogStopping
  <2>1. ~LogEnding /\ \A t \in LogThreads : ~LogStops(t)
    BY LoggerAssumption DEF LoggerAssumption, LogInit, LogStops, LogEnding
  <2> QED
    BY <2>1 DEF LogInit, LogStopping
<1>3. LogDelivery
  <2>1. \A p \in LogProcs : given[p] = <<>> /\ Range(given[p]) = {}
    BY DEF LogInit, Range
  <2>2. BegunRecords = {}
    BY ProcFacts DEF LogInit, BegunRecords, AllRecords
  <2>3. \A p \in LogProcs : Once(p)
    BY <2>1 DEF Once, IsInjective
  <2>4. Begun /\ lateEmits = {} /\ \A t \in LogThreads : lPc[t] = "idle"
    BY DEF LogInit, Begun, Emitting
  <2> QED
    BY <2>1, <2>2, <2>3, <2>4 DEF LogDelivery, InTime
<1> QED
  BY <1>1, <1>2, <1>3 DEF LogIndInv

LEMMA LogInductive == LogProviderSpec => []LogIndInv
<1>1. LogInit => LogIndInv
  BY LogIndInvInit
<1>2. LogIndInv /\ [LogNext]_logVars => LogIndInv'
  BY LogStructureStep, LogStoppingStep, LogDeliveryStep DEF LogIndInv, LogDelivery, Begun
<1> QED
  BY <1>1, <1>2, PTL DEF LogProviderSpec

(* Whatever exporters log while they export, no thread waits for itself.    *)
THEOREM MutexNeverReentered == LogProviderSpec => []NoWaitForOwnMutex
<1>1. LogIndInv => NoWaitForOwnMutex
  BY DEF LogIndInv, LogStructure, Mutexes, NoWaitForOwnMutex
<1> QED
  BY <1>1, LogInductive, PTL

(* However calls of shutdown and the last drop race: one shutdown.          *)
THEOREM ExportersStopOnce == LogProviderSpec => []LogExportersStopOnce
<1>1. LogIndInv => LogExportersStopOnce
  <2> SUFFICES ASSUME LogIndInv, NEW p \in LogProcs
               PROVE  /\ exporterStops[p] <= 1
                      /\ exporterStops[p] = 1 /\ ~logExplicit => logHandles \cup loggers = {}
                      /\ LogIdle /\ logHandles \cup loggers = {} => exporterStops[p] = 1
    BY DEF LogExportersStopOnce
  <2>1. LogStopping /\ logExplicit = logShutdown
    BY DEF LogIndInv, LogStructure, LogTypeOK
  <2>2. exporterStops[p] \in {0, 1} /\ (exporterStops[p] = 1 => LogEnding)
    BY <2>1 DEF LogStopping
  <2>3. LogIdle /\ LogEnding => exporterStops[p] = 1
    BY <2>1 DEF LogStopping, LogIdle, LogStops
  <2> QED
    BY <2>1, <2>2, <2>3 DEF LogEnding
<1> QED
  BY <1>1, LogInductive, PTL

(* Every record reaches every exporter once, or somebody shut it down; a     *)
(* processor with a flag exports none whose emit began after it was set.     *)
THEOREM RecordsDelivered == LogProviderSpec => []LogsDelivered
<1>1. LogIndInv => LogsDelivered
  <2> SUFFICES ASSUME LogIndInv, NEW p \in LogProcs
               PROVE  /\ IsInjective(given[p])
                      /\ InTime(p)
                      /\ LogIdle => \A r \in BegunRecords \ Range(given[p]) :
                            /\ logExplicit /\ p \in Stopped
                            /\ p \in ConcurrentProcs => <<p, r>> \in lateEmits
    BY DEF LogsDelivered, InTime
  <2>1. IsInjective(given[p]) /\ InTime(p)
    BY DEF LogIndInv, LogDelivery, Once
  <2>2. ASSUME LogIdle, NEW r \in BegunRecords \ Range(given[p])
        PROVE  /\ logExplicit /\ p \in Stopped
               /\ p \in ConcurrentProcs => <<p, r>> \in lateEmits
    <3>1. \A t \in LogThreads : ~LogAhead(t, p)
      BY <2>2 DEF LogIdle, LogAhead
    <3>2. Skipped(p)
      BY <2>2, <3>1 DEF LogIndInv, LogDelivery
    <3>3. p \in procDown /\ p \notin ConcurrentProcs
      BY <3>2, ProcFacts DEF Skipped, LogIndInv, LogStructure, LogTypeOK
    <3> QED
      BY <3>2, <3>3 DEF Skipped, Stopped
  <2> QED
    BY <2>1, <2>2
<1> QED
  BY <1>1, LogInductive, PTL
=============================================================================
