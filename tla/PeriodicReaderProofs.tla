------------------------ MODULE PeriodicReaderProofs ------------------------
(***************************************************************************)
(* Theorems about PeriodicReader for any users, interval and bounds.       *)
(*                                                                         *)
(* A measurement is in one place (Measurements), which needs that an       *)
(* instrument enters the pipeline once (Instruments).  Collections come in *)
(* time because the interval began no later than the collection at hand    *)
(* did (Clock).  That an answer stands for its own call needs who waits for*)
(* which message: a shutdown may be given up while its message is under    *)
(* way, but then nobody sends again (Owed, Answers).                       *)
(***************************************************************************)
EXTENDS PeriodicReader, FiniteSetTheorems, TLAPS

Kinds == {"none", "Flush", "Shutdown", "Drop"}
TypeOK ==
    /\ shutdownInvoked \in BOOLEAN /\ recorded \in Nat /\ exporterDown \in BOOLEAN
    /\ queue \in Seq(ReaderMessage)
    /\ rMessage \in ReaderMessage \cup {TimerMessage} /\ rOk \in BOOLEAN
    /\ rPc \in {"recv", "collect", "callbacks", "export", "done", "exit", "exited"}
    /\ elapsed \in Nat /\ remaining \in Nat /\ busy \in Nat /\ sinceCollection \in Nat
    /\ uPc \in [MetricUsers -> {"idle", "register", "send", "wait"}]
    /\ uKind \in [MetricUsers -> Kinds] /\ uMust \in [MetricUsers -> Nat]
    /\ hasInstrument \in [MetricUsers -> BOOLEAN]
    /\ reply \in [MetricUsers -> {"none", "true", "false", "closed"}]
    /\ uResult \in [MetricUsers -> {"none", "AlreadyShutdown", "InternalFailure", "Ok", "Timeout"}]

(* Who registers the instrument holds the cache, and finds it missing.      *)
Instruments ==
    /\ registered \in {0, 1}
    /\ \A u \in MetricUsers :
          /\ uPc[u] = "register" => cacheOwner = u /\ registered = 0
          /\ hasInstrument[u] => registered = 1

Measurements ==
    /\ 1..recorded = pending \cup rBatch \cup arrived \cup unexported
    /\ pending \cap (rBatch \cup arrived \cup unexported) = {}
    /\ rBatch \cap (arrived \cup unexported) = {} /\ arrived \cap unexported = {}
    /\ rBatch # {} => rPc = "export"

Working == rPc \in {"collect", "callbacks", "export", "done"}
Clock ==
    /\ CollectionsInTime
    /\ Working => sinceCollection = busy /\ sinceCollection <= elapsed

(* Whoever sent a message waits for its answer, or has given a shutdown up. *)
Waits(u) == uPc[u] = "wait" /\ reply[u] = "none"
Owes(message) ==
    \/ /\ Waits(message.by)
       /\ message.kind = IF uKind[message.by] = "Flush" THEN "Flush" ELSE "Shutdown"
    \/ message.kind = "Shutdown" /\ shutdownInvoked /\ uPc[message.by] \notin {"send", "wait"}
AtHand == Working /\ rMessage.kind # "Timer"
Callers ==
    \A u \in MetricUsers :
        /\ uPc[u] = "send" => reply[u] = "none"
        /\ uPc[u] \in {"send", "wait"} /\ uKind[u] # "Flush" => shutdownInvoked
Owed ==
    /\ \A i \in DOMAIN queue : Owes(queue[i])
    /\ \A i, j \in DOMAIN queue : queue[i].by = queue[j].by => i = j
    /\ AtHand => Owes(rMessage) /\ \A i \in DOMAIN queue : queue[i].by # rMessage.by
    /\ Callers

(* What was recorded before a call is exported when it is answered.         *)
Over(u) == 1..uMust[u] \subseteq arrived \cup unexported
Answers ==
    /\ \A u \in MetricUsers :
          /\ uMust[u] <= recorded
          /\ (uPc[u] = "wait" /\ reply[u] = "true") \/ uResult[u] = "Ok" =>
                Over(u) /\ (uKind[u] # "Flush" => exporterDown)
    /\ AtHand /\ uPc[rMessage.by] = "wait" =>
          /\ rPc = "export" => 1..uMust[rMessage.by] \subseteq rBatch \cup arrived \cup unexported
          /\ rPc = "done" /\ rOk => Over(rMessage.by)
    /\ exporterDown => rPc \in {"exit", "exited"}

IndInv == TypeOK /\ Instruments /\ Measurements /\ Clock /\ Owed /\ Answers

-----------------------------------------------------------------------------
LEMMA IndInvInit == ReaderInit => IndInv
<1> SUFFICES ASSUME ReaderInit PROVE IndInv
  OBVIOUS
<1>0. Interval \in Nat
  BY ReaderAssumption DEF ReaderAssumption
<1>1. TypeOK
  <2>1. queue \in Seq(ReaderMessage)
    BY DEF ReaderInit
  <2>2. /\ uPc \in [MetricUsers -> {"idle", "register", "send", "wait"}]
        /\ uKind \in [MetricUsers -> Kinds] /\ uMust \in [MetricUsers -> Nat]
        /\ hasInstrument \in [MetricUsers -> BOOLEAN]
        /\ reply \in [MetricUsers -> {"none", "true", "false", "closed"}]
        /\ uResult \in [MetricUsers -> {"none", "AlreadyShutdown", "InternalFailure", "Ok", "Timeout"}]
    BY DEF ReaderInit, Kinds
  <2> QED
    BY <1>0, <2>1, <2>2 DEF ReaderInit, TypeOK
<1>2. Instruments
  BY DEF ReaderInit, Instruments
<1>3. Measurements
  BY DEF ReaderInit, Measurements
<1>4. Clock
  BY <1>0 DEF ReaderInit, Clock, CollectionsInTime, Working
<1>5. Owed
  BY DEF ReaderInit, Owed, Callers, AtHand, Working
<1>6. Answers
  BY DEF ReaderInit, Answers, AtHand, Working
<1> QED
  BY <1>1, <1>2, <1>3, <1>4, <1>5, <1>6 DEF IndInv

-----------------------------------------------------------------------------
(* Who changes what *)

Collects == ReaderThread \/ Tick
Acts(u) ==
    GetInstrument(u) \/ AddInstrument(u) \/ Record(u) \/ UserCall(u) \/ UserWaits(u)

(* The thread leaves the users and the registration of instruments alone.   *)
LEMMA ThreadFrame ==
    ASSUME Collects
    PROVE  UNCHANGED <<shutdownInvoked, cacheOwner, registered, uPc, uKind, uResult, uMust,
                       hasInstrument, recorded>>
<1>1. CASE RecvMessage \/ RecvTimeout
  BY <1>1 DEF RecvMessage, RecvTimeout, StartCollection, providerVars, pipelineVars, userVars
<1>2. CASE BeginProduce \/ EndProduce \/ Export
  BY <1>2 DEF BeginProduce, EndProduce, Export, providerVars, pipelineVars, userVars
<1>3. CASE AnswerTimer \/ AnswerFlush \/ ShutdownExporter \/ Exit \/ Tick
  BY <1>3 DEF AnswerTimer, AnswerFlush, ShutdownExporter, Exit, Tick, providerVars, pipelineVars,
     userVars
<1> QED
  BY <1>1, <1>2, <1>3 DEF Collects, ReaderThread

(* A user leaves the thread, its clock and the exporter alone.              *)
LEMMA UserFrame ==
    ASSUME NEW u \in MetricUsers, Acts(u)
    PROVE  UNCHANGED <<elapsed, remaining, busy, sinceCollection, rPc, rMessage, rBatch, rOk,
                       arrived, unexported, exporterDown>>
<1>1. CASE GetInstrument(u) \/ AddInstrument(u) \/ Record(u)
  BY <1>1 DEF GetInstrument, AddInstrument, Record, clockVars, threadVars, outcomeVars
<1>2. CASE UserCall(u)
  BY <1>2 DEF UserCall, BeginFlush, BeginShutdown, DropHandle, GiveUp, clockVars, threadVars,
     outcomeVars
<1>3. CASE UserWaits(u)
  BY <1>3 DEF UserWaits, Send, Receive, clockVars, threadVars, outcomeVars
<1> QED
  BY <1>1, <1>2, <1>3 DEF Acts

(* A user either is about its instrument, or begins, sends or ends a call.  *)
Begins(u) ==
    /\ uPc[u] = "idle" /\ \E kind \in Kinds \ {"none"}, result \in {"none", "AlreadyShutdown"} :
          /\ Begin(u, kind, IF result = "none" THEN "send" ELSE "idle", result)
          /\ result = "none" => ~shutdownInvoked /\ (kind # "Flush" => shutdownInvoked')
    /\ shutdownInvoked => shutdownInvoked'
    /\ shutdownInvoked' \in BOOLEAN /\ UNCHANGED queue
Sends(u) ==
    /\ uPc[u] = "send" /\ uPc' = [uPc EXCEPT ![u] = "wait"]
    /\ queue' = Append(queue, [kind |-> IF uKind[u] = "Flush" THEN "Flush" ELSE "Shutdown", by |-> u])
    /\ UNCHANGED <<shutdownInvoked, uKind, uResult, uMust, reply>>
Ends(u) ==
    /\ uPc[u] = "send" \/ (uPc[u] = "wait" /\ (reply[u] # "none" \/ uKind[u] # "Flush"))
    /\ uPc' = [uPc EXCEPT ![u] = "idle"]
    /\ \E result \in {"InternalFailure", "Ok", "Timeout"} :
          /\ uResult' = [uResult EXCEPT ![u] = result]
          /\ result = "Ok" => uPc[u] = "wait" /\ reply[u] = "true"
    /\ UNCHANGED <<shutdownInvoked, uKind, uMust, reply, queue>>
Prepares(u) ==
    /\ uPc[u] \in {"idle", "register"}
    /\ \E pc \in {"idle", "register"} : uPc' = [uPc EXCEPT ![u] = pc]
    /\ UNCHANGED <<shutdownInvoked, uKind, uResult, uMust, reply, queue>>

LEMMA CallSteps ==
    ASSUME TypeOK, NEW u \in MetricUsers, Acts(u)
    PROVE  Begins(u) \/ Sends(u) \/ Ends(u) \/ Prepares(u)
<1>0. uPc \in [MetricUsers -> {"idle", "register", "send", "wait"}] /\ shutdownInvoked \in BOOLEAN
  BY DEF TypeOK
<1>1. CASE GetInstrument(u)
  <2>1. /\ uPc[u] = "idle" /\ (UNCHANGED uPc \/ uPc' = [uPc EXCEPT ![u] = "register"])
        /\ UNCHANGED <<shutdownInvoked, uKind, uResult, uMust, reply, queue>>
    BY <1>1 DEF GetInstrument, providerVars
  <2>2. uPc = [uPc EXCEPT ![u] = uPc[u]]
    BY <1>0
  <2> QED
    BY <2>1, <2>2 DEF Prepares
<1>2. CASE AddInstrument(u)
  BY <1>2 DEF AddInstrument, Prepares, providerVars
<1>3. CASE Record(u)
  <2>1. uPc[u] = "idle" /\ UNCHANGED <<shutdownInvoked, uPc, uKind, uResult, uMust, reply, queue>>
    BY <1>3 DEF Record, providerVars, userVars
  <2>2. uPc = [uPc EXCEPT ![u] = uPc[u]]
    BY <1>0
  <2> QED
    BY <2>1, <2>2 DEF Prepares
<1>4. CASE BeginFlush(u)
  <2>1. uPc[u] = "idle" /\ UNCHANGED <<shutdownInvoked, queue>>
    BY <1>4 DEF BeginFlush, providerVars
  <2>2. CASE shutdownInvoked
    BY <1>0, <1>4, <2>1, <2>2 DEF BeginFlush, Begins, Begin, Kinds
  <2>3. CASE ~shutdownInvoked
    BY <1>0, <1>4, <2>1, <2>3 DEF BeginFlush, Begins, Begin, Kinds
  <2> QED
    BY <2>2, <2>3
<1>5. CASE BeginShutdown(u)
  <2>1. uPc[u] = "idle" /\ shutdownInvoked' = TRUE /\ UNCHANGED queue
    BY <1>5 DEF BeginShutdown
  <2>2. CASE shutdownInvoked
    BY <1>0, <1>5, <2>1, <2>2 DEF BeginShutdown, Begins, Begin, Kinds
  <2>3. CASE ~shutdownInvoked
    BY <1>0, <1>5, <2>1, <2>3 DEF BeginShutdown, Begins, Begin, Kinds
  <2> QED
    BY <2>2, <2>3
<1>6. CASE DropHandle(u)
  <2>1. uPc[u] = "idle" /\ UNCHANGED queue /\ DropInner(u)
    BY <1>6 DEF DropHandle
  <2>2. CASE handles = {u} /\ ~shutdownInvoked
    BY <1>0, <2>1, <2>2 DEF DropInner, Begins, Begin, Kinds
  <2>3. CASE ~(handles = {u} /\ ~shutdownInvoked)
    <3>1. UNCHANGED <<shutdownInvoked, uPc, uKind, uResult, uMust, reply>>
      BY <2>1, <2>3 DEF DropInner
    <3>2. uPc = [uPc EXCEPT ![u] = uPc[u]]
      BY <1>0
    <3> QED
      BY <2>1, <3>1, <3>2 DEF Prepares
  <2> QED
    BY <2>2, <2>3
<1>7. CASE GiveUp(u)
  BY <1>7 DEF GiveUp, Ends, Finish, providerVars
<1>8. CASE Send(u)
  BY <1>8 DEF Send, Sends, Ends, Finish, providerVars
<1>9. CASE Receive(u)
  BY <1>9 DEF Receive, Ends, Finish, providerVars
<1> QED
  BY <1>1, <1>2, <1>3, <1>4, <1>5, <1>6, <1>7, <1>8, <1>9 DEF Acts, UserCall, UserWaits

-----------------------------------------------------------------------------
(* Types *)

LEMMA QueueTypes ==
    ASSUME TypeOK, queue # <<>>
    PROVE  /\ Head(queue) \in ReaderMessage /\ Tail(queue) \in Seq(ReaderMessage)
           /\ 1 \in DOMAIN queue /\ Head(queue) = queue[1]
           /\ \A i \in DOMAIN Tail(queue) :
                 i \in Nat \ {0} /\ i + 1 \in DOMAIN queue /\ Tail(queue)[i] = queue[i + 1]
<1>0. queue \in Seq(ReaderMessage)
  BY DEF TypeOK
<1>1. Len(queue) \in Nat \ {0} /\ DOMAIN queue = 1..Len(queue)
  BY <1>0
<1>2. /\ Tail(queue) \in Seq(ReaderMessage) /\ DOMAIN Tail(queue) = 1..(Len(queue) - 1)
      /\ \A i \in 1..(Len(queue) - 1) : Tail(queue)[i] = queue[i + 1]
  BY <1>0
<1>3. Head(queue) \in ReaderMessage /\ Head(queue) = queue[1]
  BY <1>0, <1>1
<1> QED
  BY <1>1, <1>2, <1>3

LEMMA MessageKind ==
    ASSUME NEW m \in ReaderMessage PROVE m.kind \in {"Flush", "Shutdown"} /\ m.by \in MetricUsers
BY DEF ReaderMessage

(* The types of what only the thread changes. *)
ThreadTypes ==
    /\ rMessage \in ReaderMessage \cup {TimerMessage} /\ rOk \in BOOLEAN /\ exporterDown \in BOOLEAN
    /\ rPc \in {"recv", "collect", "callbacks", "export", "done", "exit", "exited"}
    /\ elapsed \in Nat /\ remaining \in Nat /\ busy \in Nat /\ sinceCollection \in Nat
(* What it shares with the users. *)
SharedTypes ==
    /\ queue \in Seq(ReaderMessage)
    /\ reply \in [MetricUsers -> {"none", "true", "false", "closed"}]

LEMMA ThreadStepTypes == ASSUME TypeOK, Collects PROVE ThreadTypes' /\ SharedTypes'
<1>0. Interval \in Nat
  BY ReaderAssumption DEF ReaderAssumption
<1>1. ThreadTypes /\ SharedTypes
  BY DEF TypeOK, ThreadTypes, SharedTypes
<1>2. CASE RecvMessage
  <2>1. queue # <<>> /\ queue' = Tail(queue) /\ StartCollection(Head(queue))
    BY <1>2 DEF RecvMessage
  <2>2. Head(queue) \in ReaderMessage /\ Tail(queue) \in Seq(ReaderMessage)
    BY <2>1, QueueTypes
  <2> QED
    BY <1>1, <2>1, <2>2 DEF StartCollection, FirstStep, ThreadTypes, SharedTypes, outcomeVars
<1>3. CASE RecvTimeout
  BY <1>1, <1>3 DEF RecvTimeout, StartCollection, FirstStep, ThreadTypes, SharedTypes, outcomeVars
<1>4. CASE BeginProduce \/ EndProduce \/ Export
  BY <1>1, <1>4
     DEF BeginProduce, EndProduce, Export, ThreadTypes, SharedTypes, clockVars, outcomeVars
<1>5. CASE AnswerTimer
  BY <1>0, <1>1, <1>5
     DEF AnswerTimer, NextMessage, NextInterval, ThreadTypes, SharedTypes, outcomeVars
<1>6. CASE AnswerFlush
  <2>1. reply' \in [MetricUsers -> {"none", "true", "false", "closed"}]
    BY <1>1, <1>6 DEF AnswerFlush, Respond, SharedTypes
  <2>2. elapsed' \in Nat /\ remaining' \in Nat
    BY <1>0, <1>1, <1>6 DEF AnswerFlush, ThreadTypes
  <2> QED
    BY <1>1, <1>6, <2>1, <2>2 DEF AnswerFlush, NextMessage, ThreadTypes, SharedTypes, outcomeVars
<1>7. CASE ShutdownExporter
  <2>1. reply' \in [MetricUsers -> {"none", "true", "false", "closed"}]
    BY <1>1, <1>7 DEF ShutdownExporter, Respond, SharedTypes
  <2> QED
    BY <1>1, <1>7, <2>1 DEF ShutdownExporter, ThreadTypes, SharedTypes, clockVars
<1>8. CASE Exit
  <2>1. reply' \in [MetricUsers -> {"none", "true", "false", "closed"}]
    BY <1>1, <1>8 DEF Exit, LeaveLoop, SharedTypes
  <2>2. queue' \in Seq(ReaderMessage)
    BY <1>8 DEF Exit, LeaveLoop
  <2> QED
    BY <1>1, <1>8, <2>1, <2>2 DEF Exit, LeaveLoop, ThreadTypes, SharedTypes, clockVars, outcomeVars
<1>9. CASE Tick
  BY <1>1, <1>9 DEF Tick, ThreadTypes, SharedTypes, threadVars, outcomeVars
<1> QED
  BY <1>2, <1>3, <1>4, <1>5, <1>6, <1>7, <1>8, <1>9 DEF Collects, ReaderThread

LEMMA CallStepTypes ==
    ASSUME TypeOK, NEW u \in MetricUsers, Begins(u) \/ Sends(u) \/ Ends(u) \/ Prepares(u)
    PROVE  /\ SharedTypes' /\ shutdownInvoked' \in BOOLEAN
           /\ uPc' \in [MetricUsers -> {"idle", "register", "send", "wait"}]
           /\ uKind' \in [MetricUsers -> Kinds] /\ uMust' \in [MetricUsers -> Nat]
           /\ uResult' \in [MetricUsers ->
                               {"none", "AlreadyShutdown", "InternalFailure", "Ok", "Timeout"}]
<1>1. CASE Begins(u)
  BY <1>1 DEF TypeOK, SharedTypes, Begins, Begin
<1>2. CASE Sends(u)
  <2>1. queue' \in Seq(ReaderMessage)
    <3>1. [kind |-> IF uKind[u] = "Flush" THEN "Flush" ELSE "Shutdown", by |-> u] \in ReaderMessage
      BY DEF ReaderMessage
    <3> QED
      BY <1>2, <3>1 DEF TypeOK, Sends
  <2> QED
    BY <1>2, <2>1 DEF TypeOK, SharedTypes, Sends
<1>3. CASE Ends(u)
  BY <1>3 DEF TypeOK, SharedTypes, Ends, Finish
<1>4. CASE Prepares(u)
  BY <1>4 DEF TypeOK, SharedTypes, Prepares
<1> QED
  BY <1>1, <1>2, <1>3, <1>4

LEMMA UserInstrumentTypes ==
    ASSUME TypeOK, NEW u \in MetricUsers, Acts(u)
    PROVE  recorded' \in Nat /\ hasInstrument' \in [MetricUsers -> BOOLEAN]
<1>0. recorded \in Nat /\ hasInstrument \in [MetricUsers -> BOOLEAN]
  BY DEF TypeOK
<1>1. CASE GetInstrument(u) \/ AddInstrument(u)
  <2>1. UNCHANGED recorded
    BY <1>1 DEF GetInstrument, AddInstrument
  <2>2. UNCHANGED hasInstrument \/ hasInstrument' = [hasInstrument EXCEPT ![u] = TRUE]
    BY <1>1 DEF GetInstrument, AddInstrument
  <2> QED
    BY <1>0, <2>1, <2>2
<1>2. CASE Record(u)
  BY <1>0, <1>2 DEF Record
<1>3. CASE UserCall(u) \/ UserWaits(u)
  BY <1>0, <1>3
     DEF UserCall, UserWaits, BeginFlush, BeginShutdown, DropHandle, GiveUp, Send, Receive
<1> QED
  BY <1>1, <1>2, <1>3 DEF Acts

LEMMA TypeStep ==
    ASSUME TypeOK, Collects \/ \E u \in MetricUsers : Acts(u)
    PROVE  TypeOK'
<1>1. CASE Collects
  BY <1>1, ThreadFrame, ThreadStepTypes DEF TypeOK, ThreadTypes, SharedTypes
<1>2. ASSUME NEW u \in MetricUsers, Acts(u) PROVE TypeOK'
  <2>1. Begins(u) \/ Sends(u) \/ Ends(u) \/ Prepares(u)
    BY <1>2, CallSteps
  <2> QED
    BY <1>2, <2>1, UserFrame, CallStepTypes, UserInstrumentTypes DEF TypeOK, SharedTypes
<1> QED
  BY <1>1, <1>2

-----------------------------------------------------------------------------
(* Instruments, measurements and the clock *)

LEMMA InstrumentsStep ==
    ASSUME TypeOK, Instruments, Collects \/ \E u \in MetricUsers : Acts(u)
    PROVE  Instruments'
<1>1. CASE Collects
  BY <1>1, ThreadFrame DEF Instruments
<1>2. ASSUME NEW u \in MetricUsers, Acts(u) PROVE Instruments'
  <2>0. /\ uPc \in [MetricUsers -> {"idle", "register", "send", "wait"}]
        /\ hasInstrument \in [MetricUsers -> BOOLEAN]
    BY DEF TypeOK
  <2>1. CASE GetInstrument(u)
    <3>1. UNCHANGED registered
      BY <2>1 DEF GetInstrument
    <3>2. CASE registered > 0
      BY <2>0, <2>1, <3>1, <3>2 DEF GetInstrument, Instruments
    <3>3. CASE ~(registered > 0)
      <4>1. registered = 0
        BY <3>3 DEF Instruments
      <4>2. cacheOwner = NoOwner /\ cacheOwner' = u /\ uPc' = [uPc EXCEPT ![u] = "register"]
            /\ UNCHANGED hasInstrument
        BY <2>1, <3>3 DEF GetInstrument, LockCache
      <4>3. \A v \in MetricUsers : uPc[v] # "register"
        <5>1. NoOwner \notin MetricUsers
          BY ReaderAssumption DEF ReaderAssumption
        <5> QED
          BY <4>2, <5>1 DEF Instruments
      <4> QED
        BY <2>0, <3>1, <4>1, <4>2, <4>3 DEF Instruments
    <3> QED
      BY <3>2, <3>3
  <2>2. CASE AddInstrument(u)
    <3>1. /\ uPc[u] = "register" /\ registered' = registered + 1
          /\ uPc' = [uPc EXCEPT ![u] = "idle"]
          /\ hasInstrument' = [hasInstrument EXCEPT ![u] = TRUE]
      BY <2>2 DEF AddInstrument
    <3>2. registered = 0 /\ cacheOwner = u
      BY <3>1 DEF Instruments
    <3>3. \A v \in MetricUsers : uPc'[v] # "register"
      BY <2>0, <3>1, <3>2 DEF Instruments
    <3> QED
      BY <2>0, <3>1, <3>2, <3>3 DEF Instruments
  <2>3. CASE Record(u)
    BY <2>3 DEF Record, Instruments, pipelineVars, userVars
  <2>4. CASE UserCall(u) \/ UserWaits(u)
    <3>1. UNCHANGED <<cacheOwner, registered, hasInstrument>>
      BY <2>4 DEF UserCall, UserWaits, BeginFlush, BeginShutdown, DropHandle, GiveUp, Send, Receive,
         pipelineVars
    <3>2. \A v \in MetricUsers : uPc'[v] = "register" => uPc[v] = "register"
      <4>1. CASE UserWaits(u) \/ GiveUp(u)
        BY <2>0, <4>1 DEF UserWaits, GiveUp, Send, Receive, Finish
      <4>2. CASE BeginFlush(u)
        BY <2>0, <4>2 DEF BeginFlush, Begin
      <4>3. CASE BeginShutdown(u)
        BY <2>0, <4>3 DEF BeginShutdown, Begin
      <4>4. CASE DropHandle(u)
        BY <2>0, <4>4 DEF DropHandle, DropInner, Begin
      <4> QED
        BY <2>4, <4>1, <4>2, <4>3, <4>4 DEF UserCall
    <3> QED
      BY <3>1, <3>2 DEF Instruments
  <2> QED
    BY <1>2, <2>1, <2>2, <2>3, <2>4 DEF Acts
<1> QED
  BY <1>1, <1>2

LEMMA MeasurementsStep ==
    ASSUME TypeOK, Measurements, Collects \/ \E u \in MetricUsers : Acts(u)
    PROVE  Measurements'
<1>0. recorded \in Nat
  BY DEF TypeOK
<1>1. CASE Collects
  <2>0. UNCHANGED recorded
    BY <1>1, ThreadFrame
  <2>1. CASE RecvMessage \/ RecvTimeout
    <3>1. rPc = "recv" /\ rBatch' = {} /\ UNCHANGED <<pending, arrived, unexported>>
      BY <2>1 DEF RecvMessage, RecvTimeout, StartCollection, outcomeVars
    <3>2. rBatch = {}
      BY <3>1 DEF Measurements
    <3> QED
      BY <2>0, <3>1, <3>2 DEF Measurements
  <2>2. CASE EndProduce
    <3>1. /\ rPc = "callbacks" /\ rBatch' = pending /\ pending' = {}
          /\ rPc' = (IF pending = {} THEN "done" ELSE "export") /\ UNCHANGED <<arrived, unexported>>
      BY <2>2 DEF EndProduce, outcomeVars
    <3>2. rBatch = {}
      BY <3>1 DEF Measurements
    <3> QED
      BY <2>0, <3>1, <3>2 DEF Measurements
  <2>3. CASE Export
    <3>1. /\ rBatch' = {} /\ UNCHANGED pending
          /\ \/ arrived' = arrived \cup rBatch /\ UNCHANGED unexported
             \/ unexported' = unexported \cup rBatch /\ UNCHANGED arrived
      BY <2>3 DEF Export
    <3> QED
      BY <2>0, <3>1 DEF Measurements
  <2>4. CASE BeginProduce \/ AnswerTimer \/ AnswerFlush \/ ShutdownExporter \/ Exit \/ Tick
    <3>1. UNCHANGED <<pending, rBatch, arrived, unexported>>
      BY <2>4 DEF BeginProduce, AnswerTimer, AnswerFlush, ShutdownExporter, Exit, Tick, threadVars,
         outcomeVars
    <3>2. rPc = "export" => rPc' = "export"
      BY <2>4 DEF BeginProduce, AnswerTimer, AnswerFlush, ShutdownExporter, Exit, Tick, threadVars
    <3> QED
      BY <2>0, <3>1, <3>2 DEF Measurements
  <2> QED
    BY <1>1, <2>1, <2>2, <2>3, <2>4 DEF Collects, ReaderThread
<1>2. ASSUME NEW u \in MetricUsers, Acts(u) PROVE Measurements'
  <2>0. UNCHANGED <<rPc, rBatch, arrived, unexported>>
    BY <1>2, UserFrame
  <2>1. CASE Record(u)
    <3>1. recorded' = recorded + 1 /\ pending' = pending \cup {recorded'}
      BY <2>1 DEF Record
    <3>2. 1..recorded' = 1..recorded \cup {recorded'} /\ recorded' \notin 1..recorded
      BY <1>0, <3>1
    <3> QED
      BY <2>0, <3>1, <3>2 DEF Measurements
  <2>2. CASE ~Record(u)
    <3>1. UNCHANGED <<pending, recorded>>
      BY <1>2, <2>2 DEF Acts, UserCall, UserWaits, GetInstrument, AddInstrument, BeginFlush,
         BeginShutdown, DropHandle, GiveUp, Send, Receive
    <3> QED
      BY <2>0, <3>1 DEF Measurements
  <2> QED
    BY <2>1, <2>2
<1> QED
  BY <1>1, <1>2

LEMMA ClockStep ==
    ASSUME TypeOK, Clock, Collects \/ \E u \in MetricUsers : Acts(u)
    PROVE  Clock'
<1>0. /\ Interval \in Nat
      /\ elapsed \in Nat /\ remaining \in Nat /\ busy \in Nat /\ sinceCollection \in Nat
  BY ReaderAssumption DEF ReaderAssumption, TypeOK
<1>1. CASE RecvMessage \/ RecvTimeout
  <2>1. rPc' = "collect" /\ busy' = 0 /\ sinceCollection' = 0 /\ UNCHANGED elapsed
    BY <1>1 DEF RecvMessage, RecvTimeout, StartCollection, FirstStep
  <2> QED
    BY <1>0, <2>1 DEF Clock, CollectionsInTime
<1>2. CASE BeginProduce \/ EndProduce \/ Export
  <2>1. /\ Working /\ rPc' # "recv"
        /\ UNCHANGED <<elapsed, remaining, busy, sinceCollection>>
    BY <1>2 DEF BeginProduce, EndProduce, Export, clockVars, Working
  <2> QED
    BY <2>1 DEF Clock, CollectionsInTime
<1>3. CASE AnswerTimer
  <2>1. /\ Working /\ rPc' = "recv" /\ UNCHANGED <<busy, sinceCollection>>
        /\ remaining' = IF busy > Interval THEN 0 ELSE Interval - busy
    BY <1>3 DEF AnswerTimer, NextMessage, NextInterval, Working
  <2>2. sinceCollection = busy
    BY <2>1 DEF Clock
  <2> QED
    BY <1>0, <2>1, <2>2 DEF Clock, CollectionsInTime, Working
<1>4. CASE AnswerFlush
  <2>1. /\ Working /\ rPc' = "recv" /\ UNCHANGED <<busy, sinceCollection>>
        /\ remaining' = IF elapsed < Interval THEN Interval - elapsed ELSE 0
    BY <1>4 DEF AnswerFlush, NextMessage, Working
  <2>2. sinceCollection = busy /\ sinceCollection <= elapsed
    BY <2>1 DEF Clock
  <2>3. sinceCollection' + remaining' <= IF Interval > busy' THEN Interval ELSE busy'
    <3>1. CASE elapsed < Interval
      BY <1>0, <2>1, <2>2, <3>1
    <3>2. CASE ~(elapsed < Interval)
      BY <1>0, <2>1, <2>2, <3>2
    <3> QED
      BY <3>1, <3>2
  <2> QED
    BY <2>1, <2>3 DEF Clock, CollectionsInTime, Working
<1>5. CASE ShutdownExporter \/ Exit
  BY <1>5 DEF ShutdownExporter, Exit, LeaveLoop, Clock, CollectionsInTime, Working
<1>6. CASE Tick
  <2>1. UNCHANGED rPc /\ elapsed' = elapsed + 1 /\ sinceCollection' = sinceCollection + 1
    BY <1>6 DEF Tick, threadVars
  <2>2. CASE rPc = "recv" /\ remaining > 0 /\ remaining' = remaining - 1 /\ UNCHANGED busy
    BY <1>0, <2>1, <2>2 DEF Clock, CollectionsInTime, Working
  <2>3. CASE rPc \in {"collect", "callbacks", "export"} /\ busy' = busy + 1
    BY <1>0, <2>1, <2>3 DEF Clock, CollectionsInTime, Working
  <2> QED
    BY <1>6, <2>2, <2>3 DEF Tick
<1>7. ASSUME NEW u \in MetricUsers, Acts(u) PROVE Clock'
  BY <1>7, UserFrame DEF Clock, CollectionsInTime, Working
<1> QED
  BY <1>1, <1>2, <1>3, <1>4, <1>5, <1>6, <1>7 DEF Collects, ReaderThread

-----------------------------------------------------------------------------
(* Messages *)

(* A step of a user that sends nothing keeps the messages owed.             *)
LEMMA OwedByUsers ==
    ASSUME TypeOK, Owed, UNCHANGED <<queue, rPc, rMessage>>,
           \A m \in ReaderMessage : Owes(m) => Owes(m)', Callers'
    PROVE  Owed'
<1>1. queue \in Seq(ReaderMessage) /\ (AtHand => rMessage \in ReaderMessage)
  BY DEF TypeOK, AtHand, TimerMessage
<1>2. \A i \in DOMAIN queue : queue[i] \in ReaderMessage
  BY <1>1
<1>3. \A i \in DOMAIN queue' : Owes(queue[i])'
  BY <1>2 DEF Owed, Owes, Waits
<1>4. AtHand' => AtHand /\ Owes(rMessage)'
  BY <1>1 DEF Owed, AtHand, Working
<1> QED
  BY <1>3, <1>4 DEF Owed

LEMMA OwedUserStep ==
    ASSUME TypeOK, Owed, NEW u \in MetricUsers, Acts(u)
    PROVE  Owed'
<1>0. /\ uPc \in [MetricUsers -> {"idle", "register", "send", "wait"}]
      /\ uKind \in [MetricUsers -> Kinds] /\ queue \in Seq(ReaderMessage)
      /\ reply \in [MetricUsers -> {"none", "true", "false", "closed"}]
      /\ uResult \in [MetricUsers ->
                         {"none", "AlreadyShutdown", "InternalFailure", "Ok", "Timeout"}]
      /\ uMust \in [MetricUsers -> Nat]
  BY DEF TypeOK
<1>1. UNCHANGED <<rPc, rMessage>>
  BY UserFrame
<1>2. Begins(u) \/ Sends(u) \/ Ends(u) \/ Prepares(u)
  BY CallSteps
<1>3. \A m \in ReaderMessage : m.by \in MetricUsers /\ m.kind \in {"Flush", "Shutdown"}
  BY MessageKind
<1>4. CASE Begins(u)
  <2>1. PICK kind \in Kinds \ {"none"}, result \in {"none", "AlreadyShutdown"} :
             /\ Begin(u, kind, IF result = "none" THEN "send" ELSE "idle", result)
             /\ result = "none" => ~shutdownInvoked /\ (kind # "Flush" => shutdownInvoked')
    BY <1>4 DEF Begins
  <2>2. uPc[u] = "idle" /\ UNCHANGED queue /\ (shutdownInvoked => shutdownInvoked')
    BY <1>4 DEF Begins
  <2>3. /\ \A v \in MetricUsers \ {u} :
              uPc'[v] = uPc[v] /\ uKind'[v] = uKind[v] /\ reply'[v] = reply[v]
        /\ uKind'[u] = kind /\ uPc'[u] = IF result = "none" THEN "send" ELSE "idle"
    BY <1>0, <2>1 DEF Begin
  <2>4. \A m \in ReaderMessage : Owes(m) => Owes(m)'
    <3> SUFFICES ASSUME NEW m \in ReaderMessage, Owes(m) PROVE Owes(m)'
      OBVIOUS
    <3>1. CASE m.by = u
      BY <2>1, <2>2, <2>3, <3>1 DEF Owes, Waits
    <3>2. CASE m.by # u
      BY <1>3, <2>2, <2>3, <3>2 DEF Owes, Waits
    <3> QED
      BY <3>1, <3>2
  <2>5. Callers'
    BY <2>1, <2>2, <2>3 DEF Owed, Callers, Begin, TypeOK
  <2> QED
    BY <1>1, <2>2, <2>4, <2>5, OwedByUsers
<1>5. CASE Sends(u)
  <2>0. PICK new : new = [kind |-> IF uKind[u] = "Flush" THEN "Flush" ELSE "Shutdown", by |-> u]
    OBVIOUS
  <2>n. PICK n : n = Len(queue) + 1
    OBVIOUS
  <2>1. /\ uPc[u] = "send" /\ uPc' = [uPc EXCEPT ![u] = "wait"] /\ queue' = Append(queue, new)
        /\ UNCHANGED <<shutdownInvoked, uKind, uResult, uMust, reply>>
    BY <1>5, <2>0 DEF Sends
  <2>2. new \in ReaderMessage /\ new.by = u
        /\ new.kind = IF uKind[u] = "Flush" THEN "Flush" ELSE "Shutdown"
    BY <2>0 DEF ReaderMessage
  <2>3. /\ DOMAIN queue' = DOMAIN queue \cup {n} /\ queue'[n] = new
        /\ \A i \in DOMAIN queue : queue'[i] = queue[i] /\ queue[i] \in ReaderMessage
    <3>1. Len(queue) \in Nat /\ DOMAIN queue = 1..Len(queue)
      BY <1>0
    <3>2. DOMAIN queue' = 1..n /\ queue'[n] = new
          /\ \A i \in 1..Len(queue) : queue'[i] = queue[i] /\ queue[i] \in ReaderMessage
      BY <1>0, <2>1, <2>2, <2>n
    <3>3. 1..n = 1..Len(queue) \cup {n}
      BY <2>n, <3>1
    <3> QED
      BY <3>1, <3>2, <3>3
  <2>4. \A m \in ReaderMessage : Owes(m) => m.by # u /\ Owes(m)'
    BY <1>0, <1>3, <2>1 DEF Owes, Waits
  <2>5. reply[u] = "none"
    BY <2>1 DEF Owed, Callers
  <2>6. Owes(new)'
    BY <1>0, <2>1, <2>2, <2>5 DEF Owes, Waits
  <2>7. AtHand => rMessage \in ReaderMessage
    BY DEF TypeOK, AtHand, TimerMessage
  <2>8. \A i \in DOMAIN queue' : Owes(queue[i])'
    <3> SUFFICES ASSUME NEW i \in DOMAIN queue' PROVE Owes(queue[i])'
      OBVIOUS
    <3>1. CASE i \in DOMAIN queue
      <4>1. Owes(queue[i]) /\ queue[i] \in ReaderMessage /\ queue'[i] = queue[i]
        BY <2>3, <3>1 DEF Owed
      <4> QED
        BY <2>4, <4>1 DEF Owes, Waits
    <3>2. CASE i = n
      BY <2>3, <2>5, <2>6, <3>2 DEF Owes, Waits
    <3> QED
      BY <2>3, <3>1, <3>2
  <2>9. \A i \in DOMAIN queue : queue[i].by # u
    BY <2>3, <2>4 DEF Owed
  <2>10. \A i, j \in DOMAIN queue' : queue'[i].by = queue'[j].by => i = j
    BY <2>2, <2>3, <2>9 DEF Owed
  <2>11. AtHand' => /\ Owes(rMessage)'
                    /\ \A i \in DOMAIN queue' : queue'[i].by # rMessage'.by
    <3> SUFFICES ASSUME AtHand' PROVE /\ Owes(rMessage)'
                                      /\ \A i \in DOMAIN queue' : queue'[i].by # rMessage'.by
      OBVIOUS
    <3>1. AtHand
      BY <1>1 DEF AtHand, Working
    <3>2. Owes(rMessage) /\ rMessage.by # u
      BY <2>4, <2>7, <3>1 DEF Owed
    <3>3. Owes(rMessage)'
      BY <1>1, <2>4, <2>7, <3>1, <3>2 DEF Owes, Waits
    <3>4. \A i \in DOMAIN queue' : queue'[i].by # rMessage'.by
      BY <1>1, <2>2, <2>3, <3>1, <3>2 DEF Owed
    <3> QED
      BY <3>3, <3>4
  <2>12. Callers'
    BY <1>0, <2>1 DEF Owed, Callers
  <2> QED
    BY <2>8, <2>10, <2>11, <2>12 DEF Owed
<1>6. CASE Ends(u)
  <2>1. /\ uPc[u] = "send" \/ (uPc[u] = "wait" /\ (reply[u] # "none" \/ uKind[u] # "Flush"))
        /\ uPc' = [uPc EXCEPT ![u] = "idle"] /\ UNCHANGED <<shutdownInvoked, uKind, reply, queue>>
    BY <1>6 DEF Ends
  <2>2. \A m \in ReaderMessage : Owes(m) => Owes(m)'
    <3> SUFFICES ASSUME NEW m \in ReaderMessage, Owes(m) PROVE Owes(m)'
      OBVIOUS
    <3>1. CASE m.by = u
      <4>1. ~(m.kind = "Shutdown" /\ shutdownInvoked /\ uPc[u] \notin {"send", "wait"})
        BY <2>1
      <4>2. Waits(u) /\ m.kind = IF uKind[u] = "Flush" THEN "Flush" ELSE "Shutdown"
        BY <3>1, <4>1 DEF Owes
      <4>3. uKind[u] # "Flush" /\ uPc[u] = "wait"
        BY <2>1, <4>2 DEF Waits
      <4> QED
        BY <1>0, <2>1, <3>1, <4>2, <4>3 DEF Owes, Owed, Callers
    <3>2. CASE m.by # u
      BY <1>0, <1>3, <2>1, <3>2 DEF Owes, Waits
    <3> QED
      BY <3>1, <3>2
  <2>3. Callers'
    BY <1>0, <2>1 DEF Owed, Callers
  <2> QED
    BY <1>1, <2>1, <2>2, <2>3, OwedByUsers
<1>7. CASE Prepares(u)
  <2>1. PICK pc \in {"idle", "register"} : uPc' = [uPc EXCEPT ![u] = pc]
    BY <1>7 DEF Prepares
  <2>2. uPc[u] \notin {"send", "wait"} /\ UNCHANGED <<shutdownInvoked, uKind, reply, queue>>
    BY <1>7 DEF Prepares
  <2>3. \A m \in ReaderMessage : Owes(m) => Owes(m)'
    BY <1>0, <1>3, <2>1, <2>2 DEF Owes, Waits
  <2>4. Callers'
    BY <1>0, <2>1, <2>2 DEF Owed, Callers
  <2> QED
    BY <1>1, <2>2, <2>3, <2>4, OwedByUsers
<1> QED
  BY <1>2, <1>4, <1>5, <1>6, <1>7

LEMMA OwedThreadStep ==
    ASSUME TypeOK, Owed, Collects
    PROVE  Owed'
<1>0. /\ UNCHANGED <<shutdownInvoked, uPc, uKind>> /\ queue \in Seq(ReaderMessage)
      /\ reply \in [MetricUsers -> {"none", "true", "false", "closed"}]
  BY ThreadFrame DEF TypeOK
<1>a. \A i \in DOMAIN queue : queue[i] \in ReaderMessage /\ Owes(queue[i])
  BY <1>0 DEF Owed
<1>b. UNCHANGED reply => Callers' /\ \A m \in ReaderMessage : Owes(m) => Owes(m)'
  BY <1>0 DEF Owed, Callers, Owes, Waits
<1>1. CASE RecvMessage
  <2>1. /\ queue # <<>> /\ queue' = Tail(queue) /\ rMessage' = Head(queue) /\ rPc' = "collect"
        /\ UNCHANGED reply
    BY <1>1 DEF RecvMessage, StartCollection, FirstStep
  <2>2. /\ 1 \in DOMAIN queue /\ rMessage' = queue[1]
        /\ \A i \in DOMAIN queue' :
              i \in Nat \ {0} /\ i + 1 \in DOMAIN queue /\ queue'[i] = queue[i + 1]
    BY <2>1, QueueTypes
  <2>3. \A i \in DOMAIN queue' : Owes(queue[i])'
    <3> SUFFICES ASSUME NEW i \in DOMAIN queue' PROVE Owes(queue[i])'
      OBVIOUS
    <3>1. Owes(queue[i + 1]) /\ queue'[i] = queue[i + 1]
      BY <1>a, <2>2
    <3> QED
      BY <1>0, <2>1, <3>1 DEF Owes, Waits
  <2>4. \A i, j \in DOMAIN queue' : queue'[i].by = queue'[j].by => i = j
    <3> SUFFICES ASSUME NEW i \in DOMAIN queue', NEW j \in DOMAIN queue', queue'[i].by = queue'[j].by
                 PROVE  i = j
      OBVIOUS
    <3>1. i + 1 = j + 1
      BY <2>2 DEF Owed
    <3> QED
      BY <2>2, <3>1
  <2>5. Owes(rMessage)'
    <3>1. Owes(queue[1])
      BY <1>a, <2>2
    <3> QED
      BY <1>0, <2>1, <2>2, <3>1 DEF Owes, Waits
  <2>6. \A i \in DOMAIN queue' : queue'[i].by # rMessage'.by
    <3> SUFFICES ASSUME NEW i \in DOMAIN queue', queue'[i].by = rMessage'.by PROVE FALSE
      OBVIOUS
    <3>1. i + 1 = 1
      BY <2>2 DEF Owed
    <3> QED
      BY <2>2, <3>1
  <2> QED
    BY <1>b, <2>1, <2>3, <2>4, <2>5, <2>6 DEF Owed
<1>2. CASE RecvTimeout \/ AnswerTimer
  <2>1. UNCHANGED <<queue, reply>>
    BY <1>2 DEF RecvTimeout, StartCollection, AnswerTimer
  <2>2. ~AtHand'
    BY <1>2
       DEF RecvTimeout, StartCollection, AnswerTimer, NextMessage, AtHand, Working, TimerMessage
  <2> QED
    BY <1>0, <1>b, <2>1, <2>2 DEF Owed, Owes, Waits
<1>3. CASE BeginProduce \/ EndProduce \/ Export \/ Tick
  <2>1. UNCHANGED <<queue, reply, rMessage>>
    BY <1>3 DEF BeginProduce, EndProduce, Export, Tick, threadVars
  <2>2. AtHand' => AtHand
    BY <1>3, <2>1 DEF BeginProduce, EndProduce, Export, Tick, threadVars, AtHand, Working
  <2> QED
    BY <1>0, <1>b, <2>1, <2>2 DEF Owed, Owes, Waits
<1>4. CASE AnswerFlush \/ ShutdownExporter
  <2>1. /\ rPc = "done" /\ rMessage.kind \in {"Flush", "Shutdown"} /\ rPc' \in {"recv", "exit"}
        /\ UNCHANGED queue /\ \E ok \in BOOLEAN : Respond(ok)
    <3>1. CASE AnswerFlush
      <4>1. rOk \in BOOLEAN
        BY DEF TypeOK
      <4> QED
        BY <3>1, <4>1 DEF AnswerFlush, NextMessage
    <3>2. CASE ShutdownExporter
      <4>1. PICK ok \in BOOLEAN : Respond(rOk /\ ok)
        BY <3>2 DEF ShutdownExporter
      <4>2. (rOk /\ ok) \in BOOLEAN
        OBVIOUS
      <4> QED
        BY <3>2, <4>1, <4>2 DEF ShutdownExporter
    <3> QED
      BY <1>4, <3>1, <3>2
  <2>2. AtHand /\ ~AtHand'
    BY <2>1 DEF AtHand, Working
  <2>3. \A v \in MetricUsers : v # rMessage.by => reply'[v] = reply[v]
    BY <1>0, <2>1 DEF Respond
  <2>4. Callers'
    <3>1. uPc[rMessage.by] # "send"
      BY <2>1, <2>2 DEF Owed, Owes, Waits
    <3> QED
      BY <1>0, <2>3, <3>1 DEF Owed, Callers
  <2>5. \A i \in DOMAIN queue' : Owes(queue[i])'
    <3> SUFFICES ASSUME NEW i \in DOMAIN queue' PROVE Owes(queue[i])'
      OBVIOUS
    <3>1. Owes(queue[i]) /\ queue[i].by # rMessage.by /\ queue[i].by \in MetricUsers
      BY <1>a, <2>1, <2>2, MessageKind DEF Owed
    <3> QED
      BY <1>0, <2>1, <2>3, <3>1 DEF Owes, Waits
  <2> QED
    BY <2>1, <2>2, <2>4, <2>5 DEF Owed
<1>5. CASE Exit
  <2>1. /\ rPc' = "exited" /\ queue' = <<>>
        /\ reply' = [u \in MetricUsers |->
                        IF \E i \in DOMAIN queue : queue[i].by = u THEN "closed" ELSE reply[u]]
    BY <1>5 DEF Exit, LeaveLoop
  <2>2. Callers'
    <3>1. \A u \in MetricUsers : uPc[u] = "send" => reply'[u] = "none"
      BY <1>a, <2>1 DEF Owed, Callers, Owes, Waits
    <3> QED
      BY <1>0, <3>1 DEF Owed, Callers
  <2>3. DOMAIN queue' = {} /\ ~AtHand'
    BY <2>1 DEF AtHand, Working
  <2> QED
    BY <2>2, <2>3 DEF Owed
<1> QED
  BY <1>1, <1>2, <1>3, <1>4, <1>5 DEF Collects, ReaderThread

-----------------------------------------------------------------------------
(* Answers *)

(* What a message at hand demands of the collection made for it.            *)
Served ==
    AtHand /\ uPc[rMessage.by] = "wait" =>
        /\ rPc = "export" => 1..uMust[rMessage.by] \subseteq rBatch \cup arrived \cup unexported
        /\ rPc = "done" /\ rOk => Over(rMessage.by)
Kept(u) == Over(u) /\ (uKind[u] # "Flush" => exporterDown)

LEMMA AnswersUserStep ==
    ASSUME TypeOK, Owed, Answers, NEW u \in MetricUsers, Acts(u)
    PROVE  Answers'
<1>0. /\ uPc \in [MetricUsers -> {"idle", "register", "send", "wait"}]
      /\ uKind \in [MetricUsers -> Kinds] /\ uMust \in [MetricUsers -> Nat] /\ recorded \in Nat
      /\ reply \in [MetricUsers -> {"none", "true", "false", "closed"}]
      /\ uResult \in [MetricUsers ->
                         {"none", "AlreadyShutdown", "InternalFailure", "Ok", "Timeout"}]
  BY DEF TypeOK
<1>1. UNCHANGED <<rPc, rMessage, rBatch, rOk, arrived, unexported, exporterDown>>
  BY UserFrame
<1>2. Begins(u) \/ Sends(u) \/ Ends(u) \/ Prepares(u)
  BY CallSteps
<1>3. recorded' \in Nat /\ recorded <= recorded'
  <2>1. CASE Record(u)
    BY <1>0, <2>1 DEF Record
  <2>2. CASE ~Record(u)
    <3>1. UNCHANGED recorded
      BY <2>2 DEF Acts, UserCall, UserWaits, GetInstrument, AddInstrument, BeginFlush,
         BeginShutdown, DropHandle, GiveUp, Send, Receive
    <3> QED
      BY <1>0, <3>1
  <2> QED
    BY <2>1, <2>2
(* The user waits afterwards only if it sends, or did so before.            *)
<1>4. /\ \A v \in MetricUsers \ {u} :
            /\ uPc'[v] = uPc[v] /\ uKind'[v] = uKind[v] /\ uMust'[v] = uMust[v]
            /\ reply'[v] = reply[v] /\ uResult'[v] = uResult[v]
      /\ uMust'[u] = uMust[u] \/ uMust'[u] = recorded
      /\ uPc'[u] = "wait" => uPc[u] = "send" /\ uMust'[u] = uMust[u] /\ reply'[u] = reply[u]
      /\ uResult'[u] = "Ok" => /\ uMust'[u] = uMust[u] /\ uKind'[u] = uKind[u]
                               /\ uResult[u] = "Ok" \/ (uPc[u] = "wait" /\ reply[u] = "true")
  <2>1. CASE Begins(u)
    <3>1. PICK kind \in Kinds \ {"none"}, result \in {"none", "AlreadyShutdown"} :
             Begin(u, kind, IF result = "none" THEN "send" ELSE "idle", result)
      BY <2>1 DEF Begins
    <3> QED
      BY <1>0, <3>1 DEF Begin
  <2>2. CASE Sends(u)
    BY <1>0, <2>2 DEF Sends
  <2>3. CASE Ends(u)
    BY <1>0, <2>3 DEF Ends
  <2>4. CASE Prepares(u)
    BY <1>0, <2>4 DEF Prepares
  <2> QED
    BY <1>2, <2>1, <2>2, <2>3, <2>4
<1>5. \A v \in MetricUsers : uMust'[v] <= recorded'
  <2> SUFFICES ASSUME NEW v \in MetricUsers PROVE uMust'[v] <= recorded'
    OBVIOUS
  <2>1. uMust[v] \in Nat /\ uMust[v] <= recorded
    BY <1>0 DEF Answers
  <2>2. uMust'[v] = uMust[v] \/ uMust'[v] = recorded
    BY <1>4
  <2> QED
    BY <1>0, <1>3, <2>1, <2>2
<1>6. \A v \in MetricUsers :
         (uPc'[v] = "wait" /\ reply'[v] = "true") \/ uResult'[v] = "Ok" => Kept(v)'
  <2> SUFFICES ASSUME NEW v \in MetricUsers,
                      (uPc'[v] = "wait" /\ reply'[v] = "true") \/ uResult'[v] = "Ok"
               PROVE  Kept(v)'
    OBVIOUS
  <2>1. v = u /\ uPc'[u] = "wait" => reply'[u] = "none"
    BY <1>4 DEF Owed, Callers
  <2>2. uMust'[v] = uMust[v] /\ uKind'[v] = uKind[v]
        /\ (uResult[v] = "Ok" \/ (uPc[v] = "wait" /\ reply[v] = "true"))
    BY <1>4, <2>1
  <2>3. Kept(v)
    BY <2>2 DEF Answers, Kept
  <2> QED
    BY <1>1, <2>2, <2>3 DEF Kept, Over
<1>7. Served'
  <2> SUFFICES ASSUME AtHand', uPc'[rMessage'.by] = "wait" PROVE Served'
    BY DEF Served
  <2>1. AtHand /\ rMessage' = rMessage /\ rMessage.by \in MetricUsers
    <3>1. AtHand
      BY <1>1 DEF AtHand, Working
    <3>2. rMessage \in ReaderMessage
      BY <3>1 DEF TypeOK, AtHand, TimerMessage
    <3> QED
      BY <1>1, <3>1, <3>2, MessageKind
  <2>2. rMessage.by # u
    <3>1. uPc[rMessage.by] # "send"
      BY <2>1 DEF Owed, Owes, Waits
    <3> QED
      BY <1>4, <2>1, <3>1
  <2>3. uPc[rMessage.by] = "wait" /\ uMust'[rMessage.by] = uMust[rMessage.by]
    BY <1>4, <2>1, <2>2
  <2> QED
    BY <1>1, <2>1, <2>3 DEF Served, Answers, Over
<1>8. exporterDown' => rPc' \in {"exit", "exited"}
  BY <1>1 DEF Answers
<1> QED
  BY <1>5, <1>6, <1>7, <1>8 DEF Answers, Served, Kept

LEMMA AnswersThreadStep ==
    ASSUME TypeOK, Measurements, Owed, Answers, Collects
    PROVE  Answers'
<1>0. /\ uMust \in [MetricUsers -> Nat] /\ recorded \in Nat
      /\ reply \in [MetricUsers -> {"none", "true", "false", "closed"}]
  BY DEF TypeOK
<1>1. UNCHANGED <<uPc, uKind, uMust, uResult, recorded>>
  BY ThreadFrame
<1>2. AtHand => rMessage.by \in MetricUsers
  <2>1. AtHand => rMessage \in ReaderMessage
    BY DEF TypeOK, AtHand, TimerMessage
  <2> QED
    BY <2>1, MessageKind
(* Nothing exported is forgotten.                                           *)
<1>3. arrived \cup unexported \subseteq arrived' \cup unexported' /\ (exporterDown => exporterDown')
  BY DEF Collects, ReaderThread, RecvMessage, RecvTimeout, StartCollection, BeginProduce,
     EndProduce, Export, AnswerTimer, AnswerFlush, ShutdownExporter, Exit, Tick, outcomeVars
<1>4. \A v \in MetricUsers : Kept(v) => Kept(v)'
  BY <1>1, <1>3 DEF Kept, Over
<1>5. \A v \in MetricUsers : uPc[v] = "wait" /\ reply'[v] = "true" => Kept(v)'
  <2>1. CASE AnswerFlush \/ ShutdownExporter
    <3>1. /\ rPc = "done" /\ rMessage.kind \in {"Flush", "Shutdown"}
          /\ rMessage.kind = "Shutdown" => exporterDown'
          /\ \E ok \in BOOLEAN : Respond(ok) /\ (ok => rOk)
      <4>1. CASE AnswerFlush
        <5>1. rOk \in BOOLEAN
          BY DEF TypeOK
        <5> QED
          BY <4>1, <5>1 DEF AnswerFlush
      <4>2. CASE ShutdownExporter
        <5>1. PICK ok \in BOOLEAN : Respond(rOk /\ ok)
          BY <4>2 DEF ShutdownExporter
        <5>2. (rOk /\ ok) \in BOOLEAN /\ ((rOk /\ ok) => rOk)
          OBVIOUS
        <5> QED
          BY <4>2, <5>1, <5>2 DEF ShutdownExporter
      <4> QED
        BY <2>1, <4>1, <4>2
    <3>2. PICK ok \in BOOLEAN : Respond(ok) /\ (ok => rOk)
      BY <3>1
    <3>3. AtHand
      BY <3>1 DEF AtHand, Working
    <3> SUFFICES ASSUME NEW v \in MetricUsers, uPc[v] = "wait", reply'[v] = "true" PROVE Kept(v)'
      OBVIOUS
    <3>4. CASE v = rMessage.by
      <4>1. rOk
        BY <1>0, <1>2, <3>2, <3>3, <3>4 DEF Respond
      <4>2. Over(v)
        BY <3>1, <3>3, <3>4, <4>1 DEF Answers
      <4>3. uKind[v] # "Flush" => rMessage.kind = "Shutdown"
        BY <3>3, <3>4 DEF Owed, Owes
      <4> QED
        BY <1>1, <1>3, <3>1, <4>2, <4>3 DEF Kept, Over
    <3>5. CASE v # rMessage.by
      <4>1. reply[v] = "true"
        BY <1>0, <3>2, <3>5 DEF Respond
      <4> QED
        BY <1>4, <4>1 DEF Answers, Kept
    <3> QED
      BY <3>4, <3>5
  <2>2. CASE Exit
    <3>1. \A v \in MetricUsers : reply'[v] = "true" => reply[v] = "true"
      BY <2>2 DEF Exit, LeaveLoop
    <3> QED
      BY <1>4, <3>1 DEF Answers, Kept
  <2>3. CASE RecvMessage \/ RecvTimeout \/ BeginProduce \/ EndProduce \/ Export \/ AnswerTimer
             \/ Tick
    <3>1. UNCHANGED reply
      BY <2>3 DEF RecvMessage, RecvTimeout, StartCollection, BeginProduce, EndProduce, Export,
         AnswerTimer, Tick
    <3> QED
      BY <1>4, <3>1 DEF Answers, Kept
  <2> QED
    BY <2>1, <2>2, <2>3 DEF Collects, ReaderThread
<1>6. Served'
  <2>1. CASE EndProduce
    <3>1. /\ rPc = "callbacks" /\ rBatch' = pending
          /\ rPc' = (IF pending = {} THEN "done" ELSE "export")
          /\ UNCHANGED <<rMessage, rOk, arrived, unexported>>
      BY <2>1 DEF EndProduce, outcomeVars
    <3> SUFFICES ASSUME AtHand', uPc[rMessage.by] = "wait" PROVE Served'
      BY <1>1, <3>1 DEF Served
    <3>2. AtHand
      BY <3>1 DEF AtHand, Working
    <3>3. 1..uMust[rMessage.by] \subseteq 1..recorded
      <4>1. uMust[rMessage.by] \in Nat /\ uMust[rMessage.by] <= recorded
        BY <1>0, <1>2, <3>2 DEF Answers
      <4> QED
        BY <1>0, <4>1
    <3>4. rBatch = {}
      BY <3>1 DEF Measurements
    <3>5. 1..uMust[rMessage.by] \subseteq pending \cup arrived \cup unexported
      BY <3>3, <3>4 DEF Measurements
    <3> QED
      BY <1>1, <3>1, <3>5 DEF Served, Over
  <2>2. CASE Export
    <3>1. /\ rPc = "export" /\ rPc' = "done" /\ UNCHANGED rMessage
          /\ arrived' \cup unexported' = rBatch \cup arrived \cup unexported
      BY <2>2 DEF Export
    <3>2. AtHand' => AtHand
      BY <3>1 DEF AtHand, Working
    <3> QED
      BY <1>1, <3>1, <3>2 DEF Served, Answers, Over
  <2>3. CASE Tick
    BY <1>1, <2>3 DEF Tick, threadVars, outcomeVars, Served, Answers, AtHand, Working, Over
  <2>4. CASE RecvMessage \/ RecvTimeout \/ BeginProduce \/ AnswerTimer \/ AnswerFlush
             \/ ShutdownExporter \/ Exit
    <3>1. rPc' # "export" /\ ~(rPc' = "done" /\ rOk')
      BY <2>4 DEF RecvMessage, RecvTimeout, StartCollection, FirstStep, BeginProduce, AnswerTimer,
         AnswerFlush, NextMessage, ShutdownExporter, Exit, LeaveLoop
    <3> QED
      BY <3>1 DEF Served
  <2> QED
    BY <2>1, <2>2, <2>3, <2>4 DEF Collects, ReaderThread
<1>7. exporterDown' => rPc' \in {"exit", "exited"}
  <2>1. CASE ShutdownExporter \/ Exit
    BY <2>1 DEF ShutdownExporter, Exit, LeaveLoop
  <2>2. CASE RecvMessage \/ RecvTimeout \/ BeginProduce \/ EndProduce \/ Export \/ AnswerTimer
             \/ AnswerFlush \/ Tick
    <3>1. UNCHANGED exporterDown /\ (rPc \in {"exit", "exited"} => UNCHANGED rPc)
      BY <2>2 DEF RecvMessage, RecvTimeout, StartCollection, BeginProduce, EndProduce, Export,
         AnswerTimer, AnswerFlush, Tick, outcomeVars, threadVars
    <3> QED
      BY <3>1 DEF Answers
  <2> QED
    BY <2>1, <2>2 DEF Collects, ReaderThread
<1>8. \A v \in MetricUsers :
         /\ uMust'[v] <= recorded'
         /\ (uPc'[v] = "wait" /\ reply'[v] = "true") \/ uResult'[v] = "Ok" => Kept(v)'
  BY <1>1, <1>4, <1>5 DEF Answers, Kept
<1> QED
  BY <1>6, <1>7, <1>8 DEF Answers, Served, Kept

-----------------------------------------------------------------------------
LEMMA DisjointUnion ==
    ASSUME NEW S, NEW T, IsFiniteSet(S), IsFiniteSet(T), S \cap T = {}
    PROVE  IsFiniteSet(S \cup T) /\ Cardinality(S \cup T) = Cardinality(S) + Cardinality(T)
<1>1. IsFiniteSet(S \cup T)
      /\ Cardinality(S \cup T) = Cardinality(S) + Cardinality(T) - Cardinality(S \cap T)
  BY FS_Union
<1>2. Cardinality(S \cap T) = 0 /\ Cardinality(S) \in Nat /\ Cardinality(T) \in Nat
  BY FS_EmptySet, FS_CardinalityType
<1> QED
  BY <1>1, <1>2

LEMMA Inductive == ReaderInit /\ [][ReaderNext]_readerVars => []IndInv
<1>1. ReaderInit => IndInv
  BY IndInvInit
<1>2. IndInv /\ [ReaderNext]_readerVars => IndInv'
  <2> SUFFICES ASSUME IndInv, [ReaderNext]_readerVars PROVE IndInv'
    OBVIOUS
  <2>1. CASE ReaderNext
    <3>1. Collects \/ \E u \in MetricUsers : Acts(u)
      BY <2>1 DEF ReaderNext, Collects, Acts
    <3>2. TypeOK' /\ Instruments' /\ Measurements' /\ Clock'
      BY <3>1, TypeStep, InstrumentsStep, MeasurementsStep, ClockStep DEF IndInv
    <3>3. Owed' /\ Answers'
      BY <3>1, OwedUserStep, OwedThreadStep, AnswersUserStep, AnswersThreadStep DEF IndInv
    <3> QED
      BY <3>2, <3>3 DEF IndInv
  <2>2. CASE UNCHANGED readerVars
    <3>1. UNCHANGED <<shutdownInvoked, cacheOwner, registered, pending, queue, rPc, rMessage, rBatch,
                      rOk, elapsed, remaining, busy, sinceCollection, uPc, hasInstrument>>
          /\ UNCHANGED <<uKind, uResult, uMust, reply, arrived, unexported, exporterDown, recorded>>
      BY <2>2
         DEF readerVars, providerVars, pipelineVars, clockVars, threadVars, userVars, outcomeVars
    <3>2. TypeOK' /\ Instruments' /\ Measurements' /\ Clock'
      BY <3>1 DEF IndInv, TypeOK, Instruments, Measurements, Clock, CollectionsInTime, Working
    <3>3. Owed' /\ Answers'
      BY <3>1 DEF IndInv, Owed, Callers, Owes, Waits, AtHand, Working, Answers, Over
    <3> QED
      BY <3>2, <3>3 DEF IndInv
  <2> QED
    BY <2>1, <2>2
<1> QED
  BY <1>1, <1>2, PTL

(* A flush or shutdown that answered Ok has exported everything recorded    *)
(* before it, whoever else flushes, shuts down or gives up, and a shut down *)
(* exporter is left alone.                                                  *)
THEOREM AnswersHold == ReaderSpec => []AnsweredMeansExported
<1>1. IndInv => AnsweredMeansExported
  BY DEF IndInv, Answers, Over, AnsweredMeansExported
<1> QED
  BY <1>1, Inductive, PTL DEF ReaderSpec

(* No flush and no slow export makes a collection wait for longer than an   *)
(* interval from the start of the one before it, or longer than that took.  *)
THEOREM CollectedInTime == ReaderSpec => []CollectionsInTime
<1>1. IndInv => CollectionsInTime
  BY DEF IndInv, Clock
<1> QED
  BY <1>1, Inductive, PTL DEF ReaderSpec

(* However threads race to create the instrument, it is collected once, and *)
(* each measurement is in one place.                                        *)
THEOREM EachCollectedOnce == ReaderSpec => []CollectedOnce
<1>1. IndInv => CollectedOnce
  <2> SUFFICES ASSUME IndInv PROVE CollectedOnce
    OBVIOUS
  <2>1. recorded \in Nat /\ Instruments /\ Measurements
    BY DEF IndInv, TypeOK
  <2>2. IsFiniteSet(1..recorded) /\ Cardinality(1..recorded) = recorded
    BY <2>1, FS_Interval
  <2>3. IsFiniteSet(pending) /\ IsFiniteSet(rBatch) /\ IsFiniteSet(arrived) /\ IsFiniteSet(unexported)
    BY <2>1, <2>2, FS_Subset DEF Measurements
  <2> DEFINE sent == arrived \cup unexported
             taken == rBatch \cup sent
  <2>4. IsFiniteSet(sent) /\ Cardinality(sent) = Cardinality(arrived) + Cardinality(unexported)
    BY <2>1, <2>3, DisjointUnion DEF Measurements
  <2>5. IsFiniteSet(taken) /\ Cardinality(taken) = Cardinality(rBatch) + Cardinality(sent)
    BY <2>1, <2>3, <2>4, DisjointUnion DEF Measurements
  <2>6. Cardinality(pending \cup taken) = Cardinality(pending) + Cardinality(taken)
    BY <2>1, <2>3, <2>5, DisjointUnion DEF Measurements
  <2>7. 1..recorded = pending \cup taken
    BY <2>1 DEF Measurements
  <2>8. /\ Cardinality(pending) \in Nat /\ Cardinality(rBatch) \in Nat
        /\ Cardinality(arrived) \in Nat /\ Cardinality(unexported) \in Nat
    BY <2>3, FS_CardinalityType
  <2>a. recorded = Cardinality(pending) + Cardinality(taken)
    BY <2>2, <2>6, <2>7
  <2> HIDE DEF sent, taken
  <2>9. recorded = Cardinality(pending) + Cardinality(rBatch)
                       + Cardinality(arrived) + Cardinality(unexported)
    BY <2>4, <2>5, <2>8, <2>a
  <2> QED
    BY <2>1, <2>9 DEF CollectedOnce, Instruments, Measurements
<1> QED
  BY <1>1, Inductive, PTL DEF ReaderSpec
=============================================================================
