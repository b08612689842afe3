---------------------- MODULE AsyncBatchProcessorProofs ----------------------
(***************************************************************************)
(* Theorems about AsyncBatchProcessor for any callers, channel capacity,    *)
(* batch size and number of concurrent exports.                            *)
(*                                                                         *)
(* The task waits for the exporter without polling its exports.  That it   *)
(* finds none then follows from where it comes from: the resource is the   *)
(* first message (ResourceFirst), and a shutdown drains (InTime).  What a  *)
(* log processor answers needs who waits for which message (Owed).         *)
(*                                                                         *)
(* Where each span is, and in which order, is in SpansInv: everything taken *)
(* from the channel is with the exporter, in an export in flight or in the *)
(* batch, and a message stands behind the spans that came before it.       *)
(***************************************************************************)
EXTENDS AsyncBatchProcessor, DataLemmas, FiniteSetTheorems

Requests == {"Flush", "Shutdown"}
Values == AsyncCallers \cup Nat
Messages == [kind : Requests \cup {"SetResource", "Span"}, of : Values]
Jobs == [kind : Requests \cup {"SetResource", "Tick", "None"}, of : Values]
TypeOK ==
    /\ maxConcurrent \in Nat /\ forLogs \in BOOLEAN /\ (forLogs => maxConcurrent = 1)
    /\ received \in Nat /\ channel \in Seq(Messages) /\ job \in Jobs
    /\ step \in {"select", "exporter", "export", "saturated", "reply", "drain", "stopped"}
    /\ spans \in Seq(Values) /\ unpolled \in Seq(Seq(Values)) /\ IsFiniteSet(tasks)
    /\ replyTask \in BOOLEAN /\ exporterStopped \in BOOLEAN
    /\ callStep \in [AsyncCallers -> {"idle", "wait"}]
    /\ callKind \in [AsyncCallers -> Requests \cup {"none"}]
    /\ answer \in [AsyncCallers -> {"none", "no room", "canceled", "Ok", "Err"}]

(* Nothing was exported, or buffered, when the task finds the resource.     *)
ResourceFirst ==
    \A i \in DOMAIN channel : channel[i].kind = "SetResource" =>
        /\ i = 1 /\ step # "saturated"
        /\ spans = <<>> /\ own = <<>> /\ unpolled = <<>> /\ tasks = {}
(* No export is left when the task turns to the exporter.                   *)
InTime ==
    /\ own # <<>> => step = "export"
    /\ step \in {"select", "saturated"} => job.kind = "None"
    /\ step \in {"exporter", "stopped"} => unpolled = <<>> /\ tasks = {}
    /\ maxConcurrent = 1 => unpolled = <<>> /\ tasks = {} /\ step # "drain"
    /\ maxConcurrent # 0 => InFlight <= maxConcurrent
    /\ exporterStopped => step = "stopped"
    /\ replyTask => step = "drain"

(* The caller of a request waits until somebody answers it.                 *)
Owes(message) ==
    /\ message.of \in AsyncCallers
    /\ callStep[message.of] = "wait" /\ answer[message.of] = "none"
    /\ callKind[message.of] = message.kind
AtWork ==
    /\ job.kind \in Requests
    /\ \/ step \in {"export", "reply"}
       \/ step = "drain" /\ replyTask
       \/ step = "exporter" /\ forLogs
IsRequest(i) == channel[i].kind \in Requests
Owed ==
    /\ \A i \in DOMAIN channel : IsRequest(i) => Owes(channel[i])
    /\ \A i, j \in DOMAIN channel :
          IsRequest(i) /\ IsRequest(j) /\ channel[i].of = channel[j].of => i = j
    /\ AtWork => Owes(job) /\ \A i \in DOMAIN channel : IsRequest(i) => channel[i].of # job.of
    /\ forLogs => \A c \in AsyncCallers :
          callKind[c] = "Shutdown" /\ answer[c] \in {"Ok", "Err"} => exporterStopped

IndInv == TypeOK /\ ResourceFirst /\ InTime /\ Owed

-----------------------------------------------------------------------------
LEMMA IndInvInit == AsyncInit => IndInv
<1> SUFFICES ASSUME AsyncInit PROVE IndInv
  OBVIOUS
<1>1. TypeOK
  <2>1. maxConcurrent \in Nat /\ forLogs \in BOOLEAN /\ (forLogs => maxConcurrent = 1)
    <3>1. \/ forLogs = FALSE /\ maxConcurrent \in ConcurrentExports
          \/ forLogs = TRUE /\ maxConcurrent = 1
      BY DEF AsyncInit
    <3>2. ConcurrentExports \subseteq Nat /\ 1 \in Nat
      BY AsyncAssumption DEF AsyncAssumption
    <3> QED
      BY <3>1, <3>2
  <2>2. channel \in Seq(Messages) /\ job \in Jobs
    BY DEF AsyncInit, Entry, NoJob, Messages, Jobs, Values
  <2>3. IsFiniteSet(tasks)
    BY FS_EmptySet DEF AsyncInit
  <2>4. spans \in Seq(Values) /\ unpolled \in Seq(Seq(Values))
    BY DEF AsyncInit
  <2>5. /\ callStep \in [AsyncCallers -> {"idle", "wait"}]
        /\ callKind \in [AsyncCallers -> Requests \cup {"none"}]
        /\ answer \in [AsyncCallers -> {"none", "no room", "canceled", "Ok", "Err"}]
    BY DEF AsyncInit
  <2>6. /\ received \in Nat /\ replyTask \in BOOLEAN /\ exporterStopped \in BOOLEAN
        /\ step = "select"
    BY DEF AsyncInit
  <2> QED
    BY <2>1, <2>2, <2>3, <2>4, <2>5, <2>6 DEF TypeOK
<1>2. ResourceFirst
  BY DEF AsyncInit, ResourceFirst
<1>3. InTime
  <2>1. InFlight = 0
    BY FS_EmptySet DEF AsyncInit, InFlight
  <2> QED
    BY <1>1, <2>1 DEF AsyncInit, InTime, TypeOK, NoJob, Entry
<1>4. Owed
  BY DEF AsyncInit, Owed, AtWork, IsRequest, Requests, Entry, NoJob
<1> QED
  BY <1>1, <1>2, <1>3, <1>4 DEF IndInv

(* What the calls of others do not change. *)
LEMMA InTimeUnchanged ==
    ASSUME InTime, UNCHANGED <<maxConcurrent, step, job, own, unpolled, tasks, exporterStopped, replyTask>>
    PROVE  InTime'
BY DEF InTime, InFlight

LEMMA AppendMessage ==
    ASSUME TypeOK, NEW m \in Messages, channel' = Append(channel, m)
    PROVE  /\ channel' \in Seq(Messages) /\ DOMAIN channel' = DOMAIN channel \cup {Len(channel) + 1}
           /\ Len(channel) + 1 \notin DOMAIN channel /\ channel'[Len(channel) + 1] = m
           /\ \A i \in DOMAIN channel : channel'[i] = channel[i]
<1>0. channel \in Seq(Messages)
  BY DEF TypeOK
<1>1. Len(channel) \in Nat /\ DOMAIN channel = 1..Len(channel)
  BY <1>0
<1>2. channel' \in Seq(Messages) /\ DOMAIN channel' = 1..(Len(channel) + 1)
      /\ channel'[Len(channel) + 1] = m /\ \A i \in 1..Len(channel) : channel'[i] = channel[i]
  BY <1>0
<1>3. 1..(Len(channel) + 1) = 1..Len(channel) \cup {Len(channel) + 1}
      /\ Len(channel) + 1 \notin 1..Len(channel)
  BY <1>1
<1> QED
  BY <1>1, <1>2, <1>3

LEMMA OnEndStep == ASSUME IndInv, OnEndAsync PROVE IndInv'
<1>0. PICK m : m = Entry("Span", received')
  OBVIOUS
<1>1. /\ received' = received + 1 /\ channel' = Append(channel, m)
      /\ UNCHANGED <<maxConcurrent, forLogs, taskVars, exportVars, asyncCallVars, answer>>
  BY <1>0 DEF OnEndAsync
<1>2. m \in Messages /\ m.kind = "Span"
  <2>a. received \in Nat
    BY DEF IndInv, TypeOK
  <2>1. received' \in Nat
    BY <1>1, <2>a
  <2> QED
    BY <1>0, <2>1 DEF Entry, Messages, Values
<1>3. /\ channel' \in Seq(Messages) /\ DOMAIN channel' = DOMAIN channel \cup {Len(channel) + 1}
      /\ channel'[Len(channel) + 1] = m /\ \A i \in DOMAIN channel : channel'[i] = channel[i]
  BY <1>1, <1>2, AppendMessage DEF IndInv
<1>4. TypeOK'
  <2>a. received \in Nat
    BY DEF IndInv, TypeOK
  <2>1. received' \in Nat
    BY <1>1, <2>a
  <2>2. UNCHANGED <<maxConcurrent, forLogs, job, step, spans, unpolled, tasks, replyTask,
                    exporterStopped, callStep, callKind, answer>>
    BY <1>1 DEF taskVars, exportVars, asyncCallVars
  <2> QED
    BY <1>3, <2>1, <2>2 DEF IndInv, TypeOK
<1>5. ResourceFirst'
  BY <1>1, <1>2, <1>3 DEF IndInv, ResourceFirst, taskVars
<1>6. InTime'
  BY <1>1, InTimeUnchanged DEF IndInv, taskVars, exportVars
<1>7. Owed'
  BY <1>1, <1>2, <1>3 DEF IndInv, Owed, AtWork, IsRequest, Owes, Requests, taskVars, exportVars,
     asyncCallVars
<1> QED
  BY <1>4, <1>5, <1>6, <1>7 DEF IndInv

LEMMA CallStep ==
    ASSUME IndInv, NEW c \in AsyncCallers, NEW kind \in Requests, CallAsync(c, kind)
    PROVE  IndInv'
<1>0. PICK m : m = Entry(kind, c)
  OBVIOUS
<1>1. /\ callStep[c] = "idle" /\ callKind' = [callKind EXCEPT ![c] = kind]
      /\ UNCHANGED <<maxConcurrent, forLogs, received, taskVars, exportVars>>
      /\ \/ /\ channel' = Append(channel, m) /\ callStep' = [callStep EXCEPT ![c] = "wait"]
            /\ answer' = [answer EXCEPT ![c] = "none"]
         \/ answer' = [answer EXCEPT ![c] = "no room"] /\ UNCHANGED <<channel, callStep>>
  BY <1>0 DEF CallAsync
<1>2. m \in Messages /\ m.kind = kind /\ m.of = c
  BY <1>0 DEF Entry, Messages, Values
<1>3. \A message : Owes(message) => message.of # c
  BY <1>1 DEF Owes
<1>4. \A message : Owes(message) => Owes(message)'
  BY <1>1, <1>3 DEF IndInv, TypeOK, Owes
<1>5. InTime'
  BY <1>1, InTimeUnchanged DEF IndInv, taskVars, exportVars
<1>6. CASE /\ channel' = Append(channel, m) /\ callStep' = [callStep EXCEPT ![c] = "wait"]
           /\ answer' = [answer EXCEPT ![c] = "none"]
  <2>1. /\ channel' \in Seq(Messages) /\ DOMAIN channel' = DOMAIN channel \cup {Len(channel) + 1}
        /\ Len(channel) + 1 \notin DOMAIN channel
        /\ channel'[Len(channel) + 1] = m /\ \A i \in DOMAIN channel : channel'[i] = channel[i]
    BY <1>2, <1>6, AppendMessage DEF IndInv
  <2>2. TypeOK'
    BY <1>1, <1>6, <2>1 DEF IndInv, TypeOK, taskVars, exportVars
  <2>3. ResourceFirst'
    BY <1>1, <1>2, <2>1 DEF IndInv, ResourceFirst, taskVars, Requests
  <2>4. Owed'
    <3>1. Owes(m)'
      BY <1>1, <1>2, <1>6 DEF IndInv, TypeOK, Owes
    <3>a. \A i \in DOMAIN channel : IsRequest(i) => Owes(channel[i])
      BY DEF IndInv, Owed
    <3>2. \A i \in DOMAIN channel : IsRequest(i) => channel[i].of # c
      BY <1>3, <3>a
    <3>3. \A i \in DOMAIN channel' : IsRequest(i)' => Owes(channel[i])'
      <4> SUFFICES ASSUME NEW i \in DOMAIN channel', IsRequest(i)' PROVE Owes(channel[i])'
        OBVIOUS
      <4>1. CASE i \in DOMAIN channel
        <5>1. channel'[i] = channel[i] /\ Owes(channel[i])
          BY <2>1, <3>a, <4>1 DEF IsRequest
        <5>2. callStep'[channel[i].of] = "wait" /\ answer'[channel[i].of] = "none"
              /\ callKind'[channel[i].of] = channel[i].kind /\ channel[i].of \in AsyncCallers
          BY <1>4, <5>1 DEF Owes
        <5> QED
          BY <5>1, <5>2 DEF Owes
      <4>2. CASE i \notin DOMAIN channel
        BY <2>1, <3>1, <4>2 DEF Owes
      <4> QED
        BY <4>1, <4>2
    <3>4. \A i, j \in DOMAIN channel' :
             IsRequest(i)' /\ IsRequest(j)' /\ channel'[i].of = channel'[j].of => i = j
      BY <1>2, <2>1, <3>2 DEF IndInv, Owed, IsRequest
    <3>5. AtWork' => /\ Owes(job)'
                     /\ \A i \in DOMAIN channel' : IsRequest(i)' => channel'[i].of # job'.of
      BY <1>1, <1>2, <1>3, <1>4, <2>1 DEF IndInv, Owed, IsRequest, AtWork, taskVars
    <3>6. forLogs' => \A d \in AsyncCallers :
             callKind'[d] = "Shutdown" /\ answer'[d] \in {"Ok", "Err"} => exporterStopped'
      BY <1>1, <1>6 DEF IndInv, Owed, TypeOK, exportVars, taskVars
    <3> QED
      BY <3>3, <3>4, <3>5, <3>6 DEF Owed
  <2> QED
    BY <1>5, <2>2, <2>3, <2>4 DEF IndInv
<1>7. CASE answer' = [answer EXCEPT ![c] = "no room"] /\ UNCHANGED <<channel, callStep>>
  <2>1. TypeOK'
    BY <1>1, <1>7 DEF IndInv, TypeOK, taskVars, exportVars
  <2>2. ResourceFirst'
    BY <1>1, <1>7 DEF IndInv, ResourceFirst, taskVars
  <2>3. Owed'
    BY <1>1, <1>4, <1>7 DEF IndInv, TypeOK, Owed, IsRequest, AtWork, taskVars, exportVars
  <2> QED
    BY <1>5, <2>1, <2>2, <2>3 DEF IndInv
<1> QED
  BY <1>1, <1>6, <1>7

LEMMA ReturnStep == ASSUME IndInv, NEW c \in AsyncCallers, ReturnAsync(c) PROVE IndInv'
<1>1. /\ answer[c] # "none" /\ callStep' = [callStep EXCEPT ![c] = "idle"]
      /\ UNCHANGED <<maxConcurrent, forLogs, received, channel, taskVars, exportVars, callKind, answer>>
  BY DEF ReturnAsync
<1>2. \A message : Owes(message) => Owes(message)'
  BY <1>1 DEF IndInv, TypeOK, Owes
<1>3. TypeOK'
  BY <1>1 DEF IndInv, TypeOK, taskVars, exportVars
<1>4. ResourceFirst'
  BY <1>1 DEF IndInv, ResourceFirst, taskVars
<1>5. InTime'
  BY <1>1, InTimeUnchanged DEF IndInv, taskVars, exportVars
<1>6. Owed'
  BY <1>1, <1>2 DEF IndInv, Owed, IsRequest, AtWork, taskVars, exportVars
<1> QED
  BY <1>3, <1>4, <1>5, <1>6 DEF IndInv

-----------------------------------------------------------------------------
(* The task *)

(* The job is answered. *)
LEMMA OwedAnswered ==
    ASSUME TypeOK, Owed, AtWork, ~AtWork', ~(forLogs /\ job.kind = "Shutdown"),
           UNCHANGED <<forLogs, channel, callStep, callKind, exporterStopped>>,
           answer' = [answer EXCEPT ![job.of] = IF ownOk THEN "Ok" ELSE "Err"]
    PROVE  Owed'
<1>1. Owes(job) /\ callKind[job.of] = job.kind
  BY DEF Owed, Owes
<1>2. \A i \in DOMAIN channel : IsRequest(i) => Owes(channel[i]) /\ channel[i].of # job.of
  BY DEF Owed
<1>3. \A c \in AsyncCallers : c # job.of => answer'[c] = answer[c]
  BY DEF TypeOK
<1>4. \A i \in DOMAIN channel' : IsRequest(i)' => Owes(channel[i])'
  BY <1>2, <1>3 DEF Owes, IsRequest
<1>5. \A i, j \in DOMAIN channel' :
         IsRequest(i)' /\ IsRequest(j)' /\ channel'[i].of = channel'[j].of => i = j
  BY DEF Owed, IsRequest
<1>6. forLogs' => \A c \in AsyncCallers :
         callKind'[c] = "Shutdown" /\ answer'[c] \in {"Ok", "Err"} => exporterStopped'
  BY <1>1, <1>3 DEF Owed
<1> QED
  BY <1>4, <1>5, <1>6 DEF Owed

(* A step of the task that neither reads the channel nor answers.           *)
LEMMA OwedKept ==
    ASSUME Owed, UNCHANGED <<forLogs, channel, callStep, callKind, answer, exporterStopped>>,
           (AtWork' => AtWork /\ job' = job)
    PROVE  Owed'
BY DEF Owed, AtWork, IsRequest, Owes

LEMMA TailFacts ==
    ASSUME TypeOK, channel # <<>>, channel' = Tail(channel)
    PROVE  /\ channel' \in Seq(Messages) /\ Head(channel) \in Messages
           /\ 1 \in DOMAIN channel /\ Head(channel) = channel[1]
           /\ \A i \in DOMAIN channel' :
                 i + 1 \in DOMAIN channel /\ i + 1 # 1 /\ channel'[i] = channel[i + 1]
                 /\ i \in Nat
<1>0. channel \in Seq(Messages)
  BY DEF TypeOK
<1>1. Len(channel) \in Nat \ {0} /\ DOMAIN channel = 1..Len(channel)
  BY <1>0
<1>2. channel' \in Seq(Messages) /\ DOMAIN channel' = 1..(Len(channel) - 1)
      /\ \A i \in 1..(Len(channel) - 1) : channel'[i] = channel[i + 1]
  BY <1>0
<1> QED
  BY <1>0, <1>1, <1>2

(* Process takes a span, or begins the work on a request.                   *)
LEMMA ProcessFacts ==
    ASSUME TypeOK, InTime, step = "select",
           NEW message \in [kind : Requests \cup {"SetResource", "Span", "Tick"}, of : Values],
           Process(message)
    PROVE  /\ spans' \in Seq(Values) /\ job' \in Jobs
           /\ UNCHANGED <<maxConcurrent, forLogs, received, ownOk, unpolled, tasks, replyTask, completed,
                   exporterStopped, callStep, callKind, answer>>
           /\ \/ message.kind = "Span" /\ step' \in {"saturated", "select"} /\ own' = own /\ job' = job
              \/ /\ message.kind = "SetResource" /\ step' = "exporter" /\ job' = message
                 /\ UNCHANGED <<spans, own>>
              \/ /\ message.kind \in Requests \cup {"Tick"} /\ step' = "export" /\ job' = message
                 /\ spans' = <<>> /\ own' = spans
<1>1. UNCHANGED <<maxConcurrent, forLogs, received, ownOk, unpolled, tasks, replyTask, completed,
                  exporterStopped, callStep, callKind, answer>>
  BY DEF Process, asyncCallVars
<1>2. spans \in Seq(Values) /\ job \in Jobs
  BY DEF TypeOK
<1>3. CASE message.kind = "Span"
  <2>1. spans' = Append(spans, message.of) /\ step' \in {"saturated", "select"}
        /\ UNCHANGED <<job, own>>
    BY <1>3 DEF Process, BufferSpan
  <2>2. spans' \in Seq(Values)
    BY <1>2, <2>1
  <2> QED
    BY <1>1, <1>2, <1>3, <2>1, <2>2
<1>4. CASE message.kind # "Span"
  <2>1. job' = message /\ message \in Jobs
    BY <1>4 DEF Process, Jobs
  <2>2. CASE message.kind = "SetResource"
    BY <1>1, <1>2, <2>1, <2>2 DEF Process
  <2>3. CASE message.kind # "SetResource"
    <3>1. step' = "export" /\ spans' = <<>> /\ own' = spans
      BY <1>4, <2>3 DEF Process, TakeBatch
    <3>2. spans' \in Seq(Values)
      BY <3>1
    <3> QED
      BY <1>1, <1>4, <2>1, <2>3, <3>1, <3>2
  <2> QED
    BY <2>2, <2>3
<1> QED
  BY <1>3, <1>4

LEMMA ReceiveStep == ASSUME IndInv, ReceiveAsync PROVE IndInv'
<1> DEFINE m == Head(channel)
<1>0. TypeOK /\ ResourceFirst /\ InTime /\ Owed
  BY DEF IndInv
<1>1. step = "select" /\ channel # <<>> /\ channel' = Tail(channel) /\ Process(m)
  BY DEF ReceiveAsync
<1>2. /\ channel' \in Seq(Messages) /\ m \in Messages /\ 1 \in DOMAIN channel /\ m = channel[1]
      /\ \A i \in DOMAIN channel' :
            i + 1 \in DOMAIN channel /\ i + 1 # 1 /\ channel'[i] = channel[i + 1] /\ i \in Nat
  BY <1>0, <1>1, TailFacts
<1>3. m \in [kind : Requests \cup {"SetResource", "Span", "Tick"}, of : Values]
  BY <1>2 DEF Messages
<1>4. /\ spans' \in Seq(Values) /\ job' \in Jobs
      /\ UNCHANGED <<maxConcurrent, forLogs, received, ownOk, unpolled, tasks, replyTask, completed,
                     exporterStopped, callStep, callKind, answer>>
      /\ \/ m.kind = "Span" /\ step' \in {"saturated", "select"} /\ own' = own /\ job' = job
         \/ /\ m.kind = "SetResource" /\ step' = "exporter" /\ job' = m
            /\ UNCHANGED <<spans, own>>
         \/ /\ m.kind \in Requests \cup {"Tick"} /\ step' = "export" /\ job' = m
            /\ spans' = <<>> /\ own' = spans
  BY <1>0, <1>1, <1>3, ProcessFacts
<1> HIDE DEF m
<1>5. TypeOK'
  BY <1>0, <1>2, <1>4 DEF TypeOK
<1>6. \A i \in DOMAIN channel' : channel'[i].kind # "SetResource"
  BY <1>0, <1>2 DEF ResourceFirst
<1>7. ResourceFirst'
  BY <1>6 DEF ResourceFirst
<1>8. InTime'
  <2>1. InFlight' = InFlight
    BY <1>4 DEF InFlight
  <2>2. own = <<>> /\ ~exporterStopped /\ job.kind = "None"
    BY <1>0, <1>1 DEF InTime
  <2>3. m.kind = "SetResource" => unpolled = <<>> /\ tasks = {}
    BY <1>0, <1>2 DEF ResourceFirst
  <2> QED
    BY <1>0, <1>1, <1>4, <2>1, <2>2, <2>3 DEF InTime
<1>9. Owed'
  <2>1. \A message : Owes(message)' <=> Owes(message)
    BY <1>4 DEF Owes
  <2>2. \A i \in DOMAIN channel' : IsRequest(i)' => Owes(channel[i + 1]) /\ IsRequest(i + 1)
    BY <1>0, <1>2 DEF Owed, IsRequest
  <2>3. \A i \in DOMAIN channel' : IsRequest(i)' => Owes(channel[i])'
    <3> SUFFICES ASSUME NEW i \in DOMAIN channel', IsRequest(i)' PROVE Owes(channel[i])'
      OBVIOUS
    <3>1. channel'[i] = channel[i + 1] /\ Owes(channel[i + 1])
      BY <1>2, <2>2
    <3> QED
      BY <1>4, <3>1 DEF Owes
  <2>4. \A i, j \in DOMAIN channel' :
           IsRequest(i)' /\ IsRequest(j)' /\ channel'[i].of = channel'[j].of => i = j
    <3> SUFFICES ASSUME NEW i \in DOMAIN channel', NEW j \in DOMAIN channel', IsRequest(i)',
                        IsRequest(j)', channel'[i].of = channel'[j].of
                 PROVE  i = j
      OBVIOUS
    <3>1. i + 1 = j + 1
      BY <1>0, <1>2, <2>2 DEF Owed
    <3> QED
      BY <1>2, <3>1
  <2>5. AtWork' => /\ Owes(job)'
                   /\ \A i \in DOMAIN channel' : IsRequest(i)' => channel'[i].of # job'.of
    <3> SUFFICES ASSUME AtWork'
                 PROVE  /\ Owes(job)'
                        /\ \A i \in DOMAIN channel' : IsRequest(i)' => channel'[i].of # job'.of
      OBVIOUS
    <3>1. job' = channel[1] /\ IsRequest(1)
      BY <1>2, <1>4 DEF AtWork, IsRequest, Requests
    <3>2. Owes(channel[1])
      BY <1>0, <1>2, <3>1 DEF Owed
    <3>3. Owes(job)'
      BY <1>4, <3>1, <3>2 DEF Owes
    <3>4. \A i \in DOMAIN channel' : IsRequest(i)' => channel'[i].of # job'.of
      BY <1>0, <1>2, <2>2, <3>1 DEF Owed
    <3> QED
      BY <3>3, <3>4
  <2>6. forLogs' => \A c \in AsyncCallers :
           callKind'[c] = "Shutdown" /\ answer'[c] \in {"Ok", "Err"} => exporterStopped'
    BY <1>0, <1>4 DEF Owed
  <2> QED
    BY <2>3, <2>4, <2>5, <2>6 DEF Owed
<1> QED
  BY <1>5, <1>7, <1>8, <1>9 DEF IndInv

LEMMA TickStep == ASSUME IndInv, TickAsync PROVE IndInv'
<1>0. TypeOK /\ ResourceFirst /\ InTime /\ Owed
  BY DEF IndInv
<1>1. step = "select" /\ channel' = channel /\ Process(Entry("Tick", 0))
  BY DEF TickAsync
<1>2. Entry("Tick", 0) \in [kind : Requests \cup {"SetResource", "Span", "Tick"}, of : Values]
      /\ Entry("Tick", 0).kind = "Tick"
  BY DEF Entry, Values
<1>3. /\ spans' = <<>> /\ spans' \in Seq(Values) /\ job' \in Jobs /\ job'.kind = "Tick"
      /\ step' = "export" /\ own' = spans
      /\ UNCHANGED <<maxConcurrent, forLogs, received, ownOk, unpolled, tasks, replyTask, completed,
                     exporterStopped, callStep, callKind, answer>>
  BY <1>0, <1>1, <1>2, ProcessFacts DEF Requests
<1>4. TypeOK'
  BY <1>0, <1>1, <1>3 DEF TypeOK
<1>5. ResourceFirst'
  BY <1>0, <1>1, <1>3 DEF ResourceFirst
<1>6. InTime'
  <2>1. InFlight' = InFlight
    BY <1>3 DEF InFlight
  <2> QED
    BY <1>0, <1>1, <1>3, <2>1 DEF InTime
<1>7. Owed'
  BY <1>0, <1>1, <1>3, OwedKept DEF AtWork, Requests
<1> QED
  BY <1>4, <1>5, <1>6, <1>7 DEF IndInv

-----------------------------------------------------------------------------
(* The exports in flight *)

LEMMA BeginExportStep == ASSUME IndInv, BeginExport PROVE IndInv'
<1>0. TypeOK /\ ResourceFirst /\ InTime /\ Owed
  BY DEF IndInv
<1>1. /\ PollsExports /\ unpolled # <<>> /\ unpolled' = Tail(unpolled)
      /\ tasks' = tasks \cup {Head(unpolled)}
      /\ UNCHANGED <<maxConcurrent, forLogs, received, channel, step, job, spans, own, replyTask,
                     exporterStopped, callStep, callKind, answer>>
  BY DEF BeginExport, asyncCallVars
<1>2. unpolled \in Seq(Seq(Values)) /\ IsFiniteSet(tasks)
  BY <1>0 DEF TypeOK
<1>3. /\ unpolled' \in Seq(Seq(Values)) /\ Len(unpolled) \in Nat \ {0}
      /\ Len(unpolled') = Len(unpolled) - 1
  BY <1>1, <1>2
<1>4. /\ IsFiniteSet(tasks') /\ Cardinality(tasks) \in Nat /\ Cardinality(tasks') \in Nat
      /\ Cardinality(tasks') <= Cardinality(tasks) + 1
  <2>1. /\ IsFiniteSet(tasks')
        /\ Cardinality(tasks') = IF Head(unpolled) \in tasks THEN Cardinality(tasks)
                                  ELSE Cardinality(tasks) + 1
    BY <1>1, <1>2, FS_AddElement
  <2>2. Cardinality(tasks) \in Nat /\ Cardinality(tasks') \in Nat
    BY <1>2, <2>1, FS_CardinalityType
  <2> QED
    BY <2>1, <2>2
<1>5. TypeOK'
  BY <1>0, <1>1, <1>3, <1>4 DEF TypeOK
<1>6. ResourceFirst'
  BY <1>0, <1>1 DEF ResourceFirst
<1>7. InTime'
  <2>1. InFlight' <= InFlight /\ InFlight \in Nat /\ InFlight' \in Nat
    <3>1. Len(unpolled') \in Nat
      BY <1>3
    <3> QED
      BY <1>3, <1>4, <3>1 DEF InFlight
  <2>2. maxConcurrent # 1 /\ step \notin {"exporter", "stopped"}
    BY <1>0, <1>1 DEF InTime
  <2>3. maxConcurrent' # 0 => InFlight' <= maxConcurrent'
    <3>1. maxConcurrent \in Nat /\ (maxConcurrent # 0 => InFlight <= maxConcurrent)
      BY <1>0 DEF TypeOK, InTime
    <3> QED
      BY <1>1, <2>1, <3>1
  <2> QED
    BY <1>0, <1>1, <2>2, <2>3 DEF InTime
<1>8. Owed'
  BY <1>0, <1>1, OwedKept DEF AtWork
<1> QED
  BY <1>5, <1>6, <1>7, <1>8 DEF IndInv

LEMMA CompleteExportStep == ASSUME IndInv, CompleteExport PROVE IndInv'
<1>0. TypeOK /\ ResourceFirst /\ InTime /\ Owed
  BY DEF IndInv
<1>1. PICK batch \in tasks : tasks' = tasks \ {batch}
  BY DEF CompleteExport
<1>2. UNCHANGED <<maxConcurrent, forLogs, received, channel, step, job, spans, own, unpolled,
                  replyTask, exporterStopped, callStep, callKind, answer>>
  BY DEF CompleteExport, asyncCallVars
<1>3. IsFiniteSet(tasks)
  BY <1>0 DEF TypeOK
<1>4. /\ IsFiniteSet(tasks') /\ Cardinality(tasks) \in Nat /\ Cardinality(tasks') \in Nat
      /\ Cardinality(tasks') = Cardinality(tasks) - 1
  BY <1>1, <1>3, FS_RemoveElement, FS_CardinalityType
<1>5. TypeOK'
  BY <1>0, <1>2, <1>4 DEF TypeOK
<1>6. ResourceFirst'
  BY <1>0, <1>1, <1>2 DEF ResourceFirst
<1>7. InTime'
  <2>0. unpolled \in Seq(Seq(Values)) /\ maxConcurrent \in Nat
    BY <1>0 DEF TypeOK
  <2>1. Len(unpolled) \in Nat
    BY <2>0
  <2>2. maxConcurrent' # 0 => InFlight' <= maxConcurrent'
    BY <1>0, <1>2, <1>4, <2>0, <2>1 DEF InTime, InFlight
  <2> QED
    BY <1>0, <1>1, <1>2, <2>2 DEF InTime
<1>8. Owed'
  BY <1>0, <1>2, OwedKept DEF AtWork
<1> QED
  BY <1>5, <1>6, <1>7, <1>8 DEF IndInv

LEMMA StartExportStep == ASSUME IndInv, StartExport PROVE IndInv'
<1>0. TypeOK /\ ResourceFirst /\ InTime /\ Owed
  BY DEF IndInv
<1>1. /\ step = "saturated" /\ ~Saturated /\ spans' = <<>> /\ own = <<>>
      /\ UNCHANGED <<maxConcurrent, forLogs, received, channel, tasks, replyTask, exporterStopped,
                     callStep, callKind, answer>>
  BY <1>0 DEF StartExport, TakeBatch, asyncCallVars, InTime
<1>2. \/ maxConcurrent = 1 /\ step' = "export" /\ UNCHANGED <<job, unpolled>>
      \/ /\ maxConcurrent # 1 /\ step' = "select" /\ job' = NoJob /\ own' = own
         /\ unpolled' = Append(unpolled, spans)
  BY DEF StartExport, TakeBatch, Move, NextRound
<1>3. unpolled \in Seq(Seq(Values)) /\ spans \in Seq(Values) /\ Cardinality(tasks) \in Nat
      /\ maxConcurrent \in Nat
  BY <1>0, FS_CardinalityType DEF TypeOK
<1>4. /\ Len(unpolled) \in Nat /\ spans' \in Seq(Values)
      /\ \/ unpolled' = unpolled
         \/ unpolled' \in Seq(Seq(Values)) /\ Len(unpolled') = Len(unpolled) + 1
  <2>1. Len(unpolled) \in Nat /\ spans' \in Seq(Values)
    BY <1>1, <1>3
  <2>2. CASE unpolled' = Append(unpolled, spans)
    <3>1. unpolled' \in Seq(Seq(Values)) /\ Len(unpolled') = Len(unpolled) + 1
      BY <1>3, <2>2
    <3> QED
      BY <2>1, <3>1
  <2> QED
    BY <1>2, <2>1, <2>2
<1>5. NoJob \in Jobs /\ NoJob.kind \notin Requests /\ NoJob.kind = "None"
  BY DEF NoJob, Entry, Jobs, Requests, Values
<1>6. TypeOK'
  BY <1>0, <1>1, <1>2, <1>4, <1>5 DEF TypeOK
<1>7. ResourceFirst'
  BY <1>0, <1>1 DEF ResourceFirst
<1>8. InTime'
  <2>1. maxConcurrent' # 0 => InFlight' <= maxConcurrent'
    <3>1. InFlight \in Nat /\ InFlight' \in Nat /\ InFlight' <= InFlight + 1
      BY <1>1, <1>3, <1>4 DEF InFlight
    <3>2. maxConcurrent # 0 => InFlight < maxConcurrent
      BY <1>0, <1>1, <1>3, <3>1 DEF InTime, Saturated
    <3> QED
      BY <1>1, <1>3, <3>1, <3>2
  <2> QED
    BY <1>0, <1>1, <1>2, <1>5, <2>1 DEF InTime
<1>9. Owed'
  <2>1. CASE job'.kind \notin Requests
    BY <1>0, <1>1, <2>1, OwedKept DEF AtWork
  <2>2. CASE job'.kind \in Requests
    <3>1. job' = job
      BY <1>2, <1>5, <2>2
    <3>2. job.kind \notin Requests
      BY <1>0, <1>1 DEF InTime, Requests
    <3> QED
      BY <2>2, <3>1, <3>2
  <2> QED
    BY <2>1, <2>2
<1> QED
  BY <1>6, <1>7, <1>8, <1>9 DEF IndInv

-----------------------------------------------------------------------------
(* The replies and the exporter *)

LEMMA FinishExportStep == ASSUME IndInv, FinishExport PROVE IndInv'
<1>0. TypeOK /\ ResourceFirst /\ InTime /\ Owed
  BY DEF IndInv
<1>1. /\ step = "export" /\ own' = <<>>
      /\ UNCHANGED <<maxConcurrent, forLogs, received, channel, spans, unpolled, tasks, replyTask,
                     exporterStopped, callStep, callKind, answer>>
      /\ \/ step' = "select" /\ job' = NoJob
         \/ step' = "reply" /\ job' = job
  BY DEF FinishExport, NextRound, asyncCallVars
<1>2. NoJob \in Jobs /\ NoJob.kind = "None"
  BY DEF NoJob, Entry, Jobs, Values
<1>3. TypeOK'
  BY <1>0, <1>1, <1>2 DEF TypeOK
<1>4. ResourceFirst'
  BY <1>0, <1>1 DEF ResourceFirst
<1>5. InTime'
  <2>1. InFlight' = InFlight
    BY <1>1 DEF InFlight
  <2> QED
    BY <1>0, <1>1, <1>2, <2>1 DEF InTime
<1>6. Owed'
  BY <1>0, <1>1, <1>2, OwedKept DEF AtWork, Requests
<1> QED
  BY <1>3, <1>4, <1>5, <1>6 DEF IndInv

(* After a reply the task selects again, or turns to the exporter.          *)
LEMMA AfterReplyFacts ==
    ASSUME IndInv, AfterReply, tasks = {}, unpolled = <<>>,
           UNCHANGED <<maxConcurrent, own, unpolled, tasks, exporterStopped, channel, spans, replyTask>>,
           own = <<>>, ~exporterStopped, ~replyTask
    PROVE  /\ InTime' /\ ResourceFirst' /\ job' \in Jobs
           /\ \/ step' = "select" /\ job'.kind = "None"
              \/ step' = "exporter" /\ job' = job /\ job.kind = "Shutdown"
<1>1. NoJob \in Jobs /\ NoJob.kind = "None" /\ job \in Jobs
  BY DEF NoJob, Entry, Jobs, Values, IndInv, TypeOK
<1>2. \/ step' = "select" /\ job' = NoJob
      \/ step' = "exporter" /\ job' = job /\ job.kind = "Shutdown"
  BY DEF AfterReply, NextRound, Move
<1>3. InTime'
  <2>1. InFlight' = InFlight
    BY DEF InFlight
  <2> QED
    BY <1>1, <1>2, <2>1 DEF IndInv, InTime
<1>4. ResourceFirst'
  BY <1>2 DEF IndInv, ResourceFirst
<1> QED
  BY <1>1, <1>2, <1>3, <1>4

LEMMA ReplyNowStep == ASSUME IndInv, ReplyNow PROVE IndInv'
<1>0. TypeOK /\ ResourceFirst /\ InTime /\ Owed
  BY DEF IndInv
<1>1. /\ step = "reply" /\ maxConcurrent = 1 /\ AfterReply
      /\ UNCHANGED <<maxConcurrent, forLogs, received, channel, spans, own, unpolled, tasks,
                     replyTask, exporterStopped, callStep, callKind>>
  BY DEF ReplyNow, exportVars, asyncCallVars
<1>2. own = <<>> /\ tasks = {} /\ unpolled = <<>> /\ ~exporterStopped /\ ~replyTask
  BY <1>0, <1>1 DEF InTime
<1>3. /\ InTime' /\ ResourceFirst' /\ job' \in Jobs
      /\ \/ step' = "select" /\ job'.kind = "None"
         \/ step' = "exporter" /\ job' = job /\ job.kind = "Shutdown"
  BY <1>1, <1>2, AfterReplyFacts
<1>4. \/ answer' = answer
      \/ /\ job.kind \in Requests /\ ~(forLogs /\ job.kind = "Shutdown")
         /\ answer' = [answer EXCEPT ![job.of] = IF ownOk THEN "Ok" ELSE "Err"]
  BY DEF ReplyNow, SendAnswer, Requests
<1>5. TypeOK'
  <2>1. answer' \in [AsyncCallers -> {"none", "no room", "canceled", "Ok", "Err"}]
    BY <1>0, <1>4 DEF TypeOK
  <2> QED
    BY <1>0, <1>1, <1>3, <2>1 DEF TypeOK
<1>6. Owed'
  <2>1. CASE answer' = answer
    BY <1>0, <1>1, <1>3, <2>1, OwedKept DEF AtWork, Requests
  <2>2. CASE answer' # answer
    <3>1. AtWork /\ ~AtWork'
      BY <1>1, <1>3, <1>4, <2>2 DEF AtWork, Requests
    <3> QED
      BY <1>0, <1>1, <1>4, <2>2, <3>1, OwedAnswered
  <2> QED
    BY <2>1, <2>2
<1> QED
  BY <1>3, <1>5, <1>6 DEF IndInv

LEMMA PushReplyStep == ASSUME IndInv, PushReply PROVE IndInv'
<1>0. TypeOK /\ ResourceFirst /\ InTime /\ Owed
  BY DEF IndInv
<1>1. /\ step = "reply" /\ maxConcurrent # 1 /\ replyTask' = TRUE /\ step' = "drain"
      /\ UNCHANGED <<maxConcurrent, forLogs, received, channel, job, spans, own, unpolled, tasks,
                     exporterStopped, callStep, callKind, answer>>
  BY DEF PushReply, exportVars, asyncCallVars
<1>2. TypeOK'
  BY <1>0, <1>1 DEF TypeOK
<1>3. ResourceFirst'
  BY <1>0, <1>1 DEF ResourceFirst
<1>4. InTime'
  <2>1. InFlight' = InFlight
    BY <1>1 DEF InFlight
  <2> QED
    BY <1>0, <1>1, <2>1 DEF InTime
<1>5. Owed'
  BY <1>0, <1>1, OwedKept DEF AtWork
<1> QED
  BY <1>2, <1>3, <1>4, <1>5 DEF IndInv

LEMMA RunReplyTaskStep == ASSUME IndInv, RunReplyTask PROVE IndInv'
<1>0. TypeOK /\ ResourceFirst /\ InTime /\ Owed
  BY DEF IndInv
<1>1. /\ step = "drain" /\ replyTask' = FALSE
      /\ UNCHANGED <<maxConcurrent, forLogs, received, channel, step, job, spans, own, unpolled, tasks,
                     exporterStopped, callStep, callKind>>
      /\ answer' = answer \/ (/\ replyTask /\ job.kind \in Requests
                              /\ answer' = [answer EXCEPT ![job.of] = IF ownOk THEN "Ok" ELSE "Err"])
  BY DEF RunReplyTask, SendAnswer, exportVars, asyncCallVars, Requests
<1>2. TypeOK'
  <2>1. answer' \in [AsyncCallers -> {"none", "no room", "canceled", "Ok", "Err"}]
    BY <1>0, <1>1 DEF TypeOK
  <2> QED
    BY <1>0, <1>1, <2>1 DEF TypeOK
<1>3. ResourceFirst'
  BY <1>0, <1>1 DEF ResourceFirst
<1>4. InTime'
  BY <1>0, <1>1 DEF InTime, InFlight
<1>5. Owed'
  <2>1. ~forLogs /\ ~AtWork'
    BY <1>0, <1>1 DEF TypeOK, InTime, AtWork
  <2>2. CASE answer' = answer
    BY <1>0, <1>1, <2>1, <2>2, OwedKept
  <2>3. CASE answer' # answer
    <3>1. AtWork
      BY <1>1, <2>3 DEF AtWork
    <3> QED
      BY <1>0, <1>1, <2>1, <2>3, <3>1, OwedAnswered
  <2> QED
    BY <2>2, <2>3
<1> QED
  BY <1>2, <1>3, <1>4, <1>5 DEF IndInv

LEMMA FinishDrainStep == ASSUME IndInv, FinishDrain PROVE IndInv'
<1>0. TypeOK /\ ResourceFirst /\ InTime /\ Owed
  BY DEF IndInv
<1>1. /\ step = "drain" /\ InFlight = 0 /\ ~replyTask /\ AfterReply
      /\ UNCHANGED <<maxConcurrent, forLogs, received, channel, spans, own, unpolled, tasks,
                     replyTask, exporterStopped, callStep, callKind, answer>>
  BY DEF FinishDrain, Drained, exportVars, asyncCallVars
<1>2. tasks = {} /\ unpolled = <<>>
  <2>1. unpolled \in Seq(Seq(Values)) /\ IsFiniteSet(tasks)
    BY <1>0 DEF TypeOK
  <2>2. Len(unpolled) \in Nat /\ Cardinality(tasks) \in Nat
    BY <2>1, FS_CardinalityType
  <2>3. Len(unpolled) = 0 /\ Cardinality(tasks) = 0
    BY <1>1, <2>2 DEF InFlight
  <2> QED
    BY <2>1, <2>3, FS_EmptySet
<1>3. own = <<>> /\ ~exporterStopped /\ ~forLogs
  BY <1>0, <1>1 DEF InTime, TypeOK
<1>4. InTime' /\ ResourceFirst' /\ job' \in Jobs /\ step' \in {"select", "exporter"}
  BY <1>1, <1>2, <1>3, AfterReplyFacts
<1>5. TypeOK'
  BY <1>0, <1>1, <1>4 DEF TypeOK
<1>6. Owed'
  BY <1>0, <1>1, <1>3, <1>4, OwedKept DEF AtWork
<1> QED
  BY <1>4, <1>5, <1>6 DEF IndInv

LEMMA UseExporterStep == ASSUME IndInv, UseExporter PROVE IndInv'
<1>0. TypeOK /\ ResourceFirst /\ InTime /\ Owed
  BY DEF IndInv
<1>1. /\ step = "exporter" /\ tasks = {} /\ unpolled = <<>> /\ own = <<>>
      /\ UNCHANGED <<maxConcurrent, forLogs, received, spans, own, unpolled, tasks, replyTask,
                     callStep, callKind>>
  BY <1>0 DEF UseExporter, asyncCallVars, InTime
<1>2. InFlight' = InFlight
  BY <1>1 DEF InFlight
<1>3. CASE job.kind = "Shutdown"
  <2>1. exporterStopped' = TRUE /\ step' = "stopped" /\ job' = job /\ channel' = <<>>
    BY <1>3 DEF UseExporter, Move, CloseChannel
  <2>2. answer' \in [AsyncCallers -> {"none", "no room", "canceled", "Ok", "Err"}]
    <3>1. answer' = [c \in AsyncCallers |->
                       IF \E i \in DOMAIN channel : channel[i].of = c THEN "canceled"
                       ELSE IF forLogs /\ job.of = c THEN (IF ownOk THEN "Ok" ELSE "Err")
                       ELSE answer[c]]
      BY <1>3 DEF UseExporter, CloseChannel
    <3> QED
      BY <1>0, <3>1 DEF TypeOK
  <2>3. channel' \in Seq(Messages) /\ DOMAIN channel' = {}
    BY <2>1
  <2>4. TypeOK'
    BY <1>0, <1>1, <2>1, <2>2, <2>3 DEF TypeOK
  <2>5. ResourceFirst'
    BY <2>3 DEF ResourceFirst
  <2>6. InTime'
    BY <1>0, <1>1, <1>2, <2>1 DEF InTime
  <2>7. Owed'
    BY <2>1, <2>3 DEF Owed, AtWork
  <2> QED
    BY <2>4, <2>5, <2>6, <2>7 DEF IndInv
<1>4. CASE job.kind # "Shutdown"
  <2>1. step' = "select" /\ job' = NoJob /\ UNCHANGED <<exporterStopped, channel, answer>>
    BY <1>4 DEF UseExporter, NextRound
  <2>2. NoJob \in Jobs /\ NoJob.kind = "None"
    BY DEF NoJob, Entry, Jobs, Values
  <2>3. TypeOK'
    BY <1>0, <1>1, <2>1, <2>2 DEF TypeOK
  <2>4. ResourceFirst'
    BY <1>0, <1>1, <2>1 DEF ResourceFirst
  <2>5. InTime'
    BY <1>0, <1>1, <1>2, <2>1, <2>2 DEF InTime
  <2>6. Owed'
    BY <1>0, <1>1, <2>1, <2>2, OwedKept DEF AtWork, Requests
  <2> QED
    BY <2>3, <2>4, <2>5, <2>6 DEF IndInv
<1> QED
  BY <1>3, <1>4

LEMMA Inductive == AsyncInit /\ [][AsyncNext]_asyncVars => []IndInv
<1>1. AsyncInit => IndInv
  BY IndInvInit
<1>2. IndInv /\ [AsyncNext]_asyncVars => IndInv'
  <2> SUFFICES ASSUME IndInv, [AsyncNext]_asyncVars PROVE IndInv'
    OBVIOUS
  <2>1. CASE OnEndAsync \/ ReceiveAsync \/ TickAsync
    BY <2>1, OnEndStep, ReceiveStep, TickStep
  <2>2. CASE AsyncTask
    BY <2>2, BeginExportStep, CompleteExportStep, StartExportStep, FinishExportStep, ReplyNowStep,
       PushReplyStep, RunReplyTaskStep, FinishDrainStep, UseExporterStep DEF AsyncTask
  <2>3. ASSUME NEW c \in AsyncCallers,
               CallAsync(c, "Flush") \/ CallAsync(c, "Shutdown") \/ ReturnAsync(c)
        PROVE  IndInv'
    BY <2>3, CallStep, ReturnStep DEF Requests
  <2>4. CASE UNCHANGED asyncVars
    <3>1. UNCHANGED <<maxConcurrent, forLogs, received, channel, step, job, spans, own, unpolled, tasks,
                      replyTask, exporterStopped, callStep, callKind, answer>>
      BY <2>4 DEF asyncVars, taskVars, exportVars, asyncCallVars
    <3> QED
      BY <3>1 DEF IndInv, TypeOK, ResourceFirst, InTime, InFlight, Owed, AtWork, IsRequest, Owes
  <2> QED
    BY <2>1, <2>2, <2>3, <2>4 DEF AsyncNext
<1> QED
  BY <1>1, <1>2, PTL

(* The task never turns to the exporter with exports left to poll, keeps to *)
(* its limit of exports in flight, and a log processor that has answered a  *)
(* shutdown has shut its exporter down.                                     *)
THEOREM ExporterIsFree == AsyncSpec => []ExporterNeverStuck
<1>1. IndInv => ExporterNeverStuck
  <2> SUFFICES ASSUME IndInv PROVE ExporterNeverStuck
    OBVIOUS
  <2>1. TypeOK /\ InTime /\ Owed
    BY DEF IndInv
  <2>2. maxConcurrent = 1 => InFlight = 0
    BY <2>1, FS_EmptySet DEF InTime, InFlight
  <2>3. maxConcurrent # 0 => InFlight <= IF maxConcurrent = 1 THEN 0 ELSE maxConcurrent
    BY <2>1, <2>2 DEF InTime
  <2>4. step = "exporter" \/ exporterStopped => tasks = {} /\ unpolled = <<>> /\ own = <<>>
    BY <2>1 DEF InTime
  <2> QED
    BY <2>1, <2>3, <2>4 DEF ExporterNeverStuck, Owed
<1> QED
  BY <1>1, Inductive, PTL DEF AsyncSpec

-----------------------------------------------------------------------------
(* Where the spans are                                                      *)
(*                                                                          *)
(* On their way from the channel to the exporter spans are only moved; a    *)
(* batch of a flush passes those that were pushed before it.  A request is  *)
(* overtaken by no span that was received before it: those ahead of it in   *)
(* the channel, and those the task has, are what it stands for.             *)

Placed ==
    step # "stopped" =>
        /\ ToSet(Everywhere) = 1..received /\ Len(Everywhere) = received
        /\ maxConcurrent = 1 => Everywhere = [i \in 1..received |-> i]
Exported == ToSet(handed) = completed \cup ToSet(own) \cup UNION {ToSet(batch) : batch \in tasks}

Reached == ToSet(handed) \cup ToSet(FlattenSeq(unpolled))
Ahead(i) == {channel[j].of : j \in {k \in 1..(i - 1) : channel[k].kind = "Span"}}
Promised ==
    /\ \A i \in DOMAIN channel : IsRequest(i) =>
          1..callMust[channel[i].of] \subseteq Reached \cup ToSet(spans) \cup Ahead(i)
    /\ AtWork => 1..callMust[job.of] \subseteq Reached
    /\ \A c \in AsyncCallers :
          answer[c] \in {"Ok", "Err"} => 1..callMust[c] \subseteq ToSet(handed)

HistoryOK ==
    /\ handed \in Seq(Values) /\ own \in Seq(Values) /\ callMust \in [AsyncCallers -> Nat]
SpansInv == HistoryOK /\ Placed /\ Exported /\ Promised

(* SpansIn *)
LEMMA SpanOfType == ASSUME NEW m \in Messages PROVE SpanOf(m) \in Seq(Values)
BY DEF SpanOf, Messages

LEMMA SpansInParts ==
    ASSUME NEW ms \in Seq(Messages)
    PROVE  /\ [i \in DOMAIN ms |-> SpanOf(ms[i])] \in Seq(Seq(Values))
           /\ SpansIn(ms) \in Seq(Values)
<1>1. DOMAIN ms = 1..Len(ms) /\ Len(ms) \in Nat /\ \A i \in 1..Len(ms) : ms[i] \in Messages
  OBVIOUS
<1>2. [i \in DOMAIN ms |-> SpanOf(ms[i])] \in [1..Len(ms) -> Seq(Values)]
  BY <1>1, SpanOfType
<1>3. [i \in DOMAIN ms |-> SpanOf(ms[i])] \in Seq(Seq(Values))
  BY <1>1, <1>2, SeqDef
<1> QED
  BY <1>3, FlattenType DEF SpansIn

LEMMA SpansInAppend ==
    ASSUME NEW ms \in Seq(Messages), NEW m \in Messages
    PROVE  SpansIn(Append(ms, m)) = SpansIn(ms) \o SpanOf(m)
<1> DEFINE old == [i \in DOMAIN ms |-> SpanOf(ms[i])]
           new == [i \in DOMAIN Append(ms, m) |-> SpanOf(Append(ms, m)[i])]
<1>1. old \in Seq(Seq(Values)) /\ SpanOf(m) \in Seq(Values) /\ new \in Seq(Seq(Values))
  <2>1. Append(ms, m) \in Seq(Messages)
    OBVIOUS
  <2> QED
    BY <2>1, SpansInParts, SpanOfType
<1>2. /\ DOMAIN ms = 1..Len(ms) /\ DOMAIN Append(ms, m) = 1..(Len(ms) + 1) /\ Len(ms) \in Nat
      /\ \A i \in 1..Len(ms) : Append(ms, m)[i] = ms[i]
      /\ Append(ms, m)[Len(ms) + 1] = m
  BY AppendProperties
<1>3. /\ Len(new) = Len(old) + 1 /\ new[Len(new)] = SpanOf(m)
      /\ \A i \in 1..Len(old) : new[i] = old[i]
  <2>1. Len(old) = Len(ms) /\ Len(new) = Len(ms) + 1
    BY <1>2
  <2>2. Len(ms) + 1 \in DOMAIN Append(ms, m) /\ 1..Len(ms) \subseteq DOMAIN Append(ms, m)
    BY <1>2
  <2> QED
    BY <1>2, <2>1, <2>2
<1> HIDE DEF old, new
<1>4. FlattenSeq(new) = FlattenSeq(old) \o SpanOf(m)
  <2>1. PICK b, s, more : b = SpanOf(m) /\ s = old /\ more = new
    OBVIOUS
  <2>2. s \in Seq(Seq(Values)) /\ b \in Seq(Values) /\ more \in Seq(Seq(Values))
        /\ OneLonger(s, b, more)
    BY ONLY <1>1, <1>3, <2>1 DEF OneLonger
  <2>3. FlattenSeq(more) = FlattenSeq(s) \o b
    BY ONLY <2>2, FlattenOneLonger
  <2> QED
    BY ONLY <2>1, <2>3
<1> QED
  BY <1>4 DEF SpansIn, old, new

LEMMA SpansInHead ==
    ASSUME NEW ms \in Seq(Messages), ms # <<>>
    PROVE  SpansIn(ms) = SpanOf(Head(ms)) \o SpansIn(Tail(ms))
<1> DEFINE all == [i \in DOMAIN ms |-> SpanOf(ms[i])]
           others == [i \in DOMAIN Tail(ms) |-> SpanOf(Tail(ms)[i])]
<1>1. /\ DOMAIN ms = 1..Len(ms) /\ Len(ms) \in Nat \ {0} /\ Head(ms) = ms[1]
      /\ Tail(ms) \in Seq(Messages) /\ DOMAIN Tail(ms) = 1..(Len(ms) - 1)
      /\ \A i \in 1..(Len(ms) - 1) : Tail(ms)[i] = ms[i + 1]
  OBVIOUS
<1>2. all \in Seq(Seq(Values)) /\ others \in Seq(Seq(Values))
  BY <1>1, SpansInParts
<1>3. Len(all) = Len(ms) /\ Len(others) = Len(ms) - 1 /\ all # <<>>
  BY <1>1
<1>4. Head(all) = SpanOf(Head(ms))
  BY <1>1, <1>3
<1>5. Tail(all) = others
  <2>1. /\ Tail(all) \in Seq(Seq(Values)) /\ Len(Tail(all)) = Len(all) - 1
        /\ \A i \in 1..(Len(all) - 1) : Tail(all)[i] = all[i + 1]
    <3> HIDE DEF all
    <3> QED
      BY <1>2, <1>3
  <2>2. \A i \in 1..(Len(ms) - 1) : Tail(all)[i] = others[i]
    <3> SUFFICES ASSUME NEW i \in 1..(Len(ms) - 1) PROVE Tail(all)[i] = others[i]
      OBVIOUS
    <3>1. i + 1 \in 1..Len(ms)
      BY <1>1
    <3>2. all[i + 1] = SpanOf(ms[i + 1]) /\ others[i] = SpanOf(Tail(ms)[i])
      BY <1>1, <3>1
    <3> QED
      BY <1>1, <1>3, <2>1, <3>2
  <2> HIDE DEF all, others
  <2> QED
    BY <1>2, <1>3, <2>1, <2>2, SeqEqual
<1> HIDE DEF all, others
<1>6. FlattenSeq(all) = Head(all) \o FlattenSeq(Tail(all))
  BY <1>2, <1>3, FlattenTail
<1> QED
  BY <1>4, <1>5, <1>6 DEF SpansIn, all, others

LEMMA SpansInToSet ==
    ASSUME NEW ms \in Seq(Messages)
    PROVE  ToSet(SpansIn(ms)) = {ms[j].of : j \in {k \in DOMAIN ms : ms[k].kind = "Span"}}
<1> DEFINE all == [i \in DOMAIN ms |-> SpanOf(ms[i])]
<1>1. all \in Seq(Seq(Values)) /\ DOMAIN all = DOMAIN ms
  BY SpansInParts
<1>2. \A i \in DOMAIN ms : all[i] = SpanOf(ms[i])
  OBVIOUS
<1>3. \A i \in DOMAIN ms : ToSet(all[i]) = IF ms[i].kind = "Span" THEN {ms[i].of} ELSE {}
  <2>1. \A x : ToSet(<<x>>) = {x}
    BY DEF ToSet
  <2> QED
    BY <1>2, <2>1, ToSetEmpty DEF SpanOf
<1> HIDE DEF all
<1>4. ToSet(FlattenSeq(all)) = UNION {ToSet(all[i]) : i \in DOMAIN all}
  BY <1>1, FlattenToSet
<1>5. SpansIn(ms) = FlattenSeq(all)
  BY DEF SpansIn, all
<1>6. UNION {ToSet(all[i]) : i \in DOMAIN ms}
        = {ms[j].of : j \in {k \in DOMAIN ms : ms[k].kind = "Span"}}
  <2>1. ASSUME NEW i \in DOMAIN ms, NEW x \in ToSet(all[i])
        PROVE  x \in {ms[j].of : j \in {k \in DOMAIN ms : ms[k].kind = "Span"}}
    BY <1>3, <2>1
  <2>2. ASSUME NEW j \in {k \in DOMAIN ms : ms[k].kind = "Span"}
        PROVE  ms[j].of \in UNION {ToSet(all[i]) : i \in DOMAIN ms}
    <3>1. ms[j].of \in ToSet(all[j])
      BY <1>3, <2>2
    <3> QED
      BY <3>1
  <2> QED
    BY <2>1, <2>2
<1> QED
  BY <1>1, <1>4, <1>5, <1>6


(* Everywhere *)
AllOf(h, u, s, c) == h \o FlattenSeq(u) \o s \o SpansIn(c)
LEMMA AllOfParts ==
    ASSUME NEW h \in Seq(Values), NEW u \in Seq(Seq(Values)), NEW s \in Seq(Values),
           NEW c \in Seq(Messages)
    PROVE  /\ FlattenSeq(u) \in Seq(Values) /\ SpansIn(c) \in Seq(Values)
           /\ AllOf(h, u, s, c) \in Seq(Values)
           /\ ToSet(AllOf(h, u, s, c)) =
                 ToSet(h) \cup ToSet(FlattenSeq(u)) \cup ToSet(s) \cup ToSet(SpansIn(c))
           /\ Len(AllOf(h, u, s, c)) = Len(h) + Len(FlattenSeq(u)) + Len(s) + Len(SpansIn(c))
<1>1. FlattenSeq(u) \in Seq(Values) /\ SpansIn(c) \in Seq(Values)
  BY FlattenType, SpansInParts
<1>2. PICK b \in Seq(Values) : b = FlattenSeq(u)
  BY <1>1
<1>3. PICK d \in Seq(Values) : d = SpansIn(c)
  BY <1>1
<1>4. AllOf(h, u, s, c) = h \o b \o s \o d
  BY <1>2, <1>3 DEF AllOf
<1> HIDE DEF Values
<1> QED
  BY <1>1, <1>2, <1>3, <1>4, FourParts

Parts(h, u, s, c) ==
    /\ FlattenSeq(u) \in Seq(Values) /\ SpansIn(c) \in Seq(Values)
    /\ AllOf(h, u, s, c) \in Seq(Values)
    /\ ToSet(AllOf(h, u, s, c)) =
          ToSet(h) \cup ToSet(FlattenSeq(u)) \cup ToSet(s) \cup ToSet(SpansIn(c))
    /\ Len(AllOf(h, u, s, c)) = Len(h) + Len(FlattenSeq(u)) + Len(s) + Len(SpansIn(c))
LEMMA AllOfFacts ==
    \A h, u, s, c :
       h \in Seq(Values) /\ u \in Seq(Seq(Values)) /\ s \in Seq(Values) /\ c \in Seq(Messages) =>
           Parts(h, u, s, c)
<1> SUFFICES ASSUME NEW h \in Seq(Values), NEW u \in Seq(Seq(Values)), NEW s \in Seq(Values),
                    NEW c \in Seq(Messages)
             PROVE  Parts(h, u, s, c)
  OBVIOUS
<1> QED
  BY AllOfParts DEF Parts

-----------------------------------------------------------------------------
(* The steps of SpansInv                                                    *)

(* Placed holds as long as no span is added or taken away. *)
LEMMA PlacedKept ==
    ASSUME Placed, step # "stopped",
           UNCHANGED <<received, maxConcurrent, Everywhere>>
    PROVE  Placed'
BY DEF Placed

LEMMA PromisedKept ==
    ASSUME Promised, UNCHANGED <<channel, callMust, answer>>,
           ToSet(handed) \subseteq ToSet(handed'), Reached \subseteq Reached',
           Reached \cup ToSet(spans) \subseteq Reached' \cup ToSet(spans'),
           AtWork' => AtWork /\ job' = job
    PROVE  Promised'
<1>1. \A i : Ahead(i)' = Ahead(i)
  BY DEF Ahead
<1>2. \A i \in DOMAIN channel' : IsRequest(i)' =>
         1..callMust'[channel'[i].of] \subseteq Reached' \cup ToSet(spans') \cup Ahead(i)'
  BY <1>1 DEF Promised, IsRequest
<1>3. AtWork' => 1..callMust'[job'.of] \subseteq Reached'
  BY DEF Promised
<1>4. \A c \in AsyncCallers : answer'[c] \in {"Ok", "Err"} => 1..callMust'[c] \subseteq ToSet(handed')
  BY DEF Promised
<1> QED
  BY <1>2, <1>3, <1>4 DEF Promised

(* The buffer becomes the task's own batch. *)
LEMMA BatchTaken ==
    ASSUME TypeOK, TypeOK', HistoryOK, Placed, Exported, own = <<>>, step # "stopped",
           TakeBatch(spans), maxConcurrent = 1 => unpolled = <<>>,
           UNCHANGED <<received, maxConcurrent, unpolled, completed, tasks, callMust>>,
           SpansIn(channel)' = SpansIn(channel)
    PROVE  /\ HistoryOK' /\ Placed' /\ Exported'
           /\ ToSet(handed') = ToSet(handed) \cup ToSet(spans)
           /\ Reached' = Reached \cup ToSet(spans)
<1>1. own' = spans /\ spans' = <<>> /\ handed' = handed \o spans
  BY DEF TakeBatch
<1>2. spans \in Seq(Values) /\ handed \in Seq(Values)
  BY DEF TypeOK, HistoryOK
<1>3. handed' \in Seq(Values) /\ ToSet(handed') = ToSet(handed) \cup ToSet(spans)
      /\ Len(handed') = Len(handed) + Len(spans)
  BY <1>1, <1>2, ToSetConcat, ConcatProperties
<1>4. HistoryOK'
  BY <1>1, <1>2, <1>3 DEF HistoryOK
<1>5. /\ ToSet(Everywhere) = ToSet(handed) \cup ToSet(FlattenSeq(unpolled)) \cup ToSet(spans)
                             \cup ToSet(SpansIn(channel))
      /\ Len(Everywhere) = Len(handed) + Len(FlattenSeq(unpolled)) + Len(spans)
                           + Len(SpansIn(channel))
      /\ FlattenSeq(unpolled) \in Seq(Values) /\ SpansIn(channel) \in Seq(Values)
  <2>1. unpolled \in Seq(Seq(Values)) /\ channel \in Seq(Messages)
    BY DEF TypeOK
  <2>2. Everywhere = AllOf(handed, unpolled, spans, channel)
    BY DEF Everywhere, AllOf
  <2>3. /\ FlattenSeq(unpolled) \in Seq(Values) /\ SpansIn(channel) \in Seq(Values)
        /\ ToSet(AllOf(handed, unpolled, spans, channel)) =
              ToSet(handed) \cup ToSet(FlattenSeq(unpolled)) \cup ToSet(spans) \cup ToSet(SpansIn(channel))
        /\ Len(AllOf(handed, unpolled, spans, channel)) = Len(handed) + Len(FlattenSeq(unpolled))
              + Len(spans) + Len(SpansIn(channel))
    <3>1. Parts(handed, unpolled, spans, channel)
      <4>1. /\ handed \in Seq(Values) /\ unpolled \in Seq(Seq(Values))
            /\ spans \in Seq(Values) /\ channel \in Seq(Messages)
        BY <1>2, <2>1
      <4> QED
        BY ONLY <4>1, AllOfFacts
    <3> QED
      BY ONLY <3>1 DEF Parts
  <2> QED
    BY <2>2, <2>3
<1>6. /\ ToSet(Everywhere') = ToSet(handed') \cup ToSet(FlattenSeq(unpolled)) \cup ToSet(<<>>)
                              \cup ToSet(SpansIn(channel))
      /\ Len(Everywhere') = Len(handed') + Len(FlattenSeq(unpolled)) + Len(<<>>)
                            + Len(SpansIn(channel))
  <2>1. unpolled' \in Seq(Seq(Values)) /\ channel' \in Seq(Messages) /\ spans' \in Seq(Values)
    BY DEF TypeOK
  <2>2. Everywhere' = AllOf(handed', unpolled', spans', channel')
    BY DEF Everywhere, AllOf
  <2>3. SpansIn(channel') = SpansIn(channel)
    BY DEF SpansIn, SpanOf
  <2>4. /\ ToSet(AllOf(handed', unpolled', spans', channel')) = ToSet(handed')
              \cup ToSet(FlattenSeq(unpolled')) \cup ToSet(spans') \cup ToSet(SpansIn(channel'))
        /\ Len(AllOf(handed', unpolled', spans', channel')) = Len(handed') + Len(FlattenSeq(unpolled'))
              + Len(spans') + Len(SpansIn(channel'))
    <3>1. Parts(handed', unpolled', spans', channel')
      <4>1. /\ handed' \in Seq(Values) /\ unpolled' \in Seq(Seq(Values))
            /\ spans' \in Seq(Values) /\ channel' \in Seq(Messages)
        BY <1>3, <2>1
      <4> QED
        BY ONLY <4>1, AllOfFacts
    <3> QED
      BY ONLY <3>1 DEF Parts
  <2> QED
    BY <1>1, <2>2, <2>3, <2>4
<1>7. Placed'
  <2>1. ToSet(Everywhere') = ToSet(Everywhere)
    BY <1>3, <1>5, <1>6, ToSetEmpty
  <2>2. Len(Everywhere') = Len(Everywhere)
    <3>1. /\ Len(handed) \in Nat /\ Len(spans) \in Nat /\ Len(FlattenSeq(unpolled)) \in Nat
          /\ Len(SpansIn(channel)) \in Nat /\ Len(<<>>) = 0
      BY <1>2, <1>5
    <3> QED
      BY <1>3, <1>5, <1>6, <3>1
  <2>3. maxConcurrent = 1 => Everywhere' = Everywhere
    <3> SUFFICES ASSUME maxConcurrent = 1 PROVE Everywhere' = Everywhere
      OBVIOUS
    <3>1. FlattenSeq(unpolled) = <<>>
      BY FlattenEmpty
    <3>2. handed \o <<>> = handed /\ handed \o spans \o <<>> \o <<>> = handed \o spans
      BY <1>1, <1>2, <1>3, ConcatEmptySeq
    <3> QED
      BY <1>1, <3>1, <3>2 DEF Everywhere
  <2> QED
    BY <2>1, <2>2, <2>3 DEF Placed
<1>8. Exported'
  BY <1>1, <1>3, ToSetEmpty DEF Exported
<1>9. Reached' = Reached \cup ToSet(spans)
  BY <1>3 DEF Reached
<1> QED
  BY <1>3, <1>4, <1>7, <1>8, <1>9


LEMMA EverywhereFacts ==
    ASSUME TypeOK, HistoryOK
    PROVE  /\ handed \in Seq(Values) /\ FlattenSeq(unpolled) \in Seq(Values) /\ spans \in Seq(Values)
           /\ SpansIn(channel) \in Seq(Values) /\ Everywhere \in Seq(Values)
           /\ ToSet(Everywhere) = Reached \cup ToSet(spans) \cup ToSet(SpansIn(channel))
<1>1. /\ handed \in Seq(Values) /\ unpolled \in Seq(Seq(Values)) /\ spans \in Seq(Values)
      /\ channel \in Seq(Messages)
  BY DEF TypeOK, HistoryOK
<1>2. Everywhere = AllOf(handed, unpolled, spans, channel)
  BY DEF Everywhere, AllOf
<1>3. /\ FlattenSeq(unpolled) \in Seq(Values) /\ SpansIn(channel) \in Seq(Values)
      /\ AllOf(handed, unpolled, spans, channel) \in Seq(Values)
      /\ ToSet(AllOf(handed, unpolled, spans, channel)) =
            ToSet(handed) \cup ToSet(FlattenSeq(unpolled)) \cup ToSet(spans) \cup ToSet(SpansIn(channel))
  <2>1. Parts(handed, unpolled, spans, channel)
    BY ONLY <1>1, AllOfFacts
  <2> QED
    BY ONLY <2>1 DEF Parts
<1> QED
  BY <1>1, <1>2, <1>3 DEF Reached

LEMMA EverywhereIs ==
    Everywhere = FourCat(handed, FlattenSeq(unpolled), spans, SpansIn(channel))
BY DEF Everywhere, FourCat, Cat
LEMMA EverywhereIsNext ==
    Everywhere' = FourCat(handed', FlattenSeq(unpolled'), spans', SpansIn(channel'))
BY DEF Everywhere, FourCat, Cat, SpansIn, SpanOf

(* In a longer channel the same is ahead of an old message. *)
LEMMA AheadKept ==
    ASSUME TypeOK, NEW m \in Messages, channel' = Append(channel, m), NEW i \in DOMAIN channel
    PROVE  Ahead(i)' = Ahead(i)
<1>0. channel \in Seq(Messages)
  BY DEF TypeOK
<1>1. DOMAIN channel = 1..Len(channel) /\ Len(channel) \in Nat
  BY <1>0
<1>2. \A k \in 1..(i - 1) : channel'[k] = channel[k]
  <2>1. 1..(i - 1) \subseteq DOMAIN channel
    BY <1>1
  <2> QED
    BY <2>1, AppendMessage
<1>3. {k \in 1..(i - 1) : channel'[k].kind = "Span"} = {k \in 1..(i - 1) : channel[k].kind = "Span"}
  BY <1>2
<1> QED
  BY <1>2, <1>3 DEF Ahead

LEMMA OnEndSpans == ASSUME IndInv, SpansInv, OnEndAsync PROVE SpansInv'
<1>0. TypeOK /\ HistoryOK /\ Placed /\ Exported /\ Promised
  BY DEF IndInv, SpansInv
<1>1. PICK m : m = Entry("Span", received + 1)
  OBVIOUS
<1>2. /\ received' = received + 1 /\ channel' = Append(channel, m) /\ step # "stopped"
      /\ UNCHANGED <<maxConcurrent, taskVars, exportVars, asyncCallVars, answer>>
  BY <1>1 DEF OnEndAsync, HasRoom
<1>3. UNCHANGED <<step, job, spans, own, unpolled, tasks, replyTask, completed, handed, callMust>>
  BY <1>2 DEF taskVars, exportVars, asyncCallVars
<1>4. m \in Messages /\ m.kind = "Span" /\ m.of = received + 1 /\ received \in Nat /\ m.of \in Values
  <2>1. received \in Nat
    BY <1>0 DEF TypeOK
  <2> QED
    BY <1>1, <2>1 DEF Entry, Messages, Values
<1>5. /\ channel' \in Seq(Messages) /\ DOMAIN channel' = DOMAIN channel \cup {Len(channel) + 1}
      /\ channel'[Len(channel) + 1] = m /\ \A i \in DOMAIN channel : channel'[i] = channel[i]
  BY <1>0, <1>2, <1>4, AppendMessage
<1>6. Everywhere' = Everywhere \o <<received + 1>>
  <2>1. /\ handed \in Seq(Values) /\ FlattenSeq(unpolled) \in Seq(Values) /\ spans \in Seq(Values)
        /\ SpansIn(channel) \in Seq(Values) /\ SpanOf(m) \in Seq(Values)
    BY <1>0, <1>4, EverywhereFacts, SpanOfType
  <2>2. SpansIn(channel') = SpansIn(channel) \o SpanOf(m)
    <3>1. channel \in Seq(Messages)
      BY <1>0 DEF TypeOK
    <3> QED
      BY <1>2, <1>4, <3>1, SpansInAppend
  <2>3. FourCat(handed, FlattenSeq(unpolled), spans, Cat(SpansIn(channel), SpanOf(m)))
          = Cat(FourCat(handed, FlattenSeq(unpolled), spans, SpansIn(channel)), SpanOf(m))
    BY <2>1, Moves
  <2>4. SpanOf(m) = <<received + 1>>
    BY <1>4 DEF SpanOf
  <2>5. Everywhere' = FourCat(handed, FlattenSeq(unpolled), spans, SpansIn(channel'))
    BY <1>3, EverywhereIs, EverywhereIsNext
  <2> QED
    BY <2>2, <2>3, <2>4, <2>5, EverywhereIs DEF Cat
<1>7. Placed'
  <2>1. ToSet(Everywhere) = 1..received /\ Len(Everywhere) = received
        /\ (maxConcurrent = 1 => Everywhere = [i \in 1..received |-> i])
    BY <1>0, <1>2 DEF Placed
  <2>2. Everywhere \in Seq(Values) /\ received + 1 \in Values
    BY <1>0, <1>4, EverywhereFacts
  <2>3. Everywhere' = Append(Everywhere, received + 1)
    BY <1>6, <2>2, AppendIsConcat
  <2>4. ToSet(Everywhere') = 1..(received + 1)
    <3>1. ToSet(Everywhere') = 1..received \cup {received + 1}
      BY <2>1, <2>2, <2>3, ToSetAppend
    <3> QED
      BY <1>4, <3>1
  <2>5. Len(Everywhere') = received + 1 /\ (maxConcurrent = 1 =>
           Everywhere' = [i \in 1..(received + 1) |-> i])
    <3>1. Len(Everywhere') = received + 1
      BY <2>1, <2>2, <2>3
    <3>2. Everywhere' \in Seq(Values) /\ \A i \in 1..received : Everywhere'[i] = Everywhere[i]
      BY <2>1, <2>2, <2>3
    <3>3. Everywhere'[received + 1] = received + 1
      BY <2>1, <2>2, <2>3
    <3>4. DOMAIN Everywhere' = 1..(received + 1)
      BY <3>1, <3>2
    <3>5. ASSUME maxConcurrent = 1, NEW i \in 1..(received + 1) PROVE Everywhere'[i] = i
      BY <1>4, <2>1, <3>2, <3>3, <3>5
    <3> QED
      BY <3>1, <3>2, <3>4, <3>5
  <2> QED
    BY <1>2, <2>4, <2>5 DEF Placed
<1>8. Promised'
  <2>1. \A i \in DOMAIN channel' : IsRequest(i)' => i \in DOMAIN channel /\ IsRequest(i)
    BY <1>4, <1>5 DEF IsRequest, Requests
  <2>2. \A i \in DOMAIN channel : Ahead(i)' = Ahead(i)
    BY <1>0, <1>2, <1>4, AheadKept
  <2>3. Reached' = Reached /\ (AtWork' <=> AtWork)
    BY <1>2, <1>3 DEF Reached, AtWork, OnEndAsync
  <2> QED
    BY <1>0, <1>2, <1>3, <1>5, <2>1, <2>2, <2>3 DEF Promised
<1> QED
  BY <1>0, <1>3, <1>7, <1>8 DEF SpansInv, HistoryOK, Exported


LEMMA CallSpans ==
    ASSUME IndInv, SpansInv, NEW c \in AsyncCallers, NEW kind \in Requests, CallAsync(c, kind)
    PROVE  SpansInv'
<1>0. TypeOK /\ Owed /\ HistoryOK /\ Placed /\ Exported /\ Promised
  BY DEF IndInv, SpansInv
<1>1. PICK m : m = Entry(kind, c)
  OBVIOUS
<1>2. /\ callStep[c] = "idle" /\ callMust' = [callMust EXCEPT ![c] = received]
      /\ UNCHANGED <<maxConcurrent, forLogs, received, step, job, spans, own, unpolled, tasks,
                     replyTask, completed, handed>>
      /\ \/ /\ channel' = Append(channel, m) /\ step # "stopped"
            /\ answer' = [answer EXCEPT ![c] = "none"]
         \/ channel' = channel /\ answer' = [answer EXCEPT ![c] = "no room"]
  BY <1>1 DEF CallAsync, HasRoom, taskVars, exportVars
<1>3. m \in Messages /\ m.kind = kind /\ m.kind # "Span" /\ m.of = c /\ received \in Nat
  BY <1>0, <1>1 DEF Entry, Messages, Values, Requests, TypeOK
<1>4. /\ callMust' \in [AsyncCallers -> Nat] /\ callMust'[c] = received
      /\ \A d \in AsyncCallers : d # c => callMust'[d] = callMust[d] /\ answer'[d] = answer[d]
      /\ answer'[c] \notin {"Ok", "Err"}
  BY <1>0, <1>2, <1>3 DEF TypeOK, HistoryOK
<1>5. \A message : Owes(message) => message.of # c /\ callMust'[message.of] = callMust[message.of]
  BY <1>2, <1>4 DEF Owes
<1>6. (AtWork' <=> AtWork) /\ Reached' = Reached
  BY <1>2 DEF AtWork, Reached
<1>7. AtWork' => 1..callMust'[job'.of] \subseteq Reached'
  BY <1>0, <1>2, <1>5, <1>6 DEF Owed, Promised
<1>8. \A d \in AsyncCallers : answer'[d] \in {"Ok", "Err"} => 1..callMust'[d] \subseteq ToSet(handed')
  BY <1>0, <1>2, <1>4 DEF Promised
<1>9. HistoryOK' /\ Exported'
  BY <1>0, <1>2, <1>4 DEF HistoryOK, Exported
<1>10. \A i \in DOMAIN channel : IsRequest(i) =>
          1..callMust'[channel[i].of] \subseteq Reached' \cup ToSet(spans') \cup Ahead(i)
  BY <1>0, <1>2, <1>5, <1>6 DEF Owed, Promised
<1>11. CASE channel' = channel
  <2>1. Everywhere' = Everywhere
    BY <1>2, <1>11 DEF Everywhere
  <2>2. Placed'
    BY <1>0, <1>2, <2>1 DEF Placed
  <2>3. \A i \in DOMAIN channel' : IsRequest(i)' =>
           1..callMust'[channel'[i].of] \subseteq Reached' \cup ToSet(spans') \cup Ahead(i)'
    BY <1>10, <1>11 DEF IsRequest, Ahead
  <2> QED
    BY <1>7, <1>8, <1>9, <2>2, <2>3 DEF SpansInv, Promised
<1>12. CASE channel' = Append(channel, m) /\ step # "stopped"
  <2>1. /\ channel' \in Seq(Messages) /\ DOMAIN channel' = DOMAIN channel \cup {Len(channel) + 1}
        /\ channel'[Len(channel) + 1] = m /\ \A i \in DOMAIN channel : channel'[i] = channel[i]
    BY <1>0, <1>3, <1>12, AppendMessage
  <2>2. channel \in Seq(Messages) /\ Len(channel) \in Nat /\ DOMAIN channel = 1..Len(channel)
    <3>1. channel \in Seq(Messages)
      BY <1>0 DEF TypeOK
    <3> QED
      BY <3>1
  <2>3. SpansIn(channel') = SpansIn(channel)
    <3>1. SpansIn(channel') = SpansIn(channel) \o SpanOf(m) /\ SpanOf(m) = <<>>
      BY <1>3, <1>12, <2>2, SpansInAppend DEF SpanOf
    <3>2. SpansIn(channel) \in Seq(Values)
      BY <2>2, SpansInParts
    <3> QED
      BY <3>1, <3>2, ConcatEmptySeq
  <2>4. Everywhere' = Everywhere
    BY <1>2, <2>3, EverywhereIs, EverywhereIsNext
  <2>5. Placed'
    BY <1>0, <1>2, <2>4 DEF Placed
  <2>6. \A i \in DOMAIN channel : Ahead(i)' = Ahead(i)
    BY <1>0, <1>3, <1>12, AheadKept
  <2>a. PICK n \in Nat : n = Len(channel) + 1 /\ n - 1 = Len(channel)
    BY <2>2
  <2>7. 1..received \subseteq Reached \cup ToSet(spans) \cup Ahead(n)'
    <3>1. 1..received = Reached \cup ToSet(spans) \cup ToSet(SpansIn(channel))
      BY <1>0, <1>12, EverywhereFacts DEF Placed
    <3>2. ToSet(SpansIn(channel))
             = {channel[j].of : j \in {k \in DOMAIN channel : channel[k].kind = "Span"}}
      BY <2>2, SpansInToSet
    <3>3. \A j \in {k \in DOMAIN channel : channel[k].kind = "Span"} :
             /\ j \in {k \in 1..(n - 1) : channel'[k].kind = "Span"}
             /\ channel'[j].of = channel[j].of
      BY <2>1, <2>2, <2>a
    <3>4. ToSet(SpansIn(channel)) \subseteq
             {channel'[j].of : j \in {k \in 1..(n - 1) : channel'[k].kind = "Span"}}
      BY <3>2, <3>3
    <3> QED
      BY <3>1, <3>4 DEF Ahead
  <2>8. \A i \in DOMAIN channel' : IsRequest(i)' =>
           1..callMust'[channel'[i].of] \subseteq Reached' \cup ToSet(spans') \cup Ahead(i)'
    <3>1. ASSUME NEW i \in DOMAIN channel, IsRequest(i)'
          PROVE  1..callMust'[channel'[i].of] \subseteq Reached' \cup ToSet(spans') \cup Ahead(i)'
      <4>1. IsRequest(i) /\ channel'[i] = channel[i]
        BY <2>1, <3>1 DEF IsRequest
      <4> QED
        BY <1>10, <2>6, <3>1, <4>1
    <3>2. 1..callMust'[m.of] \subseteq Reached' \cup ToSet(spans') \cup Ahead(n)'
      BY <1>2, <1>3, <1>4, <1>6, <2>7
    <3>3. \A i \in DOMAIN channel' : i \in DOMAIN channel \/ (i = n /\ channel'[i] = m)
      BY <2>1, <2>a
    <3> QED
      BY <3>1, <3>2, <3>3
  <2> QED
    BY <1>7, <1>8, <1>9, <2>5, <2>8 DEF SpansInv, Promised
<1> QED
  BY <1>2, <1>11, <1>12

LEMMA ReturnSpans == ASSUME IndInv, SpansInv, NEW c \in AsyncCallers, ReturnAsync(c) PROVE SpansInv'
<1>1. UNCHANGED <<maxConcurrent, forLogs, received, channel, step, job, spans, own, unpolled, tasks,
                  replyTask, completed, handed, callMust, answer>>
  BY DEF ReturnAsync, taskVars, exportVars
<1> QED
  BY <1>1 DEF SpansInv, HistoryOK, Placed, Exported, Promised, Everywhere, Reached, Ahead, AtWork,
     IsRequest


(* What was ahead of a message is still, but for the one that was received. *)
LEMMA AheadReceived ==
    ASSUME TypeOK, channel # <<>>, channel' = Tail(channel), NEW i \in DOMAIN channel'
    PROVE  Ahead(i + 1) \subseteq ToSet(SpanOf(Head(channel))) \cup Ahead(i)'
<1>1. channel \in Seq(Messages)
  BY DEF TypeOK
<1>2. /\ Len(channel) \in Nat \ {0} /\ DOMAIN channel = 1..Len(channel) /\ Head(channel) = channel[1]
      /\ DOMAIN channel' = 1..(Len(channel) - 1)
      /\ \A k \in 1..(Len(channel) - 1) : channel'[k] = channel[k + 1]
  BY <1>1
<1>3. i \in Nat /\ (i + 1) - 1 = i /\ i <= Len(channel) - 1
  BY <1>2
<1>4. ASSUME NEW j \in 1..i, channel[j].kind = "Span"
      PROVE  channel[j].of \in ToSet(SpanOf(Head(channel))) \cup Ahead(i)'
  <2>1. CASE j = 1
    <3>1. SpanOf(Head(channel)) = <<channel[j].of>>
      BY <1>2, <1>4, <2>1 DEF SpanOf
    <3> QED
      BY <3>1 DEF ToSet
  <2>2. CASE j # 1
    <3>1. j - 1 \in 1..(i - 1) /\ j - 1 \in 1..(Len(channel) - 1) /\ (j - 1) + 1 = j
      BY <1>2, <1>3, <2>2
    <3>2. channel'[j - 1] = channel[j]
      BY <1>2, <3>1
    <3> QED
      BY <1>4, <3>1, <3>2 DEF Ahead
  <2> QED
    BY <2>1, <2>2
<1> QED
  BY <1>3, <1>4 DEF Ahead

LEMMA ReceiveSpans == ASSUME IndInv, SpansInv, ReceiveAsync PROVE SpansInv'
<1>0. TypeOK /\ InTime /\ HistoryOK /\ Placed /\ Exported /\ Promised
  BY DEF IndInv, SpansInv
<1>a. TypeOK'
  BY ReceiveStep DEF IndInv
<1>1. PICK m : m = Head(channel)
  OBVIOUS
<1>2. /\ step = "select" /\ channel # <<>> /\ channel' = Tail(channel) /\ Process(m)
      /\ own = <<>> /\ (maxConcurrent = 1 => unpolled = <<>>)
  BY <1>0, <1>1 DEF ReceiveAsync, InTime
<1>3. UNCHANGED <<maxConcurrent, forLogs, received, unpolled, tasks, replyTask, completed, callMust, answer>>
  BY <1>2 DEF Process, asyncCallVars
<1>4. channel \in Seq(Messages) /\ spans \in Seq(Values) /\ m \in Messages /\ m = channel[1]
      /\ 1 \in DOMAIN channel
  <2>1. Head(channel) \in Messages /\ Head(channel) = channel[1] /\ 1 \in DOMAIN channel
    BY <1>0, <1>2, TailFacts
  <2> QED
    BY <1>0, <1>1, <2>1 DEF TypeOK
<1>5. /\ \A i \in DOMAIN channel' :
            i + 1 \in DOMAIN channel /\ channel'[i] = channel[i + 1] /\ i \in Nat
      /\ channel' \in Seq(Messages)
  BY <1>0, <1>2, TailFacts
<1>6. SpansIn(channel) = Cat(SpanOf(m), SpansIn(channel'))
  BY <1>1, <1>2, <1>4, SpansInHead DEF Cat
<1>7. SpansIn(channel') \in Seq(Values) /\ SpanOf(m) \in Seq(Values)
  BY <1>4, <1>5, SpansInParts, SpanOfType
<1>8. \A i \in DOMAIN channel' : IsRequest(i)' =>
         1..callMust'[channel'[i].of] \subseteq
            Reached \cup ToSet(spans) \cup ToSet(SpanOf(m)) \cup Ahead(i)'
  <2> SUFFICES ASSUME NEW i \in DOMAIN channel', IsRequest(i)'
               PROVE  1..callMust'[channel'[i].of] \subseteq
                         Reached \cup ToSet(spans) \cup ToSet(SpanOf(m)) \cup Ahead(i)'
    OBVIOUS
  <2>1. IsRequest(i + 1) /\ i + 1 \in DOMAIN channel /\ channel'[i] = channel[i + 1]
    BY <1>5 DEF IsRequest
  <2>2. 1..callMust[channel[i + 1].of] \subseteq Reached \cup ToSet(spans) \cup Ahead(i + 1)
    BY <1>0, <2>1 DEF Promised
  <2>3. Ahead(i + 1) \subseteq ToSet(SpanOf(m)) \cup Ahead(i)'
    BY <1>0, <1>1, <1>2, AheadReceived
  <2> QED
    BY <1>3, <2>1, <2>2, <2>3
<1>9. /\ HistoryOK' /\ Placed' /\ Exported'
      /\ ToSet(handed) \subseteq ToSet(handed')
      /\ Reached \cup ToSet(spans) \cup ToSet(SpanOf(m)) \subseteq Reached' \cup ToSet(spans')
      /\ AtWork' => job' = m /\ IsRequest(1) /\ Reached' = Reached \cup ToSet(spans)
  <2>1. CASE m.kind = "Span"
    <3>1. /\ spans' = Append(spans, m.of) /\ UNCHANGED <<handed, own, job>>
          /\ step' \in {"select", "saturated"}
      BY <1>2, <2>1 DEF Process, BufferSpan
    <3>2. m.of \in Values /\ SpanOf(m) = <<m.of>>
      BY <1>4, <2>1 DEF Messages, SpanOf
    <3>3. spans' = Cat(spans, SpanOf(m)) /\ ToSet(spans') = ToSet(spans) \cup {m.of}
      BY <1>4, <3>1, <3>2, AppendIsConcat, ToSetAppend DEF Cat
    <3>4. ToSet(SpanOf(m)) = {m.of}
      BY <3>2 DEF ToSet
    <3>5. handed \in Seq(Values) /\ FlattenSeq(unpolled) \in Seq(Values)
      BY <1>0, EverywhereFacts
    <3>6. FourCat(handed, FlattenSeq(unpolled), Cat(spans, SpanOf(m)), SpansIn(channel'))
            = FourCat(handed, FlattenSeq(unpolled), spans, Cat(SpanOf(m), SpansIn(channel')))
      BY <1>4, <1>7, <3>5, Moves
    <3>7. Everywhere' = Everywhere
      BY <1>3, <1>6, <3>1, <3>3, <3>6, EverywhereIs, EverywhereIsNext
    <3>8. Placed'
      BY <1>0, <1>2, <1>3, <3>7, PlacedKept
    <3>9. Reached' = Reached /\ ~AtWork'
      BY <1>3, <3>1 DEF Reached, AtWork
    <3> QED
      BY <1>0, <1>3, <3>1, <3>3, <3>4, <3>8, <3>9 DEF HistoryOK, Exported
  <2>2. CASE m.kind # "Span"
    <3>1. SpanOf(m) = <<>> /\ SpansIn(channel') = SpansIn(channel)
      BY <1>6, <1>7, <2>2, CatLaws DEF SpanOf
    <3>2. ToSet(SpanOf(m)) = {}
      BY <3>1, ToSetEmpty
    <3>3. CASE m.kind = "SetResource"
      <4>1. UNCHANGED <<spans, own, handed>> /\ job' = m
        BY <1>2, <2>2, <3>3 DEF Process
      <4>2. Everywhere' = Everywhere
        BY <1>3, <3>1, <4>1, EverywhereIs, EverywhereIsNext
      <4>3. Placed'
        BY <1>0, <1>2, <1>3, <4>2, PlacedKept
      <4>4. Reached' = Reached /\ ~AtWork'
        BY <1>3, <3>3, <4>1 DEF Reached, AtWork, Requests
      <4> QED
        BY <1>0, <1>3, <3>2, <4>1, <4>3, <4>4 DEF HistoryOK, Exported
    <3>4. CASE m.kind # "SetResource"
      <4>1. step' = "export" /\ TakeBatch(spans) /\ job' = m
        BY <1>2, <2>2, <3>4 DEF Process
      <4>2. SpansIn(channel)' = SpansIn(channel)
        BY <3>1 DEF SpansIn, SpanOf
      <4>3. /\ HistoryOK' /\ Placed' /\ Exported'
            /\ ToSet(handed') = ToSet(handed) \cup ToSet(spans)
            /\ Reached' = Reached \cup ToSet(spans)
        BY <1>0, <1>a, <1>2, <1>3, <4>1, <4>2, BatchTaken
      <4>4. IsRequest(1)
        BY <1>4, <2>2, <3>4 DEF IsRequest, Messages
      <4> QED
        BY <3>2, <4>1, <4>3, <4>4
    <3> QED
      BY <3>3, <3>4
  <2> QED
    BY <2>1, <2>2
<1>10. AtWork' => 1..callMust'[job'.of] \subseteq Reached'
  <2> SUFFICES ASSUME AtWork' PROVE 1..callMust'[job'.of] \subseteq Reached'
    OBVIOUS
  <2>1. 1..callMust[m.of] \subseteq Reached \cup ToSet(spans) \cup Ahead(1)
    BY <1>0, <1>4, <1>9 DEF Promised
  <2>2. Ahead(1) = {}
    BY DEF Ahead
  <2> QED
    BY <1>3, <1>9, <2>1, <2>2
<1>11. Promised'
  <2>1. \A c \in AsyncCallers : answer'[c] \in {"Ok", "Err"} => 1..callMust'[c] \subseteq ToSet(handed')
    BY <1>0, <1>3, <1>9 DEF Promised
  <2> QED
    BY <1>8, <1>9, <1>10, <2>1 DEF Promised
<1> QED
  BY <1>9, <1>11 DEF SpansInv

LEMMA TickSpans == ASSUME IndInv, SpansInv, TickAsync PROVE SpansInv'
<1>0. TypeOK /\ TypeOK' /\ InTime /\ HistoryOK /\ Placed /\ Exported /\ Promised
  BY TickStep DEF IndInv, SpansInv
<1>1. /\ step = "select" /\ UNCHANGED channel /\ Process(Entry("Tick", 0)) /\ own = <<>>
      /\ (maxConcurrent = 1 => unpolled = <<>>)
  BY <1>0 DEF TickAsync, InTime
<1>2. /\ UNCHANGED <<maxConcurrent, forLogs, received, unpolled, tasks, replyTask, completed, callMust,
                     answer>>
      /\ TakeBatch(spans) /\ job'.kind = "Tick"
  BY <1>1 DEF Process, Entry, asyncCallVars
<1>3. SpansIn(channel)' = SpansIn(channel)
  BY <1>1 DEF SpansIn, SpanOf
<1>4. /\ HistoryOK' /\ Placed' /\ Exported'
      /\ ToSet(handed') = ToSet(handed) \cup ToSet(spans)
      /\ Reached' = Reached \cup ToSet(spans)
  BY <1>0, <1>1, <1>2, <1>3, BatchTaken
<1>5. Promised'
  BY <1>0, <1>1, <1>2, <1>4, PromisedKept DEF AtWork, Requests
<1> QED
  BY <1>4, <1>5 DEF SpansInv


(* Steps that hand no span over and take none. *)
LEMMA SpansStay ==
    ASSUME TypeOK, InTime, SpansInv, step # "stopped",
           UNCHANGED <<maxConcurrent, received, channel, spans, unpolled, handed, callMust>>,
           own' \in Seq(Values), Exported',
           AtWork' => AtWork /\ job' = job,
           \A c \in AsyncCallers : answer'[c] \in {"Ok", "Err"} =>
              answer'[c] = answer[c] \/ 1..callMust[c] \subseteq ToSet(handed)
    PROVE  SpansInv'
<1>1. HistoryOK /\ Placed /\ Promised
  BY DEF SpansInv
<1>2. Everywhere' = Everywhere /\ Reached' = Reached /\ \A i : Ahead(i)' = Ahead(i)
  BY DEF Everywhere, SpansIn, SpanOf, Reached, Ahead
<1>3. Placed'
  BY <1>1, <1>2, PlacedKept
<1>4. Promised'
  BY <1>1, <1>2 DEF Promised, IsRequest
<1> QED
  BY <1>1, <1>3, <1>4 DEF SpansInv, HistoryOK

LEMMA BeginExportSpans == ASSUME IndInv, SpansInv, BeginExport PROVE SpansInv'
<1>0. TypeOK /\ InTime /\ HistoryOK /\ Placed /\ Exported /\ Promised
  BY DEF IndInv, SpansInv
<1>1. PICK b : b = Head(unpolled)
  OBVIOUS
<1>2. /\ PollsExports /\ unpolled # <<>> /\ unpolled' = Tail(unpolled) /\ tasks' = tasks \cup {b}
      /\ handed' = handed \o b
      /\ UNCHANGED <<maxConcurrent, forLogs, received, channel, step, job, spans, own, replyTask,
                     completed, callMust, answer>>
  BY <1>1 DEF BeginExport, asyncCallVars
<1>3. /\ unpolled \in Seq(Seq(Values)) /\ unpolled' \in Seq(Seq(Values)) /\ b \in Seq(Values)
      /\ handed \in Seq(Values) /\ spans \in Seq(Values)
  <2>1. unpolled \in Seq(Seq(Values)) /\ handed \in Seq(Values) /\ spans \in Seq(Values)
    BY <1>0 DEF TypeOK, HistoryOK
  <2>2. Head(unpolled) \in Seq(Values) /\ Tail(unpolled) \in Seq(Seq(Values))
    BY <1>2, <2>1, HeadTailProperties
  <2> QED
    BY <1>1, <1>2, <2>1, <2>2
<1>4. FlattenSeq(unpolled) = Cat(b, FlattenSeq(unpolled')) /\ handed' = Cat(handed, b)
  <2>1. FlattenSeq(unpolled) = Head(unpolled) \o FlattenSeq(Tail(unpolled))
    BY <1>2, <1>3, FlattenTail
  <2> QED
    BY <1>1, <1>2, <2>1 DEF Cat
<1>5. FlattenSeq(unpolled') \in Seq(Values) /\ SpansIn(channel) \in Seq(Values)
  BY <1>0, <1>3, FlattenType, EverywhereFacts
<1>6. Everywhere' = Everywhere
  <2>1. FourCat(Cat(handed, b), FlattenSeq(unpolled'), spans, SpansIn(channel))
          = FourCat(handed, Cat(b, FlattenSeq(unpolled')), spans, SpansIn(channel))
    BY <1>3, <1>5, Moves
  <2>2. SpansIn(channel') = SpansIn(channel)
    BY <1>2 DEF SpansIn, SpanOf
  <2> QED
    BY <1>2, <1>4, <2>1, <2>2, EverywhereIs, EverywhereIsNext
<1>7. /\ handed' \in Seq(Values) /\ ToSet(handed') = ToSet(handed) \cup ToSet(b)
      /\ ToSet(FlattenSeq(unpolled)) = ToSet(b) \cup ToSet(FlattenSeq(unpolled'))
  BY <1>3, <1>4, <1>5, ToSetConcat, ConcatProperties DEF Cat
<1>8. Placed'
  BY <1>0, <1>2, <1>6, PlacedKept DEF PollsExports
<1>9. Exported'
  BY <1>0, <1>2, <1>7 DEF Exported
<1>10. Promised'
  <2>1. Reached' = Reached
    BY <1>7 DEF Reached
  <2> QED
    BY <1>0, <1>2, <1>7, <2>1, PromisedKept DEF AtWork
<1> QED
  BY <1>0, <1>2, <1>7, <1>8, <1>9, <1>10 DEF SpansInv, HistoryOK

LEMMA CompleteExportSpans == ASSUME IndInv, SpansInv, CompleteExport PROVE SpansInv'
<1>0. TypeOK /\ InTime /\ HistoryOK /\ Exported
  BY DEF IndInv, SpansInv
<1>1. PICK batch \in tasks : tasks' = tasks \ {batch} /\ completed' = completed \cup ToSet(batch)
  BY DEF CompleteExport
<1>2. UNCHANGED <<maxConcurrent, forLogs, received, channel, step, job, spans, own, unpolled,
                  replyTask, handed, callMust, answer>>
  BY DEF CompleteExport, asyncCallVars
<1>3. Exported'
  BY <1>0, <1>1, <1>2 DEF Exported
<1> QED
  BY <1>0, <1>2, <1>3, SpansStay DEF CompleteExport, PollsExports, AtWork, HistoryOK

LEMMA StartExportSpans == ASSUME IndInv, SpansInv, StartExport PROVE SpansInv'
<1>0. TypeOK /\ TypeOK' /\ InTime /\ HistoryOK /\ Placed /\ Exported /\ Promised
  BY StartExportStep DEF IndInv, SpansInv
<1>1. /\ step = "saturated" /\ own = <<>> /\ job.kind = "None" /\ (maxConcurrent = 1 => unpolled = <<>>)
      /\ UNCHANGED <<maxConcurrent, forLogs, received, channel, tasks, replyTask, completed, callMust,
                     answer>>
  BY <1>0 DEF StartExport, asyncCallVars, InTime
<1>2. job' = job \/ job'.kind = "None"
  BY DEF StartExport, Move, NextRound, NoJob, Entry
<1>3. SpansIn(channel)' = SpansIn(channel) /\ ~AtWork'
  BY <1>1, <1>2 DEF SpansIn, SpanOf, AtWork, Requests
<1>4. CASE maxConcurrent = 1
  <2>1. TakeBatch(spans) /\ UNCHANGED unpolled
    BY <1>4 DEF StartExport
  <2>2. /\ HistoryOK' /\ Placed' /\ Exported'
        /\ ToSet(handed') = ToSet(handed) \cup ToSet(spans)
        /\ Reached' = Reached \cup ToSet(spans)
    BY <1>0, <1>1, <1>3, <2>1, BatchTaken
  <2>3. Promised'
    BY <1>0, <1>1, <1>3, <2>2, PromisedKept
  <2> QED
    BY <2>2, <2>3 DEF SpansInv
<1>5. CASE maxConcurrent # 1
  <2>1. unpolled' = Append(unpolled, spans) /\ spans' = <<>> /\ UNCHANGED <<own, handed>>
    BY <1>5 DEF StartExport
  <2>2. /\ unpolled \in Seq(Seq(Values)) /\ spans \in Seq(Values) /\ handed \in Seq(Values)
        /\ FlattenSeq(unpolled) \in Seq(Values) /\ SpansIn(channel) \in Seq(Values)
    BY <1>0, EverywhereFacts DEF TypeOK
  <2>3. FlattenSeq(unpolled') = Cat(FlattenSeq(unpolled), spans)
    BY <2>1, <2>2, FlattenAppend DEF Cat
  <2>4. Everywhere' = Everywhere
    <3>1. FourCat(handed, Cat(FlattenSeq(unpolled), spans), <<>>, SpansIn(channel))
            = FourCat(handed, FlattenSeq(unpolled), spans, SpansIn(channel))
      BY <2>2, Moves
    <3>2. SpansIn(channel') = SpansIn(channel)
      BY <1>1 DEF SpansIn, SpanOf
    <3> QED
      BY <1>1, <2>1, <2>3, <3>1, <3>2, EverywhereIs, EverywhereIsNext
  <2>5. ToSet(FlattenSeq(unpolled')) = ToSet(FlattenSeq(unpolled)) \cup ToSet(spans)
    BY <2>2, <2>3, ToSetConcat DEF Cat
  <2>6. Placed'
    BY <1>0, <1>1, <2>4, PlacedKept
  <2>7. HistoryOK' /\ Exported'
    BY <1>0, <1>1, <2>1 DEF HistoryOK, Exported
  <2>8. Promised'
    <3>1. Reached' = Reached \cup ToSet(spans) /\ ToSet(spans') = {}
      BY <2>1, <2>5, ToSetEmpty DEF Reached
    <3> QED
      BY <1>0, <1>1, <1>3, <2>1, <3>1, PromisedKept
  <2> QED
    BY <2>6, <2>7, <2>8 DEF SpansInv
<1> QED
  BY <1>4, <1>5

LEMMA FinishExportSpans == ASSUME IndInv, SpansInv, FinishExport PROVE SpansInv'
<1>0. TypeOK /\ InTime /\ Exported
  BY DEF IndInv, SpansInv
<1>1. /\ step = "export" /\ completed' = completed \cup ToSet(own) /\ own' = <<>>
      /\ UNCHANGED <<maxConcurrent, forLogs, received, channel, spans, unpolled, tasks, replyTask,
                     handed, callMust, answer>>
      /\ \/ step' = "select" /\ job' = NoJob
         \/ step' = "reply" /\ job' = job
  BY DEF FinishExport, NextRound, asyncCallVars
<1>2. Exported'
  BY <1>0, <1>1, ToSetEmpty DEF Exported
<1>3. AtWork' => AtWork /\ job' = job
  BY <1>1 DEF AtWork, NoJob, Entry, Requests
<1> QED
  BY <1>0, <1>1, <1>2, <1>3, SpansStay

(* Nothing was pushed, or all of it was polled, when the answer is sent.    *)
LEMMA AnswerSpans ==
    ASSUME TypeOK, InTime, SpansInv, AtWork, unpolled = <<>>, step # "stopped",
           UNCHANGED <<maxConcurrent, received, channel, spans, unpolled, handed, callMust, own,
                       completed, tasks>>,
           AtWork' => job' = job,
           \A c \in AsyncCallers : answer'[c] = answer[c] \/ c = job.of \/ answer'[c] = "canceled"
    PROVE  SpansInv'
<1>1. 1..callMust[job.of] \subseteq ToSet(handed)
  BY FlattenEmpty, ToSetEmpty DEF SpansInv, Promised, Reached
<1>2. Exported' /\ own' \in Seq(Values)
  BY DEF SpansInv, Exported, HistoryOK
<1>3. \A c \in AsyncCallers : answer'[c] \in {"Ok", "Err"} =>
         answer'[c] = answer[c] \/ 1..callMust[c] \subseteq ToSet(handed)
  BY <1>1
<1> QED
  BY <1>2, <1>3, SpansStay


LEMMA ReplyNowSpans == ASSUME IndInv, SpansInv, ReplyNow PROVE SpansInv'
<1>0. TypeOK /\ InTime /\ Exported
  BY DEF IndInv, SpansInv
<1>1. /\ step = "reply" /\ unpolled = <<>> /\ AfterReply
      /\ UNCHANGED <<maxConcurrent, forLogs, received, channel, spans, own, unpolled, tasks, replyTask,
                     completed, handed, callMust>>
  BY <1>0 DEF ReplyNow, exportVars, asyncCallVars, InTime
<1>2. job.kind \in Requests => job' = job \/ ~AtWork'
  BY <1>1 DEF AfterReply, Move, NextRound, NoJob, Entry, AtWork, Requests
<1>3. CASE job.kind \in Requests
  <2>1. AtWork
    BY <1>1, <1>3 DEF AtWork
  <2>2. \A c \in AsyncCallers : answer'[c] = answer[c] \/ c = job.of
    BY <1>0 DEF ReplyNow, SendAnswer, TypeOK
  <2> QED
    BY <1>0, <1>1, <1>2, <1>3, <2>1, <2>2, AnswerSpans
<1>4. CASE job.kind \notin Requests
  <2>1. ~AtWork' /\ answer' = answer
    BY <1>1, <1>4 DEF AfterReply, NextRound, NoJob, Entry, AtWork, Requests, ReplyNow, SendAnswer
  <2>2. Exported' /\ own' \in Seq(Values)
    BY <1>1 DEF SpansInv, Exported, HistoryOK
  <2> QED
    BY <1>0, <1>1, <2>1, <2>2, SpansStay
<1> QED
  BY <1>3, <1>4

LEMMA PushReplySpans == ASSUME IndInv, SpansInv, PushReply PROVE SpansInv'
<1>0. TypeOK /\ InTime
  BY DEF IndInv
<1>1. /\ step = "reply" /\ AtWork' => AtWork
      /\ UNCHANGED <<maxConcurrent, received, channel, job, spans, own, unpolled, tasks, completed,
                     handed, callMust, answer>>
  BY DEF PushReply, exportVars, asyncCallVars, AtWork
<1>2. step # "stopped"
  BY DEF PushReply
<1>3. Exported' /\ own' \in Seq(Values)
  BY <1>1 DEF SpansInv, Exported, HistoryOK
<1> QED
  BY <1>0, <1>1, <1>2, <1>3, SpansStay DEF PushReply, AtWork

LEMMA RunReplyTaskSpans == ASSUME IndInv, SpansInv, RunReplyTask PROVE SpansInv'
<1>0. TypeOK /\ InTime
  BY DEF IndInv
<1>1. /\ step = "drain" /\ unpolled = <<>> /\ replyTask
      /\ UNCHANGED <<maxConcurrent, forLogs, received, channel, step, job, spans, own, unpolled, tasks,
                     completed, handed, callMust>>
  BY DEF RunReplyTask, exportVars, asyncCallVars
<1>2. CASE job.kind \in Requests
  <2>1. AtWork
    BY <1>1, <1>2 DEF AtWork
  <2>2. \A c \in AsyncCallers : answer'[c] = answer[c] \/ c = job.of
    BY <1>0 DEF RunReplyTask, SendAnswer, TypeOK
  <2> QED
    BY <1>0, <1>1, <2>1, <2>2, AnswerSpans
<1>3. CASE job.kind \notin Requests
  <2>1. ~AtWork' /\ answer' = answer
    BY <1>1, <1>3 DEF AtWork, Requests, RunReplyTask, SendAnswer
  <2>2. Exported' /\ own' \in Seq(Values)
    BY <1>1 DEF SpansInv, Exported, HistoryOK
  <2> QED
    BY <1>0, <1>1, <2>1, <2>2, SpansStay
<1> QED
  BY <1>2, <1>3

LEMMA FinishDrainSpans == ASSUME IndInv, SpansInv, FinishDrain PROVE SpansInv'
<1>0. TypeOK /\ InTime
  BY DEF IndInv
<1>1. /\ step = "drain" /\ ~replyTask /\ AfterReply
      /\ UNCHANGED <<maxConcurrent, forLogs, received, channel, spans, own, unpolled, tasks, replyTask,
                     completed, handed, callMust, answer>>
  BY DEF FinishDrain, Drained, exportVars, asyncCallVars
<1>2. ~forLogs
  BY <1>0, <1>1 DEF TypeOK, InTime
<1>3. ~AtWork'
  BY <1>1, <1>2 DEF AfterReply, Move, NextRound, NoJob, Entry, AtWork, Requests
<1>4. Exported' /\ own' \in Seq(Values)
  BY <1>1 DEF SpansInv, Exported, HistoryOK
<1> QED
  BY <1>0, <1>1, <1>3, <1>4, SpansStay

LEMMA UseExporterSpans == ASSUME IndInv, SpansInv, UseExporter PROVE SpansInv'
<1>0. TypeOK /\ InTime
  BY DEF IndInv
<1>1. /\ step = "exporter" /\ unpolled = <<>>
      /\ UNCHANGED <<maxConcurrent, forLogs, received, spans, own, unpolled, tasks, replyTask,
                     completed, handed, callMust>>
  BY <1>0 DEF UseExporter, asyncCallVars, InTime
<1>2. Exported' /\ HistoryOK'
  BY <1>1 DEF SpansInv, Exported, HistoryOK
<1>3. CASE job.kind # "Shutdown"
  <2>1. UNCHANGED <<channel, answer>> /\ ~AtWork'
    BY <1>3 DEF UseExporter, NextRound, NoJob, Entry, AtWork, Requests
  <2> QED
    BY <1>0, <1>1, <1>2, <2>1, SpansStay DEF HistoryOK
<1>4. CASE job.kind = "Shutdown"
  <2>1. step' = "stopped" /\ job' = job /\ channel' = <<>> /\ ~AtWork'
    BY <1>4 DEF UseExporter, Move, CloseChannel, AtWork
  <2>2. \A c \in AsyncCallers : answer'[c] = "canceled" \/ answer'[c] = answer[c]
                                  \/ (forLogs /\ job.of = c)
    BY <1>4 DEF UseExporter, CloseChannel
  <2>3. \A c \in AsyncCallers : answer'[c] \in {"Ok", "Err"} =>
           answer[c] = answer'[c] \/ 1..callMust[c] \subseteq ToSet(handed)
    <3>1. forLogs => 1..callMust[job.of] \subseteq ToSet(handed)
      BY <1>1, <1>4, FlattenEmpty, ToSetEmpty DEF SpansInv, Promised, Reached, AtWork, Requests
    <3> QED
      BY <2>2, <3>1
  <2>4. Promised'
    <3>1. DOMAIN channel' = {}
      BY <2>1
    <3>2. \A c \in AsyncCallers : answer'[c] \in {"Ok", "Err"} => 1..callMust'[c] \subseteq ToSet(handed')
      BY <1>1, <2>3 DEF SpansInv, Promised
    <3> QED
      BY <2>1, <3>1, <3>2 DEF Promised
  <2>5. Placed'
    BY <2>1 DEF Placed
  <2> QED
    BY <1>2, <2>4, <2>5 DEF SpansInv
<1> QED
  BY <1>3, <1>4

LEMMA SpansInvInit == AsyncInit => SpansInv
<1> SUFFICES ASSUME AsyncInit PROVE SpansInv
  OBVIOUS
<1>1. /\ handed = <<>> /\ own = <<>> /\ spans = <<>> /\ unpolled = <<>> /\ tasks = {} /\ completed = {}
      /\ received = 0 /\ callMust = [c \in AsyncCallers |-> 0] /\ step = "select"
      /\ channel = <<Entry("SetResource", 0)>>
      /\ answer = [c \in AsyncCallers |-> "none"]
  BY DEF AsyncInit
<1>2. HistoryOK
  BY <1>1 DEF HistoryOK
<1>3. Exported
  BY <1>1, ToSetEmpty DEF Exported
<1>4. Promised
  BY <1>1 DEF Promised, IsRequest, AtWork, Entry, Requests
<1>5. Placed
  <2>1. channel \in Seq(Messages) /\ channel # <<>> /\ Head(channel) = Entry("SetResource", 0)
        /\ Tail(channel) = <<>>
    <3>1. Entry("SetResource", 0) \in Messages
      BY DEF Entry, Messages, Values
    <3> QED
      BY <1>1, <3>1
  <2>2. SpansIn(<<>>) = <<>>
    <3>1. [i \in DOMAIN <<>> |-> SpanOf(<<>>[i])] = <<>>
      OBVIOUS
    <3> QED
      BY <3>1, FlattenEmpty DEF SpansIn
  <2>3. SpansIn(channel) = SpanOf(Head(channel)) \o SpansIn(Tail(channel))
    BY <2>1, SpansInHead
  <2>4. SpanOf(Entry("SetResource", 0)) = <<>> /\ <<>> \o <<>> = <<>>
    BY DEF SpanOf, Entry
  <2>5. Everywhere = <<>> \o <<>> \o <<>> \o <<>>
    BY <1>1, <2>1, <2>2, <2>3, <2>4, FlattenEmpty DEF Everywhere
  <2>6. Everywhere = <<>> /\ 1..received = {} /\ received = 0
    BY <1>1, <2>4, <2>5
  <2>7. ToSet(Everywhere) = 1..received /\ Len(Everywhere) = received
    BY <2>6, ToSetEmpty
  <2>8. Everywhere = [i \in 1..received |-> i]
    BY <2>6
  <2> QED
    BY <2>7, <2>8 DEF Placed
<1> QED
  BY <1>2, <1>3, <1>4, <1>5 DEF SpansInv

(* No span the channel took is lost or handed over twice, without           *)
(* concurrent exports they reach the exporter in order, and an answer       *)
(* stands for every span that was taken before the call.                    *)
THEOREM SpansReachTheExporter == AsyncSpec => []SpansHandedOver
<1>1. AsyncInit => SpansInv
  BY SpansInvInit
<1>2. IndInv /\ SpansInv /\ [AsyncNext]_asyncVars => SpansInv'
  <2> SUFFICES ASSUME IndInv, SpansInv, [AsyncNext]_asyncVars PROVE SpansInv'
    OBVIOUS
  <2>1. CASE OnEndAsync \/ ReceiveAsync \/ TickAsync
    BY <2>1, OnEndSpans, ReceiveSpans, TickSpans
  <2>2. CASE AsyncTask
    BY <2>2, BeginExportSpans, CompleteExportSpans, StartExportSpans, FinishExportSpans,
       ReplyNowSpans, PushReplySpans, RunReplyTaskSpans, FinishDrainSpans, UseExporterSpans
       DEF AsyncTask
  <2>3. ASSUME NEW c \in AsyncCallers,
               CallAsync(c, "Flush") \/ CallAsync(c, "Shutdown") \/ ReturnAsync(c)
        PROVE  SpansInv'
    BY <2>3, CallSpans, ReturnSpans DEF Requests
  <2>4. CASE UNCHANGED asyncVars
    <3>1. UNCHANGED <<maxConcurrent, forLogs, received, channel, step, job, spans, own, unpolled, tasks,
                      replyTask, completed, handed, callMust, answer>>
      BY <2>4 DEF asyncVars, taskVars, exportVars, asyncCallVars
    <3> QED
      BY <3>1 DEF SpansInv, HistoryOK, Placed, Exported, Promised, Everywhere, Reached, Ahead, AtWork,
         IsRequest
  <2> QED
    BY <2>1, <2>2, <2>3, <2>4 DEF AsyncNext
<1>3. SpansInv => SpansHandedOver
  BY DEF SpansInv, Placed, Exported, Promised, SpansHandedOver
<1> QED
  BY <1>1, <1>2, <1>3, Inductive, PTL DEF AsyncSpec

=============================================================================
