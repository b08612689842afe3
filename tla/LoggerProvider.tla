--------------------------- MODULE LoggerProvider ---------------------------
(***************************************************************************)
(* Logger provider, loggers, the simple and the concurrent log processor   *)
(* (opentelemetry-sdk/src/logs/logger_provider.rs, logger.rs,              *)
(* simple_log_processor.rs, concurrent_log_processor.rs).                  *)
(*                                                                         *)
(* The provider lives as long as a handle or a logger.  emit does not ask  *)
(* the provider whether it was shut down: that is left to each processor.  *)
(* A simple processor reads its own flag, then takes its exporter's mutex; *)
(* a concurrent one does neither.  Exporters may log themselves while they *)
(* export; such a record comes back through an appender, on the same       *)
(* thread, as a call of event_enabled, which takes the mutex again unless  *)
(* telemetry is suppressed.                                                *)
(*                                                                         *)
(* A definition marked as a slip is not part of the model: it is a wrong   *)
(* form of the definition after it, which the properties must reject.      *)
(***************************************************************************)
EXTENDS Integers, Sequences, FiniteSets, Functions

CONSTANTS
    LogThreads,      \* application threads
    EmitsPerThread,  \* bound: records each of them emits
    SimpleProcs,     \* positions of the simple processors
    ConcurrentProcs, \* and of the concurrent ones
    Nobody           \* no thread

NumLogProcs == Cardinality(SimpleProcs \cup ConcurrentProcs)
ASSUME LoggerAssumption ==
    /\ EmitsPerThread \in Nat
    /\ SimpleProcs \cap ConcurrentProcs = {}
    /\ SimpleProcs \cup ConcurrentProcs = 1..NumLogProcs
    /\ NumLogProcs \in Nat \ {0}
    /\ LogThreads # {} /\ Nobody \notin LogThreads
LogProcs == 1..NumLogProcs

VARIABLES
    logShutdown,    \* AtomicBool of the provider
    logHandles,     \* threads that hold a clone of the provider
    loggers,        \* threads that hold a logger of the provider
    suppressed,     \* threads inside a suppressed scope
    lPc, lNext,     \* thread -> step of its call, next processor
    emitted,        \* thread -> records it has begun to emit
    procDown,       \* simple processors whose is_shutdown is set
    mutexOf,        \* processor -> thread that holds its exporter's mutex
    given,          \* processor -> records given to its exporter, in order
    exporterStops,  \* processor -> how often its exporter was shut down
    lateEmits,      \* history: <<processor, record>> begun after the processor stopped
    logExplicit     \* history: shutdown was called

logVars == <<logShutdown, logHandles, loggers, suppressed, lPc, lNext, emitted, procDown,
             mutexOf, given, exporterStops, lateEmits, logExplicit>>
providerSide == <<logShutdown, logHandles, loggers, logExplicit>>
exportSide == <<procDown, mutexOf, given, exporterStops, lateEmits>>

LogInit ==
    /\ logShutdown = FALSE /\ logHandles = LogThreads /\ loggers = {} /\ logExplicit = FALSE
    /\ suppressed = {}
    /\ lPc = [t \in LogThreads |-> "idle"] /\ lNext = [t \in LogThreads |-> 1]
    /\ emitted = [t \in LogThreads |-> 0]
    /\ procDown = {} /\ mutexOf = [p \in LogProcs |-> Nobody]
    /\ given = [p \in LogProcs |-> <<>>] /\ exporterStops = [p \in LogProcs |-> 0]
    /\ lateEmits = {}

Step(t, from, to) == lPc[t] = from /\ lPc' = [lPc EXCEPT ![t] = to]
(* On to the next processor; after the last one the call returns. *)
NextProcessor(t, from, again) ==
    /\ Step(t, from, IF lNext[t] = NumLogProcs THEN "idle" ELSE again)
    /\ lNext' = [lNext EXCEPT ![t] = IF @ = NumLogProcs THEN 1 ELSE @ + 1]
Record(t) == <<t, emitted[t]>>

-----------------------------------------------------------------------------
(* logger_with_scope, and the references that go *)

GetLogger(t) ==
    /\ lPc[t] = "idle" /\ t \in logHandles /\ ~logShutdown
    /\ loggers' = loggers \cup {t}
    /\ UNCHANGED <<logShutdown, logHandles, logExplicit, suppressed, lPc, lNext, emitted,
                   exportSide>>

(* Slip: drop shuts down whatever the flag says. *)
DropRegardless(left) == left = {}
(* LoggerProviderInner::drop *)
DropShutsDown(left) == left = {} /\ ~logShutdown

DropReference(t) ==
    /\ lPc[t] = "idle"
    /\ \/ t \in logHandles /\ logHandles' = logHandles \ {t} /\ UNCHANGED loggers
       \/ t \in loggers /\ loggers' = loggers \ {t} /\ UNCHANGED logHandles
    /\ IF DropShutsDown(loggers' \cup logHandles')
          THEN Step(t, "idle", "stop") ELSE UNCHANGED lPc
    /\ UNCHANGED <<logShutdown, logExplicit, suppressed, lNext, emitted, exportSide>>

-----------------------------------------------------------------------------
(* SdkLogger::emit *)

(* The processors that were shut down: a concurrent one has no flag, and    *)
(* hands the call on to its exporter.                                       *)
Stopped == procDown \cup {p \in ConcurrentProcs : exporterStops[p] > 0}

BeginEmit(t) ==
    /\ Step(t, "idle", "emit") /\ t \in loggers /\ t \notin suppressed
    /\ emitted[t] < EmitsPerThread
    /\ emitted' = [emitted EXCEPT ![t] = @ + 1]
    /\ lateEmits' = lateEmits \cup {<<p, <<t, emitted[t] + 1>>>> : p \in Stopped}
    /\ UNCHANGED <<providerSide, suppressed, lNext, procDown, mutexOf, given, exporterStops>>

(* Slip: the scope is not entered. *)
NoSuppression(t) == suppressed
(* Context::enter_telemetry_suppressed_scope *)
EnterSuppressed(t) == suppressed \cup {t}

(* Slip: the flag is not read. *)
NeverDown(p) == FALSE
IsDown(p) == p \in procDown

(* SimpleLogProcessor::emit reads its flag. *)
LoadDown(t) ==
    LET p == lNext[t] IN
    /\ p \in SimpleProcs
    /\ \/ /\ IsDown(p)
          /\ NextProcessor(t, "emit", "emit")
          /\ UNCHANGED suppressed
       \/ /\ ~IsDown(p)
          /\ Step(t, "emit", "lock")
          /\ suppressed' = EnterSuppressed(t)
          /\ UNCHANGED lNext
    /\ UNCHANGED <<providerSide, emitted, exportSide>>

LockExporter(t) ==
    LET p == lNext[t] IN
    /\ Step(t, "lock", "export")
    /\ mutexOf[p] = Nobody
    /\ mutexOf' = [mutexOf EXCEPT ![p] = t]
    /\ UNCHANGED <<providerSide, suppressed, lNext, emitted, procDown, given, exporterStops,
                   lateEmits>>

(* The exporter has the record and logs: event_enabled answers no in a      *)
(* suppressed scope and else waits for the mutex.                           *)
ExportLocked(t) ==
    LET p == lNext[t] IN
    /\ Step(t, "export", IF t \in suppressed THEN "unlock" ELSE "nested")
    /\ given' = [given EXCEPT ![p] = Append(@, Record(t))]
    /\ UNCHANGED <<providerSide, suppressed, lNext, emitted, procDown, mutexOf, exporterStops,
                   lateEmits>>

UnlockExporter(t) ==
    LET p == lNext[t] IN
    /\ NextProcessor(t, "unlock", "emit")
    /\ mutexOf' = [mutexOf EXCEPT ![p] = Nobody]
    /\ suppressed' = suppressed \ {t}
    /\ UNCHANGED <<providerSide, emitted, procDown, given, exporterStops, lateEmits>>

(* SimpleConcurrentLogProcessor::emit *)
ExportConcurrent(t) ==
    LET p == lNext[t] IN
    /\ p \in ConcurrentProcs
    /\ NextProcessor(t, "emit", "emit")
    /\ given' = [given EXCEPT ![p] = Append(@, Record(t))]
    /\ UNCHANGED <<providerSide, suppressed, emitted, procDown, mutexOf, exporterStops, lateEmits>>

-----------------------------------------------------------------------------
(* SdkLoggerProvider::shutdown and the processors' *)

AfterExchange == IF logShutdown THEN "idle" ELSE "stop"

(* compare_exchange(false, true); a later caller gets AlreadyShutdown. *)
ShutdownLogs(t) ==
    /\ t \in logHandles
    /\ Step(t, "idle", AfterExchange)
    /\ logShutdown' = TRUE /\ logExplicit' = TRUE
    /\ UNCHANGED <<logHandles, loggers, suppressed, lNext, emitted, exportSide>>

(* SimpleLogProcessor::shutdown_with_timeout: the flag, then the mutex. *)
StoreDown(t) ==
    /\ lNext[t] \in SimpleProcs
    /\ Step(t, "stop", "stopExporter")
    /\ procDown' = procDown \cup {lNext[t]}
    /\ UNCHANGED <<providerSide, suppressed, lNext, emitted, mutexOf, given, exporterStops, lateEmits>>

StopExporter(t) ==
    LET p == lNext[t] IN
    /\ IF p \in SimpleProcs
          THEN mutexOf[p] = Nobody /\ NextProcessor(t, "stopExporter", "stop")
          ELSE NextProcessor(t, "stop", "stop")
    /\ exporterStops' = [exporterStops EXCEPT ![p] = @ + 1]
    /\ UNCHANGED <<providerSide, suppressed, emitted, procDown, mutexOf, given, lateEmits>>

LogNext ==
    \E t \in LogThreads :
        \/ GetLogger(t) \/ DropReference(t) \/ BeginEmit(t)
        \/ LoadDown(t) \/ LockExporter(t) \/ ExportLocked(t) \/ UnlockExporter(t)
        \/ ExportConcurrent(t) \/ ShutdownLogs(t) \/ StoreDown(t) \/ StopExporter(t)

LogProviderSpec == LogInit /\ [][LogNext]_logVars

-----------------------------------------------------------------------------
(* Properties *)

LogIdle == \A t \in LogThreads : lPc[t] = "idle"
AllRecords == {<<t, n>> : t \in LogThreads, n \in 1..EmitsPerThread}
BegunRecords == {r \in AllRecords : r[2] <= emitted[r[1]]}

(* No record reaches an exporter twice.  One whose emit began after a       *)
(* simple processor's flag was set does not reach its exporter ("noop after *)
(* shutdown").  One that is missing when all is quiet is missing because    *)
(* somebody called shutdown and the processor was stopped, and from a       *)
(* concurrent processor only if its emit began after that.  (A concurrent   *)
(* processor exports such a record all the same, which is not asked here.)  *)
LogsDelivered ==
    \A p \in LogProcs :
        LET missing == BegunRecords \ Range(given[p])
        IN /\ IsInjective(given[p])
           /\ p \in SimpleProcs => \A r \in Range(given[p]) : <<p, r>> \notin lateEmits
           /\ LogIdle => \A r \in missing : /\ logExplicit /\ p \in Stopped
                                           /\ p \in ConcurrentProcs => <<p, r>> \in lateEmits

(* An exporter is stopped once: by an explicit shutdown, or by the drop of  *)
(* the last handle or logger; then and when all is quiet it has been.       *)
LogExportersStopOnce ==
    \A p \in LogProcs :
        /\ exporterStops[p] <= 1
        /\ exporterStops[p] = 1 /\ ~logExplicit => logHandles \cup loggers = {}
        /\ LogIdle /\ logHandles \cup loggers = {} => exporterStops[p] = 1

(* No thread waits for a mutex that it holds: what an exporter logs while   *)
(* the mutex is held does not come back to it.                              *)
NoWaitForOwnMutex ==
    \A t \in LogThreads, p \in LogProcs :
        lPc[t] \in {"lock", "nested", "stopExporter"} => mutexOf[p] # t
=============================================================================
