SPECIFICATION BackgroundSpec
CONSTANTS
    Emitters = {e1, e2}
    Controllers = {k1}
    SpansPerEmitter = 1
    CallsPerController = 1
    MaxQueueSize = 2
    MaxExportBatchSize = 1
    ControlCapacity = 2
    CounterModulus = 16
    ExportOutcomes = {"Ok"}
    OverflowChecks = FALSE
    MetricUsers = {u1, u2}
    MaxMeasurements = 1
    CallsPerUser = 1
    Interval = 2
    MaxExportTime = 3
    NoOwner = NoOwner
CHECK_DEADLOCK FALSE
INVARIANTS
    AnsweredMeansExported
    CollectedOnce
    CollectionsInTime
PROPERTIES
    ShutdownStopsWorker
    BufferedSpansLeave
    CallsReturn
