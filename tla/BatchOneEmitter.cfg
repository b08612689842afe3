SPECIFICATION Spec
CONSTANTS
    Emitters = {e1}
    Controllers = {c1, c2}
    SpansPerEmitter = 3
    CallsPerController = 1
    MaxQueueSize = 2
    MaxExportBatchSize = 2
    ControlCapacity = 2
    CounterModulus = 16
    ExportOutcomes = {"Ok", "Err"}
    OverflowChecks = TRUE
SYMMETRY Symmetry
INVARIANTS
    FlushComplete
    ShutdownOkMeansStopped
    ResourceBeforeRequestedExport
PROPERTIES
    NoExportAfterShutdown
