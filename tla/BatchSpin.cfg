SPECIFICATION FairSpec
CONSTANTS
    Emitters = {e1}
    Controllers = {c1}
    SpansPerEmitter = 2
    CallsPerController = 1
    MaxQueueSize = 2
    MaxExportBatchSize = 2
    ControlCapacity = 2
    CounterModulus = 16
    ExportOutcomes = {"Ok"}
    OverflowChecks = FALSE
PROPERTIES
    ExportTerminates
