SPECIFICATION AsyncSpec
CONSTANTS
    AsyncCallers = {c1, c2}
    CallsPerCaller = 1
    AcceptedSpans = 6
    ChannelCapacity = 3
    AsyncBatchSize = 2
    ConcurrentExports = {0, 1, 2}
CHECK_DEADLOCK FALSE
INVARIANTS
    SpansHandedOver
    ExporterNeverStuck
PROPERTIES
    AsyncCallsReturn
