SPECIFICATION ComponentsSpec
CONSTANTS
    TraceThreads = {t1, t2}
    TraceSpans = {s1, s2}
    NumProcessors = 2
    TraceSamplers = {"RecordOnly", "ParentBased"}
    NoParent = NoParent
    RemoteSampled = RemoteSampled
    RemoteUnsampled = RemoteUnsampled
    LogThreads = {l1, l2}
    EmitsPerThread = 2
    SimpleProcs = {1, 3}
    ConcurrentProcs = {2}
    Nobody = Nobody
    Guards = {g1, g2, g3}
    Spans = {p1}
    Entries = {v1}
    NoSpan = NoSpan
    NoEntry = NoEntry
    Hole = Hole
    MaxPos = 5
    Scopes = {sa, sb}
    BaseNames = {n}
    NoName = NoName
    Spellings = {0, 1}
    InstrumentKinds = {"Counter", "Gauge"}
    ViewAggregations = {"Default", "Drop", "Sum"}
    Selections <- NameSelections
    MaxViews = 2
    MaxInstruments = 2
    MaxCollections = 2
    ExpoMaxScale = 2
    ExpoMaxSizes = {1, 2, 3}
    ExpoBelow = 5
    ExpoAbove = 3
    ExpoMaxCount = 4
    ExpoIntLimit = 7
    Names = {x, y, z, bad}
    InvalidNames = {bad}
    PairLengths = {1, 2, 3}
    MaxKeyValuePairs = 2
    MaxLenOfAllPairs = 5
    Exports = {x1}
    MaxRetries = 3
    InitialDelay = 1
    MaxDelay = 3
    JitterMax = 1
    ServerDelays = {2, 9}
    DelayCap = 5
    NoHint = NoHint
SYMMETRY ThreadSymmetry
CHECK_DEADLOCK FALSE
INVARIANTS
    SpansExported
    ShutDownOnce
    TraceSampledAsAWhole
    LogsDelivered
    LogExportersStopOnce
    NoWaitForOwnMutex
    GuardsValid
    NothingRetained
    CurrentIsNewest
    StreamsCollected
    BucketsExact
    BaggageWithinLimits
    ExportOutcome
PROPERTIES
    CollectedAfresh
