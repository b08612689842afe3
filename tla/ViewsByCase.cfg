SPECIFICATION PipelineSpec
CONSTANTS
    Scopes = {sa, sb}
    BaseNames = {n}
    NoName = NoName
    Spellings = {0, 1}
    InstrumentKinds = {"Counter", "Gauge"}
    ViewAggregations = {"Default", "Drop", "Sum"}
    Selections <- NameSelections
    MaxViews = 2
    MaxInstruments = 2
    MaxCollections = 2
CHECK_DEADLOCK FALSE
INVARIANTS MeasuredOnce
