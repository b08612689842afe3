SPECIFICATION PipelineSpec
CONSTANTS
    Scopes = {sa}
    BaseNames = {n, k}
    NoName = NoName
    Spellings = {0}
    InstrumentKinds = {"Counter"}
    ViewAggregations = {"Default", "Drop"}
    Selections <- NameSelections
    MaxViews = 1
    MaxInstruments = 2
    MaxCollections = 1
CHECK_DEADLOCK FALSE
INVARIANTS DroppedByItsView
