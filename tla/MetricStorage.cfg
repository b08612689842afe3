SPECIFICATION StorageSpec
CONSTANTS
    Measurers = {m1, m2}
    AttributeSets = {a, b}
    Orders = {0, 1}
    CardinalityLimit = 1
    Values = {1}
    Aggregators = {"Increment", "Assign"}
    MeasurementsPerThread = 3
    Collections = 2
    NoAttributes = none
    Overflow = overflow
    NoPoint = noPoint
    ObservedOrders = {0}
    ObservedValues = {1, 2}
    Cycles = 3
SYMMETRY Symmetry
INVARIANTS
    OneTrackerPerSet
    Accounted
    CardinalityCapped
    CollectionComplete
    CumulativeMonotone
PROPERTIES
    DeltaSinceLastExport
