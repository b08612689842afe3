SPECIFICATION ObservableSpec
CONSTANTS
    Measurers = {}
    AttributeSets = {a}
    Orders = {0, 1}
    CardinalityLimit = 2
    Values = {1}
    Aggregators = {"Assign"}
    MeasurementsPerThread = 0
    Collections = 2
    NoAttributes = none
    Overflow = overflow
    NoPoint = noPoint
    ObservedOrders = {0, 1}
    ObservedValues = {1, 2}
    Cycles = 2
PROPERTY DeltaSinceLastExport
