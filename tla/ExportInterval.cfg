SPECIFICATION ReaderSpec
CONSTANTS
    MetricUsers = {u1}
    MaxMeasurements = 1
    CallsPerUser = 0
    Interval = 2
    MaxExportTime = 1
    NoOwner = NoOwner
CHECK_DEADLOCK FALSE
PROPERTIES ExportTimeNotInInterval
