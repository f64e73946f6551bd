SPECIFICATION ScanSpec
CONSTANTS
    Batches = 2
    Ports <- TwoBatches
    Silent = {1}
    Enabled <- Connectors
    Seen <- SeenProtocols
    MaxFaults = 1
    MaxResumes = 2
INVARIANT ResumedReportIsComplete
CHECK_DEADLOCK FALSE
