SPECIFICATION ScanSpec
CONSTANTS
    Batches = 2
    Ports <- TwoBatches
    Silent = {1}
    Enabled <- Connectors
    Seen <- SeenProtocols
    MaxFaults = 3
    MaxResumes = 2
INVARIANTS CompletedStagePersisted OneRowPerFinding ReportAccountsForEstate NoBatchLost
CHECK_DEADLOCK FALSE
