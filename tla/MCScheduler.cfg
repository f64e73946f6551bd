SPECIFICATION SchedSpec
CONSTANTS
    Count = 2
    Created = {1}
    Cron <- TwoCrons
    Fast = {2}
    Listed = {1}
    ScanConfigs <- Configs
    Channels = {"email", "webhook"}
    Findings = {"f1", "f2"}
    Stale = 1
    MaxTime = 4
    MaxFaults = 2
INVARIANTS NoZombieRun EachSlotScannedOnce ScansHaveConsent AuditIsTruthful
CHECK_DEADLOCK FALSE
