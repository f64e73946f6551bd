SPECIFICATION MCSpec
CONSTANTS
    Jobs = {j1, j2}
    Threads = {t1, t2}
    NoJob = NoJob
    Faults = {"create", "scan", "poll", "cancel", "sweep"}
INVARIANTS
    PollVerdictIsTrue
    CancelStopsScan
PROPERTY JobIsSettled
