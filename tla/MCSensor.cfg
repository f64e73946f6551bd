SPECIFICATION AgentFairSpec
CONSTANTS
    s1 = s1
    p1 = p1
    p2 = p2
    p3 = p3
    p4 = p4
    Sensors = {s1}
    Payloads = {p1, p2, p3, p4}
    Owner <- MCOwner
    Hardware <- MCHardware
    Size <- MCSize
    Window = 1
    MaxTime = 2
    Agent = s1
    MaxFiles = 3
    MaxBytes = 3
    MaxTries = 2
    None = None
INVARIANTS
    SpoolBounded
    NothingLostSilently
    ExitIsTruthful
PROPERTIES
    LeavesOnlyWhenAccepted
    PushTerminates
CHECK_DEADLOCK FALSE
