SPECIFICATION PipelineSpec
CONSTANTS
    s1 = s1
    p1 = p1
    p2 = p2
    p3 = p3
    Sensors = {s1}
    Payloads = {p1, p2}
    Owner <- MCOwner
    Hardware <- MCHardware
    Size <- MCSize
    Window = 0
    MaxTime = 2
    Agent = s1
    MaxFiles = 1
    MaxBytes = 2
    MaxTries = 2
    None = None
    Requests = {w1, w2}
    Importer = Importer
    NoOne = NoOne
INVARIANTS
    DeliveredIsStored
    LastPushIsStored
PROPERTIES
    ImplementsContract
SYMMETRY Connections
CHECK_DEADLOCK FALSE
