SPECIFICATION MergeFairSpec
CONSTANTS
    s1 = s1
    s2 = s2
    p1 = p1
    p2 = p2
    Sensors = {s1}
    Payloads = {p1, p2}
    Owner <- MCOwner
    Hardware <- MCHardware
    Requests = {w1}
    Importer = Importer
    NoOne = NoOne
    Manual = Manual
    MaxManual = 2
    Trigger = "cadence-window"
    CadenceWindow = 1
    Window = 1
    MaxTime = 2
PROPERTIES
    TriggeredMergeHappens
