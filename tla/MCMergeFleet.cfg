SPECIFICATION MergeSpec
CONSTANTS
    s1 = s1
    s2 = s2
    p1 = p1
    p2 = p2
    Sensors = {s1, s2}
    Payloads = {p1, p2}
    Owner <- MCOwner
    Hardware <- MCHardware
    Requests = {w1, w2}
    Importer = Importer
    NoOne = NoOne
    Manual = Manual
    MaxManual = 1
    Trigger = "all-sensors-in"
    CadenceWindow = 1
    Window = 1
    MaxTime = 2
SYMMETRY Connections
VIEW MergeView
INVARIANTS
    MergeIsFaithful
