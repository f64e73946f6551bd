SPECIFICATION ConsoleSpec
CONSTANTS
    s1 = s1
    s2 = s2
    p1 = p1
    p2 = p2
    Sensors = {s1, s2}
    Payloads = {p1, p2}
    Owner <- MCOwner
    Hardware <- MCHardware
    Requests = {w1, w2}
    Importer = Importer
    NoOne = NoOne
    Window = 0
    MaxTime = 2
SYMMETRY Connections
VIEW ConsoleView
INVARIANTS
    ConsoleTypeOK
    IngestedOnce
    AnswerIsTruthful
    OkAuditIsTruthful
PROPERTIES
    LedgerAppendOnly
