SPECIFICATION Spec
CONSTANTS
    site = site
    HostPorts = {site}
    Findings <- BothFindings
    Scopes = {sa, sb}
    CoResident = {"SAML"}
    Services = {"HTTP", "TLS"}
    Misses = {"nothing"}
    Outcomes = {"ok", "bare"}
    MaxScans = 3
    MaxMishaps <- MCMishaps
    Files <- MCFiles
    Backends = {"jira"}
    MaxFailures = 2
    Questions <- MCQuestions
    Values = {2}
    Payloads <- MCPayloads
    Estates <- MCEstates
    Multipliers = {150}
    MaxSessions = 2
    MaxEdits = 2
SYMMETRY ScopeNames
INVARIANTS
    ClosureIsSound
    TrackedUntilClosed
    NoDuplicateTicket
    LedgerIsRight
    ScoreCoversAnswers
PROPERTIES
    AnsweredStaysAnswered
CHECK_DEADLOCK FALSE
