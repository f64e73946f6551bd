SPECIFICATION HwSpec
CONSTANTS
    Devices = {"h1", "h2", "h3", "h4"}
    Route <- Routes
    Behave <- Behaviours
    First <- FirstAnswers
    Afar = {"h1"}
    EnableOt = TRUE
    EolDay = 2
    Retention = 1
    DefaultRetention = 9
    EventRetention = 1
    Channels = {"webhook"}
    MaxJobs = 3
    Days = {1, 3}
    MaxFaults = 1
INVARIANTS EventsFollowHistory
PROPERTIES OnlyConfirmedIsTold FleetKeepsGoodState
CHECK_DEADLOCK FALSE
