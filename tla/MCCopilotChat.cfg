CONSTANTS
    None = None
    Tasks <- AllTasks
    MaxTurns = 2
    MaxClicks = 2
    MaxFaults = 1
SPECIFICATION Spec
CHECK_DEADLOCK FALSE
INVARIANTS TypeOK AcceptedOnce SpinnerHasTurn TurnsStayTogether
PROPERTY SendingEnds
