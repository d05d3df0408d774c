CONSTANTS
    None = None
    Tasks <- AllTasks
    MaxTurns = 1
    MaxClicks = 0
    MaxFaults = 1
SPECIFICATION Spec
CHECK_DEADLOCK FALSE
INVARIANT SubmittedOnce
