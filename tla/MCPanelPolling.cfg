CONSTANTS
    a = a
    b = b
    None = None
    Contexts <- AllContexts
    Reported <- SomeReported
    MaxSteps = 3
    MaxFailures = 1
SPECIFICATION Spec
CHECK_DEADLOCK FALSE
INVARIANT ActiveRunIsPolled
