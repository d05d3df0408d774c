CONSTANTS
    btc = btc
    xau = xau
    None = None
    Contexts <- AllContexts
    Streamed <- SpotMarkets
    MaxReconnectAttempts = 1
    MaxIntervals = 1
    FetchLimit = 1
    MaxSteps = 2
    MaxNow = 3
    MaxFaults = 2
SPECIFICATION Spec
CHECK_DEADLOCK FALSE
INVARIANTS OneSocket SilenceIsNoticed ShowsItsContext
PROPERTIES CandlesAdvance CatchesUp
