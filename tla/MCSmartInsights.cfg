CONSTANTS
    en = en
    vi = vi
    None = None
    Languages <- AllLanguages
    MaxSteps = 2
    MaxSent = 1
    MaxFailures = 1
SPECIFICATION Spec
CHECK_DEADLOCK FALSE
INVARIANTS ShowsSelection CacheMatchesKey PendingReportsArePolled
PROPERTIES SpinnersEnd CalendarShowsLatest
