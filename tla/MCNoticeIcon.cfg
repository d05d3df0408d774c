CONSTANTS
    Immediate = FALSE
    RunWhenHidden = FALSE
    ImmediateOnVisible = TRUE
    Readers = {r1, r2}
    Lists = {l1}
    MaxVersion = 2
    MaxPosts = 1
    MaxFaults = 1
SPECIFICATION Spec
INVARIANTS PollsWhileSeen
PROPERTIES BadgeCatchesUp ListCatchesUp
