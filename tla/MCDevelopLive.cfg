SPECIFICATION LiveSpec
CONSTANTS
    Ops = {"zoom", "configure", "change"}
    MaxTime = 5
    MipReady = {TRUE, FALSE}
    Readable = TRUE
INVARIANTS NeverDefaults
PROPERTIES JobsEnd RegionShown
CHECK_DEADLOCK FALSE
