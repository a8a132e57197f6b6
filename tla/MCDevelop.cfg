SPECIFICATION Spec
CONSTANTS
    Ops = {"edit", "zoom", "configure", "refresh", "reload", "change", "leave"}
    MaxTime = 3
    MipReady = {TRUE, FALSE}
    Readable = FALSE
INVARIANTS NoRunAfterLeave StampedRegionShown
CHECK_DEADLOCK FALSE
