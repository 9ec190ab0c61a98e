SPECIFICATION AllSpec
CONSTANTS
    f = f
    g = g
    None = None
    Functions <- MCFunctions
    MaxFires = 3
    MaxUses = 4
    EmptyWhileFiring = FALSE
    MaxDeferredUses = 5
    MaxHolds = 3
PROPERTIES ListKeepsPromise DeferredKeepsPromise WaitersRun
CHECK_DEADLOCK FALSE
