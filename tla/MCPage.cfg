SPECIFICATION FairPageSpec
CONSTANTS
    Null = Null
    Numbers <- MCNumbers
    TaskIds = {1, 2}
    Presses = {1, 2}
    MaxGets = 2
    MaxFaults = 1
    MaxLives = 1
INVARIANTS OwnResult InformedWhileOpen
PROPERTIES PostedIsQueued ResultIsShown
CHECK_DEADLOCK FALSE
