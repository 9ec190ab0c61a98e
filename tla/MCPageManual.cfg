SPECIFICATION FairPageSpec
CONSTANTS
    Null = Null
    Numbers <- MCNumbers
    TaskIds = {1, 2}
    Presses = {1, 2}
    MaxGets = 2
    MaxFaults = 0
    MaxLives = 0
INVARIANT ManualWorks
CHECK_DEADLOCK FALSE
