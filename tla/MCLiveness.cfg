SPECIFICATION FairSpec
CONSTANTS
    w1 = w1
    w2 = w2
    b1 = b1
    b2 = b2
    Null = Null
    Numbers <- OneNumber
    Value <- MCValue
    Workers <- MCWorkers
    Streams <- OneStream
    StrayIds = {}
    MaxTasks = 2
    MaxFaults = 1
    MaxRestarts = 0
PROPERTIES TaskFinishes ResultArrives StreamFinishes
CHECK_DEADLOCK FALSE
