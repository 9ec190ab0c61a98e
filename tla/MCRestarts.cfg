SPECIFICATION Spec
CONSTANTS
    w1 = w1
    w2 = w2
    b1 = b1
    b2 = b2
    Null = Null
    Numbers <- MCNumbers
    Value <- MCValue
    Workers <- MCWorkers
    Streams <- MCStreams
    StrayIds = {2}
    MaxTasks = 1
    MaxFaults = 0
    MaxRestarts = 1
SYMMETRY Symmetry
INVARIANTS NoSilentStall SubscriberInformed ToldIsKnown
PROPERTY KeepsLedger
CHECK_DEADLOCK FALSE
