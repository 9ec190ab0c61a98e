SPECIFICATION Spec
CONSTANTS
    w1 = w1
    w2 = w2
    b1 = b1
    b2 = b2
    Null = Null
    Numbers <- MCNumbers
    Value <- MCValue
    Workers <- MCWorkers
    Streams <- MCStreams
    StrayIds = {}
    MaxTasks = 2
    MaxFaults = 1
    MaxRestarts = 0
SYMMETRY Symmetry
INVARIANTS OrderInv NoSilentStall FinishedHasResult SubscriberInformed StreamOrdered
PROPERTIES StatusNeverRegresses KeepsLedger
CHECK_DEADLOCK FALSE
