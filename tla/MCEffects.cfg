SPECIFICATION AllSpec
CONSTANTS
    e1 = e1
    e2 = e2
    i1 = i1
    i2 = i2
    i3 = i3
    None = None
    Elements <- TwoElements
    Items <- ThreeItems
    PageUses = {"animate", "unqueued", "delay", "promise"}
    HandlerUses = {"animate", "unqueued"}
    MaxTicks = 1
INVARIANTS FxInv
PROPERTIES EmptyMeansComplete QueuesDrain
CHECK_DEADLOCK FALSE
