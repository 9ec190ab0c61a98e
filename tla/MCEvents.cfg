SPECIFICATION Spec
CONSTANTS
    inner = inner
    outer = outer
    f = f
    g = g
    ns = ns
    None = None
    Elements <- MCElements
    Bindings <- MCBindings
    Functions = {f, g}
    Namespaces = {ns}
    MaxUses = 5
    MaxDepth = 3
    ForeignTriggers = FALSE
INVARIANTS EventsInv NoHandlerMissed
CHECK_DEADLOCK FALSE
