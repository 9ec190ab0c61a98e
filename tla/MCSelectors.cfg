SPECIFICATION Spec
CONSTANTS
    None = None
    N = 4
    MaxQueries = 2
    Tags <- MCTags
    Names <- MCNames
    Sel <- MCSel
    Queried <- Plain
INVARIANT SelectorsInv
CHECK_DEADLOCK FALSE
