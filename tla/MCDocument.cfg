SPECIFICATION AllSpec
CONSTANTS
    s1 = s1
    s2 = s2
    s3 = s3
    n1 = n1
    n2 = n2
    t1 = t1
    v1 = v1
    v2 = v2
    None = None
    ScriptNodes <- MCScriptNodes
    MaxUses = 5
    Nodes <- MCNodes
    Texts <- MCTexts
    Values <- MCValues
    ObjectKeys <- MCObjectKeys
    RemovedKeys <- MCRemovedKeys
    MaxDataUses = 7
INVARIANTS ScriptInv DataInv ShowHideInv
PROPERTIES ToggleReverses
CHECK_DEADLOCK FALSE
