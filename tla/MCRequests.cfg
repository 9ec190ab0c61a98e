SPECIFICATION AllSpec
CONSTANTS
    r1 = r1
    r2 = r2
    r3 = r3
    text = text
    json = json
    xml = xml
    None = None
    Requests <- MCRequests
    Options <- MCOptions
    AbortPoints <- MCAbortPoints
    ThrowPoints = {"ajaxStop"}
    Types <- MCTypes
    MaxConverters = 2
    ScriptRequests <- MCScriptRequests
INVARIANTS ActiveCounts RequestInv ConversionInv JsonpInv
PROPERTIES FirstCauseWins RequestsEnd
CHECK_DEADLOCK FALSE
