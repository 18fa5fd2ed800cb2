SPECIFICATION RunsSpec
CONSTANTS
    a = a
    b = b
    c = c
    None = None
    Ids = {a, b, c}
    Root = a
    Setups <- MCSetups
    MaxRows = 3
    MaxDepth = 3
CHECK_DEADLOCK FALSE
INVARIANTS ReportExact ChainsBounded StraysExplained
PROPERTY RunsEnd
