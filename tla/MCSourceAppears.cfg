SPECIFICATION Spec
CONSTANTS
    c1 = c1
    c2 = c2
    c3 = c3
    shipped = shipped
    s1 = s1
    s2 = s2
    None = None
    Mixed = Mixed
    Creators <- MCPair
    Sources <- MCSources
    Shipped <- MCShipped
    Wants <- MCWants
    DiskMayFail = FALSE
    OthersMayBreak = FALSE
INVARIANT
    CreatedSourcesAppear
CHECK_DEADLOCK FALSE
