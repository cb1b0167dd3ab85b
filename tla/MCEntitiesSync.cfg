SPECIFICATION SyncSpec
CONSTANTS
    c1 = c1
    c2 = c2
    shipped = shipped
    s1 = s1
    AI = AI
    NIFTIT = NIFTIT
    RELIANCE = RELIANCE
    TCS = TCS
    fund = fund
    None = None
    Mixed = Mixed
    Missing = Missing
    Garbled = Garbled
    Creators <- MCCreators
    Sources <- MCSources
    Shipped <- MCShipped
    Wants <- MCWants
    DiskMayFail = FALSE
    OthersMayBreak = TRUE
    MaxSyncs = 1
    Alphabet <- MCAlphabet
    ByName <- MCByName
    DefaultEntities <- MCDefaults
    ShippedEntities <- MCEntities
    Groups <- MCGroups
    Indexes <- MCIndexes
    Bhavcopies <- MCBhavcopies
INVARIANT
    SyncKeepsConfigLoadable
CHECK_DEADLOCK FALSE
