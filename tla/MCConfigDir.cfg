SPECIFICATION FairSyncSpec
CONSTANTS
    c1 = c1
    c2 = c2
    shipped = shipped
    s1 = s1
    AI = AI
    NIFTIT = NIFTIT
    RELIANCE = RELIANCE
    TCS = TCS
    fund = fund
    None = None
    Mixed = Mixed
    Missing = Missing
    Garbled = Garbled
    Creators <- MCCreators
    Sources <- MCSources
    Shipped <- MCShipped
    Wants <- MCWants
    DiskMayFail = TRUE
    OthersMayBreak = TRUE
    MaxSyncs = 2
    Alphabet <- MCAlphabet
    ByName <- MCByName
    DefaultEntities <- MCDefaults
    ShippedEntities <- MCEntities
    Groups <- MCGroups
    Indexes <- MCIndexes
    Bhavcopies <- MCBhavcopies
INVARIANTS
    TypeOK
    SyncTypeOK
    CreatedSourcesPersist
    OneCreatorPerSource
    FailedSourcesRolledBack
    UniverseKept
PROPERTIES
    ImplementsSourceAdmin
    CreatesAnswered
CHECK_DEADLOCK FALSE
