SPECIFICATION Spec
CONSTANTS
    None = None
    NA = NA
    Blank = "blank"
    EnabledSources <- MCEnabledSources
    Kind <- MCKind
    CrawlFallback <- MCCrawlFallback
    Feed <- MCFeed
    Pages <- MCPages
    Archive <- MCArchive
    DateOf <- MCDateOf
    Requests <- MCRequests
    Symbols <- MCSymbols
    EntityID <- MCEntityID
    Lookup <- MCLookup
    Groups <- MCGroups
    Mentions <- MCMentions
    FactorHits <- MCFactorHits
    FactorTotal = 2
    Profiles <- MCProfiles
    CanonicalHash <- MCCanonicalHash
    LinkAndTitle <- MCLinkAndTitle
    Charges = {4}
    DayLength = 2
    Start = 5
    MaxClock = 6
INVARIANT
    PulseArticlesReachTheRun
CHECK_DEADLOCK FALSE
