SPECIFICATION FairSpec
CONSTANTS
    c1 = c1
    c2 = c2
    p1 = p1
    p2 = p2
    Callers <- MCCallers
    Providers <- MCProviders
    Clients <- MCProviders
    FallbackChain <- MCChain
    Bills <- MCBills
    PriceIn <- MCPriceIn
    PriceOut <- MCPriceOut
    PerRunTokenBudget = 6
    PerProviderTokenBudget = 4
    PerRunCostBudget = 10
    PerProviderCostBudget = 7
    CircuitBreakerFailures = 2
    CircuitBreakerSeconds = 1
    MaxTime = 1
    MaxTokens = 2
    MaxPrice = 2
    Watched = p2
INVARIANTS
    TypeOK
    BreakerWindowBounded
    BillBounded
    ProviderOvershootBounded
PROPERTIES
    OpenBreakerAdmitsNobody
    ExhaustionIsFinal
    ImplementsRunGates
    ImplementsProviderGates
    EnrichReturns
