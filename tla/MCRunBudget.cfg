SPECIFICATION RunSpec
CONSTANTS
    c1 = c1
    p1 = p1
    Callers <- MCCallers
    Providers <- MCProviders
    Clients <- MCProviders
    FallbackChain <- MCChain
    Bills <- MCBills
    PriceIn <- MCPrice
    PriceOut <- MCPrice
    PerRunTokenBudget = 6
    PerProviderTokenBudget = 0
    PerRunCostBudget = 0
    PerProviderCostBudget = 0
    CircuitBreakerFailures = 2
    CircuitBreakerSeconds = 1
    MaxTime = 1
INVARIANT
    BudgetResetsPerRun
