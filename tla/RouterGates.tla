------------------------------ MODULE RouterGates ------------------------------
(***************************************************************************)
(* The four budgets of ProviderRouter as instances of SpendGate: one gate  *)
(* over all providers and one for a provider of its own, each in tokens    *)
(* and in cost.                                                            *)
(***************************************************************************)
EXTENDS ProviderRouter

CONSTANTS
    MaxTokens,  \* the most tokens one API call reports
    MaxPrice,   \* the highest price of a token
    Watched     \* any one provider: the one whose own gates are followed

\* An attempt makes three API calls.
MaxTokenCharge == 3 * MaxTokens
MaxCostCharge == MaxPrice * MaxTokenCharge

ASSUME RouterGatesAssumption ==
    /\ MaxTokens \in Nat
    /\ MaxPrice \in Nat
    /\ Watched \in Providers
    /\ \A b \in Bills : Tokens(b) <= MaxTokens
    /\ \A p \in Providers : PriceIn[p] <= MaxPrice /\ PriceOut[p] <= MaxPrice

RunTokenGate == INSTANCE SpendGate WITH
    Budget <- PerRunTokenBudget, MaxCharge <- MaxTokenCharge,
    spent <- TotalTokens, inside <- AtAnyProvider

RunCostGate == INSTANCE SpendGate WITH
    Budget <- PerRunCostBudget, MaxCharge <- MaxCostCharge,
    spent <- TotalCost, inside <- AtAnyProvider

ProviderTokenGate == INSTANCE SpendGate WITH
    Budget <- PerProviderTokenBudget, MaxCharge <- MaxTokenCharge,
    spent <- ProviderTokens[Watched], inside <- AtProvider(Watched)

ProviderCostGate == INSTANCE SpendGate WITH
    Budget <- PerProviderCostBudget, MaxCharge <- MaxCostCharge,
    spent <- ProviderCost[Watched], inside <- AtProvider(Watched)

-----------------------------------------------------------------------------
\* API calls the current attempt of a caller has had answered.
CallsAnswered == [idle |-> 0, check |-> 0, sentiment |-> 0, factors |-> 1,
                  disambiguate |-> 2, reset |-> 3, record |-> 3]

\* What an attempt will be charged is what its own calls reported: nothing of
\* an earlier attempt, at another provider or in an earlier call, is left.
BillBounded ==
    \A c \in Callers : Tokens(bill[c]) <= CallsAnswered[pc[c]] * MaxTokens

\* Enrich's check of the run budgets (allowed) and its later charge
\* (recordUsage), with unlocked provider calls between, implement the gate:
\* nobody enters once the sum over all providers has reached the budget, and
\* every entry is charged at most once.
ImplementsRunGates == RunTokenGate!Spec /\ RunCostGate!Spec

\* The same for a provider's own budgets: an attempt is charged to the provider
\* that let it in, whatever the caller tried before.
ImplementsProviderGates == ProviderTokenGate!Spec /\ ProviderCostGate!Spec

\* Tokens charged to a provider stay below its budget plus one attempt per
\* concurrent caller: the check-then-charge race overshoots, but boundedly.
ProviderOvershootBounded ==
    PerProviderTokenBudget > 0 =>
        \A p \in Providers :
            ProviderTokens[p]
                < PerProviderTokenBudget + MaxTokenCharge * Cardinality(Callers)
=============================================================================
