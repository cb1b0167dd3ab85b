---------------------------- MODULE ProviderRouter ----------------------------
(***************************************************************************)
(* internal/enrich/router.go: the LLM provider router that every run of    *)
(* one engine.Service shares.  A caller is one goroutine (one HTTP request *)
(* being served) inside ProviderRouter.Enrich.  The mutex is held inside   *)
(* allowed, recordFailure, resetFailure and recordUsage only, so each of   *)
(* those is one atomic step, and the provider's HTTP calls lie between     *)
(* them with no lock held.                                                 *)
(***************************************************************************)
EXTENDS Integers, FiniteSets, Sequences, Functions

CONSTANTS
    Callers,        \* goroutines that may be inside Enrich at the same time
    Providers,      \* every "name:model" key the configuration mentions
    Clients,        \* the keys of enabled providers: the ones with a client
    FallbackChain,  \* configured order; <<>> when it is not configured
    Bills,          \* [input, output] tokens one API call can report
    PriceIn,        \* price of an input token, per provider, in cost units
    PriceOut,       \* price of an output token, per provider, in cost units
    PerRunTokenBudget, PerProviderTokenBudget,  \* 0 switches a budget off
    PerRunCostBudget, PerProviderCostBudget,
    CircuitBreakerFailures, CircuitBreakerSeconds,
    MaxTime         \* bound of the clock

Bill == [input : Nat, output : Nat]
NoBill == [input |-> 0, output |-> 0]
Usage == [input : Nat, output : Nat, cost : Nat]

ASSUME RouterAssumption ==
    /\ IsFiniteSet(Callers)
    /\ IsFiniteSet(Providers)
    /\ Clients \subseteq Providers
    /\ FallbackChain \in Seq(Providers)
    /\ Bills \subseteq Bill
    /\ PriceIn \in [Providers -> Nat]
    /\ PriceOut \in [Providers -> Nat]
    /\ PerRunTokenBudget \in Nat
    /\ PerProviderTokenBudget \in Nat
    /\ PerRunCostBudget \in Nat
    /\ PerProviderCostBudget \in Nat
    /\ CircuitBreakerFailures \in Nat
    /\ CircuitBreakerSeconds \in Nat
    /\ MaxTime \in Nat

VARIABLES
    usage,      \* router: tokens and cost recorded against each provider
    failures,   \* router: failures recorded since the last reset or trip
    openUntil,  \* router: when a provider's breaker closes; 0 for no entry
    now,        \* the clock behind nowFn
    pc,         \* where each caller is
    chain,      \* the order a caller tries providers in
    pos,        \* index of the provider it is at
    bill        \* tokens reported by the calls of the current attempt

routerVars == <<usage, failures, openUntil>>
callerVars == <<pc, chain, pos, bill>>
vars == <<usage, failures, openUntil, now, pc, chain, pos, bill>>

\* A caller between a successful allowed() and the end of its attempt.
Inside == {"sentiment", "factors", "disambiguate", "reset", "record"}

Key(c) == chain[c][pos[c]]
AtProvider(p) == {c \in Callers : pc[c] \in Inside /\ Key(c) = p}
AtAnyProvider == {c \in Callers : pc[c] \in Inside}

Tokens(u) == u.input + u.output
ProviderTokens == [p \in Providers |-> Tokens(usage[p])]
ProviderCost == [p \in Providers |-> usage[p].cost]
TotalTokens == SumFunction(ProviderTokens)
TotalCost == SumFunction(ProviderCost)

EstimateCost(p, b) == PriceIn[p] * b.input + PriceOut[p] * b.output

\* With no fallback chain configured the order is Go's map iteration order.
ChainOrders ==
    IF FallbackChain # <<>> THEN {FallbackChain}
    ELSE Injection(1..Cardinality(Clients), Clients)

Init ==
    /\ usage = [p \in Providers |-> [input |-> 0, output |-> 0, cost |-> 0]]
    /\ failures = [p \in Providers |-> 0]
    /\ openUntil = [p \in Providers |-> 0]
    /\ now = 0
    /\ pc = [c \in Callers |-> "idle"]
    /\ chain = [c \in Callers |-> <<>>]
    /\ pos = [c \in Callers |-> 1]
    /\ bill = [c \in Callers |-> NoBill]

-----------------------------------------------------------------------------
(* The critical sections.                                                  *)

BreakerOpen(p) == now < openUntil[p]

\* Wrong on purpose: the per-provider budgets are not checked.
WithinRunBudgetsOnly(p) ==
    /\ PerRunTokenBudget > 0 => TotalTokens < PerRunTokenBudget
    /\ PerRunCostBudget > 0 => TotalCost < PerRunCostBudget

\* Wrong on purpose: the run budgets are compared with one provider's usage.
WithinOwnUsage(p) ==
    /\ PerProviderTokenBudget > 0 => Tokens(usage[p]) < PerProviderTokenBudget
    /\ PerProviderCostBudget > 0 => usage[p].cost < PerProviderCostBudget
    /\ PerRunTokenBudget > 0 => Tokens(usage[p]) < PerRunTokenBudget
    /\ PerRunCostBudget > 0 => usage[p].cost < PerRunCostBudget

WithinBudgets(p) ==
    /\ PerProviderTokenBudget > 0 => Tokens(usage[p]) < PerProviderTokenBudget
    /\ PerProviderCostBudget > 0 => usage[p].cost < PerProviderCostBudget
    /\ PerRunTokenBudget > 0 => TotalTokens < PerRunTokenBudget
    /\ PerRunCostBudget > 0 => TotalCost < PerRunCostBudget

\* Wrong on purpose: the breaker is not asked.
AllowedByBudgets(p) == WithinBudgets(p)

Allowed(p) == ~BreakerOpen(p) /\ WithinBudgets(p)

\* Wrong on purpose: the failure that trips the breaker does not clear the count.
RecordFailureKeepsCount(p) ==
    /\ failures' = [failures EXCEPT ![p] = @ + 1]
    /\ IF failures[p] + 1 >= CircuitBreakerFailures
       THEN openUntil' = [openUntil EXCEPT ![p] = now + CircuitBreakerSeconds]
       ELSE UNCHANGED openUntil

RecordFailure(p) ==
    IF failures[p] + 1 >= CircuitBreakerFailures
    THEN /\ openUntil' = [openUntil EXCEPT ![p] = now + CircuitBreakerSeconds]
         /\ failures' = [failures EXCEPT ![p] = 0]
    ELSE /\ failures' = [failures EXCEPT ![p] = @ + 1]
         /\ UNCHANGED openUntil

-----------------------------------------------------------------------------
(* Enrich, step by step.                                                   *)

StartEnrich(c) ==
    /\ pc[c] = "idle"
    /\ \E order \in ChainOrders :
        /\ order # <<>>      \* otherwise "no providers configured"
        /\ chain' = [chain EXCEPT ![c] = order]
    /\ pc' = [pc EXCEPT ![c] = "check"]
    /\ UNCHANGED <<routerVars, now, pos, bill>>

\* Enrich returns, and its local variables are gone.
Return(c) ==
    /\ pc' = [pc EXCEPT ![c] = "idle"]
    /\ chain' = [chain EXCEPT ![c] = <<>>]
    /\ pos' = [pos EXCEPT ![c] = 1]
    /\ bill' = [bill EXCEPT ![c] = NoBill]

Looking(c) == pc[c] = "check" /\ pos[c] <= Len(chain[c])

Admit(c) ==
    /\ Looking(c)
    /\ Allowed(Key(c))
    /\ Key(c) \in Clients
    /\ pc' = [pc EXCEPT ![c] = "sentiment"]
    /\ UNCHANGED <<routerVars, now, chain, pos, bill>>

\* Wrong on purpose: waits for the provider instead of trying the next one.
SkipWaits(c) ==
    /\ Looking(c)
    /\ ~Allowed(Key(c)) \/ Key(c) \notin Clients
    /\ UNCHANGED vars

Skip(c) ==
    /\ Looking(c)
    /\ ~Allowed(Key(c)) \/ Key(c) \notin Clients
    /\ pos' = [pos EXCEPT ![c] = @ + 1]
    /\ UNCHANGED <<routerVars, now, pc, chain, bill>>

\* The chain is exhausted: Enrich returns lastErr.
GiveUp(c) ==
    /\ pc[c] = "check"
    /\ pos[c] > Len(chain[c])
    /\ Return(c)
    /\ UNCHANGED <<routerVars, now>>

\* A provider call answers with a bill; the attempt adds it up locally.
Answered(c, next) ==
    /\ \E b \in Bills :
        bill' = [bill EXCEPT ![c] = [input |-> bill[c].input + b.input,
                                     output |-> bill[c].output + b.output]]
    /\ pc' = [pc EXCEPT ![c] = next]
    /\ UNCHANGED <<routerVars, now, chain, pos>>

ClassifySentiment(c) == pc[c] = "sentiment" /\ Answered(c, "factors")

TagFactors(c) == pc[c] = "factors" /\ Answered(c, "disambiguate")

\* An ordinary error of the third call is ignored: no bill, no failure.
DisambiguateEntity(c) ==
    /\ pc[c] = "disambiguate"
    /\ \/ Answered(c, "reset")
       \/ /\ pc' = [pc EXCEPT ![c] = "reset"]
          /\ UNCHANGED <<routerVars, now, chain, pos, bill>>

\* Wrong on purpose: the failed attempt's tokens are carried to the next one.
AttemptFailsKeepsBill(c) ==
    /\ pc[c] \in {"sentiment", "factors"}
    /\ RecordFailure(Key(c))
    /\ pos' = [pos EXCEPT ![c] = @ + 1]
    /\ pc' = [pc EXCEPT ![c] = "check"]
    /\ UNCHANGED <<usage, now, chain, bill>>

\* Wrong on purpose: the error does not end the attempt.
AttemptFailsGoesOn(c) ==
    /\ pc[c] \in {"sentiment", "factors"}
    /\ RecordFailure(Key(c))
    /\ pos' = [pos EXCEPT ![c] = @ + 1]
    /\ pc' = [pc EXCEPT ![c] = "factors"]
    /\ UNCHANGED <<usage, now, chain, bill>>

\* An ordinary error of the first or second call counts against the breaker
\* and sends the caller on; what the attempt was billed is dropped.
AttemptFails(c) ==
    /\ pc[c] \in {"sentiment", "factors"}
    /\ RecordFailure(Key(c))
    /\ pos' = [pos EXCEPT ![c] = @ + 1]
    /\ bill' = [bill EXCEPT ![c] = NoBill]
    /\ pc' = [pc EXCEPT ![c] = "check"]
    /\ UNCHANGED <<usage, now, chain>>

\* A fatal (configuration or authentication) error ends Enrich at once.
FatalError(c) ==
    /\ pc[c] \in {"sentiment", "factors", "disambiguate"}
    /\ Return(c)
    /\ UNCHANGED <<routerVars, now>>

ResetFailure(c) ==
    /\ pc[c] = "reset"
    /\ failures' = [failures EXCEPT ![Key(c)] = 0]
    /\ openUntil' = [openUntil EXCEPT ![Key(c)] = 0]
    /\ pc' = [pc EXCEPT ![c] = "record"]
    /\ UNCHANGED <<usage, now, chain, pos, bill>>

\* Wrong on purpose: the last charge replaces the earlier ones.
RecordUsageOverwrites(c) ==
    /\ pc[c] = "record"
    /\ LET p == Key(c)
       IN  usage' = [usage EXCEPT ![p] =
                [input |-> bill[c].input, output |-> bill[c].output,
                 cost |-> EstimateCost(p, bill[c])]]
    /\ Return(c)
    /\ UNCHANGED <<failures, openUntil, now>>

\* Wrong on purpose: charges the chain's last provider, whichever answered.
RecordUsageAtLast(c) ==
    /\ pc[c] = "record"
    /\ LET p == chain[c][Len(chain[c])]
       IN  usage' = [usage EXCEPT ![p] =
                [input |-> @.input + bill[c].input,
                 output |-> @.output + bill[c].output,
                 cost |-> @.cost + EstimateCost(p, bill[c])]]
    /\ Return(c)
    /\ UNCHANGED <<failures, openUntil, now>>

\* recordUsage is the last step before Enrich returns its result.
RecordUsage(c) ==
    /\ pc[c] = "record"
    /\ LET p == Key(c)
       IN  usage' = [usage EXCEPT ![p] =
                [input |-> @.input + bill[c].input,
                 output |-> @.output + bill[c].output,
                 cost |-> @.cost + EstimateCost(p, bill[c])]]
    /\ Return(c)
    /\ UNCHANGED <<failures, openUntil, now>>

Tick ==
    /\ now < MaxTime
    /\ now' = now + 1
    /\ UNCHANGED <<routerVars, callerVars>>

Proceed(c) ==
    \/ Admit(c) \/ Skip(c) \/ GiveUp(c)
    \/ ClassifySentiment(c) \/ TagFactors(c) \/ DisambiguateEntity(c)
    \/ AttemptFails(c) \/ FatalError(c)
    \/ ResetFailure(c) \/ RecordUsage(c)

Next == Tick \/ \E c \in Callers : StartEnrich(c) \/ Proceed(c)

Spec == Init /\ [][Next]_vars

\* A caller inside Enrich keeps running: the mutex is held for a few
\* instructions and every provider call carries a timeout.  Nobody is obliged
\* to call Enrich again, and the clock need not reach MaxTime.
FairSpec == Spec /\ \A c \in Callers : WF_vars(Proceed(c))

-----------------------------------------------------------------------------
TypeOK ==
    /\ usage \in [Providers -> Usage]
    /\ failures \in [Providers -> Nat]
    /\ openUntil \in [Providers -> Nat]
    /\ now \in Nat
    /\ pc \in [Callers -> Inside \cup {"idle", "check"}]
    /\ chain \in [Callers -> Seq(Providers)]
    /\ pos \in [Callers -> Nat \ {0}]
    /\ bill \in [Callers -> Bill]
    /\ \A c \in Callers : pc[c] \in Inside => pos[c] <= Len(chain[c])

\* Safety of the breaker under concurrency: while a provider's breaker is
\* open, the only callers at that provider are those admitted before it
\* opened; nobody joins them, whatever the others' results do to the counters.
OpenBreakerAdmitsNobody ==
    [][\A p \in Providers : BreakerOpen(p) => AtProvider(p)' \subseteq AtProvider(p)]_vars

\* A tripped breaker is never stuck open: its window ends at most
\* CircuitBreakerSeconds from now, and the count that tripped it starts over
\* below the threshold, however many stragglers fail into an open breaker.
BreakerWindowBounded ==
    \A p \in Providers :
        /\ openUntil[p] <= now + CircuitBreakerSeconds
        /\ failures[p] = 0 \/ failures[p] < CircuitBreakerFailures

\* Once the run budget is used up and the callers that were inside have left,
\* nothing is ever charged again: there is no step of this router that makes
\* room in the budget, not even the start of another run.
ExhaustionIsFinal ==
    [][ (/\ PerRunTokenBudget > 0
         /\ TotalTokens >= PerRunTokenBudget
         /\ AtAnyProvider = {})
        => AtAnyProvider' = {} /\ usage' = usage ]_vars

\* Every call of Enrich returns, whatever the providers answer and whatever
\* the other callers do to the budgets and the breakers meanwhile.
EnrichReturns == \A c \in Callers : pc[c] # "idle" ~> pc[c] = "idle"

=============================================================================
