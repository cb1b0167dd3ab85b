------------------------------- MODULE RunBudget -------------------------------
(***************************************************************************)
(* The runs around ProviderRouter: engine.Service.Run calls Enrich once or *)
(* more for each of its articles, one call after another, and a Service    *)
(* keeps one router for all its runs (NewService).  A caller of the router *)
(* is here a client that starts one run after another.                     *)
(***************************************************************************)
EXTENDS ProviderRouter

VARIABLE runTokens  \* tokens charged to the current run of each caller

runVars == <<vars, runTokens>>

RunInit == Init /\ runTokens = [c \in Callers |-> 0]

\* Run begins: a new run id and new slices, and the same router.
NewRun(c) ==
    /\ pc[c] = "idle"
    /\ runTokens' = [runTokens EXCEPT ![c] = 0]
    /\ UNCHANGED vars

\* A run's tokens are those its calls of Enrich are charged.
RunStep(c) ==
    /\ StartEnrich(c) \/ Proceed(c)
    /\ runTokens' = [runTokens EXCEPT ![c] =
            @ + IF pc[c] = "record" THEN Tokens(bill[c]) ELSE 0]

RunNext ==
    \/ Tick /\ UNCHANGED runTokens
    \/ \E c \in Callers : NewRun(c) \/ RunStep(c)

RunSpec == RunInit /\ [][RunNext]_runVars

-----------------------------------------------------------------------------
\* What per_run_token_budget and the test TestServiceRunResetsProviderBudgets-
\* PerRun say: a run that has the router to itself finds the run budget used up
\* only when it has used that many tokens itself.
BudgetResetsPerRun ==
    \A c \in Callers :
        /\ Looking(c)
        /\ AtAnyProvider = {}
        /\ PerRunTokenBudget > 0
        /\ TotalTokens >= PerRunTokenBudget
        => runTokens[c] >= PerRunTokenBudget
=============================================================================
