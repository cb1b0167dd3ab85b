----------------------------- MODULE MCRunBudget -----------------------------
(* One client with one provider: its second run already finds the budget of
   the first one used up. *)
EXTENDS RunBudget

CONSTANTS c1, p1

MCCallers == {c1}
MCProviders == {p1}
MCChain == <<p1>>
MCBills == {[input |-> 1, output |-> 1]}
MCPrice == [p \in MCProviders |-> 1]
=============================================================================
