---------------------------- MODULE MCRouterGates ----------------------------
(* Two callers and two providers, the second dearer than the first, tried in
   any order, and budgets that two concurrent attempts overshoot. *)
EXTENDS RouterGates, TLC

CONSTANTS c1, c2, p1, p2

MCCallers == {c1, c2}
MCProviders == {p1, p2}
MCChain == <<>>
MCBills == {[input |-> 1, output |-> 1]}
MCPriceIn == [p \in MCProviders |-> IF p = p2 THEN 2 ELSE 1]
MCPriceOut == [p \in MCProviders |-> 2]
=============================================================================
