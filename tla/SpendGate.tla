------------------------------ MODULE SpendGate ------------------------------
(***************************************************************************)
(* What a budget of internal/enrich/router.go promises, stated without the *)
(* router: a gate lets a caller in while the amount spent is below the     *)
(* budget, a caller inside may spend up to MaxCharge when it leaves, and   *)
(* nothing holds the money back while the caller is inside.  The budget is *)
(* therefore a threshold for admission, not a cap on spending: what is     *)
(* spent stays below the budget plus one charge for every caller that can  *)
(* be inside at once.                                                      *)
(***************************************************************************)
EXTENDS Integers, FiniteSets

CONSTANTS
    Callers,    \* the goroutines that may hold an admission at once
    Budget,     \* the configured budget; 0 switches the gate off
    MaxCharge   \* the most one admission can be charged

\* What the theorems about a gate ask of its constants.
GateAssumption ==
    /\ IsFiniteSet(Callers)
    /\ Budget \in Nat
    /\ MaxCharge \in Nat

VARIABLES
    spent,      \* charged so far
    inside      \* callers admitted and not yet charged or turned away

gateVars == <<spent, inside>>

Init ==
    /\ spent = 0
    /\ inside = {}

Admit(c) ==
    /\ c \notin inside
    /\ Budget > 0 => spent < Budget
    /\ inside' = inside \cup {c}
    /\ UNCHANGED spent

Charge(c) ==
    /\ c \in inside
    /\ \E amount \in 0..MaxCharge : spent' = spent + amount
    /\ inside' = inside \ {c}

Abandon(c) ==
    /\ c \in inside
    /\ inside' = inside \ {c}
    /\ UNCHANGED spent

Next == \E c \in Callers : Admit(c) \/ Charge(c) \/ Abandon(c)

Spec == Init /\ [][Next]_gateVars

-----------------------------------------------------------------------------
TypeOK ==
    /\ spent \in Nat
    /\ inside \in SUBSET Callers

\* What is spent, plus the most the admitted callers can still add, stays
\* below the budget plus one full charge per caller.
CommitmentBounded ==
    Budget > 0 =>
        spent + MaxCharge * Cardinality(inside)
            < Budget + MaxCharge * Cardinality(Callers)

\* The reading of "budget" a caller can rely on: overspending is limited to
\* one charge for each caller that can be inside at the same time.
OvershootBounded ==
    Budget > 0 => spent < Budget + MaxCharge * Cardinality(Callers)
=============================================================================
