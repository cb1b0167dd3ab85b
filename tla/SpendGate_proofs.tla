--------------------------- MODULE SpendGate_proofs ---------------------------
(* Theorems about the admission gate, for any number of callers, budget and
   charge. *)
EXTENDS SpendGate, DataLemmas

\* The state of a gate is always well typed.
LEMMA GateTypeOK == GateAssumption => (Spec => []TypeOK)
<1> SUFFICES ASSUME GateAssumption PROVE Spec => []TypeOK
    OBVIOUS
<1>1. Init => TypeOK
    BY DEF Init, TypeOK
<1>2. TypeOK /\ [Next]_gateVars => TypeOK'
    BY DEF GateAssumption, TypeOK, Next, Admit, Charge, Abandon, gateVars
<1>3. QED  BY <1>1, <1>2, PTL DEF Spec

\* One step of a gate keeps the commitment bound.
LEMMA CommitmentStep ==
    ASSUME GateAssumption, TypeOK, CommitmentBounded, [Next]_gateVars
    PROVE  CommitmentBounded'
<1>1. /\ Budget \in Nat /\ MaxCharge \in Nat /\ spent \in Nat
      /\ IsFiniteSet(Callers) /\ inside \in SUBSET Callers
      /\ IsFiniteSet(inside) /\ Cardinality(Callers) \in Nat
    BY FS_Subset, FS_CardinalityType DEF GateAssumption, TypeOK
<1>2. Budget + MaxCharge * Cardinality(Callers) \in Nat
    BY <1>1
<1>3. ASSUME NEW c \in Callers, Admit(c)
      PROVE  CommitmentBounded'
    BY <1>1, <1>3, EntryKeepsBound DEF Admit, CommitmentBounded
<1>4. ASSUME NEW c \in inside, inside' = inside \ {c},
             NEW amount \in 0..MaxCharge, spent' = spent + amount
      PROVE  CommitmentBounded'
    BY <1>1, <1>2, <1>4, ExitKeepsBound DEF CommitmentBounded
<1>5. ASSUME NEW c \in Callers, Charge(c)
      PROVE  CommitmentBounded'
    BY <1>4, <1>5 DEF Charge
<1>6. ASSUME NEW c \in Callers, Abandon(c)
      PROVE  CommitmentBounded'
    <2>1. 0 \in 0..MaxCharge /\ spent' = spent + 0
        BY <1>1, <1>6 DEF Abandon
    <2>2. QED  BY <2>1, <1>4, <1>6 DEF Abandon
<1>7. CASE UNCHANGED gateVars
    BY <1>7 DEF gateVars, CommitmentBounded
<1>8. QED  BY <1>3, <1>5, <1>6, <1>7 DEF Next

\* Spending plus outstanding commitment never reaches the budget plus one full
\* charge per caller.
THEOREM GateCommitmentBounded == GateAssumption => (Spec => []CommitmentBounded)
<1> SUFFICES ASSUME GateAssumption PROVE Spec => []CommitmentBounded
    OBVIOUS
<1>1. Init => CommitmentBounded
    <2>1. 0 \in Nat /\ {} \in SUBSET Callers
        OBVIOUS
    <2>2. QED  BY <2>1, EntryKeepsBound DEF GateAssumption, Init, CommitmentBounded
<1>2. TypeOK /\ CommitmentBounded /\ [Next]_gateVars => CommitmentBounded'
    BY CommitmentStep
<1>3. QED  BY <1>1, <1>2, GateTypeOK, PTL DEF Spec

\* The overshoot of an admission-only budget is at most one charge per caller.
THEOREM GateOvershootBounded == GateAssumption => (Spec => []OvershootBounded)
<1> SUFFICES ASSUME GateAssumption PROVE Spec => []OvershootBounded
    OBVIOUS
<1>1. TypeOK /\ CommitmentBounded => OvershootBounded
    BY BoundCoversSpent DEF GateAssumption, TypeOK, CommitmentBounded, OvershootBounded
<1>2. QED  BY <1>1, GateTypeOK, GateCommitmentBounded, PTL
=============================================================================
