-------------------------- MODULE RouterGates_proofs --------------------------
(* Theorems about the provider router, its types, its breaker and its budgets,
   for any number of callers and providers, any budgets, prices and bills. *)
EXTENDS RouterGates, DataLemmas

\* A key of a chain order is a provider.
LEMMA ChainOrdersType == ChainOrders \subseteq Seq(Providers)
<1>1. Cardinality(Clients) \in Nat
    BY RouterAssumption, FS_Subset, FS_CardinalityType
<1>2. ASSUME NEW order \in Injection(1..Cardinality(Clients), Clients)
      PROVE  order \in Seq(Providers)
    <2>1. order \in [1..Cardinality(Clients) -> Providers]
        BY RouterAssumption DEF Injection
    <2>2. QED  BY <1>1, <2>1
<1>3. QED  BY <1>2, RouterAssumption DEF ChainOrders

\* A caller that is inside, or looking, is at a provider.
LEMMA KeyType ==
    ASSUME TypeOK, NEW c \in Callers, pos[c] <= Len(chain[c])
    PROVE  Key(c) \in Providers
<1>1. chain[c] \in Seq(Providers) /\ pos[c] \in 1..Len(chain[c])
    BY DEF TypeOK
<1>2. QED  BY <1>1 DEF Key

\* recordFailure keeps the types of the counters.
LEMMA RecordFailureType ==
    ASSUME TypeOK, NEW p \in Providers, RecordFailure(p)
    PROVE  /\ failures' \in [Providers -> Nat]
           /\ openUntil' \in [Providers -> Nat]
<1>1. /\ failures \in [Providers -> Nat] /\ failures[p] + 1 \in Nat
      /\ openUntil \in [Providers -> Nat] /\ now + CircuitBreakerSeconds \in Nat
    BY RouterAssumption DEF TypeOK
<1>2. CASE failures[p] + 1 >= CircuitBreakerFailures
    BY <1>1, <1>2 DEF RecordFailure
<1>3. CASE ~(failures[p] + 1 >= CircuitBreakerFailures)
    BY <1>1, <1>3 DEF RecordFailure
<1>4. QED  BY <1>2, <1>3

\* Bills are well typed.
LEMMA BillsType == Bills \subseteq Bill
BY RouterAssumption

\* The state of the router and of its callers is always well typed.
THEOREM RouterTypeOK == Spec => []TypeOK
<1>1. Init => TypeOK
    BY RouterAssumption DEF Init, TypeOK, Usage, Bill, NoBill, Inside
<1>2. ASSUME TypeOK, [Next]_vars
      PROVE  TypeOK'
    <2> USE DEF routerVars, callerVars
    <2>1. CASE Tick
        BY <1>2, <2>1 DEF Tick, TypeOK
    <2>2. ASSUME NEW c \in Callers, StartEnrich(c)
          PROVE  TypeOK'
        BY <1>2, <2>2, ChainOrdersType DEF StartEnrich, TypeOK, Inside
    <2>3. ASSUME NEW c \in Callers, Return(c), UNCHANGED <<usage, failures, openUntil, now>>
          PROVE  TypeOK'
        BY <1>2, <2>3 DEF Return, TypeOK, Inside, NoBill, Bill
    <2>4. ASSUME NEW c \in Callers, Admit(c)
          PROVE  TypeOK'
        BY <1>2, <2>4 DEF Admit, Looking, TypeOK, Inside
    <2>5. ASSUME NEW c \in Callers, Skip(c)
          PROVE  TypeOK'
        BY <1>2, <2>5 DEF Skip, Looking, TypeOK, Inside
    <2>6. ASSUME NEW c \in Callers, NEW stage \in Inside, pc[c] \in Inside, Answered(c, stage)
          PROVE  TypeOK'
        <3>1. PICK b \in Bills : bill' = [bill EXCEPT ![c] =
                    [input |-> bill[c].input + b.input,
                     output |-> bill[c].output + b.output]]
            BY <2>6 DEF Answered
        <3>2. bill' \in [Callers -> Bill]
            BY <1>2, <3>1, BillsType DEF TypeOK, Bill
        <3>3. QED  BY <1>2, <2>6, <3>2 DEF Answered, TypeOK
    <2>7. ASSUME NEW c \in Callers, DisambiguateEntity(c)
          PROVE  TypeOK'
        <3>1. CASE Answered(c, "reset")
            BY <2>6, <2>7, <3>1 DEF DisambiguateEntity, Inside
        <3>2. CASE ~Answered(c, "reset")
            BY <1>2, <2>7, <3>2 DEF DisambiguateEntity, TypeOK, Inside
        <3>3. QED  BY <3>1, <3>2
    <2>8. ASSUME NEW c \in Callers, AttemptFails(c)
          PROVE  TypeOK'
        <3>1. Key(c) \in Providers
            BY <1>2, <2>8, KeyType DEF AttemptFails, TypeOK, Inside
        <3>2. failures' \in [Providers -> Nat] /\ openUntil' \in [Providers -> Nat]
            BY <1>2, <2>8, <3>1, RecordFailureType DEF AttemptFails
        <3>3. QED  BY <1>2, <2>8, <3>2 DEF AttemptFails, TypeOK, Inside, NoBill, Bill
    <2>9. ASSUME NEW c \in Callers, ResetFailure(c)
          PROVE  TypeOK'
        BY <1>2, <2>9 DEF ResetFailure, TypeOK, Inside
    <2>10. ASSUME NEW c \in Callers, RecordUsage(c)
           PROVE  TypeOK'
        <3> DEFINE p == Key(c)
        <3>1. p \in Providers
            BY <1>2, <2>10, KeyType DEF RecordUsage, TypeOK, Inside
        <3>2. bill[c] \in Bill /\ PriceIn[p] \in Nat /\ PriceOut[p] \in Nat
            BY <1>2, <3>1, RouterAssumption DEF TypeOK
        <3>3. EstimateCost(p, bill[c]) \in Nat
            BY <3>2 DEF EstimateCost, Bill
        <3>4. usage' \in [Providers -> Usage]
            <4> DEFINE new == [input |-> usage[p].input + bill[c].input,
                               output |-> usage[p].output + bill[c].output,
                               cost |-> usage[p].cost + EstimateCost(p, bill[c])]
            <4>1. usage \in [Providers -> Usage] /\ usage[p] \in Usage
                BY <1>2, <3>1 DEF TypeOK
            <4>2. new \in Usage
                BY <3>2, <3>3, <4>1 DEF Usage, Bill
            <4>3. usage' = [usage EXCEPT ![p] = new]
                BY <2>10 DEF RecordUsage
            <4>4. QED  BY <4>1, <4>2, <4>3
        <3>5. QED
            BY <1>2, <2>10, <3>4 DEF RecordUsage, Return, TypeOK, Inside, NoBill, Bill
    <2>11. CASE UNCHANGED vars
        BY <1>2, <2>11 DEF vars, TypeOK
    <2>12. ASSUME NEW c \in Callers, Proceed(c)
           PROVE  TypeOK'
        <3>1. GiveUp(c) => TypeOK'  BY <2>3 DEF GiveUp
        <3>2. FatalError(c) => TypeOK'  BY <2>3 DEF FatalError
        <3>3. ClassifySentiment(c) => TypeOK'  BY <2>6 DEF ClassifySentiment, Inside
        <3>4. TagFactors(c) => TypeOK'  BY <2>6 DEF TagFactors, Inside
        <3>5. QED
            BY <2>4, <2>5, <2>7, <2>8, <2>9, <2>10, <2>12, <3>1, <3>2, <3>3, <3>4
            DEF Proceed
    <2>13. QED  BY <1>2, <2>1, <2>2, <2>11, <2>12 DEF Next
<1>3. QED  BY <1>1, <1>2, PTL DEF Spec

-----------------------------------------------------------------------------
(* Who joins a provider, and when.                                         *)

\* Only a successful allowed() brings a caller to a provider; no other step
\* moves a caller that is inside to another one.
LEMMA OnlyAdmitJoins ==
    ASSUME TypeOK, [Next]_vars, NEW c \in Callers,
           pc'[c] \in Inside, pc[c] \notin Inside \/ Key(c)' # Key(c)
    PROVE  Admit(c) /\ Key(c)' = Key(c)
<1> DEFINE Kept(d) == (pc'[d] \in Inside => pc[d] \in Inside) /\ chain'[d] = chain[d] /\ pos'[d] = pos[d]
           Out(d) == pc'[d] \notin Inside
<1>1. /\ pc \in [Callers -> Inside \cup {"idle", "check"}]
      /\ chain \in [Callers -> Seq(Providers)] /\ pos \in [Callers -> Nat \ {0}]
    BY DEF TypeOK
<1>2. ~Kept(c) /\ ~Out(c)
    BY DEF Key
<1>3. CASE Tick \/ UNCHANGED vars
    BY <1>2, <1>3 DEF Tick, callerVars, vars
<1>4. ASSUME NEW d \in Callers, StartEnrich(d) \/ Proceed(d)
      PROVE  Admit(c) /\ Key(c)' = Key(c)
    <2>1. ASSUME d # c, NEW pcD, NEW chainD, NEW posD,
                 pc' = [pc EXCEPT ![d] = pcD], chain' = [chain EXCEPT ![d] = chainD],
                 pos' = [pos EXCEPT ![d] = posD]
          PROVE  FALSE
        BY <1>1, <1>2, <2>1
    <2>2. d = c
        <3>1. CASE StartEnrich(d)
            <4>1. PICK order \in ChainOrders : chain' = [chain EXCEPT ![d] = order]
                BY <3>1 DEF StartEnrich
            <4>2. QED
                BY <1>1, <1>2, <3>1, <4>1 DEF StartEnrich
        <3>2. CASE Return(d)  BY <1>1, <1>2, <3>2 DEF Return
        <3>3. CASE Admit(d)  BY <1>1, <1>2, <3>3 DEF Admit
        <3>4. CASE Skip(d)  BY <1>1, <1>2, <3>4 DEF Skip
        <3>5. CASE AttemptFails(d)  BY <1>1, <1>2, <3>5 DEF AttemptFails
        <3>6. CASE ClassifySentiment(d) \/ TagFactors(d) \/ DisambiguateEntity(d)
            BY <1>1, <1>2, <3>6
            DEF ClassifySentiment, TagFactors, DisambiguateEntity, Answered
        <3>7. CASE ResetFailure(d)  BY <1>1, <1>2, <3>7 DEF ResetFailure
        <3>8. QED
            BY <1>4, <3>1, <3>2, <3>3, <3>4, <3>5, <3>6, <3>7
            DEF Proceed, GiveUp, FatalError, RecordUsage
    <2>3. CASE Admit(c)
        BY <2>3 DEF Admit, Key
    <2>4. CASE StartEnrich(c)
        BY <1>1, <1>2, <2>4 DEF StartEnrich, Inside
    <2>5. CASE Skip(c)
        BY <1>2, <2>5 DEF Skip, Looking, Inside
    <2>6. CASE Return(c)
        BY <1>1, <1>2, <2>6 DEF Return, Inside
    <2>7. CASE AttemptFails(c)
        BY <1>1, <1>2, <2>7 DEF AttemptFails, Inside
    <2>8. CASE ClassifySentiment(c) \/ TagFactors(c) \/ DisambiguateEntity(c)
        BY <1>2, <2>8
        DEF ClassifySentiment, TagFactors, DisambiguateEntity, Answered, Inside
    <2>9. CASE ResetFailure(c)
        BY <1>2, <2>9 DEF ResetFailure, Inside
    <2>10. QED
        BY <1>4, <2>2, <2>3, <2>4, <2>5, <2>6, <2>7, <2>8, <2>9
        DEF Proceed, GiveUp, FatalError, RecordUsage
<1>5. QED  BY <1>3, <1>4 DEF Next

\* While a breaker is open nobody joins its provider.
THEOREM RouterOpenBreaker == Spec => OpenBreakerAdmitsNobody
<1>1. ASSUME TypeOK, [Next]_vars, NEW p \in Providers, BreakerOpen(p)
      PROVE  AtProvider(p)' \subseteq AtProvider(p)
    <2> SUFFICES ASSUME NEW c \in AtProvider(p)', c \notin AtProvider(p)
                 PROVE  FALSE
        OBVIOUS
    <2>1. c \in Callers /\ pc'[c] \in Inside /\ Key(c)' = p
        BY DEF AtProvider
    <2>2. pc[c] \notin Inside \/ Key(c)' # Key(c)
        BY <2>1 DEF AtProvider
    <2>3. Admit(c) /\ Key(c) = p
        BY <1>1, <2>1, <2>2, OnlyAdmitJoins
    <2>4. QED  BY <1>1, <2>3 DEF Admit, Allowed
<1>2. TypeOK /\ [Next]_vars =>
        [\A p \in Providers : BreakerOpen(p) => AtProvider(p)' \subseteq AtProvider(p)]_vars
    BY <1>1
<1>3. QED  BY <1>2, RouterTypeOK, PTL DEF Spec, OpenBreakerAdmitsNobody

\* A breaker's window ends within CircuitBreakerSeconds, and its count of
\* failures never reaches the threshold.
THEOREM RouterBreakerWindow == Spec => []BreakerWindowBounded
<1>1. Init => BreakerWindowBounded
    BY RouterAssumption DEF Init, BreakerWindowBounded
<1>2. ASSUME TypeOK, BreakerWindowBounded, [Next]_vars
      PROVE  BreakerWindowBounded'
    <2>1. /\ failures \in [Providers -> Nat] /\ openUntil \in [Providers -> Nat]
          /\ now \in Nat /\ CircuitBreakerSeconds \in Nat /\ CircuitBreakerFailures \in Nat
          /\ \A p \in Providers :
                /\ openUntil[p] <= now + CircuitBreakerSeconds
                /\ failures[p] = 0 \/ failures[p] < CircuitBreakerFailures
        BY <1>2, RouterAssumption DEF TypeOK, BreakerWindowBounded
    <2>2. CASE Tick
        BY <2>1, <2>2 DEF Tick, routerVars, BreakerWindowBounded
    <2>3. CASE UNCHANGED <<failures, openUntil, now>>
        BY <2>1, <2>3 DEF BreakerWindowBounded
    <2>4. ASSUME NEW c \in Callers, AttemptFails(c)
          PROVE  BreakerWindowBounded'
        <3>1. now' = now /\ RecordFailure(Key(c))
            BY <2>4 DEF AttemptFails
        <3>2. CASE failures[Key(c)] + 1 >= CircuitBreakerFailures
            <4>1. /\ openUntil' = [openUntil EXCEPT ![Key(c)] = now + CircuitBreakerSeconds]
                  /\ failures' = [failures EXCEPT ![Key(c)] = 0]
                BY <3>1, <3>2 DEF RecordFailure
            <4>2. QED  BY <2>1, <3>1, <4>1 DEF BreakerWindowBounded
        <3>3. CASE ~(failures[Key(c)] + 1 >= CircuitBreakerFailures)
            <4>1. /\ openUntil' = openUntil
                  /\ failures' = [failures EXCEPT ![Key(c)] = @ + 1]
                BY <3>1, <3>3 DEF RecordFailure
            <4>2. QED  BY <2>1, <3>1, <3>3, <4>1 DEF BreakerWindowBounded
        <3>4. QED  BY <3>2, <3>3
    <2>5. ASSUME NEW c \in Callers, ResetFailure(c)
          PROVE  BreakerWindowBounded'
        BY <2>1, <2>5 DEF ResetFailure, BreakerWindowBounded
    <2>6. ASSUME NEW c \in Callers, StartEnrich(c) \/ Proceed(c),
                 ~AttemptFails(c), ~ResetFailure(c)
          PROVE  UNCHANGED <<failures, openUntil, now>>
        BY <2>6
        DEF StartEnrich, Proceed, Admit, Skip, GiveUp, ClassifySentiment, TagFactors,
            DisambiguateEntity, Answered, FatalError, RecordUsage, routerVars
    <2>7. CASE UNCHANGED vars
        BY <2>3, <2>7 DEF vars
    <2>8. QED  BY <1>2, <2>2, <2>3, <2>4, <2>5, <2>6, <2>7 DEF Next
<1>3. QED  BY <1>1, <1>2, RouterTypeOK, PTL DEF Spec

-----------------------------------------------------------------------------
(* What an attempt is billed.                                              *)

\* One more answered call adds at most MaxTokens to a bill.
LEMMA AnsweredBill ==
    ASSUME TypeOK, NEW c \in Callers, NEW stage \in Inside, Answered(c, stage)
    PROVE  /\ bill' \in [Callers -> Bill]
           /\ Tokens(bill'[c]) <= Tokens(bill[c]) + MaxTokens
           /\ \A d \in Callers \ {c} : bill'[d] = bill[d]
           /\ pc' = [pc EXCEPT ![c] = stage]
<1>1. PICK b \in Bills : bill' = [bill EXCEPT ![c] =
            [input |-> bill[c].input + b.input,
             output |-> bill[c].output + b.output]]
    BY DEF Answered
<1>2. b \in Bill /\ Tokens(b) <= MaxTokens /\ MaxTokens \in Nat
    BY BillsType, RouterGatesAssumption
<1>3. bill \in [Callers -> Bill] /\ bill[c] \in Bill
    BY DEF TypeOK
<1>4. bill'[c] = [input |-> bill[c].input + b.input, output |-> bill[c].output + b.output]
    BY <1>1, <1>3
<1>5. bill' \in [Callers -> Bill]
    BY <1>1, <1>2, <1>3 DEF Bill
<1>6. Tokens(bill'[c]) <= Tokens(bill[c]) + MaxTokens
    BY <1>2, <1>3, <1>4 DEF Tokens, Bill
<1>7. QED  BY <1>1, <1>3, <1>5, <1>6 DEF Answered

\* The bill of an attempt covers no more than the calls it has had answered.
THEOREM RouterBillBounded == Spec => []BillBounded
<1>1. Init => BillBounded
    BY RouterGatesAssumption
    DEF Init, BillBounded, NoBill, Tokens, CallsAnswered
<1>2. ASSUME TypeOK, BillBounded, [Next]_vars
      PROVE  BillBounded'
    <2> DEFINE Ok(c) == Tokens(bill[c]) <= CallsAnswered[pc[c]] * MaxTokens
    <2>1. /\ MaxTokens \in Nat
          /\ bill \in [Callers -> Bill] /\ pc \in [Callers -> Inside \cup {"idle", "check"}]
          /\ \A c \in Callers : Ok(c)
        BY <1>2, RouterGatesAssumption DEF TypeOK, BillBounded
    <2>2. ASSUME UNCHANGED <<pc, bill>>
          PROVE  BillBounded'
        BY <2>1, <2>2 DEF BillBounded
    <2>3. ASSUME NEW c \in Callers,
                 pc' = [pc EXCEPT ![c] = pc'[c]],
                 \A d \in Callers \ {c} : bill'[d] = bill[d],
                 Ok(c)'
          PROVE  BillBounded'
        <3>1. \A d \in Callers \ {c} : pc'[d] = pc[d]
            BY <2>1, <2>3
        <3>2. QED  BY <2>1, <2>3, <3>1 DEF BillBounded
    <2>4. ASSUME NEW c \in Callers, Return(c)
          PROVE  BillBounded'
        <3>1. bill'[c] = NoBill /\ pc'[c] = "idle"
            BY <2>1, <2>4 DEF Return
        <3>2. Ok(c)'
            BY <2>1, <3>1 DEF Tokens, NoBill, CallsAnswered
        <3>3. QED  BY <2>1, <2>3, <2>4, <3>2 DEF Return
    <2>5. ASSUME NEW c \in Callers, NEW from, NEW to \in Inside,
                 pc[c] = from, Answered(c, to),
                 <<from, to>> \in {<<"sentiment", "factors">>,
                                  <<"factors", "disambiguate">>,
                                  <<"disambiguate", "reset">>}
          PROVE  BillBounded'
        <3>1. /\ Tokens(bill'[c]) <= Tokens(bill[c]) + MaxTokens
              /\ bill' \in [Callers -> Bill]
              /\ \A d \in Callers \ {c} : bill'[d] = bill[d]
              /\ pc' = [pc EXCEPT ![c] = to]
            BY <1>2, <2>5, AnsweredBill
        <3>2. /\ CallsAnswered[from] \in Nat
              /\ CallsAnswered[to] = CallsAnswered[from] + 1
            BY <2>5 DEF CallsAnswered
        <3>3. (CallsAnswered[from] + 1) * MaxTokens
                = CallsAnswered[from] * MaxTokens + MaxTokens
            BY <2>1, <3>2
        <3>4. Tokens(bill[c]) \in Nat /\ Tokens(bill'[c]) \in Nat
            BY <2>1, <3>1 DEF Tokens, Bill
        <3>5. CallsAnswered[from] * MaxTokens \in Nat
            BY <2>1, <3>2
        <3>6. pc'[c] = to
            BY <2>1, <3>1
        <3>7. Ok(c)'
            BY <2>1, <2>5, <3>1, <3>2, <3>3, <3>4, <3>5, <3>6
        <3>8. QED  BY <2>1, <2>3, <3>1, <3>6, <3>7
    <2>6. ASSUME NEW c \in Callers, UNCHANGED bill, NEW from, NEW to,
                 pc[c] = from, pc' = [pc EXCEPT ![c] = to],
                 <<from, to>> \in {<<"idle", "check">>, <<"check", "sentiment">>,
                                  <<"disambiguate", "reset">>, <<"reset", "record">>}
          PROVE  BillBounded'
        <3>1. /\ CallsAnswered[from] \in Nat /\ CallsAnswered[to] \in Nat
              /\ CallsAnswered[from] <= CallsAnswered[to]
            BY <2>6 DEF CallsAnswered
        <3>2. CallsAnswered[from] * MaxTokens <= CallsAnswered[to] * MaxTokens
            BY <2>1, <3>1
        <3>3. pc'[c] = to
            BY <2>1, <2>6
        <3>4. Tokens(bill[c]) \in Nat /\ CallsAnswered[from] * MaxTokens \in Nat
              /\ CallsAnswered[to] * MaxTokens \in Nat
            BY <2>1, <3>1 DEF Tokens, Bill
        <3>5. Ok(c)'
            BY <2>1, <2>6, <3>2, <3>3, <3>4
        <3>6. QED  BY <2>1, <2>3, <2>6, <3>3, <3>5
    <2>7. ASSUME NEW c \in Callers, AttemptFails(c)
          PROVE  BillBounded'
        <3>1. bill'[c] = NoBill /\ pc'[c] = "check"
            BY <2>1, <2>7 DEF AttemptFails
        <3>2. Ok(c)'
            BY <2>1, <3>1 DEF Tokens, NoBill, CallsAnswered
        <3>3. QED  BY <2>1, <2>3, <2>7, <3>2 DEF AttemptFails
    <2>8. ASSUME NEW c \in Callers, StartEnrich(c) \/ Proceed(c)
          PROVE  BillBounded'
        <3>1. CASE StartEnrich(c)  BY <2>6, <3>1 DEF StartEnrich
        <3>2. CASE Admit(c)  BY <2>6, <3>2 DEF Admit, Looking
        <3>3. CASE Skip(c)  BY <2>2, <3>3 DEF Skip
        <3>4. CASE GiveUp(c)  BY <2>4, <3>4 DEF GiveUp
        <3>5. CASE ClassifySentiment(c)
            BY <2>5, <3>5 DEF ClassifySentiment, Inside
        <3>6. CASE TagFactors(c)
            BY <2>5, <3>6 DEF TagFactors, Inside
        <3>7. CASE DisambiguateEntity(c)
            <4>1. CASE Answered(c, "reset")
                BY <2>5, <3>7, <4>1 DEF DisambiguateEntity, Inside
            <4>2. CASE ~Answered(c, "reset")
                BY <2>6, <3>7, <4>2 DEF DisambiguateEntity
            <4>3. QED  BY <4>1, <4>2
        <3>8. CASE AttemptFails(c)  BY <2>7, <3>8
        <3>9. CASE FatalError(c)  BY <2>4, <3>9 DEF FatalError
        <3>10. CASE ResetFailure(c)  BY <2>6, <3>10 DEF ResetFailure
        <3>11. CASE RecordUsage(c)  BY <2>4, <3>11 DEF RecordUsage
        <3>12. QED
            BY <2>8, <3>1, <3>2, <3>3, <3>4, <3>5, <3>6, <3>7, <3>8, <3>9, <3>10, <3>11
            DEF Proceed
    <2>9. CASE Tick
        BY <2>2, <2>9 DEF Tick, callerVars
    <2>10. CASE UNCHANGED vars
        BY <2>2, <2>10 DEF vars
    <2>11. QED  BY <1>2, <2>8, <2>9, <2>10 DEF Next
<1>3. QED  BY <1>1, <1>2, RouterTypeOK, PTL DEF Spec

-----------------------------------------------------------------------------
(* Every step of the router, as the budgets see it, is one of three.       *)

OthersStay(c) ==
    \A d \in Callers \ {c} : pc'[d] = pc[d] /\ chain'[d] = chain[d] /\ pos'[d] = pos[d]

\* Nobody enters or leaves a provider and nothing is charged.
Quiet ==
    /\ usage' = usage
    /\ \A c \in Callers :
        /\ pc'[c] \in Inside <=> pc[c] \in Inside
        /\ pc[c] \in Inside => chain'[c] = chain[c] /\ pos'[c] = pos[c]

\* A caller enters the provider it is looking at.
Entry(c) ==
    /\ OthersStay(c)
    /\ pc[c] \notin Inside /\ pc'[c] \in Inside
    /\ chain'[c] = chain[c] /\ pos'[c] = pos[c]
    /\ Key(c) \in Providers
    /\ WithinBudgets(Key(c))
    /\ usage' = usage

\* A caller leaves its provider, which is charged something or nothing.
Exit(c) ==
    /\ OthersStay(c)
    /\ pc[c] \in Inside /\ pc'[c] \notin Inside
    /\ Key(c) \in Providers
    /\ \E new \in Usage :
        /\ usage' = [usage EXCEPT ![Key(c)] = new]
        /\ \E t \in 0..MaxTokenCharge : Tokens(new) = Tokens(usage[Key(c)]) + t
        /\ \E k \in 0..MaxCostCharge : new.cost = usage[Key(c)].cost + k

\* The cost of a bill is at most the highest price times its tokens.
LEMMA CostOfBill ==
    ASSUME NEW p \in Providers, NEW b \in Bill, Tokens(b) <= MaxTokenCharge
    PROVE  EstimateCost(p, b) \in 0..MaxCostCharge
<1>1. /\ PriceIn[p] \in Nat /\ PriceOut[p] \in Nat /\ MaxPrice \in Nat
      /\ PriceIn[p] <= MaxPrice /\ PriceOut[p] <= MaxPrice
      /\ b.input \in Nat /\ b.output \in Nat
    BY RouterAssumption, RouterGatesAssumption DEF Bill
<1>2. /\ PriceIn[p] * b.input \in Nat /\ PriceIn[p] * b.input <= MaxPrice * b.input
      /\ PriceOut[p] * b.output \in Nat /\ PriceOut[p] * b.output <= MaxPrice * b.output
    BY <1>1, PriceMonotone
<1>3. MaxPrice * b.input + MaxPrice * b.output = MaxPrice * Tokens(b)
    BY <1>1 DEF Tokens
<1>4. Tokens(b) \in Nat /\ MaxTokenCharge \in Nat
    BY <1>1, RouterGatesAssumption DEF Tokens, MaxTokenCharge
<1>5. MaxPrice * Tokens(b) <= MaxPrice * MaxTokenCharge
    BY <1>1, <1>4
<1>6. /\ MaxPrice * b.input \in Nat /\ MaxPrice * b.output \in Nat
      /\ MaxPrice * Tokens(b) \in Nat /\ MaxPrice * MaxTokenCharge \in Nat
    BY <1>1, <1>4
<1>7. QED  BY <1>2, <1>3, <1>5, <1>6 DEF EstimateCost, MaxCostCharge

\* Every step is quiet, the entry of one caller or the exit of one caller.
LEMMA StepShape ==
    ASSUME TypeOK, BillBounded, [Next]_vars
    PROVE  Quiet \/ \E c \in Callers : Entry(c) \/ Exit(c)
<1>1. /\ usage \in [Providers -> Usage]
      /\ pc \in [Callers -> Inside \cup {"idle", "check"}]
      /\ chain \in [Callers -> Seq(Providers)] /\ pos \in [Callers -> Nat \ {0}]
      /\ bill \in [Callers -> Bill]
      /\ MaxTokenCharge \in Nat /\ MaxCostCharge \in Nat
      /\ MaxTokens \in Nat
    BY RouterGatesAssumption DEF TypeOK, MaxTokenCharge, MaxCostCharge
<1>2. ASSUME NEW c \in Callers, pc[c] \in Inside
      PROVE  Key(c) \in Providers
    BY <1>2, KeyType DEF TypeOK
<1>3. ASSUME NEW c \in Callers, pc[c] \in Inside, usage' = usage,
             OthersStay(c), pc'[c] \notin Inside
      PROVE  Exit(c)
    <2>1. Key(c) \in Providers /\ usage[Key(c)] \in Usage
        BY <1>1, <1>2, <1>3
    <2>2. usage' = [usage EXCEPT ![Key(c)] = usage[Key(c)]]
        BY <1>1, <1>3, <2>1
    <2>3. Tokens(usage[Key(c)]) \in Nat /\ usage[Key(c)].cost \in Nat
        BY <2>1 DEF Tokens, Usage
    <2>4. /\ \E t \in 0..MaxTokenCharge : Tokens(usage[Key(c)]) = Tokens(usage[Key(c)]) + t
          /\ \E k \in 0..MaxCostCharge : usage[Key(c)].cost = usage[Key(c)].cost + k
        <3>1. 0 \in 0..MaxTokenCharge /\ 0 \in 0..MaxCostCharge
            BY <1>1
        <3>2. QED  BY <2>3, <3>1
    <2>5. QED  BY <1>3, <2>1, <2>2, <2>4 DEF Exit
<1>4. ASSUME NEW c \in Callers, pc[c] \in Inside, NEW stage \in Inside,
             pc' = [pc EXCEPT ![c] = stage], UNCHANGED <<usage, chain, pos>>
      PROVE  Quiet
    BY <1>1, <1>4 DEF Quiet
<1>5. ASSUME NEW c \in Callers, pc[c] \notin Inside, Return(c), usage' = usage
      PROVE  Quiet
    BY <1>1, <1>5 DEF Return, Quiet, Inside
<1>6. ASSUME NEW c \in Callers, Return(c)
      PROVE  OthersStay(c) /\ pc'[c] \notin Inside
    BY <1>1, <1>6 DEF Return, OthersStay, Inside
<1>7. CASE Tick
    BY <1>7 DEF Tick, routerVars, callerVars, Quiet
<1>8. CASE UNCHANGED vars
    BY <1>8 DEF vars, Quiet
<1>9. ASSUME NEW c \in Callers, StartEnrich(c) \/ Proceed(c)
      PROVE  Quiet \/ Entry(c) \/ Exit(c)
    <2> USE DEF routerVars
    <2>1. CASE StartEnrich(c)
        BY <1>1, <2>1 DEF StartEnrich, Quiet, Inside
    <2>2. CASE Admit(c)
        <3>1. Key(c) \in Providers /\ WithinBudgets(Key(c))
            BY <2>2, KeyType DEF Admit, Looking, Allowed
        <3>2. QED
            BY <1>1, <2>2, <3>1 DEF Admit, Looking, Entry, OthersStay, Inside
    <2>3. CASE Skip(c)
        BY <1>1, <2>3 DEF Skip, Looking, Quiet, Inside
    <2>4. CASE GiveUp(c)
        BY <1>1, <1>5, <2>4 DEF GiveUp, Inside
    <2>5. CASE ClassifySentiment(c)
        BY <1>4, <2>5 DEF ClassifySentiment, Answered, Inside
    <2>6. CASE TagFactors(c)
        BY <1>4, <2>6 DEF TagFactors, Answered, Inside
    <2>7. CASE DisambiguateEntity(c)
        <3>1. pc[c] \in Inside /\ "reset" \in Inside
              /\ pc' = [pc EXCEPT ![c] = "reset"] /\ UNCHANGED <<usage, chain, pos>>
            BY <2>7 DEF DisambiguateEntity, Answered, Inside
        <3>2. QED  BY <1>4, <3>1
    <2>8. CASE AttemptFails(c)
        <3>1. /\ pc[c] \in Inside /\ pc'[c] = "check" /\ usage' = usage
              /\ OthersStay(c)
            BY <1>1, <2>8 DEF AttemptFails, Inside, OthersStay
        <3>2. QED  BY <1>3, <3>1 DEF Inside
    <2>9. CASE FatalError(c)
        BY <1>3, <1>6, <2>9 DEF FatalError, Inside
    <2>10. CASE ResetFailure(c)
        BY <1>4, <2>10 DEF ResetFailure, Inside
    <2>11. CASE RecordUsage(c)
        <3> DEFINE p == Key(c)
                   new == [input |-> usage[p].input + bill[c].input,
                           output |-> usage[p].output + bill[c].output,
                           cost |-> usage[p].cost + EstimateCost(p, bill[c])]
        <3>1. pc[c] = "record" /\ pc[c] \in Inside /\ p \in Providers
            BY <1>2, <2>11 DEF RecordUsage, Inside
        <3>2. usage' = [usage EXCEPT ![p] = new]
            BY <2>11 DEF RecordUsage
        <3>3. usage[p] \in Usage /\ bill[c] \in Bill
            BY <1>1, <3>1
        <3>4. Tokens(bill[c]) \in Nat /\ Tokens(bill[c]) <= MaxTokenCharge
            BY <1>1, <3>1, <3>3
            DEF BillBounded, CallsAnswered, MaxTokenCharge, Tokens, Bill
        <3>5. EstimateCost(p, bill[c]) \in 0..MaxCostCharge
            BY <3>1, <3>3, <3>4, CostOfBill
        <3>6. new \in Usage
            BY <1>1, <3>3, <3>5 DEF Usage, Bill
        <3>7. Tokens(bill[c]) \in 0..MaxTokenCharge
              /\ Tokens(new) = Tokens(usage[p]) + Tokens(bill[c])
            BY <1>1, <3>3, <3>4 DEF Tokens, Usage, Bill
        <3>8. new.cost = usage[p].cost + EstimateCost(p, bill[c])
            OBVIOUS
        <3>9. OthersStay(c) /\ pc'[c] \notin Inside
            BY <1>6, <2>11 DEF RecordUsage
        <3> HIDE DEF new
        <3>10. QED  BY <3>1, <3>2, <3>5, <3>6, <3>7, <3>8, <3>9 DEF Exit
    <2>12. QED
        BY <1>9, <2>1, <2>2, <2>3, <2>4, <2>5, <2>6, <2>7, <2>8, <2>9, <2>10, <2>11
        DEF Proceed
<1>10. QED  BY <1>7, <1>8, <1>9 DEF Next

\* The three shapes of a step, as seen from one provider.
LEMMA QuietAtProvider ==
    ASSUME Quiet, NEW p \in Providers
    PROVE  AtProvider(p)' = AtProvider(p)
BY DEF Quiet, AtProvider, Key

\* An entry brings one caller to one provider.
LEMMA EntryAtProvider ==
    ASSUME NEW c \in Callers, Entry(c), NEW p \in Providers
    PROVE  /\ c \notin AtProvider(p)
           /\ AtProvider(p)' = IF p = Key(c) THEN AtProvider(p) \cup {c} ELSE AtProvider(p)
<1>1. Key(c)' = Key(c) /\ \A d \in Callers \ {c} : Key(d)' = Key(d) /\ pc'[d] = pc[d]
    BY DEF Entry, OthersStay, Key
<1>2. QED  BY <1>1 DEF Entry, AtProvider

\* An exit takes one caller from one provider.
LEMMA ExitAtProvider ==
    ASSUME NEW c \in Callers, Exit(c), NEW p \in Providers
    PROVE  /\ c \in AtProvider(p) <=> p = Key(c)
           /\ AtProvider(p)' = IF p = Key(c) THEN AtProvider(p) \ {c} ELSE AtProvider(p)
<1>1. \A d \in Callers \ {c} : Key(d)' = Key(d) /\ pc'[d] = pc[d]
    BY DEF Exit, OthersStay, Key
<1>2. QED  BY <1>1 DEF Exit, AtProvider

\* What an exit charges the provider it leaves, and that it charges no other.
LEMMA ExitCharges ==
    ASSUME TypeOK, NEW c \in Callers, Exit(c), NEW p \in Providers
    PROVE  /\ p # Key(c) => usage'[p] = usage[p]
           /\ p = Key(c) =>
                /\ \E t \in 0..MaxTokenCharge : ProviderTokens'[p] = ProviderTokens[p] + t
                /\ \E k \in 0..MaxCostCharge : ProviderCost'[p] = ProviderCost[p] + k
<1>1. PICK new \in Usage :
        /\ usage' = [usage EXCEPT ![Key(c)] = new]
        /\ \E t \in 0..MaxTokenCharge : Tokens(new) = Tokens(usage[Key(c)]) + t
        /\ \E k \in 0..MaxCostCharge : new.cost = usage[Key(c)].cost + k
    BY DEF Exit
<1>2. usage \in [Providers -> Usage]
    BY DEF TypeOK
<1>3. CASE p = Key(c)
    <2>1. usage'[p] = new
        BY <1>1, <1>2, <1>3
    <2>2. /\ ProviderTokens'[p] = Tokens(new) /\ ProviderTokens[p] = Tokens(usage[p])
          /\ ProviderCost'[p] = new.cost /\ ProviderCost[p] = usage[p].cost
        BY <2>1 DEF ProviderTokens, ProviderCost, Tokens
    <2>3. QED  BY <1>1, <1>3, <2>2
<1>4. CASE p # Key(c)
    BY <1>1, <1>2, <1>4
<1>5. QED  BY <1>3, <1>4

-----------------------------------------------------------------------------
(* A provider's own budget.                                                *)

\* The inductive form of ProviderOvershootBounded: what is still to be charged
\* by the callers at a provider counts as if it had been.
ProviderCommitment ==
    PerProviderTokenBudget > 0 =>
        \A p \in Providers :
            ProviderTokens[p] + MaxTokenCharge * Cardinality(AtProvider(p))
                < PerProviderTokenBudget + MaxTokenCharge * Cardinality(Callers)

\* The bounds of the gates are natural numbers.
LEMMA GateConstants ==
    /\ MaxTokenCharge \in Nat /\ MaxCostCharge \in Nat
    /\ PerProviderTokenBudget \in Nat /\ IsFiniteSet(Callers)
    /\ Cardinality(Callers) \in Nat
    /\ PerProviderTokenBudget + MaxTokenCharge * Cardinality(Callers) \in Nat
<1>1. /\ MaxTokenCharge \in Nat /\ MaxCostCharge \in Nat
      /\ PerProviderTokenBudget \in Nat /\ Cardinality(Callers) \in Nat
      /\ IsFiniteSet(Callers)
    BY RouterAssumption, RouterGatesAssumption, FS_CardinalityType
    DEF MaxTokenCharge, MaxCostCharge
<1>2. MaxTokenCharge * Cardinality(Callers) \in Nat
    BY <1>1
<1>3. QED  BY <1>1, <1>2

\* The tokens of a provider are a natural number.
LEMMA ProviderTokensType ==
    ASSUME TypeOK, NEW p \in Providers
    PROVE  ProviderTokens[p] \in Nat /\ ProviderTokens[p] = Tokens(usage[p])
BY DEF TypeOK, ProviderTokens, Tokens, Usage

\* The callers at a provider are finitely many.
LEMMA AtProviderFinite ==
    ASSUME NEW p
    PROVE  AtProvider(p) \in SUBSET Callers /\ IsFiniteSet(AtProvider(p))
BY RouterAssumption, FS_Subset DEF AtProvider

\* However many callers race through the unlocked window between allowed() and
\* recordUsage(), a provider's tokens stay below its budget plus one attempt
\* per caller.
THEOREM RouterProviderOvershoot == Spec => []ProviderOvershootBounded
<1>1. Init => ProviderCommitment
    <2> SUFFICES ASSUME Init, PerProviderTokenBudget > 0, NEW p \in Providers
                 PROVE  ProviderTokens[p] + MaxTokenCharge * Cardinality(AtProvider(p))
                    < PerProviderTokenBudget + MaxTokenCharge * Cardinality(Callers)
        BY DEF ProviderCommitment
    <2>1. ProviderTokens[p] = 0
        BY DEF Init, ProviderTokens, Tokens
    <2>2. AtProvider(p) \in SUBSET Callers
        BY AtProviderFinite
    <2>3. ProviderTokens[p] \in Nat /\ ProviderTokens[p] < PerProviderTokenBudget
        BY <2>1, GateConstants
    <2>4. QED  BY <2>2, <2>3, GateConstants, EntryKeepsBound
<1>2. ASSUME TypeOK, TypeOK', BillBounded, ProviderCommitment, [Next]_vars
      PROVE  ProviderCommitment'
    <2> SUFFICES ASSUME PerProviderTokenBudget > 0, NEW p \in Providers
                 PROVE  ProviderTokens'[p] + MaxTokenCharge * Cardinality(AtProvider(p)')
                    < PerProviderTokenBudget + MaxTokenCharge * Cardinality(Callers)
        BY DEF ProviderCommitment
    <2>1. /\ ProviderTokens[p] \in Nat /\ ProviderTokens[p] = Tokens(usage[p])
          /\ ProviderTokens[p] + MaxTokenCharge * Cardinality(AtProvider(p))
                < PerProviderTokenBudget + MaxTokenCharge * Cardinality(Callers)
        BY <1>2, ProviderTokensType DEF ProviderCommitment
    <2>2. usage'[p] = usage[p] => ProviderTokens'[p] = ProviderTokens[p]
        BY DEF ProviderTokens, Tokens
    <2>3. AtProvider(p)' \in SUBSET Callers
        BY DEF AtProvider
    <2>4. CASE Quiet
        BY <2>1, <2>2, <2>4, QuietAtProvider DEF Quiet
    <2>5. ASSUME NEW c \in Callers, Entry(c), p = Key(c)
          PROVE  ProviderTokens'[p] + MaxTokenCharge * Cardinality(AtProvider(p)')
                    < PerProviderTokenBudget + MaxTokenCharge * Cardinality(Callers)
        <3>1. ProviderTokens'[p] = ProviderTokens[p]
            BY <2>2, <2>5 DEF Entry
        <3>2. ProviderTokens[p] < PerProviderTokenBudget
            BY <2>1, <2>5 DEF Entry, WithinBudgets
        <3>3. QED  BY <2>1, <2>3, <3>1, <3>2, GateConstants, EntryKeepsBound
    <2>6. ASSUME NEW c \in Callers, Exit(c), p = Key(c)
          PROVE  ProviderTokens'[p] + MaxTokenCharge * Cardinality(AtProvider(p)')
                    < PerProviderTokenBudget + MaxTokenCharge * Cardinality(Callers)
        <3>1. c \in AtProvider(p) /\ AtProvider(p)' = AtProvider(p) \ {c}
            BY <2>6, ExitAtProvider
        <3>2. PICK t \in 0..MaxTokenCharge : ProviderTokens'[p] = ProviderTokens[p] + t
            BY <1>2, <2>6, ExitCharges
        <3>3. IsFiniteSet(AtProvider(p))
            BY AtProviderFinite
        <3>4. QED  BY <2>1, <3>1, <3>2, <3>3, GateConstants, ExitKeepsBound
    <2>7. ASSUME NEW c \in Callers, Entry(c) \/ Exit(c), p # Key(c)
          PROVE  ProviderTokens'[p] + MaxTokenCharge * Cardinality(AtProvider(p)')
                    < PerProviderTokenBudget + MaxTokenCharge * Cardinality(Callers)
        <3>1. AtProvider(p)' = AtProvider(p)
            BY <2>7, EntryAtProvider, ExitAtProvider
        <3>2. usage'[p] = usage[p]
            BY <1>2, <2>7, ExitCharges DEF Entry
        <3>3. QED  BY <2>1, <2>2, <3>1, <3>2
    <2>8. QED  BY <1>2, <2>4, <2>5, <2>6, <2>7, StepShape
<1>3. TypeOK /\ ProviderCommitment => ProviderOvershootBounded
    <2> SUFFICES ASSUME TypeOK, ProviderCommitment, PerProviderTokenBudget > 0,
                        NEW p \in Providers
                 PROVE  ProviderTokens[p]
                    < PerProviderTokenBudget + MaxTokenCharge * Cardinality(Callers)
        BY DEF ProviderOvershootBounded
    <2>1. ProviderTokens[p] + MaxTokenCharge * Cardinality(AtProvider(p))
                < PerProviderTokenBudget + MaxTokenCharge * Cardinality(Callers)
        BY DEF ProviderCommitment
    <2>2. QED
        BY <2>1, ProviderTokensType, AtProviderFinite, GateConstants, BoundCoversSpent
<1>4. QED  BY <1>1, <1>2, <1>3, RouterTypeOK, RouterBillBounded, PTL DEF Spec

\* A provider's own budgets, in tokens and in cost, are spend gates: what the
\* abstract gate forbids, the router does not do at any provider.
THEOREM RouterProviderGates == Spec => ImplementsProviderGates
<1> USE DEF ProviderTokenGate!gateVars, ProviderCostGate!gateVars
<1>1. Watched \in Providers
    BY RouterGatesAssumption
<1>2. Init => ProviderTokenGate!Init /\ ProviderCostGate!Init
    BY <1>1 DEF Init, ProviderTokenGate!Init, ProviderCostGate!Init,
                ProviderTokens, ProviderCost, Tokens, AtProvider, Inside
<1>3. ASSUME TypeOK, BillBounded, [Next]_vars
      PROVE  /\ [ProviderTokenGate!Next]_(ProviderTokenGate!gateVars)
             /\ [ProviderCostGate!Next]_(ProviderCostGate!gateVars)
    <2>1. usage'[Watched] = usage[Watched] =>
            /\ ProviderTokens'[Watched] = ProviderTokens[Watched]
            /\ ProviderCost'[Watched] = ProviderCost[Watched]
        BY <1>1 DEF ProviderTokens, ProviderCost, Tokens
    <2>2. CASE Quiet
        BY <1>1, <2>1, <2>2, QuietAtProvider DEF Quiet
    <2>3. ASSUME NEW c \in Callers, Entry(c) \/ Exit(c), Watched # Key(c)
          PROVE  /\ UNCHANGED ProviderTokenGate!gateVars
                 /\ UNCHANGED ProviderCostGate!gateVars
        <3>1. AtProvider(Watched)' = AtProvider(Watched)
            BY <1>1, <2>3, EntryAtProvider, ExitAtProvider
        <3>2. usage'[Watched] = usage[Watched]
            BY <1>1, <1>3, <2>3, ExitCharges DEF Entry
        <3>3. QED  BY <2>1, <3>1, <3>2
    <2>4. ASSUME NEW c \in Callers, Entry(c), Watched = Key(c)
          PROVE  ProviderTokenGate!Admit(c) /\ ProviderCostGate!Admit(c)
        <3>1. /\ c \notin AtProvider(Watched)
              /\ AtProvider(Watched)' = AtProvider(Watched) \cup {c}
            BY <1>1, <2>4, EntryAtProvider
        <3>2. /\ ProviderTokens'[Watched] = ProviderTokens[Watched]
              /\ ProviderCost'[Watched] = ProviderCost[Watched]
            BY <2>1, <2>4 DEF Entry
        <3>3. /\ ProviderTokens[Watched] = Tokens(usage[Watched])
              /\ ProviderCost[Watched] = usage[Watched].cost
            BY <1>1 DEF ProviderTokens, ProviderCost
        <3>4. QED
            BY <2>4, <3>1, <3>2, <3>3
            DEF Entry, WithinBudgets, ProviderTokenGate!Admit, ProviderCostGate!Admit
    <2>5. ASSUME NEW c \in Callers, Exit(c), Watched = Key(c)
          PROVE  ProviderTokenGate!Charge(c) /\ ProviderCostGate!Charge(c)
        BY <1>1, <1>3, <2>5, ExitAtProvider, ExitCharges
        DEF ProviderTokenGate!Charge, ProviderCostGate!Charge
    <2>6. QED
        BY <1>3, <2>2, <2>3, <2>4, <2>5, StepShape
        DEF ProviderTokenGate!Next, ProviderCostGate!Next
<1>4. QED
    BY <1>2, <1>3, RouterTypeOK, RouterBillBounded, PTL
    DEF Spec, ImplementsProviderGates, ProviderTokenGate!Spec, ProviderCostGate!Spec

-----------------------------------------------------------------------------
(* The run's budgets, over all providers.                                  *)

\* What the router has recorded in all: natural numbers, and no more or less
\* than the providers' own counts.
LEMMA TotalsType ==
    ASSUME TypeOK
    PROVE  /\ ProviderTokens \in [Providers -> Nat] /\ TotalTokens \in Nat
           /\ ProviderCost \in [Providers -> Nat] /\ TotalCost \in Nat
<1>1. ProviderTokens \in [Providers -> Nat] /\ ProviderCost \in [Providers -> Nat]
    BY DEF TypeOK, ProviderTokens, ProviderCost, Tokens, Usage
<1>2. QED  BY <1>1, RouterAssumption, SumFunctionType DEF TotalTokens, TotalCost

\* An exit raises the totals by what it charges its provider.
LEMMA ExitRaisesTotals ==
    ASSUME TypeOK, TypeOK', NEW c \in Callers, Exit(c)
    PROVE  /\ \E t \in 0..MaxTokenCharge : TotalTokens' = TotalTokens + t
           /\ \E k \in 0..MaxCostCharge : TotalCost' = TotalCost + k
<1>1. PICK p \in Providers : p = Key(c)
    BY DEF Exit
<1>2. PICK t \in 0..MaxTokenCharge : ProviderTokens'[p] = ProviderTokens[p] + t
    BY <1>1, ExitCharges
<1>3. PICK k \in 0..MaxCostCharge : ProviderCost'[p] = ProviderCost[p] + k
    BY <1>1, ExitCharges
<1>4. \A q \in Providers \ {p} :
        ProviderTokens'[q] = ProviderTokens[q] /\ ProviderCost'[q] = ProviderCost[q]
    BY <1>1, ExitCharges DEF ProviderTokens, ProviderCost, Tokens
<1>5. usage \in [Providers -> Usage] /\ usage' \in [Providers -> Usage]
    BY DEF TypeOK
<1>6. /\ ProviderTokens \in [Providers -> Nat] /\ ProviderCost \in [Providers -> Nat]
      /\ ProviderTokens' \in [Providers -> Nat] /\ ProviderCost' \in [Providers -> Nat]
    BY <1>5 DEF ProviderTokens, ProviderCost, Tokens, Usage
<1>7. t \in Nat /\ k \in Nat /\ IsFiniteSet(Providers)
    BY GateConstants, RouterAssumption
<1>8. TotalTokens' = TotalTokens + t
    <2>1. PICK f, g : f = ProviderTokens /\ g = ProviderTokens'
        OBVIOUS
    <2>2. /\ f \in [Providers -> Nat] /\ g \in [Providers -> Nat]
          /\ g[p] = f[p] + t /\ \A q \in Providers \ {p} : g[q] = f[q]
        BY <1>2, <1>4, <1>6, <2>1
    <2>3. SumFunction(g) = SumFunction(f) + t
        BY <1>1, <1>7, <2>2, SumRaised
    <2>4. QED  BY <2>1, <2>3 DEF TotalTokens
<1>9. TotalCost' = TotalCost + k
    <2>1. PICK f, g : f = ProviderCost /\ g = ProviderCost'
        OBVIOUS
    <2>2. /\ f \in [Providers -> Nat] /\ g \in [Providers -> Nat]
          /\ g[p] = f[p] + k /\ \A q \in Providers \ {p} : g[q] = f[q]
        BY <1>3, <1>4, <1>6, <2>1
    <2>3. SumFunction(g) = SumFunction(f) + k
        BY <1>1, <1>7, <2>2, SumRaised
    <2>4. QED  BY <2>1, <2>3 DEF TotalCost
<1>10. QED  BY <1>8, <1>9

\* The three shapes of a step, as seen from the run.
LEMMA AtAnyProviderMoves ==
    ASSUME TypeOK, TypeOK'
    PROVE  /\ Quiet => UNCHANGED <<AtAnyProvider, TotalTokens, TotalCost>>
           /\ \A c \in Callers : Entry(c) =>
                /\ c \notin AtAnyProvider /\ AtAnyProvider' = AtAnyProvider \cup {c}
                /\ UNCHANGED <<TotalTokens, TotalCost>>
           /\ \A c \in Callers : Exit(c) =>
                c \in AtAnyProvider /\ AtAnyProvider' = AtAnyProvider \ {c}
<1>1. usage' = usage => UNCHANGED <<TotalTokens, TotalCost>>
    <2> SUFFICES ASSUME usage' = usage  PROVE UNCHANGED <<TotalTokens, TotalCost>>
        OBVIOUS
    <2>1. ProviderTokens' = ProviderTokens /\ ProviderCost' = ProviderCost
        BY DEF ProviderTokens, ProviderCost, Tokens
    <2>2. QED  BY <2>1 DEF TotalTokens, TotalCost
<1>2. Quiet => AtAnyProvider' = AtAnyProvider
    BY DEF Quiet, AtAnyProvider
<1>3. ASSUME NEW c \in Callers, Entry(c)
      PROVE  c \notin AtAnyProvider /\ AtAnyProvider' = AtAnyProvider \cup {c}
    BY <1>3 DEF Entry, OthersStay, AtAnyProvider
<1>4. ASSUME NEW c \in Callers, Exit(c)
      PROVE  c \in AtAnyProvider /\ AtAnyProvider' = AtAnyProvider \ {c}
    BY <1>4 DEF Exit, OthersStay, AtAnyProvider
<1>5. QED  BY <1>1, <1>2, <1>3, <1>4 DEF Quiet, Entry

\* Once the run budget is used up and nobody is inside any more, nobody enters
\* and nothing is charged: Enrich of every caller, allowed() and recordUsage().
THEOREM RouterExhaustionIsFinal == Spec => ExhaustionIsFinal
<1> DEFINE Exhausted == /\ PerRunTokenBudget > 0
                        /\ TotalTokens >= PerRunTokenBudget
                        /\ AtAnyProvider = {}
<1>1. ASSUME TypeOK, TypeOK', BillBounded, [Next]_vars, Exhausted
      PROVE  AtAnyProvider' = {} /\ usage' = usage
    <2>1. CASE Quiet
        BY <1>1, <2>1, AtAnyProviderMoves DEF Quiet
    <2>2. ASSUME NEW c \in Callers, Entry(c)
          PROVE  FALSE
        <3>1. TotalTokens < PerRunTokenBudget
            BY <1>1, <2>2 DEF Entry, WithinBudgets
        <3>2. TotalTokens \in Nat /\ PerRunTokenBudget \in Nat
            BY <1>1, TotalsType, RouterAssumption
        <3>3. QED  BY <1>1, <3>1, <3>2
    <2>3. ASSUME NEW c \in Callers, Exit(c)
          PROVE  FALSE
        BY <1>1, <2>3, AtAnyProviderMoves
    <2>4. QED  BY <1>1, <2>1, <2>2, <2>3, StepShape
<1>2. TypeOK /\ TypeOK' /\ BillBounded /\ [Next]_vars =>
        [Exhausted => AtAnyProvider' = {} /\ usage' = usage]_vars
    BY <1>1
<1>3. QED
    BY <1>2, RouterTypeOK, RouterBillBounded, PTL DEF Spec, ExhaustionIsFinal

\* The run's budgets, in tokens and in cost, are spend gates over the sum of
\* what every provider was charged.
THEOREM RouterRunGates == Spec => ImplementsRunGates
<1> USE DEF RunTokenGate!gateVars, RunCostGate!gateVars
<1>1. Init => RunTokenGate!Init /\ RunCostGate!Init
    <2> SUFFICES ASSUME Init  PROVE RunTokenGate!Init /\ RunCostGate!Init
        OBVIOUS
    <2>1. /\ ProviderTokens \in [Providers -> Nat] /\ ProviderCost \in [Providers -> Nat]
          /\ \A p \in Providers : ProviderTokens[p] = 0 /\ ProviderCost[p] = 0
        BY DEF Init, ProviderTokens, ProviderCost, Tokens
    <2>2. TotalTokens = 0 /\ TotalCost = 0
        BY <2>1, RouterAssumption, SumOfNothing DEF TotalTokens, TotalCost
    <2>3. AtAnyProvider = {}
        BY DEF Init, AtAnyProvider, Inside
    <2>4. QED  BY <2>2, <2>3 DEF RunTokenGate!Init, RunCostGate!Init
<1>2. ASSUME TypeOK, TypeOK', BillBounded, [Next]_vars
      PROVE  /\ [RunTokenGate!Next]_(RunTokenGate!gateVars)
             /\ [RunCostGate!Next]_(RunCostGate!gateVars)
    <2>1. CASE Quiet
        BY <1>2, <2>1, AtAnyProviderMoves
    <2>2. ASSUME NEW c \in Callers, Entry(c)
          PROVE  RunTokenGate!Admit(c) /\ RunCostGate!Admit(c)
        BY <1>2, <2>2, AtAnyProviderMoves
        DEF Entry, WithinBudgets, RunTokenGate!Admit, RunCostGate!Admit
    <2>3. ASSUME NEW c \in Callers, Exit(c)
          PROVE  RunTokenGate!Charge(c) /\ RunCostGate!Charge(c)
        BY <1>2, <2>3, AtAnyProviderMoves, ExitRaisesTotals
        DEF RunTokenGate!Charge, RunCostGate!Charge
    <2>4. QED
        BY <1>2, <2>1, <2>2, <2>3, StepShape DEF RunTokenGate!Next, RunCostGate!Next
<1>3. QED
    BY <1>1, <1>2, RouterTypeOK, RouterBillBounded, PTL
    DEF Spec, ImplementsRunGates, RunTokenGate!Spec, RunCostGate!Spec
=============================================================================
