------------------------------ MODULE DataLemmas ------------------------------
(* Facts about the data of the models, free of any specification: what an
   entry and an exit do to the "spent plus outstanding commitment" of a budget,
   smallest counterexamples, and sums over finite sets. *)
EXTENDS Integers, Functions, FiniteSetTheorems, TLAPS

\* An entry is let through below the budget; then even if everybody were inside
\* and charged in full, the bound would hold.
LEMMA EntryKeepsBound ==
    ASSUME NEW Everyone, IsFiniteSet(Everyone),
           NEW inside \in SUBSET Everyone,
           NEW budget \in Nat, NEW charge \in Nat, NEW spent \in Nat,
           spent < budget
    PROVE  spent + charge * Cardinality(inside) < budget + charge * Cardinality(Everyone)
<1>1. /\ Cardinality(inside) \in Nat /\ Cardinality(Everyone) \in Nat
      /\ Cardinality(inside) <= Cardinality(Everyone)
    BY FS_Subset, FS_CardinalityType
<1>2. charge * Cardinality(inside) <= charge * Cardinality(Everyone)
    BY <1>1
<1>3. charge * Cardinality(inside) \in Nat /\ charge * Cardinality(Everyone) \in Nat
    BY <1>1
<1>4. QED  BY <1>2, <1>3

\* An exit turns at most one charge of commitment into spending.
LEMMA ExitKeepsBound ==
    ASSUME NEW inside, IsFiniteSet(inside), NEW c \in inside,
           NEW limit \in Nat, NEW charge \in Nat, NEW spent \in Nat,
           NEW amount \in 0..charge,
           spent + charge * Cardinality(inside) < limit
    PROVE  spent + amount + charge * Cardinality(inside \ {c}) < limit
<1> DEFINE n == Cardinality(inside)
<1>1. n \in Nat /\ Cardinality(inside \ {c}) = n - 1
    BY FS_RemoveElement, FS_CardinalityType
<1>2. charge * (n - 1) = charge * n - charge
    BY <1>1
<1>3. charge * n \in Nat
    BY <1>1
<1>4. QED  BY <1>1, <1>2, <1>3

\* Nothing outstanding is the least that can be outstanding.
LEMMA BoundCoversSpent ==
    ASSUME NEW Everyone, IsFiniteSet(Everyone),
           NEW inside \in SUBSET Everyone,
           NEW budget \in Nat, NEW charge \in Nat, NEW spent \in Nat,
           spent + charge * Cardinality(inside) < budget + charge * Cardinality(Everyone)
    PROVE  spent < budget + charge * Cardinality(Everyone)
<1>1. Cardinality(inside) \in Nat /\ Cardinality(Everyone) \in Nat
    BY FS_Subset, FS_CardinalityType
<1>2. charge * Cardinality(inside) \in Nat /\ charge * Cardinality(Everyone) \in Nat
    BY <1>1
<1>3. QED  BY <1>2

\* A price that is no higher than another never makes the same amount dearer.
LEMMA PriceMonotone ==
    ASSUME NEW price \in Nat, NEW top \in Nat, price <= top, NEW amount \in Nat
    PROVE  price * amount \in Nat /\ price * amount <= top * amount
OBVIOUS

-----------------------------------------------------------------------------
(* Smallest counterexamples, and induction without an operator parameter. *)

\* Every nonempty set of natural numbers has a smallest element.
LEMMA Smallest ==
    ASSUME NEW T \in SUBSET Nat, T # {}
    PROVE  \E n \in T : \A k \in T : ~ (k < n)
<1>1. PICK R : R = {pair \in Nat \X Nat : pair[1] < pair[2]}
    OBVIOUS
<1>2. IsWellFoundedOn(R, Nat)
    BY <1>1, NatLessThanWellFounded DEF OpToRel
<1>3. PICK n \in T : \A k \in T : ~ (<<k, n>> \in R)
    BY <1>2, WFMin
<1>4. \A k \in T : k < n => <<k, n>> \in R
    BY <1>1
<1>5. QED  BY <1>3, <1>4

\* A set without one of its elements.
LEMMA OneLess ==
    ASSUME NEW U, IsFiniteSet(U), NEW x \in U
    PROVE  \E n \in Nat : n + 1 = Cardinality(U) /\ Cardinality(U \ {x}) = n
<1>1. PICK c \in Nat : c = Cardinality(U)
    BY FS_CardinalityType
<1>2. IsFiniteSet(U \ {x}) /\ Cardinality(U \ {x}) = c - 1
    BY <1>1, FS_RemoveElement
<1>3. Cardinality(U \ {x}) \in Nat
    BY <1>2, FS_CardinalityType
<1>4. QED  BY <1>1, <1>2, <1>3

\* Every nonempty collection of finite sets has a smallest member.
LEMMA SmallestSet ==
    ASSUME NEW S, IsFiniteSet(S), NEW T \in SUBSET SUBSET S, T # {}
    PROVE  \E U \in T : \A V \in T : ~ (Cardinality(V) < Cardinality(U))
<1> DEFINE Sizes == {n \in Nat : \E U \in T : Cardinality(U) = n}
<1>1. \A U \in T : Cardinality(U) \in Sizes
    <2> SUFFICES ASSUME NEW U \in T  PROVE Cardinality(U) \in Sizes
        OBVIOUS
    <2>1. IsFiniteSet(U)
        BY FS_Subset
    <2>2. QED  BY <2>1, FS_CardinalityType
<1>2. Sizes # {} /\ Sizes \in SUBSET Nat
    BY <1>1
<1>3. PICK n \in Sizes : \A k \in Sizes : ~ (k < n)
    BY <1>2, Smallest
<1>4. QED  BY <1>1, <1>3

\* Induction over the numbers up to n, and over the subsets of a finite set,
\* for a property that is given by the set of what has it.
LEMMA CountUp ==
    ASSUME NEW n \in Nat, NEW T, 0 \in T,
           \A i \in 0..n : i \in T /\ i < n => i + 1 \in T
    PROVE  \A i \in 0..n : i \in T
<1> DEFINE Bad == {i \in 0..n : i \notin T}
<1> SUFFICES ASSUME Bad # {}  PROVE FALSE
    OBVIOUS
<1>0. Bad \in SUBSET Nat
    OBVIOUS
<1>1. PICK i \in Bad : \A k \in Bad : ~ (k < i)
    BY <1>0, Smallest
<1>2. i # 0 /\ i - 1 \in 0..n /\ i - 1 < n /\ i - 1 < i /\ (i - 1) + 1 = i
    OBVIOUS
<1>3. i - 1 \in T
    BY <1>1, <1>2
<1>4. i \in T
    BY <1>2, <1>3
<1>5. QED  BY <1>4

LEMMA GrowUp ==
    ASSUME NEW S, IsFiniteSet(S), NEW T,
           \A s \in SUBSET S :
                (\A u \in SUBSET S : Cardinality(u) < Cardinality(s) => u \in T) => s \in T
    PROVE  \A s \in SUBSET S : s \in T
<1> DEFINE Bad == {s \in SUBSET S : s \notin T}
<1> SUFFICES ASSUME Bad # {}  PROVE FALSE
    OBVIOUS
<1>1. PICK s \in Bad : \A u \in Bad : ~ (Cardinality(u) < Cardinality(s))
    BY SmallestSet
<1>2. s \in T
    BY <1>1
<1>3. QED  BY <1>2

-----------------------------------------------------------------------------
(* Folds.  MapThenFoldSet takes the elements of a set away one by one, in an
   order that pick stands for here. *)

FoldsBy(fold, S, base, step, pick) ==
    \A s \in SUBSET S :
        fold[s] = IF s = {} THEN base ELSE step[pick[s]][fold[s \ {pick[s]}]]

LEMMA FoldExists ==
    ASSUME NEW S, IsFiniteSet(S), NEW V, NEW base \in V,
           NEW step \in [S -> [V -> V]],
           NEW pick, \A s \in SUBSET S : s # {} => pick[s] \in s
    PROVE  \E fold \in [SUBSET S -> V] : FoldsBy(fold, S, base, step, pick)
<1> DEFINE Small(n) == {s \in SUBSET S : Cardinality(s) <= n}
           Folded(g, s) == IF s = {} THEN base ELSE step[pick[s]][g[s \ {pick[s]}]]
           Solved(n) == \E g \in [Small(n) -> V] : \A s \in Small(n) : g[s] = Folded(g, s)
           T == {n \in Nat : Solved(n)}
<1>1. PICK size \in Nat : size = Cardinality(S)
    BY FS_CardinalityType
<1>2. \A s \in SUBSET S : Cardinality(s) \in Nat
    BY FS_Subset, FS_CardinalityType
<1>3. 0 \in T
    <2>1. \A s \in Small(0) : s = {}
        <3> SUFFICES ASSUME NEW s \in Small(0)  PROVE s = {}
            OBVIOUS
        <3>1. IsFiniteSet(s) /\ Cardinality(s) = 0
            BY <1>2, FS_Subset
        <3>2. QED  BY <3>1, FS_EmptySet
    <2> DEFINE g == [s \in Small(0) |-> base]
    <2>2. g \in [Small(0) -> V] /\ \A s \in Small(0) : g[s] = Folded(g, s)
        BY <2>1
    <2>3. QED  BY <2>2
<1>4. ASSUME NEW n \in 0..size, n \in T, n < size
      PROVE  n + 1 \in T
    <2>1. PICK g \in [Small(n) -> V] : \A s \in Small(n) : g[s] = Folded(g, s)
        BY <1>4
    <2>2. ASSUME NEW s \in Small(n + 1), s # {}
          PROVE  pick[s] \in S /\ s \ {pick[s]} \in Small(n)
        <3>1. IsFiniteSet(s) /\ pick[s] \in s
            BY <2>2, FS_Subset
        <3>2. PICK k \in Nat : k + 1 = Cardinality(s) /\ Cardinality(s \ {pick[s]}) = k
            BY <3>1, OneLess
        <3>3. QED  BY <3>1, <3>2
    <2>3. Small(n) \subseteq Small(n + 1)
        BY <1>2
    <2> DEFINE h == [s \in Small(n + 1) |-> Folded(g, s)]
    <2>4. \A s \in Small(n + 1) : Folded(g, s) \in V
        <3> SUFFICES ASSUME NEW s \in Small(n + 1)  PROVE Folded(g, s) \in V
            OBVIOUS
        <3>1. CASE s = {}
            BY <3>1
        <3>2. CASE s # {}
            <4>1. pick[s] \in S /\ g[s \ {pick[s]}] \in V
                BY <2>2, <3>2
            <4>2. step[pick[s]] \in [V -> V]
                BY <4>1
            <4>3. step[pick[s]][g[s \ {pick[s]}]] \in V
                BY <4>1, <4>2
            <4>4. QED  BY <3>2, <4>3
        <3>3. QED  BY <3>1, <3>2
    <2>5. \A s \in Small(n) : h[s] = g[s]
        BY <2>1, <2>3
    <2>6. \A s \in Small(n + 1) : Folded(g, s) = Folded(h, s)
        BY <2>2, <2>5
    <2>7. h \in [Small(n + 1) -> V] /\ \A s \in Small(n + 1) : h[s] = Folded(h, s)
        BY <2>4, <2>6
    <2>8. Solved(n + 1)
        BY <2>7
    <2> HIDE DEF Solved
    <2>9. QED  BY <2>8
<1>5. size \in T
    <2> HIDE DEF T
    <2>1. \A i \in 0..size : i \in T
        BY <1>3, <1>4, CountUp
    <2>2. QED  BY <2>1
<1>6. SUBSET S = Small(size)
    BY <1>1, FS_Subset
<1>7. QED  BY <1>5, <1>6 DEF FoldsBy

-----------------------------------------------------------------------------
(* Sums.  That the order in which SumFunction takes the elements does not
   matter is proved by induction on the set they are taken from. *)

Taken(s) == CHOOSE x \in s : TRUE
Summing(f, s, sum) == IF s = {} THEN 0 ELSE f[Taken(s)] + sum[s \ {Taken(s)}]

\* The recursion that SumFunction is defined by has a solution.
LEMMA SumExists ==
    ASSUME NEW S, IsFiniteSet(S), NEW f \in [S -> Nat]
    PROVE  \E sum : sum = [s \in SUBSET S |-> Summing(f, s, sum)]
<1>1. PICK step, pick : /\ step = [x \in S |-> [v \in Nat |-> f[x] + v]]
                        /\ pick = [s \in SUBSET S |-> Taken(s)]
    OBVIOUS
<1>2. /\ 0 \in Nat /\ step \in [S -> [Nat -> Nat]]
      /\ \A s \in SUBSET S : s # {} => pick[s] \in s
    BY <1>1 DEF Taken
<1>3. PICK fold \in [SUBSET S -> Nat] : FoldsBy(fold, S, 0, step, pick)
    BY <1>2, FoldExists
<1>4. \A s \in SUBSET S : fold[s] = Summing(f, s, fold)
    BY <1>1, <1>3 DEF FoldsBy, Summing, Taken
<1>5. QED  BY <1>3, <1>4

\* What SumFunction computes, without the recursion.
LEMMA SumUnfolds ==
    ASSUME NEW S, IsFiniteSet(S), NEW f \in [S -> Nat]
    PROVE  \E sum : /\ sum = [s \in SUBSET S |-> Summing(f, s, sum)]
                    /\ SumFunction(f) = sum[S]
<1> DEFINE sum == CHOOSE g : g = [s \in SUBSET S |-> Summing(f, s, g)]
<1>1. sum = [s \in SUBSET S |-> Summing(f, s, sum)]
    BY SumExists
<1>2. SumFunction(f) = sum[S]
    BY DEF SumFunction, SumFunctionOnSet, FoldFunctionOnSet, MapThenFoldSet, Summing, Taken
<1>3. QED  BY <1>1, <1>2

Summed(f, S, sum) == sum = [s \in SUBSET S |-> Summing(f, s, sum)]

SumOfMore(f, sum, s) ==
    /\ Taken(s) \in s
    /\ f[Taken(s)] \in Nat
    /\ sum[s] = f[Taken(s)] + sum[s \ {Taken(s)}]
    /\ Cardinality(s \ {Taken(s)}) < Cardinality(s)

LEMMA SumStep ==
    ASSUME NEW S, IsFiniteSet(S), NEW f \in [S -> Nat], NEW sum, Summed(f, S, sum)
    PROVE  \A s \in SUBSET S : s # {} => SumOfMore(f, sum, s)
<1> SUFFICES ASSUME NEW s \in SUBSET S, s # {}
             PROVE  SumOfMore(f, sum, s)
    OBVIOUS
<1>1. Taken(s) \in s
    BY DEF Taken
<1>2. sum[s] = f[Taken(s)] + sum[s \ {Taken(s)}]
    BY DEF Summed, Summing
<1>3. PICK k \in Nat : k + 1 = Cardinality(s) /\ Cardinality(s \ {Taken(s)}) = k
    BY <1>1, FS_Subset, OneLess
<1>4. QED  BY <1>1, <1>2, <1>3 DEF SumOfMore

\* A sum of natural numbers is one.
LEMMA SumType ==
    ASSUME NEW S, IsFiniteSet(S), NEW f \in [S -> Nat], NEW sum, Summed(f, S, sum)
    PROVE  \A s \in SUBSET S : sum[s] \in Nat
<1>0. \A s \in SUBSET S : s # {} => SumOfMore(f, sum, s)
    BY SumStep
<1> DEFINE T == {s \in SUBSET S : sum[s] \notin Nat}
<1> SUFFICES ASSUME T # {}  PROVE FALSE
    OBVIOUS
<1>1. PICK s \in T : \A u \in T : ~ (Cardinality(u) < Cardinality(s))
    BY SmallestSet
<1>2. CASE s = {}
    <2>1. sum[s] = 0
        BY <1>2 DEF Summed, Summing
    <2>2. QED  BY <1>1, <2>1
<1>3. CASE s # {}
    <2> DEFINE u == s \ {Taken(s)}
    <2>0. s \in SUBSET S
        OBVIOUS
    <2>1. /\ u \in SUBSET S /\ Cardinality(u) < Cardinality(s)
          /\ f[Taken(s)] \in Nat /\ sum[s] = f[Taken(s)] + sum[u]
        BY <1>0, <1>3, <2>0 DEF SumOfMore
    <2>2. sum[u] \in Nat
        BY <1>1, <2>1
    <2>3. QED  BY <1>1, <2>1, <2>2
<1>4. QED  BY <1>2, <1>3

\* Any element may be taken first.
LEMMA SumSplits ==
    ASSUME NEW S, IsFiniteSet(S), NEW f \in [S -> Nat], NEW sum, Summed(f, S, sum)
    PROVE  \A s \in SUBSET S : \A y \in s : sum[s] = f[y] + sum[s \ {y}]
<1>0. \A s \in SUBSET S : s # {} => SumOfMore(f, sum, s)
    BY SumStep
<1> DEFINE T == {s \in SUBSET S : \E y \in s : sum[s] # f[y] + sum[s \ {y}]}
<1> SUFFICES ASSUME T # {}  PROVE FALSE
    OBVIOUS
<1>1. PICK s \in T : \A u \in T : ~ (Cardinality(u) < Cardinality(s))
    BY SmallestSet
<1>2. PICK y \in s : sum[s] # f[y] + sum[s \ {y}]
    BY <1>1
<1> DEFINE x == Taken(s)
           u == s \ {x}
           v == s \ {y}
           w == s \ {x, y}
<1>3. /\ x \in s /\ u \in SUBSET S /\ Cardinality(u) < Cardinality(s)
      /\ f[x] \in Nat /\ sum[s] = f[x] + sum[u]
    <2>1. s \in SUBSET S /\ s # {}
        OBVIOUS
    <2>2. QED  BY <1>0, <2>1 DEF SumOfMore
<1>4. x # y
    BY <1>2, <1>3
<1>5. v \in SUBSET S /\ Cardinality(v) < Cardinality(s)
    <2>1. PICK k \in Nat : k + 1 = Cardinality(s) /\ Cardinality(v) = k
        BY FS_Subset, OneLess
    <2>2. QED  BY <2>1
<1>6. y \in u /\ u \ {y} = w /\ x \in v /\ v \ {x} = w
    BY <1>3, <1>4
<1>7. sum[u] = f[y] + sum[w]
    BY <1>1, <1>3, <1>6
<1>8. sum[v] = f[x] + sum[w]
    BY <1>1, <1>5, <1>6
<1>9. f[y] \in Nat /\ sum[w] \in Nat /\ sum[u] \in Nat /\ sum[v] \in Nat
    BY <1>3, <1>5, SumType
<1> HIDE DEF x, u, v, w
<1>10. sum[s] = f[y] + sum[v]
    BY <1>3, <1>7, <1>8, <1>9
<1>11. QED  BY <1>2, <1>10 DEF v

\* A sum depends on nothing but the values summed.
LEMMA SumAgrees ==
    ASSUME NEW S, IsFiniteSet(S), NEW f \in [S -> Nat], NEW g \in [S -> Nat],
           NEW sumF, Summed(f, S, sumF), NEW sumG, Summed(g, S, sumG),
           NEW R \in SUBSET S, \A x \in R : f[x] = g[x]
    PROVE  sumF[R] = sumG[R]
<1>0. \A s \in SUBSET S : s # {} => SumOfMore(f, sumF, s) /\ SumOfMore(g, sumG, s)
    BY SumStep
<1> DEFINE T == {s \in SUBSET S : s \subseteq R /\ sumF[s] # sumG[s]}
<1> SUFFICES ASSUME T # {}  PROVE FALSE
    OBVIOUS
<1>1. PICK s \in T : \A u \in T : ~ (Cardinality(u) < Cardinality(s))
    BY SmallestSet
<1>2. CASE s = {}
    BY <1>1, <1>2 DEF Summed, Summing
<1>3. CASE s # {}
    <2> DEFINE u == s \ {Taken(s)}
    <2>0. s \in SUBSET S /\ s \subseteq R
        OBVIOUS
    <2>1. /\ u \in SUBSET S /\ u \subseteq R /\ Cardinality(u) < Cardinality(s)
          /\ Taken(s) \in R
          /\ sumF[s] = f[Taken(s)] + sumF[u]
          /\ sumG[s] = g[Taken(s)] + sumG[u]
        BY <1>0, <1>3, <2>0 DEF SumOfMore
    <2>2. sumF[u] = sumG[u]
        BY <1>1, <2>1
    <2>3. QED  BY <1>1, <2>1, <2>2
<1>4. QED  BY <1>2, <1>3

\* The sum of a function's values: a natural number, nothing when they are all
\* nothing, and as much more as any one of them is raised by.
LEMMA SumFunctionType ==
    ASSUME NEW S, IsFiniteSet(S), NEW f \in [S -> Nat]
    PROVE  SumFunction(f) \in Nat
<1>1. PICK sum : Summed(f, S, sum) /\ SumFunction(f) = sum[S]
    BY SumUnfolds DEF Summed
<1>2. QED  BY <1>1, SumType

LEMMA SumOfNothing ==
    ASSUME NEW S, IsFiniteSet(S), NEW f \in [S -> Nat], \A x \in S : f[x] = 0
    PROVE  SumFunction(f) = 0
<1>1. PICK sum : Summed(f, S, sum) /\ SumFunction(f) = sum[S]
    BY SumUnfolds DEF Summed
<1>0. \A s \in SUBSET S : s # {} => SumOfMore(f, sum, s)
    BY <1>1, SumStep
<1> DEFINE T == {s \in SUBSET S : sum[s] # 0}
<1>2. T = {}
    <2> SUFFICES ASSUME T # {}  PROVE FALSE
        OBVIOUS
    <2>1. PICK s \in T : \A u \in T : ~ (Cardinality(u) < Cardinality(s))
        BY SmallestSet
    <2>2. s # {}
        BY <1>1, <2>1 DEF Summed, Summing
    <2> DEFINE u == s \ {Taken(s)}
    <2>3. /\ u \in SUBSET S /\ Cardinality(u) < Cardinality(s)
          /\ Taken(s) \in S /\ sum[s] = f[Taken(s)] + sum[u]
        BY <1>0, <2>1, <2>2 DEF SumOfMore
    <2>4. sum[u] = 0
        BY <2>1, <2>3
    <2>5. QED  BY <2>1, <2>3, <2>4
<1>3. QED  BY <1>1, <1>2

LEMMA SumRaised ==
    ASSUME NEW S, IsFiniteSet(S), NEW f \in [S -> Nat], NEW g \in [S -> Nat],
           NEW y \in S, NEW t \in Nat, g[y] = f[y] + t,
           \A x \in S \ {y} : g[x] = f[x]
    PROVE  SumFunction(g) = SumFunction(f) + t
<1>1. PICK sumF : Summed(f, S, sumF) /\ SumFunction(f) = sumF[S]
    BY SumUnfolds DEF Summed
<1>2. PICK sumG : Summed(g, S, sumG) /\ SumFunction(g) = sumG[S]
    BY SumUnfolds DEF Summed
<1> DEFINE R == S \ {y}
<1>3. sumF[R] = sumG[R]
    BY <1>1, <1>2, SumAgrees
<1>4. sumF[S] = f[y] + sumF[R] /\ sumG[S] = g[y] + sumG[R]
    BY <1>1, <1>2, SumSplits
<1>5. f[y] \in Nat /\ sumF[R] \in Nat
    BY <1>1, SumType
<1>6. QED  BY <1>1, <1>2, <1>3, <1>4, <1>5
=============================================================================
